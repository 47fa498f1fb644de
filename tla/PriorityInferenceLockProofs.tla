--------------------- MODULE PriorityInferenceLockProofs ---------------------
(***************************************************************************)
(* The safety properties of PriorityInferenceLock, for any finite sets of  *)
(* live and deferred threads.                                              *)
(***************************************************************************)
EXTENDS PriorityInferenceLock, FiniteSetTheorems, TLAPS

(* A thread overtaken once has the burst on its side from then on.         *)
OvertakenInv ==
  /\ livePassed = 0 \/ (livePassed = 1 /\ liveBurst > 0)
  /\ deferredPassed = 0 \/ (deferredPassed = 1 /\ liveBurst = 0)

(* While the lock is free, a thread that still sleeps could not enter.     *)
SleepersBlocked ==
  ~active =>
    /\ \A t \in Live : pc[t] = "waiting" => ~LiveMayEnter(deferredWaiters, liveBurst)
    /\ \A t \in Deferred : pc[t] = "waiting" => ~DeferredMayEnter(liveWaiters, liveBurst)

IInv == TypeOK /\ MutualExclusion /\ WaitersCounted /\ OvertakenInv /\ SleepersBlocked

-----------------------------------------------------------------------------
(* The queued threads of a set are finitely many. *)
LEMMA QueuedFinite ==
  ASSUME NEW S, IsFiniteSet(S)
  PROVE  IsFiniteSet(Queued(S)) /\ Cardinality(Queued(S)) \in Nat
<1>1. Queued(S) \in SUBSET S
  BY DEF Queued
<1>2. IsFiniteSet(Queued(S))
  BY <1>1, FS_Subset
<1> QED
  BY <1>2, FS_CardinalityType

(* A thread that starts to wait is counted, one that is admitted is not.   *)
LEMMA QueuedJoin ==
  ASSUME NEW S, IsFiniteSet(S), NEW t \in S, S \subseteq Threads, TypeOK,
         pc[t] = "out", Put(t, "waiting")
  PROVE  Cardinality(Queued(S)') = Cardinality(Queued(S)) + 1
<1>1. Queued(S)' = Queued(S) \cup {t} /\ t \notin Queued(S)
  BY DEF Queued, Put, TypeOK
<1> QED
  BY <1>1, QueuedFinite, FS_AddElement

LEMMA QueuedLeave ==
  ASSUME NEW S, IsFiniteSet(S), NEW t \in S, S \subseteq Threads, TypeOK,
         pc[t] = "woken", Put(t, "in")
  PROVE  /\ Cardinality(Queued(S)') = Cardinality(Queued(S)) - 1
         /\ Cardinality(Queued(S)) # 0
<1>1. Queued(S)' = Queued(S) \ {t} /\ t \in Queued(S)
  BY DEF Queued, Put, TypeOK
<1>2. Cardinality(Queued(S)') = Cardinality(Queued(S)) - 1
  BY <1>1, QueuedFinite, FS_RemoveElement
<1>3. Cardinality(Queued(S)) # 0
  BY <1>1, QueuedFinite, FS_EmptySet
<1> QED
  BY <1>2, <1>3

-----------------------------------------------------------------------------
LEMMA InitIInv == Init => IInv
<1> SUFFICES ASSUME Init PROVE IInv
  OBVIOUS
<1>1. TypeOK
  <2>1. BurstCap \in Nat
    BY LockAssumption DEF LockAssumption
  <2>2. 0 \in 0 .. BurstCap
    BY <2>1
  <2> QED
    BY <2>2 DEF Init, TypeOK
<1>2. MutualExclusion /\ OvertakenInv
  BY DEF Init, MutualExclusion, OvertakenInv
<1>3. SleepersBlocked
  BY DEF Init, SleepersBlocked, Threads
<1>4. Queued(Live) = {} /\ Queued(Deferred) = {}
  BY DEF Init, Queued, Threads
<1>5. WaitersCounted
  BY <1>4, FS_EmptySet DEF Init, WaitersCounted
<1> QED
  BY <1>1, <1>2, <1>3, <1>5 DEF IInv

LEMMA LiveArriveInv ==
  ASSUME IInv, NEW t \in Live, LiveArrive(t)
  PROVE  IInv'
<1> USE LockAssumption DEF LockAssumption
<1> USE DEF IInv
<1>0. t \in Threads /\ t \notin Deferred /\ Live \subseteq Threads
  BY DEF Threads
<1>q. Queued(Deferred)' = Queued(Deferred)
  BY <1>0 DEF LiveArrive, AdmitLive, Put, Queued, TypeOK, Threads
<1>1. CASE LiveMayEnter(deferredWaiters, liveBurst)
  <2>1. AdmitLive(t, liveWaiters)
    BY <1>1 DEF LiveArrive
  <2>2. TypeOK'
    BY <2>1, <1>0 DEF TypeOK, AdmitLive, Put
  <2>3. MutualExclusion'
    BY <2>1, <1>0, <1>1 DEF TypeOK, AdmitLive, Put, MutualExclusion, LiveMayEnter
  <2>4. Queued(Live)' = Queued(Live)
    BY <2>1, <1>0 DEF LiveArrive, AdmitLive, Put, Queued, TypeOK
  <2>5. WaitersCounted'
    BY <2>1, <2>4, <1>q DEF WaitersCounted, AdmitLive
  <2>6. OvertakenInv'
    BY <2>1, <1>1 DEF OvertakenInv, AdmitLive, LiveMayEnter, TypeOK
  <2>7. SleepersBlocked'
    BY <2>1 DEF SleepersBlocked, AdmitLive
  <2> QED
    BY <2>2, <2>3, <2>5, <2>6, <2>7
<1>2. CASE ~LiveMayEnter(deferredWaiters, liveBurst)
  <2>1. /\ liveWaiters' = liveWaiters + 1
        /\ Put(t, "waiting")
        /\ deferredPassed' \in {0, deferredPassed}
        /\ UNCHANGED << active, deferredWaiters, liveBurst, livePassed >>
    BY <1>2 DEF LiveArrive
  <2>2. TypeOK'
    BY <2>1, <1>0 DEF TypeOK, Put
  <2>3. MutualExclusion'
    BY <2>1, <1>0 DEF LiveArrive, TypeOK, Put, MutualExclusion
  <2>4. WaitersCounted'
    BY <2>1, <1>0, <1>q, QueuedJoin DEF LiveArrive, WaitersCounted
  <2>5. OvertakenInv'
    BY <2>1 DEF OvertakenInv, TypeOK
  <2>6. SleepersBlocked'
    BY <2>1, <1>2, <1>0
    DEF SleepersBlocked, LiveMayEnter, DeferredMayEnter, Put, TypeOK, Threads
  <2> QED
    BY <2>2, <2>3, <2>4, <2>5, <2>6
<1> QED
  BY <1>1, <1>2

LEMMA LiveWakeInv ==
  ASSUME IInv, NEW t \in Live, LiveWake(t)
  PROVE  IInv'
<1> USE LockAssumption DEF LockAssumption
<1> USE DEF IInv
<1>0. t \in Threads /\ t \notin Deferred /\ Live \subseteq Threads
  BY DEF Threads
<1>q. Queued(Deferred)' = Queued(Deferred)
  BY <1>0 DEF LiveWake, AdmitLive, Put, Queued, TypeOK, Threads
<1>1. CASE LiveMayEnter(deferredWaiters, liveBurst)
  <2>1. AdmitLive(t, liveWaiters - 1)
    BY <1>1 DEF LiveWake
  <2>2. /\ Cardinality(Queued(Live)') = Cardinality(Queued(Live)) - 1
        /\ Cardinality(Queued(Live)) # 0
    BY <2>1, <1>0, QueuedLeave DEF LiveWake, AdmitLive
  <2>3. WaitersCounted'
    BY <2>1, <2>2, <1>q DEF WaitersCounted, AdmitLive
  <2>4. TypeOK'
    BY <2>1, <2>2, <1>0 DEF TypeOK, AdmitLive, Put, WaitersCounted
  <2>5. MutualExclusion'
    BY <2>1, <1>0, <1>1 DEF TypeOK, AdmitLive, Put, MutualExclusion, LiveMayEnter
  <2>6. OvertakenInv'
    BY <2>1, <1>1 DEF OvertakenInv, AdmitLive, LiveMayEnter, TypeOK
  <2>7. SleepersBlocked'
    BY <2>1 DEF SleepersBlocked, AdmitLive
  <2> QED
    BY <2>3, <2>4, <2>5, <2>6, <2>7
<1>2. CASE ~LiveMayEnter(deferredWaiters, liveBurst)
  <2>1. /\ Put(t, "waiting")
        /\ UNCHANGED << active, liveWaiters, deferredWaiters, liveBurst, livePassed,
                        deferredPassed >>
    BY <1>2 DEF LiveWake
  <2>2. TypeOK' /\ MutualExclusion' /\ OvertakenInv'
    BY <2>1, <1>0 DEF LiveWake, TypeOK, Put, MutualExclusion, OvertakenInv
  <2>3. Queued(Live)' = Queued(Live)
    BY <2>1, <1>0 DEF LiveWake, Put, Queued, TypeOK
  <2>4. WaitersCounted'
    BY <2>1, <2>3, <1>q DEF WaitersCounted
  <2>5. SleepersBlocked'
    BY <2>1, <1>2, <1>0
    DEF SleepersBlocked, LiveMayEnter, DeferredMayEnter, Put, TypeOK, Threads
  <2> QED
    BY <2>2, <2>4, <2>5
<1> QED
  BY <1>1, <1>2

LEMMA DeferredArriveInv ==
  ASSUME IInv, NEW t \in Deferred, DeferredArrive(t)
  PROVE  IInv'
<1> USE LockAssumption DEF LockAssumption
<1> USE DEF IInv
<1>0. t \in Threads /\ t \notin Live /\ Deferred \subseteq Threads
  BY DEF Threads
<1>q. Queued(Live)' = Queued(Live)
  BY <1>0 DEF DeferredArrive, AdmitDeferred, Put, Queued, TypeOK, Threads
<1>1. CASE DeferredMayEnter(liveWaiters, BurstSeen)
  <2>1. AdmitDeferred(t, deferredWaiters)
    BY <1>1 DEF DeferredArrive
  <2>2. TypeOK'
    BY <2>1, <1>0 DEF TypeOK, AdmitDeferred, Put
  <2>3. MutualExclusion'
    BY <2>1, <1>0, <1>1 DEF TypeOK, AdmitDeferred, Put, MutualExclusion, DeferredMayEnter
  <2>4. Queued(Deferred)' = Queued(Deferred)
    BY <2>1, <1>0 DEF DeferredArrive, AdmitDeferred, Put, Queued, TypeOK
  <2>5. WaitersCounted'
    BY <2>1, <2>4, <1>q DEF WaitersCounted, AdmitDeferred
  <2>6. OvertakenInv'
    BY <2>1, <1>1 DEF OvertakenInv, AdmitDeferred, DeferredMayEnter, BurstSeen, TypeOK
  <2>7. SleepersBlocked'
    BY <2>1 DEF SleepersBlocked, AdmitDeferred
  <2> QED
    BY <2>2, <2>3, <2>5, <2>6, <2>7
<1>2. CASE ~DeferredMayEnter(liveWaiters, BurstSeen)
  <2>1. /\ liveBurst' = BurstSeen
        /\ deferredWaiters' = deferredWaiters + 1
        /\ Put(t, "waiting")
        /\ livePassed' = IF deferredWaiters = 0 THEN 0 ELSE livePassed
        /\ UNCHANGED << active, liveWaiters, deferredPassed >>
    BY <1>2 DEF DeferredArrive
  <2>2. TypeOK'
    BY <2>1, <1>0 DEF TypeOK, Put, BurstSeen
  <2>3. MutualExclusion'
    BY <2>1, <1>0 DEF DeferredArrive, TypeOK, Put, MutualExclusion
  <2>4. WaitersCounted'
    BY <2>1, <1>0, <1>q, QueuedJoin DEF DeferredArrive, WaitersCounted
  <2>5. OvertakenInv'
    BY <2>1 DEF OvertakenInv, BurstSeen, TypeOK
  <2>6. SleepersBlocked'
    BY <2>1, <1>2, <1>0
    DEF SleepersBlocked, LiveMayEnter, DeferredMayEnter, Put, TypeOK, Threads, BurstSeen
  <2> QED
    BY <2>2, <2>3, <2>4, <2>5, <2>6
<1> QED
  BY <1>1, <1>2

LEMMA DeferredWakeInv ==
  ASSUME IInv, NEW t \in Deferred, DeferredWake(t)
  PROVE  IInv'
<1> USE LockAssumption DEF LockAssumption
<1> USE DEF IInv
<1>0. t \in Threads /\ t \notin Live /\ Deferred \subseteq Threads
  BY DEF Threads
<1>q. Queued(Live)' = Queued(Live)
  BY <1>0 DEF DeferredWake, AdmitDeferred, Put, Queued, TypeOK, Threads
<1>1. CASE DeferredMayEnter(liveWaiters, liveBurst)
  <2>1. AdmitDeferred(t, deferredWaiters - 1)
    BY <1>1 DEF DeferredWake
  <2>2. /\ Cardinality(Queued(Deferred)') = Cardinality(Queued(Deferred)) - 1
        /\ Cardinality(Queued(Deferred)) # 0
    BY <2>1, <1>0, QueuedLeave DEF DeferredWake, AdmitDeferred
  <2>3. WaitersCounted'
    BY <2>1, <2>2, <1>q DEF WaitersCounted, AdmitDeferred
  <2>4. TypeOK'
    BY <2>1, <2>2, <1>0 DEF TypeOK, AdmitDeferred, Put, WaitersCounted
  <2>5. MutualExclusion'
    BY <2>1, <1>0, <1>1 DEF TypeOK, AdmitDeferred, Put, MutualExclusion, DeferredMayEnter
  <2>6. OvertakenInv'
    BY <2>1, <1>1 DEF OvertakenInv, AdmitDeferred, DeferredMayEnter, TypeOK
  <2>7. SleepersBlocked'
    BY <2>1 DEF SleepersBlocked, AdmitDeferred
  <2> QED
    BY <2>3, <2>4, <2>5, <2>6, <2>7
<1>2. CASE ~DeferredMayEnter(liveWaiters, liveBurst)
  <2>1. /\ Put(t, "waiting")
        /\ UNCHANGED << active, liveWaiters, deferredWaiters, liveBurst, livePassed,
                        deferredPassed >>
    BY <1>2 DEF DeferredWake
  <2>2. TypeOK' /\ MutualExclusion' /\ OvertakenInv'
    BY <2>1, <1>0 DEF DeferredWake, TypeOK, Put, MutualExclusion, OvertakenInv
  <2>3. Queued(Deferred)' = Queued(Deferred)
    BY <2>1, <1>0 DEF DeferredWake, Put, Queued, TypeOK
  <2>4. WaitersCounted'
    BY <2>1, <2>3, <1>q DEF WaitersCounted
  <2>5. SleepersBlocked'
    BY <2>1, <1>2, <1>0
    DEF SleepersBlocked, LiveMayEnter, DeferredMayEnter, Put, TypeOK, Threads
  <2> QED
    BY <2>2, <2>4, <2>5
<1> QED
  BY <1>1, <1>2

LEMMA ReleaseInv ==
  ASSUME IInv, NEW t \in Threads, Release(t)
  PROVE  IInv'
<1> USE LockAssumption DEF LockAssumption
<1> USE DEF IInv
<1>1. TypeOK'
  BY DEF Release, TypeOK
<1>2. MutualExclusion'
  BY DEF Release, TypeOK, MutualExclusion
<1>3. Queued(Live)' = Queued(Live) /\ Queued(Deferred)' = Queued(Deferred)
  BY DEF Release, TypeOK, Queued, Threads
<1>4. WaitersCounted'
  BY <1>3 DEF WaitersCounted, Release
<1>5. OvertakenInv'
  BY DEF OvertakenInv, Release
<1>6. SleepersBlocked'
  BY DEF SleepersBlocked, Release, TypeOK, Threads
<1> QED
  BY <1>1, <1>2, <1>4, <1>5, <1>6

LEMMA NextIInv == IInv /\ [Next]_vars => IInv'
<1> SUFFICES ASSUME IInv, [Next]_vars PROVE IInv'
  OBVIOUS
<1>1. ASSUME NEW t \in Live, LiveArrive(t) \/ LiveWake(t) PROVE IInv'
  BY <1>1, LiveArriveInv, LiveWakeInv
<1>2. ASSUME NEW t \in Deferred, DeferredArrive(t) \/ DeferredWake(t) PROVE IInv'
  BY <1>2, DeferredArriveInv, DeferredWakeInv
<1>3. ASSUME NEW t \in Threads, Release(t) PROVE IInv'
  BY <1>3, ReleaseInv
<1>4. CASE UNCHANGED vars
  BY <1>4 DEF IInv, vars, TypeOK, MutualExclusion, WaitersCounted, OvertakenInv,
     SleepersBlocked, Queued, LiveMayEnter, DeferredMayEnter
<1> QED
  BY <1>1, <1>2, <1>3, <1>4 DEF Next

(* IInv is an invariant of every behaviour of the lock. *)
LEMMA Invariance == Spec => []IInv
<1> QED
  BY InitIInv, NextIInv, PTL DEF Spec

-----------------------------------------------------------------------------
(* The variables keep their types: a counter never goes below zero.        *)
THEOREM LockTypes == Spec => []TypeOK
<1>1. IInv => TypeOK
  BY DEF IInv
<1> QED
  BY Invariance, <1>1, PTL

(* Two threads never run a model of the camera at the same time.           *)
THEOREM LockExclusive == Spec => []MutualExclusion
<1>1. IInv => MutualExclusion
  BY DEF IInv
<1> QED
  BY Invariance, <1>1, PTL

(* The counters the admission conditions read are the waiting threads.     *)
THEOREM LockCounts == Spec => []WaitersCounted
<1>1. IInv => WaitersCounted
  BY DEF IInv
<1> QED
  BY Invariance, <1>1, PTL

(* However many threads there are, a waiting deferred thread sees at most  *)
(* one live inference go by (__enter__ waits while it has had its burst).  *)
THEOREM LockAlternates == Spec => []DeferredOvertakenOnce
<1>1. IInv => DeferredOvertakenOnce
  BY DEF IInv, OvertakenInv, DeferredOvertakenOnce
<1> QED
  BY Invariance, <1>1, PTL

(* And a waiting live thread sees at most one deferred inference go by.    *)
THEOREM LiveAlternates == Spec => []LiveOvertakenOnce
<1>1. IInv => LiveOvertakenOnce
  BY DEF IInv, OvertakenInv, LiveOvertakenOnce
<1> QED
  BY Invariance, <1>1, PTL

(* A free lock with threads queued has always woken one it will admit.     *)
THEOREM LockWakes == Spec => []NoLostWakeup
<1>1. ASSUME IInv PROVE NoLostWakeup
  <2> SUFFICES ASSUME ~active, Queued(Threads) # {}
               PROVE  \/ \E t \in Live :
                           pc[t] = "woken" /\ LiveMayEnter(deferredWaiters, liveBurst)
                      \/ \E t \in Deferred :
                           pc[t] = "woken" /\ DeferredMayEnter(liveWaiters, liveBurst)
    BY DEF NoLostWakeup
  <2>1. TypeOK /\ WaitersCounted /\ SleepersBlocked
    BY <1>1 DEF IInv
  <2>2. /\ liveWaiters = 0 <=> Queued(Live) = {}
        /\ deferredWaiters = 0 <=> Queued(Deferred) = {}
    BY <2>1, LockAssumption, QueuedFinite, FS_EmptySet DEF WaitersCounted
  <2>3. Queued(Live) # {} \/ Queued(Deferred) # {}
    BY DEF Queued, Threads
  <2>4. CASE LiveMayEnter(deferredWaiters, liveBurst) /\ Queued(Live) # {}
    BY <2>4, <2>1 DEF SleepersBlocked, Queued
  <2>5. CASE ~(LiveMayEnter(deferredWaiters, liveBurst) /\ Queued(Live) # {})
    <3>1. DeferredMayEnter(liveWaiters, liveBurst) /\ Queued(Deferred) # {}
      BY <2>5, <2>1, <2>2, <2>3 DEF LiveMayEnter, DeferredMayEnter, TypeOK
    <3> QED
      BY <3>1, <2>1 DEF SleepersBlocked, Queued
  <2> QED
    BY <2>4, <2>5
<1> QED
  BY Invariance, <1>1, PTL
=============================================================================
