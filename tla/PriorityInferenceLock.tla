------------------------- MODULE PriorityInferenceLock -------------------------
(***************************************************************************)
(* services/runtime/inference_lock.py: the lock that serialises the models *)
(* of one camera between live work (the camera's detect and OCR threads)   *)
(* and deferred work (the deferred LPR worker).                            *)
(*                                                                         *)
(* The lock is a monitor on one Condition. Each critical section of the    *)
(* monitor is one action: arriving (and entering, or starting to wait),    *)
(* waking up after a notify_all (and entering, or waiting again), and      *)
(* releasing.                                                              *)
(***************************************************************************)
EXTENDS Naturals, FiniteSets

CONSTANTS
  Live,      \* threads that take the lock as `with lock`
  Deferred,  \* threads that take it as `with lock.deferred()`
  BurstCap   \* the code counts on; only whether it is zero is ever tested

Threads == Live \cup Deferred

ASSUME LockAssumption ==
  /\ Live \cap Deferred = {}
  /\ IsFiniteSet(Live) /\ IsFiniteSet(Deferred)
  /\ BurstCap \in Nat \ {0}

VARIABLES
  active,           \* _active
  liveWaiters,      \* _live_waiters
  deferredWaiters,  \* _deferred_waiters
  liveBurst,        \* _live_burst, no further than BurstCap
  pc,               \* each thread: "out", "waiting" (in wait()), "woken", "in"
  livePassed,       \* history: live admissions a waiting deferred thread saw go by
  deferredPassed    \* history: deferred admissions a waiting live thread saw go by

vars == << active, liveWaiters, deferredWaiters, liveBurst, pc, livePassed, deferredPassed >>

Queued(S) == { t \in S : pc[t] \in {"waiting", "woken"} }

(* Definitions marked "mutant" are wrong on purpose. No action uses them:   *)
(* they stand for bugs the properties are there to notice.                 *)

(* mutants: the lock is not looked at; the other class is not looked at    *)
LiveBargesIn(dw, burst) == ~(dw > 0 /\ burst > 0)
LiveIgnoresBurst(dw, burst) == ~active
DeferredIgnoresBurst(lw, burst) == ~active

(* The conditions of the two while loops, negated.                         *)
LiveMayEnter(dw, burst) == ~active /\ ~(dw > 0 /\ burst > 0)
DeferredMayEnter(lw, burst) == ~active /\ ~(lw > 0 /\ burst = 0)

Put(t, step) == pc' = [pc EXCEPT ![t] = step]

(* Admission of a live thread; `others` are the live threads still waiting. *)
AdmitLive(t, others) ==
  /\ active' = TRUE
  /\ liveBurst' = IF liveBurst < BurstCap THEN liveBurst + 1 ELSE liveBurst
  /\ liveWaiters' = others
  /\ Put(t, "in")
  /\ livePassed' = IF deferredWaiters > 0 THEN livePassed + 1 ELSE 0
  /\ deferredPassed' = 0
  /\ UNCHANGED deferredWaiters

(* Admission of a deferred thread.                                         *)
AdmitDeferred(t, others) ==
  /\ active' = TRUE
  /\ liveBurst' = 0
  /\ deferredWaiters' = others
  /\ Put(t, "in")
  /\ deferredPassed' = IF liveWaiters > 0 THEN deferredPassed + 1 ELSE 0
  /\ livePassed' = 0
  /\ UNCHANGED liveWaiters

(* __enter__ *)
LiveArrive(t) ==
  /\ pc[t] = "out"
  /\ \/ /\ LiveMayEnter(deferredWaiters, liveBurst)
        /\ AdmitLive(t, liveWaiters)
     \/ /\ ~LiveMayEnter(deferredWaiters, liveBurst)
        /\ liveWaiters' = liveWaiters + 1
        /\ Put(t, "waiting")
        /\ deferredPassed' = IF liveWaiters = 0 THEN 0 ELSE deferredPassed
        /\ UNCHANGED << active, deferredWaiters, liveBurst, livePassed >>

LiveWake(t) ==
  /\ pc[t] = "woken"
  /\ \/ /\ LiveMayEnter(deferredWaiters, liveBurst)
        /\ AdmitLive(t, liveWaiters - 1)
     \/ /\ ~LiveMayEnter(deferredWaiters, liveBurst)
        /\ Put(t, "waiting")
        /\ UNCHANGED << active, liveWaiters, deferredWaiters, liveBurst, livePassed,
                        deferredPassed >>

(* deferred(): the first deferred thread to wait starts a new burst, before *)
(* its own while loop reads it.                                             *)
BurstSeen == IF deferredWaiters = 0 THEN 0 ELSE liveBurst

DeferredArrive(t) ==
  /\ pc[t] = "out"
  /\ \/ /\ DeferredMayEnter(liveWaiters, BurstSeen)
        /\ AdmitDeferred(t, deferredWaiters)
     \/ /\ ~DeferredMayEnter(liveWaiters, BurstSeen)
        /\ liveBurst' = BurstSeen
        /\ deferredWaiters' = deferredWaiters + 1
        /\ Put(t, "waiting")
        /\ livePassed' = IF deferredWaiters = 0 THEN 0 ELSE livePassed
        /\ UNCHANGED << active, liveWaiters, deferredPassed >>

DeferredWake(t) ==
  /\ pc[t] = "woken"
  /\ \/ /\ DeferredMayEnter(liveWaiters, liveBurst)
        /\ AdmitDeferred(t, deferredWaiters - 1)
     \/ /\ ~DeferredMayEnter(liveWaiters, liveBurst)
        /\ Put(t, "waiting")
        /\ UNCHANGED << active, liveWaiters, deferredWaiters, liveBurst, livePassed,
                        deferredPassed >>

(* mutant: notify, not notify_all *)
ReleaseNotifiesOne(t) ==
  /\ pc[t] = "in" /\ active' = FALSE
  /\ \E u \in Threads \ {t} :
       pc' = [pc EXCEPT ![t] = "out", ![u] = IF @ = "waiting" THEN "woken" ELSE @]
  /\ UNCHANGED << liveWaiters, deferredWaiters, liveBurst, livePassed, deferredPassed >>

(* _release: notify_all wakes every waiting thread, of both kinds. *)
Release(t) ==
  /\ pc[t] = "in"
  /\ active' = FALSE
  /\ pc' = [u \in Threads |-> IF u = t THEN "out"
                              ELSE IF pc[u] = "waiting" THEN "woken" ELSE pc[u]]
  /\ UNCHANGED << liveWaiters, deferredWaiters, liveBurst, livePassed, deferredPassed >>

Init ==
  /\ active = FALSE
  /\ liveWaiters = 0 /\ deferredWaiters = 0 /\ liveBurst = 0
  /\ pc = [t \in Threads |-> "out"]
  /\ livePassed = 0 /\ deferredPassed = 0

Next ==
  \/ \E t \in Live : LiveArrive(t) \/ LiveWake(t)
  \/ \E t \in Deferred : DeferredArrive(t) \/ DeferredWake(t)
  \/ \E t \in Threads : Release(t)

Spec == Init /\ [][Next]_vars

(* A woken thread gets the monitor in the end, and inference terminates.   *)
(* No thread is ever obliged to come (back) for the lock.                  *)
Fairness ==
  /\ \A t \in Live : WF_vars(LiveWake(t))
  /\ \A t \in Deferred : WF_vars(DeferredWake(t))
  /\ \A t \in Threads : WF_vars(Release(t))

FairSpec == Spec /\ Fairness

-----------------------------------------------------------------------------
TypeOK ==
  /\ active \in BOOLEAN
  /\ liveWaiters \in Nat /\ deferredWaiters \in Nat
  /\ liveBurst \in 0 .. BurstCap
  /\ pc \in [Threads -> {"out", "waiting", "woken", "in"}]
  /\ livePassed \in Nat /\ deferredPassed \in Nat

(* One inference at a time, and the flag says whether there is one.        *)
MutualExclusion ==
  /\ \A t, u \in Threads : pc[t] = "in" /\ pc[u] = "in" => t = u
  /\ active <=> \E t \in Threads : pc[t] = "in"

(* The two counters, kept in finally clauses across waits, are exactly the *)
(* threads that wait.                                                      *)
WaitersCounted ==
  /\ liveWaiters = Cardinality(Queued(Live))
  /\ deferredWaiters = Cardinality(Queued(Deferred))

(* A waiting deferred thread is overtaken by at most one live inference     *)
(* between two deferred ones, whatever the live backlog.                    *)
DeferredOvertakenOnce == livePassed <= 1

(* A waiting live thread is overtaken by at most one deferred inference     *)
(* between two live ones.                                                   *)
LiveOvertakenOnce == deferredPassed <= 1

(* No lost wake-up: while the lock is free, some queued thread has been     *)
(* woken and will be admitted when it looks.                                *)
NoLostWakeup ==
  ~active /\ Queued(Threads) # {} =>
    \/ \E t \in Live : pc[t] = "woken" /\ LiveMayEnter(deferredWaiters, liveBurst)
    \/ \E t \in Deferred : pc[t] = "woken" /\ DeferredMayEnter(liveWaiters, liveBurst)

(* While deferred work waits, deferred work is admitted in the end, however  *)
(* the live threads come; with one deferred worker, the configured number,  *)
(* that is itself.                                                          *)
DeferredAdmitted ==
  (\E t \in Deferred : pc[t] = "waiting") ~> (\E t \in Deferred : pc[t] = "in")
=============================================================================
