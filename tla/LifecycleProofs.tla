---------------------------- MODULE LifecycleProofs ----------------------------
(***************************************************************************)
(* What SessionLifecycle says of loaded sessions, for any weights,         *)
(* thresholds and waits: a load is not lost, it is captured, and a loaded  *)
(* cycle of the scale has one session.  The last one rests on what the     *)
(* detector computes: lemmas about ranks in a window of readings come      *)
(* first, then the detector, then the waits, then the actions.             *)
(***************************************************************************)
EXTENDS SessionLifecycle, WellFoundedInduction, FiniteSetTheorems, SequenceTheorems, TLAPS

PlateReasons == {"both_plate_tracks_lost", "plate_without_weight_timeout"}
ScaleReasons == {"scale_empty", "weight_drop_confirmed", "scale_reader_stalled", "shutdown"}

(* An ending that failed is kept with its reason, and only one with an open  *)
(* spool can fail: the reason is none of a plate.                            *)
FailedEndings == snapshot # Unset => snapshot \in ScaleReasons

IInv == LoadIsNotLost /\ FramesWhileLoaded /\ FailedEndings

-----------------------------------------------------------------------------
LEMMA InitIInv == Init => IInv
BY DEF Init, IInv, LoadIsNotLost, FramesWhileLoaded, FailedEndings

(* A reason of the scale stays one, whatever ending failed before.           *)
LEMMA ReasonsOfScale ==
  ASSUME FailedEndings, NEW reason \in ScaleReasons
  PROVE  EndReason(reason) \in ScaleReasons
BY DEF EndReason, FailedEndings

LEMMA EndingOfScale ==
  ASSUME IInv, NEW reason \in ScaleReasons, NEW load, Ended(reason, load)
  PROVE  IInv'
<1>1. EndReason(reason) \in ScaleReasons
  BY ReasonsOfScale DEF IInv
<1>2. ended'.reason = EndReason(reason)
  BY DEF Ended
<1>3. LoadIsNotLost'
  BY <1>1, <1>2 DEF LoadIsNotLost, ScaleReasons
<1>4. FramesWhileLoaded' /\ FailedEndings'
  BY DEF Ended, FramesWhileLoaded, FailedEndings
<1> QED
  BY <1>3, <1>4 DEF IInv

(* A session of a plate has not been loaded, and ends as that.               *)
LEMMA EndingOfPlate ==
  ASSUME IInv, owner = "plate", NEW reason \in PlateReasons, Ended(reason, laden)
  PROVE  IInv'
<1>1. laden # TRUE
  BY DEF IInv, FramesWhileLoaded
<1>2. ended'.laden = laden
  BY DEF Ended
<1>3. LoadIsNotLost'
  BY <1>1, <1>2 DEF LoadIsNotLost
<1>4. FramesWhileLoaded' /\ FailedEndings'
  BY DEF Ended, FramesWhileLoaded, FailedEndings
<1> QED
  BY <1>3, <1>4 DEF IInv

LEMMA EndingFails ==
  ASSUME IInv, NEW reason \in ScaleReasons, EndFailsAsIs(reason)
  PROVE  IInv'
<1>1. snapshot' \in ScaleReasons
  BY ReasonsOfScale DEF IInv, EndFailsAsIs, EndFails
<1> QED
  BY <1>1 DEF IInv, EndFailsAsIs, EndFails, LoadIsNotLost, FramesWhileLoaded, FailedEndings

LEMMA Unchanged == ASSUME IInv, UNCHANGED sessionVars PROVE IInv'
BY DEF IInv, sessionVars, LoadIsNotLost, FramesWhileLoaded, FailedEndings

LEMMA Admission == ASSUME IInv, AdmissionFails PROVE IInv'
BY DEF IInv, AdmissionFails, LoadIsNotLost, FramesWhileLoaded, FailedEndings

LEMMA Beginning ==
  ASSUME IInv, \/ ~ Active /\ StartedByPlate
               \/ \E peak \in Weights : StartedByScale(peak)
  PROVE  IInv'
<1>1. CASE ~ Active /\ StartedByPlate
  <2>1. (spool' <=> FALSE) /\ ~ laden'
    BY <1>1 DEF IInv, Active, StartedByPlate, FramesWhileLoaded
  <2>2. spool' = (owner' = "scale")
    BY <1>1 DEF IInv, Active, StartedByPlate, FramesWhileLoaded
  <2> QED
    BY <1>1, <2>1, <2>2
       DEF IInv, StartedByPlate, LoadIsNotLost, FramesWhileLoaded, FailedEndings
<1>2. CASE \E peak \in Weights : StartedByScale(peak)
  BY <1>2 DEF IInv, StartedByScale, LoadIsNotLost, FramesWhileLoaded, FailedEndings
<1> QED
  BY <1>1, <1>2

-----------------------------------------------------------------------------
LEMMA SessionFrameKeeps ==
  ASSUME IInv, NEW w \in Weights, SessionFrame(w) PROVE IInv'
<1>1. LoadIsNotLost' /\ FailedEndings'
  BY DEF SessionFrame, IInv, LoadIsNotLost, FailedEndings
<1>2. FramesWhileLoaded'
  <2>1. spool' = (owner' = "scale")
    BY DEF SessionFrame
  <2>2. laden' = (laden \/ Loaded(w)) /\ owner' = Held(w)
    BY DEF SessionFrame
  <2>3. laden' => owner' = "scale"
    BY <2>2 DEF Held, IInv, FramesWhileLoaded
  <2> QED
    BY <2>1, <2>3 DEF FramesWhileLoaded
<1> QED
  BY <1>1, <1>2 DEF IInv

LEMMA DepartureKeeps ==
  ASSUME IInv, NEW w \in Weights, DepartureFrame(w) PROVE IInv'
<1>1. CASE Ended("weight_drop_confirmed", laden \/ Loaded(w))
  BY <1>1, EndingOfScale DEF ScaleReasons
<1>2. CASE /\ EndFails("weight_drop_confirmed")
           /\ owner' = "scale" /\ spool' = TRUE
  <2>1. snapshot' \in ScaleReasons
    BY <1>2, ReasonsOfScale DEF EndFails, IInv, ScaleReasons
  <2> QED
    BY <1>2, <2>1 DEF IInv, EndFails, LoadIsNotLost, FramesWhileLoaded, FailedEndings
<1> QED
  BY <1>1, <1>2 DEF DepartureFrame

LEMMA FrameKeeps == ASSUME IInv, NEW w \in Weights, OnFrame(w) PROVE IInv'
<1>1. CASE IgnoredFrame(w) \/ BlockedFrame(w) \/ UnblockingFrame(w) \/ WaitingFrame(w) \/ IdleFrame(w)
  BY <1>1, Unchanged DEF IgnoredFrame, BlockedFrame, UnblockingFrame, WaitingFrame, IdleFrame
<1>2. CASE ReentryFrame(w)
  BY <1>2, Unchanged, Admission, Beginning DEF ReentryFrame
<1>3. CASE RisingFrame(w)
  BY <1>3, Admission, Beginning DEF RisingFrame
<1>4. CASE PlateLostFrame(w)
  BY <1>4, EndingOfPlate DEF PlateLostFrame, CompletePlateLoss, PlateReasons
<1>5. CASE TimeoutFrame(w)
  BY <1>5, EndingOfPlate DEF TimeoutFrame, PlateReasons
<1>6. CASE PromotionFails(w)
  BY <1>6, Admission DEF PromotionFails
<1>7. CASE SessionFrame(w)
  BY <1>7, SessionFrameKeeps
<1>8. CASE EmptyFrame(w)
  BY <1>8, EndingOfScale, EndingFails DEF EmptyFrame, ScaleReasons
<1>9. CASE DepartureFrame(w)
  BY <1>9, DepartureKeeps
<1> QED
  BY <1>1, <1>2, <1>3, <1>4, <1>5, <1>6, <1>7, <1>8, <1>9 DEF OnFrame

LEMMA RestartKeeps == ASSUME IInv, Restart PROVE IInv'
<1>1. FramesWhileLoaded' /\ FailedEndings'
  BY DEF Restart, FramesWhileLoaded, FailedEndings
<1>2. LoadIsNotLost'
  <2>1. CASE UNCHANGED ended
    BY <2>1 DEF IInv, LoadIsNotLost
  <2>2. CASE Shutdown
    <3>1. ended'.reason = EndReason("shutdown") /\ EndReason("shutdown") \in ScaleReasons
      BY <2>2, ReasonsOfScale DEF Shutdown, IInv, ScaleReasons
    <3> QED
      BY <3>1 DEF LoadIsNotLost, ScaleReasons
  <2> QED
    BY <2>1, <2>2 DEF Restart
<1> QED
  BY <1>1, <1>2 DEF IInv

LEMMA Invariance == Spec => []IInv
<1>1. IInv /\ [Next]_vars => IInv'
  <2> SUFFICES ASSUME IInv, [Next]_vars PROVE IInv'
    OBVIOUS
  <2>1. CASE \E w \in Weights : OnFrame(w)
    BY <2>1, FrameKeeps
  <2>2. CASE PlateSeen
    BY <2>2, Beginning, Unchanged DEF PlateSeen
  <2>3. CASE PlateGone \/ Tick
    BY <2>3, Unchanged DEF PlateGone, Tick
  <2>4. CASE Stall
    BY <2>4, Unchanged, EndingOfScale, EndingFails DEF Stall, ScaleReasons
  <2>5. CASE Restart
    BY <2>5, RestartKeeps
  <2>6. CASE UNCHANGED vars
    BY <2>6, Unchanged DEF vars
  <2> QED
    BY <2>1, <2>2, <2>3, <2>4, <2>5, <2>6 DEF Next
<1> QED
  BY InitIInv, <1>1, PTL DEF Spec

(* A session that saw a loaded frame is never ended as one of a plate        *)
(* without weight: on_frame promotes it before it looks for the plate.       *)
THEOREM LoadsAreKept == Spec => []LoadIsNotLost
<1>1. IInv => LoadIsNotLost
  BY DEF IInv
<1> QED
  BY Invariance, <1>1, PTL

(* The spool is open exactly while the scale owns the session, and a session *)
(* is loaded only with its spool open.                                       *)
THEOREM LoadedIsCaptured == Spec => []FramesWhileLoaded
<1>1. IInv => FramesWhileLoaded
  BY DEF IInv
<1> QED
  BY Invariance, <1>1, PTL

-----------------------------------------------------------------------------
(* How many readings of a window are below a value, and what that says of    *)
(* its median.                                                               *)
Below(q, x) == Cardinality({ i \in DOMAIN q : q[i] < x })

LEMMA LeastNatural ==
  ASSUME NEW T \in SUBSET Nat, T # {}
  PROVE  \E b \in T : \A t \in T : b <= t
<1> DEFINE R == OpToRel(<, Nat)
<1>1. IsWellFoundedOn(R, Nat)
  BY NatLessThanWellFounded
<1> HIDE DEF R
<1>2. PICK b \in T : \A t \in T : << t, b >> \notin R
  BY <1>1, WFMin
<1>3. \A t \in T : ~(t < b)
  BY <1>2 DEF R, OpToRel
<1> QED
  BY <1>3

LEMMA PlacesAreFinite ==
  ASSUME NEW n \in Nat, NEW I \in SUBSET (1 .. n)
  PROVE  IsFiniteSet(I) /\ Cardinality(I) \in 0 .. n
<1>1. IsFiniteSet(1 .. n) /\ Cardinality(1 .. n) = n
  BY FS_Interval
<1>2. IsFiniteSet(I) /\ Cardinality(I) <= Cardinality(1 .. n)
  BY <1>1, FS_Subset
<1>3. Cardinality(I) \in Nat
  BY <1>2, FS_CardinalityType
<1> QED
  BY <1>1, <1>2, <1>3

LEMMA FewerPlaces ==
  ASSUME NEW n \in Nat, NEW J \in SUBSET (1 .. n), NEW I \in SUBSET J
  PROVE  Cardinality(I) <= Cardinality(J)
<1>1. IsFiniteSet(J)
  BY PlacesAreFinite
<1> QED
  BY <1>1, FS_Subset

(* The readings of a window are bounded.                                     *)
LEMMA WindowsAreBounded ==
  ASSUME NEW q \in Seq(Nat)
  PROVE  \E b \in Nat : \A i \in 1 .. Len(q) : q[i] <= b
<1> DEFINE n == Len(q)
           Bound(m, b) == \A i \in 1 .. m : q[i] <= b
           T == { m \in 0 .. n : ~ \E b \in Nat : Bound(m, b) }
<1>1. n \in Nat /\ \A i \in 1 .. n : q[i] \in Nat
  OBVIOUS
<1> HIDE DEF n
<1>2. T = {}
  <2> SUFFICES ASSUME T # {} PROVE FALSE
    OBVIOUS
  <2>1. T \in SUBSET Nat
    BY <1>1
  <2>2. PICK m \in T : \A t \in T : m <= t
    BY <2>1, LeastNatural
  <2>3. CASE m = 0
    <3>1. Bound(m, 0)
      BY <2>3
    <3> QED
      BY <2>2, <3>1
  <2>4. CASE m # 0
    <3>1. m \in 1 .. n /\ m - 1 \in 0 .. n /\ ~(m <= m - 1)
      BY <1>1, <2>2, <2>4
    <3>2. m - 1 \notin T
      <4> HIDE DEF T
      <4> QED
        BY <2>2, <3>1
    <3>3. PICK b \in Nat : \A i \in 1 .. m - 1 : q[i] <= b
      BY <3>1, <3>2
    <3>4. PICK c \in Nat : b <= c /\ q[m] <= c
      <4>1. q[m] \in Nat /\ b \in Nat
        BY <1>1, <3>1
      <4> HIDE DEF T
      <4>2. b + q[m] \in Nat /\ b <= b + q[m] /\ q[m] <= b + q[m]
        BY <4>1
      <4> QED
        BY <4>2
    <3>5. ASSUME NEW i \in 1 .. m PROVE q[i] <= c
      <4> HIDE DEF T
      <4>1. CASE i = m
        BY <3>4, <4>1
      <4>2. CASE i \in 1 .. m - 1
        <5>1. q[i] \in Nat /\ q[i] <= b
          BY <1>1, <3>1, <3>3, <4>2
        <5> QED
          BY <3>4, <5>1
      <4> QED
        BY <3>1, <4>1, <4>2
    <3>6. m \notin T
      BY <3>5
    <3> QED
      BY <2>2, <3>6
  <2> QED
    BY <2>3, <2>4
<1>3. n \in 0 .. n
  BY <1>1
<1> QED
  BY <1>2, <1>3 DEF n

(* The reading of rank k, of which statistics.median takes one or two.       *)
LEMMA RankIsTaken ==
  ASSUME NEW q \in Seq(Nat), NEW k \in 1 .. Len(q)
  PROVE  LET v == Ranked(q, k) IN
           /\ v \in Nat /\ \E i \in DOMAIN q : v = q[i]
           /\ Below(q, v) < k
           /\ Cardinality({ i \in DOMAIN q : q[i] <= v }) >= k
<1> DEFINE n == Len(q)
           U(x) == { i \in 1 .. n : q[i] <= x }
           L(x) == { i \in 1 .. n : q[i] < x }
           T == { x \in Nat : Cardinality(U(x)) >= k }
<1>1. n \in Nat /\ DOMAIN q = 1 .. n /\ (\A i \in 1 .. n : q[i] \in Nat) /\ k \in 1 .. n
  OBVIOUS
<1> HIDE DEF n
<1>2. \A x \in Nat : Cardinality(U(x)) \in Nat /\ Cardinality(L(x)) \in Nat
  <2> SUFFICES ASSUME NEW x \in Nat
               PROVE  Cardinality(U(x)) \in Nat /\ Cardinality(L(x)) \in Nat
    OBVIOUS
  <2>1. U(x) \in SUBSET (1 .. n) /\ L(x) \in SUBSET (1 .. n)
    OBVIOUS
  <2> HIDE DEF U, L
  <2> QED
    BY <1>1, <2>1, PlacesAreFinite
<1>3. T # {}
  <2>1. PICK b \in Nat : \A i \in 1 .. n : q[i] <= b
    BY WindowsAreBounded DEF n
  <2>2. U(b) = 1 .. n
    BY <2>1
  <2>3. Cardinality(1 .. n) = n
    BY <1>1, FS_Interval
  <2>4. Cardinality(U(b)) >= k
    <3> HIDE DEF U
    <3> QED
      BY <1>1, <2>2, <2>3
  <2> QED
    BY <2>4
<1>4. PICK v \in T : \A t \in T : v <= t
  BY <1>3, LeastNatural
<1>5. Cardinality(L(v)) < k
  <2>1. CASE v = 0
    <3>1. L(v) = {}
      BY <1>1, <2>1
    <3> HIDE DEF L
    <3> QED
      BY <1>1, <3>1, FS_EmptySet
  <2>2. CASE v # 0
    <3>1. v - 1 \in Nat /\ ~(v <= v - 1)
      BY <1>4, <2>2
    <3>2. v - 1 \notin T
      BY <1>4, <3>1
    <3>3. L(v) = U(v - 1)
      BY <1>1, <1>4, <3>1
    <3>4. ~(Cardinality(U(v - 1)) >= k) /\ Cardinality(U(v - 1)) \in Nat
      BY <1>2, <3>1, <3>2
    <3> HIDE DEF L, U
    <3> QED
      BY <1>1, <3>3, <3>4
  <2> QED
    BY <2>1, <2>2
<1>6. \E i \in 1 .. n : v = q[i]
  <2> SUFFICES ASSUME \A i \in 1 .. n : v # q[i] PROVE FALSE
    OBVIOUS
  <2>1. U(v) = L(v)
    BY <1>1, <1>4
  <2>2. Cardinality(U(v)) >= k /\ Cardinality(L(v)) \in Nat
    BY <1>2, <1>4
  <2> HIDE DEF U, L
  <2> QED
    BY <1>1, <1>5, <2>1, <2>2
<1>7. /\ v \in { q[i] : i \in DOMAIN q }
      /\ Cardinality({ i \in DOMAIN q : q[i] < v }) < k
      /\ Cardinality({ i \in DOMAIN q : q[i] <= v }) >= k
  BY <1>1, <1>4, <1>5, <1>6
<1>8. LET r == Ranked(q, k) IN
        /\ r \in { q[i] : i \in DOMAIN q }
        /\ Cardinality({ i \in DOMAIN q : q[i] < r }) < k
        /\ Cardinality({ i \in DOMAIN q : q[i] <= r }) >= k
  BY <1>7 DEF Ranked
<1> QED
  BY <1>1, <1>8 DEF Below

LEMMA BelowCounts ==
  ASSUME NEW q \in Seq(Nat), NEW x \in Nat
  PROVE  Below(q, x) \in 0 .. Len(q)
<1>1. Len(q) \in Nat /\ { i \in DOMAIN q : q[i] < x } \in SUBSET (1 .. Len(q))
  OBVIOUS
<1> QED
  BY <1>1, PlacesAreFinite DEF Below

(* A rank among the readings below x is itself below x.                      *)
LEMMA RankIsBelow ==
  ASSUME NEW q \in Seq(Nat), NEW k \in 1 .. Len(q), NEW x \in Nat, Below(q, x) >= k
  PROVE  Ranked(q, k) < x
<1> DEFINE v == Ranked(q, k)
           L(y) == { i \in DOMAIN q : q[i] < y }
<1>1. v \in Nat /\ Below(q, v) < k
  BY RankIsTaken
<1> HIDE DEF v
<1>2. SUFFICES ASSUME x <= v PROVE FALSE
  BY <1>1 DEF v
<1>3. L(v) \in SUBSET (1 .. Len(q)) /\ L(x) \in SUBSET L(v) /\ Len(q) \in Nat
  BY <1>1, <1>2
<1>4. Cardinality(L(x)) <= Cardinality(L(v))
  <2> HIDE DEF L
  <2> QED
    BY <1>3, FewerPlaces
<1>5. Below(q, x) <= Below(q, v)
  BY <1>4 DEF Below
<1>6. Below(q, x) \in Nat /\ Below(q, v) \in Nat /\ k \in Nat
  BY <1>1, BelowCounts
<1> QED
  BY <1>1, <1>5, <1>6

(* As many readings as its rank are below what is greater than the reading.  *)
LEMMA BelowTheRank ==
  ASSUME NEW q \in Seq(Nat), NEW k \in 1 .. Len(q), NEW r \in Nat \ {0}
  PROVE  Below(q, Ranked(q, k) + r) >= k
<1> DEFINE v == Ranked(q, k)
           U == { i \in DOMAIN q : q[i] <= v }
           L == { i \in DOMAIN q : q[i] < v + r }
<1>1. v \in Nat /\ Cardinality(U) >= k
  BY RankIsTaken
<1> HIDE DEF v
<1>2. L \in SUBSET (1 .. Len(q)) /\ U \in SUBSET L /\ Len(q) \in Nat
  BY <1>1
<1>3. Cardinality(U) <= Cardinality(L) /\ Cardinality(U) \in Nat /\ Cardinality(L) \in Nat
  <2>1. U \in SUBSET (1 .. Len(q))
    BY <1>2
  <2> HIDE DEF U, L
  <2>2. Cardinality(U) <= Cardinality(L)
    BY <1>2, FewerPlaces
  <2>3. Cardinality(U) \in 0 .. Len(q) /\ Cardinality(L) \in 0 .. Len(q)
    BY <1>2, <2>1, PlacesAreFinite
  <2> QED
    BY <2>2, <2>3
<1>4. Below(q, v + r) = Cardinality(L)
  BY DEF Below
<1> HIDE DEF U, L
<1> QED
  BY <1>1, <1>3, <1>4 DEF v

(* The window that slides or grows.                                          *)
LEMMA PushedIsWindow ==
  ASSUME NEW S, NEW q \in Seq(S), NEW w \in S
  PROVE  /\ Pushed(q, w) \in Seq(S)
         /\ Len(q) < FilterFrames =>
              /\ Len(Pushed(q, w)) = Len(q) + 1
              /\ \A i \in 1 .. Len(q) : Pushed(q, w)[i] = q[i]
         /\ ~(Len(q) < FilterFrames) =>
              /\ Len(Pushed(q, w)) = Len(q) /\ Len(q) > 0
              /\ \A i \in 1 .. Len(q) - 1 : Pushed(q, w)[i] = q[i + 1]
         /\ Pushed(q, w)[Len(Pushed(q, w))] = w /\ Len(Pushed(q, w)) > 0
<1>1. FilterFrames \in Nat \ {0}
  BY MotionAssumption
<1>2. Len(q) \in Nat
  OBVIOUS
<1>3. CASE Len(q) < FilterFrames
  <2>1. Pushed(q, w) = Append(q, w)
    BY <1>3 DEF Pushed
  <2> QED
    BY <1>2, <1>3, <2>1, AppendProperties
<1>4. CASE ~(Len(q) < FilterFrames)
  <2>1. q # << >> /\ Len(q) > 0
    BY <1>1, <1>2, <1>4
  <2>2. /\ Tail(q) \in Seq(S) /\ Len(Tail(q)) = Len(q) - 1
        /\ \A i \in 1 .. Len(q) - 1 : Tail(q)[i] = q[i + 1]
    BY <2>1, HeadTailProperties
  <2>3. Pushed(q, w) = Append(Tail(q), w)
    BY <1>4 DEF Pushed
  <2> DEFINE t == Tail(q)
  <2>4. /\ Append(t, w) \in Seq(S) /\ Len(Append(t, w)) = Len(t) + 1
        /\ Append(t, w)[Len(t) + 1] = w
        /\ \A i \in 1 .. Len(t) : Append(t, w)[i] = t[i]
    <3>1. t \in Seq(S)
      BY <2>2
    <3> HIDE DEF t
    <3> QED
      BY <3>1, AppendProperties
  <2> HIDE DEF t
  <2>5. t \in Seq(S) /\ Len(t) = Len(q) - 1 /\ \A i \in 1 .. Len(q) - 1 : t[i] = q[i + 1]
    BY <2>2 DEF t
  <2>6. Pushed(q, w) = Append(t, w)
    BY <2>3 DEF t
  <2> QED
    BY <1>2, <1>4, <2>1, <2>4, <2>5, <2>6
<1> QED
  BY <1>3, <1>4

(* A reading below x that enters the window makes up for the one it drives   *)
(* out, and adds one to a window that grows.                                 *)
LEMMA PushedBelow ==
  ASSUME NEW q \in Seq(Nat), NEW w \in Nat, NEW x \in Nat, w < x
  PROVE  Below(Pushed(q, w), x) >= Below(q, x) + (Len(Pushed(q, w)) - Len(q))
<1> DEFINE p == Pushed(q, w)
           B == { i \in DOMAIN q : q[i] < x }
           C == { i \in DOMAIN p : p[i] < x }
<1> HIDE DEF B, C
<1>0. /\ p \in Seq(Nat)
      /\ Len(q) < FilterFrames =>
           /\ Len(p) = Len(q) + 1
           /\ \A i \in 1 .. Len(q) : p[i] = q[i]
      /\ ~(Len(q) < FilterFrames) =>
           /\ Len(p) = Len(q) /\ Len(q) > 0
           /\ \A i \in 1 .. Len(q) - 1 : p[i] = q[i + 1]
      /\ p[Len(p)] = w /\ Len(p) > 0
  BY PushedIsWindow
<1> HIDE DEF p
<1>1. /\ Len(p) \in Nat /\ Len(q) \in Nat /\ Len(p) > 0
      /\ DOMAIN p = 1 .. Len(p) /\ DOMAIN q = 1 .. Len(q) /\ p[Len(p)] = w
  BY <1>0
<1>2. \/ Len(p) = Len(q) + 1 /\ \A i \in 1 .. Len(q) : p[i] = q[i]
      \/ Len(p) = Len(q) /\ \A i \in 1 .. Len(q) - 1 : p[i] = q[i + 1]
  BY <1>0
<1>3. Below(p, x) = Cardinality(C) /\ Below(q, x) = Cardinality(B)
  BY DEF Below, B, C, p
<1>4. /\ B \in SUBSET (1 .. Len(q)) /\ C \in SUBSET (1 .. Len(p)) /\ Len(p) \in C
      /\ \A i \in B : q[i] < x
  BY <1>1 DEF B, C
<1>5. /\ IsFiniteSet(B) /\ IsFiniteSet(C)
      /\ Cardinality(B) \in Nat /\ Cardinality(C) \in Nat
  BY <1>1, <1>4, PlacesAreFinite
<1>6. CASE Len(p) = Len(q) + 1 /\ \A i \in 1 .. Len(q) : p[i] = q[i]
  <2>1. B \cup {Len(p)} \in SUBSET C /\ Len(p) \notin B
    BY <1>1, <1>4, <1>6 DEF B, C
  <2>2. Cardinality(B \cup {Len(p)}) = Cardinality(B) + 1
    BY <1>5, <2>1, FS_AddElement
  <2>3. Cardinality(B \cup {Len(p)}) <= Cardinality(C)
    BY <1>5, <2>1, FS_Subset
  <2> QED
    BY <1>1, <1>3, <1>5, <1>6, <2>2, <2>3 DEF p
<1>7. CASE Len(p) = Len(q) /\ \A i \in 1 .. Len(q) - 1 : p[i] = q[i + 1]
  <2> DEFINE f == [i \in B |-> IF i = 1 THEN Len(p) ELSE i - 1]
  <2>1. \A i \in B : f[i] \in C
    <3> SUFFICES ASSUME NEW i \in B PROVE f[i] \in C
      OBVIOUS
    <3>1. CASE i = 1
      BY <1>4, <3>1
    <3>2. CASE i # 1
      <4>1. i - 1 \in 1 .. Len(q) - 1 /\ i - 1 \in 1 .. Len(p) /\ (i - 1) + 1 = i
        BY <1>1, <1>4, <1>7, <3>2
      <4>2. p[i - 1] = q[i]
        BY <1>7, <4>1
      <4>3. f[i] = i - 1
        BY <3>2
      <4> QED
        BY <1>1, <1>4, <4>1, <4>2, <4>3 DEF C
    <3> QED
      BY <3>1, <3>2
  <2>2. \A i, j \in B : f[i] = f[j] => i = j
    <3> SUFFICES ASSUME NEW i \in B, NEW j \in B, f[i] = f[j] PROVE i = j
      OBVIOUS
    <3>1. i \in 1 .. Len(p) /\ j \in 1 .. Len(p) /\ Len(p) \in Nat
      BY <1>1, <1>4, <1>7
    <3>2. CASE i = 1 /\ j = 1
      BY <3>2
    <3>3. CASE i = 1 /\ j # 1
      <4>1. Len(p) = j - 1
        BY <3>3
      <4> QED
        BY <3>1, <4>1
    <3>4. CASE i # 1 /\ j = 1
      <4>1. i - 1 = Len(p)
        BY <3>4
      <4> QED
        BY <3>1, <4>1
    <3>5. CASE i # 1 /\ j # 1
      <4>1. i - 1 = j - 1
        BY <3>5
      <4> QED
        BY <3>1, <4>1
    <3> QED
      BY <3>2, <3>3, <3>4, <3>5
  <2>3. f \in Injection(B, C)
    <3>1. f \in [B -> C]
      BY <2>1
    <3> HIDE DEF f
    <3> QED
      BY <2>2, <3>1 DEF Injection, IsInjective
  <2>4. Cardinality(B) <= Cardinality(C)
    <3> HIDE DEF f
    <3> QED
      BY <1>5, <2>3, FS_Injection
  <2> QED
    BY <1>1, <1>3, <1>5, <1>7, <2>4 DEF p
<1> QED
  BY <1>2, <1>6, <1>7

-----------------------------------------------------------------------------
(* The median of a window, doubled, is the sum of two of its readings.       *)
LEMMA MedianIsTaken ==
  ASSUME NEW q \in Seq(Nat), Len(q) > 0
  PROVE  /\ (Len(q) + 1) \div 2 \in 1 .. Len(q) /\ (Len(q) + 2) \div 2 \in 1 .. Len(q)
         /\ Median2(q) \in Nat
<1>1. Len(q) \in Nat
  OBVIOUS
<1>2. (Len(q) + 1) \div 2 \in 1 .. Len(q) /\ (Len(q) + 2) \div 2 \in 1 .. Len(q)
  <2> DEFINE n == Len(q)
  <2>1. n \in Nat /\ n > 0
    BY <1>1
  <2> HIDE DEF n
  <2>2. (n + 1) \div 2 \in 1 .. n /\ (n + 2) \div 2 \in 1 .. n
    BY <2>1
  <2> QED
    BY <2>2 DEF n
<1>3. Ranked(q, (Len(q) + 1) \div 2) \in Nat /\ Ranked(q, (Len(q) + 2) \div 2) \in Nat
  BY <1>2, RankIsTaken
<1> QED
  BY <1>2, <1>3 DEF Median2

LEMMA WindowsOfNaturals ==
  ASSUME NEW q \in Seq(Weights), NEW w \in Weights
  PROVE  /\ Pushed(q, w) \in Seq(Weights) /\ q \in Seq(Nat) /\ w \in Nat
         /\ Pushed(q, w) \in Seq(Nat) /\ Len(Pushed(q, w)) > 0
<1>1. Weights \subseteq Nat
  BY MotionAssumption
<1>2. \A s \in Seq(Weights) : s \in Seq(Nat)
  BY <1>1, SeqMonotonic
<1>3. Pushed(q, w) \in Seq(Weights) /\ Len(Pushed(q, w)) > 0
  BY PushedIsWindow
<1> QED
  BY <1>1, <1>2, <1>3

LEMMA CleanIsDetector ==
  /\ Clean \in Detectors
  /\ \A w \in Weights : Armed(w) \in Detectors
<1>1. DropReadings \in Nat /\ DropDwell \in Nat /\ RiseDwell \in Nat
  BY MotionAssumption
<1>2. << >> \in Seq(Weights)
  BY EmptySeq
<1> DEFINE e == << >>
<1>3. e \in Seq(Weights)
  BY <1>2
<1>4. Clean = [ filter |-> e,
                reference |-> Unset, readings |-> 0, dropAge |-> 0, departed |-> FALSE,
                armed |-> Unset, trough2 |-> Unset, rising |-> FALSE, riseAge |-> 0,
                risen |-> FALSE ]
  BY DEF Clean
<1> HIDE DEF e
<1>5. Clean \in Detectors
  BY <1>1, <1>3, <1>4 DEF Detectors
<1>6. \A w \in Weights : Armed(w) \in Detectors
  BY <1>5 DEF Armed, Detectors
<1> QED
  BY <1>5, <1>6

LEMMA AgedIsDetector == ASSUME NEW m \in Detectors PROVE Aged(m) \in Detectors
<1>1. DropDwell \in Nat /\ RiseDwell \in Nat
  BY MotionAssumption
<1> DEFINE drop == IF m.readings = 0 THEN 0 ELSE Least(m.dropAge + 1, DropDwell)
           rise == IF ~m.rising THEN 0 ELSE Least(m.riseAge + 1, RiseDwell)
<1>2. drop \in 0 .. DropDwell /\ rise \in 0 .. RiseDwell
  BY <1>1 DEF Detectors, Least
<1>3. Aged(m) = [m EXCEPT !.dropAge = drop, !.riseAge = rise]
  BY DEF Aged, Detectors
<1> HIDE DEF drop, rise
<1>4. Aged(m) \in Detectors
  BY <1>2, <1>3 DEF Detectors
<1> QED
  BY <1>4

LEMMA LoadedIsDetector ==
  ASSUME NEW m \in Detectors, NEW w \in Weights, NEW r \in Weights \cup {Unset}
  PROVE  /\ ObserveLoaded(m, w, r) \in Detectors
         /\ ObserveLoaded(m, w, r).departed /\ ~m.departed
              => ObserveLoaded(m, w, r).reference \in Weights
         /\ ObserveLoaded(m, w, r).rising = m.rising
         /\ ObserveLoaded(m, w, r).riseAge = m.riseAge
         /\ ObserveLoaded(m, w, r).armed = m.armed
<1> DEFINE p == Pushed(m.filter, w)
           frozen == IF m.reference = Unset THEN r ELSE m.reference
           count == Least(m.readings + 1, DropReadings)
           seen == [m EXCEPT !.filter = p]
           drop == [seen EXCEPT !.reference = frozen, !.readings = count,
                                !.departed = count = DropReadings /\ m.dropAge = DropDwell]
           zero == 0
           over == [seen EXCEPT !.reference = Unset, !.readings = zero, !.dropAge = zero]
<1>1. DropReadings \in Nat \ {0} /\ DropDwell \in Nat
  BY MotionAssumption
<1>2. p \in Seq(Weights)
  BY WindowsOfNaturals DEF Detectors
<1> HIDE DEF p
<1>3. seen \in Detectors /\ seen.departed = m.departed
      /\ seen.rising = m.rising /\ seen.riseAge = m.riseAge /\ seen.armed = m.armed
  BY <1>2 DEF Detectors
<1> HIDE DEF seen
<1>4. frozen \in Weights \cup {Unset} /\ (r # Unset => frozen \in Weights)
  BY DEF Detectors
<1>5. count \in 0 .. DropReadings
  BY <1>1 DEF Detectors, Least
<1> HIDE DEF frozen, count
<1>6. drop \in Detectors /\ drop.reference = frozen
      /\ drop.rising = m.rising /\ drop.riseAge = m.riseAge /\ drop.armed = m.armed
  BY <1>3, <1>4, <1>5 DEF Detectors
<1>z. zero \in 0 .. DropReadings /\ zero \in 0 .. DropDwell
  BY <1>1
<1> HIDE DEF zero
<1>7. over \in Detectors /\ over.departed = m.departed
      /\ over.rising = m.rising /\ over.riseAge = m.riseAge /\ over.armed = m.armed
  BY <1>3, <1>z DEF Detectors
<1>8. \/ ObserveLoaded(m, w, r) = seen
      \/ r # Unset /\ ObserveLoaded(m, w, r) = drop
      \/ ObserveLoaded(m, w, r) = over
  BY DEF ObserveLoaded, p, frozen, count, seen, zero
<1> HIDE DEF drop, over
<1> QED
  BY <1>3, <1>4, <1>6, <1>7, <1>8

LEMMA ReentryIsDetector ==
  ASSUME NEW m \in Detectors, NEW w \in Weights
  PROVE  /\ ObserveReentry(m, w) \in Detectors
         /\ ObserveReentry(m, w).armed = m.armed
         /\ ObserveReentry(m, w).filter = Pushed(m.filter, w)
         /\ ObserveReentry(m, w).risen => m.risen \/ m.riseAge = RiseDwell
         /\ (m.rising \/ m.riseAge = 0)
              => ObserveReentry(m, w).rising \/ ObserveReentry(m, w).riseAge = 0
<1> DEFINE p == Pushed(m.filter, w)
           level2 == Median2(p)
           seen == [m EXCEPT !.filter = p]
           zero == 0
           low == [seen EXCEPT !.trough2 = level2, !.rising = FALSE, !.riseAge = zero]
           up == [seen EXCEPT !.rising = TRUE, !.risen = m.risen \/ (m.riseAge = RiseDwell)]
           flat == [seen EXCEPT !.rising = FALSE, !.riseAge = zero]
<1>1. RiseDwell \in Nat
  BY MotionAssumption
<1>2. p \in Seq(Weights) /\ p \in Seq(Nat) /\ Len(p) > 0
  BY WindowsOfNaturals DEF Detectors
<1> HIDE DEF p
<1>3. level2 \in Nat
  BY <1>2, MedianIsTaken
<1> HIDE DEF level2
<1>4. /\ seen \in Detectors /\ seen.armed = m.armed /\ seen.filter = p
      /\ seen.risen = m.risen
  BY <1>2 DEF Detectors
<1> HIDE DEF seen
<1>z. zero \in 0 .. RiseDwell
  BY <1>1
<1> HIDE DEF zero
<1>5. /\ low \in Detectors /\ low.armed = m.armed /\ low.filter = p
      /\ (low.risen => m.risen) /\ low.riseAge = zero
  BY <1>3, <1>4, <1>z DEF Detectors
<1>6. /\ up \in Detectors /\ up.armed = m.armed /\ up.filter = p
      /\ (up.risen => m.risen \/ m.riseAge = RiseDwell) /\ up.rising
  BY <1>4 DEF Detectors
<1>7. /\ flat \in Detectors /\ flat.armed = m.armed /\ flat.filter = p
      /\ (flat.risen => m.risen) /\ flat.riseAge = zero
  BY <1>4, <1>z DEF Detectors
<1>8. ObserveReentry(m, w) \in {low, up, flat}
  BY DEF ObserveReentry, p, level2, seen, zero
<1> HIDE DEF low, up, flat
<1> QED
  BY <1>5, <1>6, <1>7, <1>8 DEF p, zero

-----------------------------------------------------------------------------
(* As many readings as each of its two ranks are less than a rise above one  *)
(* of two readings that make up the lowest median, and none of these is      *)
(* below the lowest reading.                                                 *)
Settled(q, trough2, low) ==
  trough2 # Unset =>
    \E v1, v2 \in Nat :
      /\ v1 + v2 = trough2 /\ low <= v1 /\ low <= v2
      /\ Below(q, v1 + RiseMin) >= (Len(q) + 1) \div 2
      /\ Below(q, v2 + RiseMin) >= (Len(q) + 2) \div 2

LEMMA RiseIsAtLeast ==
  ASSUME NEW a \in Nat
  PROVE  Rise2(a) \in Nat /\ Rise2(a) >= 200 * RiseMin
<1>1. RiseMin \in Nat /\ RiseRatio \in Nat
  BY MotionAssumption
<1>2. RiseRatio * a \in Nat /\ 100 * RiseMin \in Nat
  BY <1>1
<1> DEFINE x == RiseRatio * a
<1> HIDE DEF x
<1>3. Greatest(100 * RiseMin, x) \in Nat /\ Greatest(100 * RiseMin, x) >= 100 * RiseMin
  BY <1>1, <1>2 DEF Greatest, x
<1> QED
  BY <1>1, <1>3 DEF Rise2, x

LEMMA SettledIsKept ==
  ASSUME NEW q \in Seq(Nat), NEW w \in Nat, NEW v \in Nat, NEW d \in {1, 2},
         w < v + RiseMin, Below(q, v + RiseMin) >= (Len(q) + d) \div 2
  PROVE  Below(Pushed(q, w), v + RiseMin) >= (Len(Pushed(q, w)) + d) \div 2
<1> DEFINE p == Pushed(q, w)
           x == v + RiseMin
<1>1. x \in Nat /\ w < x
  BY MotionAssumption
<1>2. Below(q, x) \in Nat /\ Len(q) \in Nat /\ Below(q, x) >= (Len(q) + d) \div 2
  BY <1>1, BelowCounts
<1> HIDE DEF x
<1>3. Below(p, x) >= Below(q, x) + (Len(p) - Len(q))
  BY <1>1, PushedBelow
<1>4. p \in Seq(Nat) /\ (Len(p) = Len(q) + 1 \/ Len(p) = Len(q))
  BY PushedIsWindow
<1> HIDE DEF p
<1>5. Below(p, x) \in Nat /\ Len(p) \in Nat
  <2>1. Below(p, x) \in 0 .. Len(p)
    BY <1>1, <1>4, BelowCounts
  <2>2. Len(p) \in Nat
    BY <1>4
  <2> QED
    BY <2>1, <2>2
<1> DEFINE n == Len(q)
           b == Below(q, x)
           c == Below(p, x)
<1>6. n \in Nat /\ b \in Nat /\ c \in Nat /\ b >= (n + d) \div 2 /\ c >= b + (Len(p) - n)
      /\ (Len(p) = n + 1 \/ Len(p) = n)
  BY <1>2, <1>3, <1>4, <1>5
<1> HIDE DEF n, b, c
<1>7. c >= (Len(p) + d) \div 2
  <2>1. CASE Len(p) = n
    BY <1>6, <2>1
  <2>2. CASE Len(p) = n + 1
    <3>1. (n + 1 + d) \div 2 <= (n + d) \div 2 + 1
      BY <1>6
    <3> QED
      BY <1>6, <2>2, <3>1
  <2> QED
    BY <1>6, <2>1, <2>2
<1> QED
  BY <1>7 DEF c, p, x

LEMMA LowestIsKept ==
  ASSUME NEW q \in Seq(Nat), NEW w \in Nat, NEW low \in Nat,
         \A i \in DOMAIN q : low <= q[i]
  PROVE  \A i \in DOMAIN Pushed(q, w) : Least(low, w) <= Pushed(q, w)[i]
<1> DEFINE p == Pushed(q, w)
           least == Least(low, w)
<1>1. w \in Nat /\ q \in Seq(Nat)
  OBVIOUS
<1>2. p \in Seq(Nat) /\ q \in Seq(Nat)
  BY PushedIsWindow
<1>3. least \in Nat /\ least <= low /\ least <= w
  BY DEF Least
<1>4. \A i \in DOMAIN p : least <= p[i]
  <2>1. /\ DOMAIN p = 1 .. Len(p) /\ DOMAIN q = 1 .. Len(q) /\ Len(p) \in Nat /\ Len(q) \in Nat
        /\ \A i \in 1 .. Len(q) : low <= q[i] /\ q[i] \in Nat
    BY <1>2
  <2>2. \A i \in 1 .. Len(q) : least <= q[i]
    <3> HIDE DEF least
    <3> QED
      BY <1>3, <2>1
  <2>3. /\ p[Len(p)] = w
        /\ \/ Len(p) = Len(q) + 1 /\ \A i \in 1 .. Len(q) : p[i] = q[i]
           \/ Len(p) = Len(q) /\ \A i \in 1 .. Len(q) - 1 : p[i] = q[i + 1]
    <3> HIDE DEF least
    <3>0. q \in Seq(Nat) /\ w \in Nat
      BY <1>1, <1>2
    <3>1. /\ p \in Seq(Nat)
          /\ Len(q) < FilterFrames =>
               /\ Len(p) = Len(q) + 1
               /\ \A i \in 1 .. Len(q) : p[i] = q[i]
          /\ ~(Len(q) < FilterFrames) =>
               /\ Len(p) = Len(q) /\ Len(q) > 0
               /\ \A i \in 1 .. Len(q) - 1 : p[i] = q[i + 1]
          /\ p[Len(p)] = w /\ Len(p) > 0
      BY <3>0, PushedIsWindow
    <3> HIDE DEF p
    <3> QED
      BY <3>1
  <2> HIDE DEF p, least
  <2> SUFFICES ASSUME NEW i \in 1 .. Len(p) PROVE least <= p[i]
    BY <2>1
  <2>4. CASE i = Len(p)
    BY <1>3, <2>3, <2>4
  <2>5. CASE i # Len(p) /\ Len(p) = Len(q) + 1 /\ \A j \in 1 .. Len(q) : p[j] = q[j]
    <3>1. i \in 1 .. Len(q)
      BY <2>1, <2>5
    <3> QED
      BY <2>2, <2>5, <3>1
  <2>6. CASE i # Len(p) /\ Len(p) = Len(q) /\ \A j \in 1 .. Len(q) - 1 : p[j] = q[j + 1]
    <3>1. i \in 1 .. Len(q) - 1 /\ i + 1 \in 1 .. Len(q)
      <4> DEFINE n == Len(q)
      <4>1. n \in Nat /\ i \in 1 .. n /\ i # n
        BY <2>1, <2>6
      <4> HIDE DEF n
      <4>2. i \in 1 .. n - 1 /\ i + 1 \in 1 .. n
        BY <4>1
      <4> QED
        BY <4>2 DEF n
    <3> QED
      BY <2>2, <2>6, <3>1
  <2> QED
    BY <2>3, <2>4, <2>5, <2>6
<1> QED
  BY <1>4

(* While the scale has not climbed above its lowest reading, no rise is      *)
(* pending, whatever the readings are and however many the window keeps.     *)
LEMMA NoRiseWithoutClimb ==
  ASSUME NEW m \in Detectors, NEW w \in Weights, NEW low \in Nat, m.armed \in Weights,
         ~m.rising, ~m.risen, Settled(m.filter, m.trough2, low),
         \A i \in DOMAIN m.filter : low <= m.filter[i],
         w < low + RiseMin
  PROVE  LET o == ObserveReentry(m, w)
         IN  ~o.rising /\ ~o.risen /\ Settled(o.filter, o.trough2, Least(low, w))
<1> DEFINE q == m.filter
           p == Pushed(q, w)
           k1 == (Len(p) + 1) \div 2
           k2 == (Len(p) + 2) \div 2
           level2 == Median2(p)
           least == Least(low, w)
<1>1. /\ RiseMin \in Nat \ {0} /\ w \in Nat /\ m.armed \in Nat
      /\ m.trough2 \in Nat \cup {Unset} /\ q \in Seq(Weights)
  BY MotionAssumption DEF Detectors
<1>2. p \in Seq(Nat) /\ q \in Seq(Nat) /\ Len(p) > 0
  BY <1>1, WindowsOfNaturals
<1>3. least \in Nat /\ least <= low /\ least <= w
  BY <1>1 DEF Least
<1>4. \A i \in DOMAIN p : least <= p[i]
  <2>1. \A i \in DOMAIN q : low <= q[i]
    OBVIOUS
  <2> HIDE DEF q
  <2> QED
    BY <1>1, <1>2, <2>1, LowestIsKept
<1>5. k1 \in 1 .. Len(p) /\ k2 \in 1 .. Len(p) /\ level2 \in Nat
  BY <1>2, MedianIsTaken
<1>6. /\ Ranked(p, k1) \in Nat /\ least <= Ranked(p, k1)
      /\ Ranked(p, k2) \in Nat /\ least <= Ranked(p, k2)
      /\ level2 = Ranked(p, k1) + Ranked(p, k2)
  <2>1. level2 = Ranked(p, k1) + Ranked(p, k2)
    BY DEF Median2
  <2> HIDE DEF k1, k2, p, least
  <2>2. Ranked(p, k1) \in Nat /\ \E i \in DOMAIN p : Ranked(p, k1) = p[i]
    BY <1>2, <1>5, RankIsTaken
  <2>3. Ranked(p, k2) \in Nat /\ \E i \in DOMAIN p : Ranked(p, k2) = p[i]
    BY <1>2, <1>5, RankIsTaken
  <2> QED
    BY <1>4, <2>1, <2>2, <2>3
<1> DEFINE seen == [m EXCEPT !.filter = p]
<1>7. CASE m.trough2 = Unset \/ level2 < m.trough2
  <2>1. ObserveReentry(m, w) =
          [seen EXCEPT !.trough2 = level2, !.rising = FALSE, !.riseAge = 0]
    BY <1>7 DEF ObserveReentry
  <2>2. Settled(p, level2, least)
    <3> HIDE DEF k1, k2, p, level2, least
    <3>1. Below(p, Ranked(p, k1) + RiseMin) >= k1
      BY <1>1, <1>2, <1>5, BelowTheRank
    <3>2. Below(p, Ranked(p, k2) + RiseMin) >= k2
      BY <1>1, <1>2, <1>5, BelowTheRank
    <3> QED
      BY <1>6, <3>1, <3>2 DEF Settled, k1, k2
  <2> HIDE DEF p, level2, least
  <2>3. LET o == ObserveReentry(m, w)
        IN  o.filter = p /\ o.trough2 = level2 /\ o.rising = FALSE /\ o.risen = m.risen
    BY <2>1 DEF Detectors
  <2> QED
    BY <2>2, <2>3 DEF least
<1>8. CASE ~(m.trough2 = Unset \/ level2 < m.trough2)
  <2>1. PICK v1, v2 \in Nat :
          /\ v1 + v2 = m.trough2 /\ low <= v1 /\ low <= v2
          /\ Below(q, v1 + RiseMin) >= (Len(q) + 1) \div 2
          /\ Below(q, v2 + RiseMin) >= (Len(q) + 2) \div 2
    BY <1>8 DEF Settled
  <2>2. w < v1 + RiseMin /\ w < v2 + RiseMin
    <3> HIDE DEF q
    <3> QED
      BY <1>1, <2>1
  <2>3. Below(p, v1 + RiseMin) >= k1
    <3> HIDE DEF q
    <3> QED
      BY <1>1, <1>2, <2>1, <2>2, SettledIsKept
  <2>4. Below(p, v2 + RiseMin) >= k2
    <3> HIDE DEF q
    <3> QED
      BY <1>1, <1>2, <2>1, <2>2, SettledIsKept
  <2>5. Settled(p, m.trough2, least)
    <3>1. least <= v1 /\ least <= v2
      <4> HIDE DEF least, q
      <4> QED
        BY <1>3, <2>1
    <3> HIDE DEF least, p
    <3> QED
      BY <2>1, <2>3, <2>4, <3>1 DEF Settled, k1, k2
  <2>6. level2 < m.trough2 + 2 * RiseMin
    <3> HIDE DEF k1, k2, p, q, level2, least
    <3>1. v1 + RiseMin \in Nat /\ v2 + RiseMin \in Nat
      BY <1>1
    <3>2. Ranked(p, k1) < v1 + RiseMin
      BY <1>2, <1>5, <2>3, <3>1, RankIsBelow
    <3>3. Ranked(p, k2) < v2 + RiseMin
      BY <1>2, <1>5, <2>4, <3>1, RankIsBelow
    <3> QED
      BY <1>1, <1>6, <2>1, <3>2, <3>3
  <2>7. ~(100 * level2 >= 100 * m.trough2 + Rise2(m.armed))
    <3>1. Rise2(m.armed) \in Nat /\ Rise2(m.armed) >= 200 * RiseMin
      BY <1>1, RiseIsAtLeast
    <3> HIDE DEF k1, k2, p, q, level2, least
    <3>2. m.trough2 \in Nat
      BY <2>1
    <3> QED
      BY <1>1, <1>5, <2>6, <3>1, <3>2
  <2>8. ObserveReentry(m, w) = [seen EXCEPT !.rising = FALSE, !.riseAge = 0]
    BY <1>8, <2>7 DEF ObserveReentry
  <2> HIDE DEF p, least
  <2>9. LET o == ObserveReentry(m, w)
        IN  o.filter = p /\ o.trough2 = m.trough2 /\ o.rising = FALSE /\ o.risen = m.risen
    BY <2>8 DEF Detectors
  <2> QED
    BY <2>5, <2>9 DEF least
<1> QED
  BY <1>7, <1>8

-----------------------------------------------------------------------------
(* The waits.  None is older than the quiet of the scale, where it counts.   *)
Waits == {"session", "absent", "empty", "wait", "reentry", "quiet"}
Fit(a) == /\ a \in [Waits -> Nat \cup {Unset}]
          /\ \A k \in Waits : a[k] # Unset => a[k] <= Limits[k]
Within(a, k) == a[k] # Unset => a["quiet"] # Unset /\ a[k] <= a["quiet"]
Waited(x, w) == IF Loaded(w) THEN Unset ELSE IF x = Unset THEN 0 ELSE x

LEMMA LimitsOfWaits ==
  /\ DOMAIN Limits = Waits /\ \A k \in Waits : Limits[k] \in Nat
  /\ \A k \in {"empty", "wait", "reentry", "quiet"} : k \in Waits /\ Limits[k] = EmptyDwell
  /\ EmptyDwell \in Nat /\ Unset \notin Nat
BY MotionAssumption, LifecycleAssumption DEF Limits, Waits

LEMMA OneAgeSet ==
  ASSUME NEW a, Fit(a), NEW k \in Waits, NEW x \in {Unset, 0}
  PROVE  /\ Fit([a EXCEPT ![k] = x]) /\ [a EXCEPT ![k] = x][k] = x
         /\ \A j \in Waits \ {k} : [a EXCEPT ![k] = x][j] = a[j]
<1>1. /\ a \in [Waits -> Nat \cup {Unset}] /\ x \in Nat \cup {Unset}
      /\ \A j \in Waits : Limits[j] \in Nat
  BY LimitsOfWaits DEF Fit
<1> DEFINE b == [a EXCEPT ![k] = x]
<1>2. /\ b \in [Waits -> Nat \cup {Unset}] /\ b[k] = x
      /\ \A j \in Waits \ {k} : b[j] = a[j]
  BY <1>1
<1>3. ASSUME NEW j \in Waits, b[j] # Unset PROVE b[j] <= Limits[j]
  <2> HIDE DEF b
  <2>1. CASE j = k
    BY <1>1, <1>2, <1>3, <2>1
  <2>2. CASE j # k
    <3>1. b[j] = a[j]
      BY <1>2, <2>2
    <3> QED
      BY <1>3, <3>1 DEF Fit
  <2> QED
    BY <2>1, <2>2
<1> QED
  BY <1>2, <1>3 DEF Fit

LEMMA OneWait ==
  ASSUME NEW a, Fit(a), NEW k \in Waits, NEW w \in Weights
  PROVE  /\ Fit(WaitFor(a, k, w)) /\ WaitFor(a, k, w)[k] = Waited(a[k], w)
         /\ \A j \in Waits \ {k} : WaitFor(a, k, w)[j] = a[j]
<1> DEFINE b == WaitFor(a, k, w)
<1>1. a \in [Waits -> Nat \cup {Unset}]
  BY DEF Fit
<1>2. CASE Loaded(w)
  <2>1. b = [a EXCEPT ![k] = Unset] /\ Waited(a[k], w) = Unset
    BY <1>2 DEF WaitFor, Waited
  <2>2. LET c == [a EXCEPT ![k] = Unset]
        IN  Fit(c) /\ c[k] = Unset /\ \A j \in Waits \ {k} : c[j] = a[j]
    BY OneAgeSet
  <2>3. Fit(b) /\ b[k] = Waited(a[k], w) /\ \A j \in Waits \ {k} : b[j] = a[j]
    <3> HIDE DEF b
    <3> QED
      BY <2>1, <2>2
  <2> QED
    BY <2>3
<1>3. CASE ~Loaded(w) /\ a[k] = Unset
  <2>1. b = [a EXCEPT ![k] = 0] /\ Waited(a[k], w) = 0
    BY <1>1, <1>3 DEF WaitFor, Waited
  <2>2. LET c == [a EXCEPT ![k] = 0]
        IN  Fit(c) /\ c[k] = 0 /\ \A j \in Waits \ {k} : c[j] = a[j]
    BY OneAgeSet
  <2>3. Fit(b) /\ b[k] = Waited(a[k], w) /\ \A j \in Waits \ {k} : b[j] = a[j]
    <3> HIDE DEF b
    <3> QED
      BY <2>1, <2>2
  <2> QED
    BY <2>3
<1>4. CASE ~Loaded(w) /\ a[k] # Unset
  <2>1. b = a /\ Waited(a[k], w) = a[k]
    BY <1>1, <1>4 DEF WaitFor, Waited
  <2> HIDE DEF b
  <2> QED
    BY <2>1 DEF b
<1> QED
  BY <1>2, <1>3, <1>4

LEMMA QuietAges ==
  ASSUME NEW a, Fit(a), NEW w \in Weights
  PROVE  /\ Fit(Quiet(a, w)) /\ Quiet(a, w)["quiet"] = Waited(a["quiet"], w)
         /\ \A j \in Waits \ {"quiet"} : Quiet(a, w)[j] = a[j]
<1>1. "quiet" \in Waits
  BY DEF Waits
<1> QED
  BY <1>1, OneWait DEF Quiet

LEMMA AgesWithoutSession ==
  ASSUME NEW a, Fit(a)
  PROVE  /\ Fit(WithoutSession(a)) /\ WithoutSession(a)["empty"] = Unset
         /\ \A j \in {"wait", "reentry", "quiet"} : WithoutSession(a)[j] = a[j]
<1>1. /\ "session" \in Waits /\ "absent" \in Waits /\ "empty" \in Waits
      /\ {"wait", "reentry", "quiet"} \subseteq Waits \ {"session", "absent", "empty"}
  BY DEF Waits
<1> DEFINE b == [a EXCEPT !["session"] = Unset]
           c == [b EXCEPT !["absent"] = Unset]
           d == [c EXCEPT !["empty"] = Unset]
<1>2. Fit(b) /\ \A j \in Waits \ {"session"} : b[j] = a[j]
  BY <1>1, OneAgeSet
<1> HIDE DEF b
<1>3. Fit(c) /\ \A j \in Waits \ {"absent"} : c[j] = b[j]
  BY <1>1, <1>2, OneAgeSet
<1> HIDE DEF c
<1>4. Fit(d) /\ d["empty"] = Unset /\ \A j \in Waits \ {"empty"} : d[j] = c[j]
  BY <1>1, <1>3, OneAgeSet
<1>5. WithoutSession(a) = d
  BY DEF WithoutSession, b, c
<1> HIDE DEF d
<1> QED
  BY <1>1, <1>2, <1>3, <1>4, <1>5

LEMMA WithinWaits ==
  ASSUME NEW a, Fit(a), NEW b, NEW k \in Waits, NEW w, Within(a, k),
         b[k] = Waited(a[k], w), b["quiet"] = Waited(a["quiet"], w)
  PROVE  Within(b, k)
<1>1. a["quiet"] \in Nat \cup {Unset} /\ a[k] \in Nat \cup {Unset} /\ Unset \notin Nat
  BY LimitsOfWaits DEF Fit, Waits
<1> QED
  BY <1>1 DEF Within, Waited

LEMMA QuietIsOver ==
  ASSUME Fit(ages), NEW k \in {"empty", "wait", "reentry"}, Over(k), Within(ages, k)
  PROVE  Over("quiet")
<1>1. /\ ages["quiet"] \in Nat \cup {Unset} /\ Unset \notin Nat /\ EmptyDwell \in Nat
      /\ Limits["quiet"] = EmptyDwell /\ Limits[k] = EmptyDwell
      /\ ages["quiet"] # Unset => ages["quiet"] <= EmptyDwell
  BY LimitsOfWaits DEF Fit
<1> QED
  BY <1>1 DEF Over, Within

(* The clock adds one to every age, as far as its limit. *)
LEMMA TickedAges ==
  ASSUME NEW a, Fit(a)
  PROVE  LET b == [ k \in DOMAIN a |->
                      IF a[k] = Unset THEN Unset ELSE Least(a[k] + 1, Limits[k]) ]
         IN  /\ Fit(b) /\ \A k \in Waits : a[k] = Unset => b[k] = Unset
             /\ \A k \in {"empty", "wait", "reentry"} : Within(a, k) => Within(b, k)
<1> DEFINE Older(k) == IF a[k] = Unset THEN Unset ELSE Least(a[k] + 1, Limits[k])
           b == [ k \in Waits |-> Older(k) ]
<1>1. /\ DOMAIN a = Waits /\ Unset \notin Nat /\ EmptyDwell \in Nat
      /\ \A k \in Waits : a[k] \in Nat \cup {Unset} /\ Limits[k] \in Nat
  BY LimitsOfWaits DEF Fit
<1>2. ASSUME NEW k \in Waits
      PROVE  /\ Older(k) \in Nat \cup {Unset}
             /\ Older(k) # Unset => Older(k) <= Limits[k]
  BY <1>1, <1>2 DEF Least
<1>3. \A k \in Waits : b[k] = Older(k)
  OBVIOUS
<1>4. Fit(b)
  <2>1. b \in [Waits -> Nat \cup {Unset}]
    BY <1>2
  <2> HIDE DEF b, Older
  <2> QED
    BY <1>2, <1>3, <2>1 DEF Fit
<1>5. ASSUME NEW k \in {"empty", "wait", "reentry"}, Within(a, k) PROVE Within(b, k)
  <2>1. /\ k \in Waits /\ "quiet" \in Waits
        /\ Limits[k] = EmptyDwell /\ Limits["quiet"] = EmptyDwell
    BY LimitsOfWaits, <1>5
  <2>2. b[k] = Older(k) /\ b["quiet"] = Older("quiet")
    BY <1>3, <2>1
  <2> HIDE DEF b
  <2>3. a[k] \in Nat \cup {Unset} /\ a["quiet"] \in Nat \cup {Unset}
    BY <1>1, <2>1
  <2> QED
    BY <1>1, <1>5, <2>1, <2>2, <2>3 DEF Within, Least
<1>6. \A k \in Waits : a[k] = Unset => b[k] = Unset
  BY <1>3
<1> QED
  BY <1>1, <1>4, <1>5, <1>6

-----------------------------------------------------------------------------
(* What was found of a departed cycle: the detector is armed, its window is  *)
(* not below the lowest reading, and without a climb it saw no rise.         *)
CycleRecords == [ phase : {"open", "loaded", "departed"}, low : Nat, climbed : BOOLEAN ]
DescentOf(m, c) ==
  /\ m.armed \in Weights /\ c.phase # "loaded"
  /\ c.phase = "departed" => \A i \in DOMAIN m.filter : c.low <= m.filter[i]
  /\ c.phase = "departed" /\ ~c.climbed =>
       ~m.rising /\ ~m.risen /\ Settled(m.filter, m.trough2, c.low)

CycleTypes == motion \in Detectors /\ Fit(ages) /\ cycle \in CycleRecords

(* Every wait for an empty scale ends only after the scale was quiet for as  *)
(* long: a session, a stall's and a renewed rise's.                          *)
WaitsAreQuiet ==
  /\ owner = "none" => ages["empty"] = Unset
  /\ fatal = "no" /\ blocked => Within(ages, "wait")
  /\ fatal = "no" /\ ~blocked /\ awaiting => Within(ages, "reentry")
  /\ fatal = "no" /\ owner = "scale" => Within(ages, "empty")

OneAtATime ==
  /\ owner \in {"none", "plate", "scale"}
  /\ (Active => ~awaiting) /\ (fatal = "no" /\ Active => ~blocked)
CycleIsOver == fatal = "no" /\ ~blocked /\ ~awaiting /\ owner # "scale" => cycle.phase = "open"
Descent == awaiting => DescentOf(motion, cycle)
RisingIsTimed == motion.rising \/ motion.riseAge = 0

CycleInv ==
  CycleTypes /\ WaitsAreQuiet /\ OneAtATime /\ CycleIsOver /\ Descent /\ RisingIsTimed

LEMMA CycleAfter ==
  ASSUME cycle \in CycleRecords, NEW w \in Weights
  PROVE  LET c == CycleSeen(w) IN
           /\ c \in CycleRecords
           /\ cycle.phase = "open" \/ (~Loaded(w) /\ Over("quiet")) => c.phase = "open"
           /\ c.phase = "loaded" => cycle.phase = "loaded"
           /\ c.phase = "departed" =>
                /\ cycle.phase = "departed" /\ c.low = Least(cycle.low, w)
                /\ ~c.climbed => ~cycle.climbed /\ w < cycle.low + RiseMin
<1>1. w \in Nat /\ RiseMin \in Nat
  BY MotionAssumption
<1>2. CASE ~Loaded(w) /\ Over("quiet")
  <2>1. CycleSeen(w) = OpenCycle
    BY <1>2 DEF CycleSeen
  <2> QED
    BY <1>2, <2>1 DEF OpenCycle, CycleRecords
<1>3. CASE ~(~Loaded(w) /\ Over("quiet")) /\ cycle.phase # "departed"
  <2>1. CycleSeen(w) = cycle
    BY <1>3 DEF CycleSeen
  <2> QED
    BY <1>3, <2>1
<1>4. CASE ~(~Loaded(w) /\ Over("quiet")) /\ cycle.phase = "departed"
  <2> DEFINE low == Least(cycle.low, w)
             up == cycle.climbed \/ w >= cycle.low + RiseMin
  <2>1. CycleSeen(w) = [cycle EXCEPT !.low = low, !.climbed = up]
    BY <1>4 DEF CycleSeen, CycleRecords
  <2>2. low \in Nat /\ up \in BOOLEAN
    BY <1>1 DEF CycleRecords, Least
  <2>3. ~up => ~cycle.climbed /\ w < cycle.low + RiseMin
    BY <1>1 DEF CycleRecords
  <2> HIDE DEF low, up
  <2>4. LET c == CycleSeen(w)
        IN  c \in CycleRecords /\ c.phase = "departed" /\ c.low = low /\ c.climbed = up
    BY <1>4, <2>1, <2>2 DEF CycleRecords
  <2> QED
    BY <1>4, <2>3, <2>4 DEF low
<1> QED
  BY <1>2, <1>3, <1>4

LEMMA SettledLower ==
  ASSUME NEW q, NEW t, NEW low \in Nat, NEW w \in Nat, Settled(q, t, low)
  PROVE  Settled(q, t, Least(low, w))
<1>1. Least(low, w) \in Nat /\ Least(low, w) <= low
  BY DEF Least
<1>2. \A v \in Nat : low <= v => Least(low, w) <= v
  BY <1>1
<1> QED
  BY <1>2 DEF Settled

(* A frame the detector does not see only lowers the lowest reading.         *)
LEMMA DescentUnseen ==
  ASSUME NEW m \in Detectors, cycle \in CycleRecords, NEW w \in Weights, DescentOf(m, cycle)
  PROVE  DescentOf(m, CycleSeen(w))
<1> DEFINE c == CycleSeen(w)
<1>1. /\ c.phase = "loaded" => cycle.phase = "loaded"
      /\ c.phase = "departed" =>
           /\ cycle.phase = "departed" /\ c.low = Least(cycle.low, w)
           /\ ~c.climbed => ~cycle.climbed
  BY CycleAfter
<1> HIDE DEF c
<1>2. cycle.low \in Nat /\ w \in Nat /\ m.filter \in Seq(Nat)
  <2>1. Weights \subseteq Nat /\ m.filter \in Seq(Weights)
    BY MotionAssumption DEF Detectors
  <2> QED
    BY <2>1, SeqMonotonic DEF CycleRecords
<1>3. m.armed \in Weights /\ c.phase # "loaded"
  BY <1>1 DEF DescentOf
<1>4. ASSUME c.phase = "departed" PROVE \A i \in DOMAIN m.filter : c.low <= m.filter[i]
  <2>1. \A i \in DOMAIN m.filter : cycle.low <= m.filter[i] /\ m.filter[i] \in Nat
    BY <1>1, <1>2, <1>4 DEF DescentOf
  <2>2. c.low \in Nat /\ c.low <= cycle.low
    BY <1>1, <1>2, <1>4 DEF Least
  <2> QED
    BY <1>2, <2>1, <2>2
<1>5. ASSUME c.phase = "departed", ~c.climbed
      PROVE  ~m.rising /\ ~m.risen /\ Settled(m.filter, m.trough2, c.low)
  <2>1. ~m.rising /\ ~m.risen /\ Settled(m.filter, m.trough2, cycle.low)
    BY <1>1, <1>5 DEF DescentOf
  <2>2. Settled(m.filter, m.trough2, Least(cycle.low, w))
    BY <1>2, <2>1, SettledLower
  <2> QED
    BY <1>1, <1>5, <2>1, <2>2
<1> QED
  BY <1>3, <1>4, <1>5 DEF DescentOf, c

(* A frame the detector sees.                                                *)
LEMMA DescentObserved ==
  ASSUME NEW m \in Detectors, cycle \in CycleRecords, NEW w \in Weights, DescentOf(m, cycle)
  PROVE  DescentOf(ObserveReentry(m, w), CycleSeen(w))
<1> DEFINE c == CycleSeen(w)
           o == ObserveReentry(m, w)
<1>1. /\ c.phase = "loaded" => cycle.phase = "loaded"
      /\ c.phase = "departed" =>
           /\ cycle.phase = "departed" /\ c.low = Least(cycle.low, w)
           /\ ~c.climbed => ~cycle.climbed /\ w < cycle.low + RiseMin
  BY CycleAfter
<1>2. o.armed = m.armed /\ o.filter = Pushed(m.filter, w)
  BY ReentryIsDetector
<1>3. cycle.low \in Nat /\ w \in Nat /\ m.filter \in Seq(Nat)
  <2>1. Weights \subseteq Nat /\ m.filter \in Seq(Weights)
    BY MotionAssumption DEF Detectors
  <2> QED
    BY <2>1, SeqMonotonic DEF CycleRecords
<1> HIDE DEF c, o
<1>4. o.armed \in Weights /\ c.phase # "loaded"
  BY <1>1, <1>2 DEF DescentOf
<1>5. ASSUME c.phase = "departed" PROVE \A i \in DOMAIN o.filter : c.low <= o.filter[i]
  <2> DEFINE q == m.filter
  <2>1. \A i \in DOMAIN q : cycle.low <= q[i]
    BY <1>1, <1>5 DEF DescentOf
  <2>2. q \in Seq(Nat) /\ cycle.low \in Nat
    BY <1>3
  <2> HIDE DEF q
  <2>3. \A i \in DOMAIN Pushed(q, w) : Least(cycle.low, w) <= Pushed(q, w)[i]
    BY <1>3, <2>1, <2>2, LowestIsKept
  <2> QED
    BY <1>1, <1>2, <1>5, <2>3 DEF q
<1>6. ASSUME c.phase = "departed", ~c.climbed
      PROVE  ~o.rising /\ ~o.risen /\ Settled(o.filter, o.trough2, c.low)
  <2>1. /\ m.armed \in Weights /\ ~m.rising /\ ~m.risen
        /\ Settled(m.filter, m.trough2, cycle.low)
        /\ \A i \in DOMAIN m.filter : cycle.low <= m.filter[i]
        /\ w < cycle.low + RiseMin
    BY <1>1, <1>6 DEF DescentOf
  <2>2. ~o.rising /\ ~o.risen /\ Settled(o.filter, o.trough2, Least(cycle.low, w))
    BY <1>3, <2>1, NoRiseWithoutClimb DEF o
  <2> QED
    BY <1>1, <1>6, <2>2
<1> QED
  BY <1>4, <1>5, <1>6 DEF DescentOf, c, o

LEMMA DescentAged ==
  ASSUME NEW m \in Detectors, NEW c, DescentOf(m, c)
  PROVE  DescentOf(Aged(m), c)
<1>1. /\ Aged(m).armed = m.armed /\ Aged(m).filter = m.filter /\ Aged(m).trough2 = m.trough2
      /\ Aged(m).rising = m.rising /\ Aged(m).risen = m.risen
  BY DEF Aged, Detectors
<1> QED
  BY <1>1 DEF DescentOf

LEMMA DescentBegins ==
  ASSUME NEW p \in Weights, NEW w \in Weights
  PROVE  DescentOf(Armed(p), DepartedCycle(w)) /\ DepartedCycle(w) \in CycleRecords
<1>1. /\ Armed(p).armed = p /\ Armed(p).filter = << >> /\ Armed(p).trough2 = Unset
      /\ ~Armed(p).rising /\ ~Armed(p).risen
  BY DEF Armed, Clean
<1>2. DOMAIN Armed(p).filter = {}
  <2>1. DOMAIN << >> = {}
    OBVIOUS
  <2> QED
    BY <1>1, <2>1
<1>3. /\ DepartedCycle(w).phase = "departed" /\ DepartedCycle(w) \in CycleRecords
  BY MotionAssumption DEF DepartedCycle, CycleRecords
<1>4. Settled(Armed(p).filter, Armed(p).trough2, DepartedCycle(w).low)
  BY <1>1 DEF Settled
<1> QED
  BY <1>1, <1>2, <1>3, <1>4 DEF DescentOf

-----------------------------------------------------------------------------
LEMMA InitCycleInv == Init => CycleInv
<1> SUFFICES ASSUME Init PROVE CycleInv
  OBVIOUS
<1>1. CycleTypes
  <2>1. Fit(NoAges) /\ OpenCycle \in CycleRecords
    BY LimitsOfWaits DEF NoAges, Fit, OpenCycle, CycleRecords
  <2> QED
    BY <2>1, CleanIsDetector DEF Init, CycleTypes
<1>2. ages["empty"] = Unset
  BY LimitsOfWaits DEF Init, NoAges
<1> QED
  BY <1>1, <1>2 DEF Init, CycleInv, WaitsAreQuiet, OneAtATime, CycleIsOver, Descent,
                    RisingIsTimed, Active, OpenCycle, Clean

(* A frame that only the histories and the waits notice.                     *)
LEMMA PassedFrameKeeps ==
  ASSUME CycleInv, NEW w \in Weights, IgnoredFrame(w) \/ BlockedFrame(w) \/ IdleFrame(w)
  PROVE  CycleInv'
<1> DEFINE a == Quiet(ages, w)
<1>1. /\ Fit(a) /\ a["quiet"] = Waited(ages["quiet"], w)
      /\ \A j \in Waits \ {"quiet"} : a[j] = ages[j]
  BY QuietAges DEF CycleInv, CycleTypes
<1> HIDE DEF a
<1>2. "wait" \in Waits \ {"quiet"} /\ "empty" \in Waits \ {"quiet", "wait"}
  BY DEF Waits
<1>3. /\ Fit(WaitFor(a, "wait", w)) /\ WaitFor(a, "wait", w)["wait"] = Waited(a["wait"], w)
      /\ \A j \in Waits \ {"wait"} : WaitFor(a, "wait", w)[j] = a[j]
  BY <1>1, <1>2, OneWait
<1>4. /\ cycle' = CycleSeen(w)
      /\ UNCHANGED << sessionVars, motion, blocked, awaiting >>
      /\ \/ ages' = a /\ (fatal # "no" \/ (~blocked /\ ~awaiting /\ owner = "none"))
         \/ ages' = WaitFor(a, "wait", w) /\ fatal = "no" /\ blocked
  BY DEF IgnoredFrame, BlockedFrame, IdleFrame, Seen, Ordinary, Active, a
<1>5. CycleTypes'
  BY <1>1, <1>3, <1>4, CycleAfter DEF CycleInv, CycleTypes
<1>6. WaitsAreQuiet'
  <2>1. ages'["empty"] = ages["empty"]
    BY <1>1, <1>2, <1>3, <1>4
  <2>2. owner' = owner /\ fatal' = fatal /\ blocked' = blocked /\ awaiting' = awaiting
    BY <1>4 DEF sessionVars
  <2>3. CASE ages' = a /\ (fatal # "no" \/ (~blocked /\ ~awaiting /\ owner = "none"))
    BY <2>1, <2>2, <2>3 DEF CycleInv, WaitsAreQuiet
  <2>4. CASE ages' = WaitFor(a, "wait", w) /\ fatal = "no" /\ blocked
    <3>1. /\ ages'["wait"] = Waited(ages["wait"], w)
          /\ ages'["quiet"] = Waited(ages["quiet"], w)
      <4>1. "quiet" \in Waits \ {"wait"}
        BY DEF Waits
      <4> QED
        BY <1>1, <1>2, <1>3, <2>4, <4>1
    <3>2. Within(ages', "wait")
      BY <1>2, <2>4, <3>1, WithinWaits DEF CycleInv, CycleTypes, WaitsAreQuiet
    <3>3. owner # "scale"
      BY <2>4 DEF CycleInv, OneAtATime, Active
    <3> QED
      BY <2>1, <2>2, <2>4, <3>2, <3>3 DEF CycleInv, WaitsAreQuiet
  <2> QED
    BY <1>4, <2>3, <2>4
<1>7. OneAtATime' /\ RisingIsTimed'
  BY <1>4 DEF sessionVars, CycleInv, OneAtATime, RisingIsTimed, Active
<1>8. CycleIsOver'
  BY <1>4, CycleAfter DEF sessionVars, CycleInv, CycleTypes, CycleIsOver
<1>9. Descent'
  BY <1>4, DescentUnseen DEF CycleInv, CycleTypes, Descent
<1> QED
  BY <1>5, <1>6, <1>7, <1>8, <1>9 DEF CycleInv

(* An empty frame while a renewed rise is waited for, after a stall or not.  *)
LEMMA EmptyReentryKeeps ==
  ASSUME CycleInv, NEW w \in Weights, fatal = "no", awaiting, ~Loaded(w), NEW a, Fit(a),
         Within(a, "reentry"), a["quiet"] = ages["quiet"], a["reentry"] = ages["reentry"],
         a["empty"] = ages["empty"], Over("reentry") => Over("quiet"),
         ReentryEmpty(w, a), Seen(w), ~blocked', UNCHANGED sessionVars
  PROVE  CycleInv'
<1> DEFINE b == Quiet(a, w)
<1>1. /\ Fit(b) /\ b["quiet"] = Waited(a["quiet"], w)
      /\ \A j \in Waits \ {"quiet"} : b[j] = a[j]
  BY QuietAges
<1> HIDE DEF b
<1>2. /\ "reentry" \in Waits \ {"quiet"} /\ "empty" \in Waits \ {"quiet", "reentry"}
      /\ "quiet" \in Waits \ {"reentry"}
  BY DEF Waits
<1>3. cycle' = CycleSeen(w) /\ owner' = owner /\ fatal' = fatal /\ owner = "none"
  BY DEF Seen, sessionVars, CycleInv, OneAtATime, Active
<1>4. OneAtATime'
  BY <1>3 DEF OneAtATime, Active
<1>5. CASE Over("reentry")
  <2>1. /\ ~awaiting' /\ motion' = Clean
        /\ ages' = [b EXCEPT !["reentry"] = Unset]
    BY <1>5 DEF ReentryEmpty, b
  <2>2. Fit(ages') /\ ages'["empty"] = b["empty"]
    <3>1. LET c == [b EXCEPT !["reentry"] = Unset]
          IN  Fit(c) /\ \A j \in Waits \ {"reentry"} : c[j] = b[j]
      BY <1>1, <1>2, OneAgeSet
    <3> QED
      BY <1>2, <2>1, <3>1
  <2>3. CycleTypes'
    BY <1>3, <2>1, <2>2, CleanIsDetector, CycleAfter DEF CycleInv, CycleTypes
  <2>4. WaitsAreQuiet'
    BY <1>1, <1>2, <1>3, <2>1, <2>2 DEF WaitsAreQuiet, CycleInv
  <2>5. CycleIsOver'
    BY <1>3, <1>5, CycleAfter DEF CycleIsOver, CycleInv, CycleTypes
  <2>6. Descent' /\ RisingIsTimed'
    BY <2>1 DEF Descent, RisingIsTimed, Clean
  <2> QED
    BY <1>4, <2>3, <2>4, <2>5, <2>6 DEF CycleInv
<1>6. CASE ~Over("reentry")
  <2>1. awaiting' = awaiting /\ motion' = motion /\ ages' = WaitFor(b, "reentry", w)
    BY <1>6 DEF ReentryEmpty, b
  <2>2. /\ Fit(ages') /\ ages'["reentry"] = Waited(b["reentry"], w)
        /\ ages'["empty"] = b["empty"] /\ ages'["quiet"] = b["quiet"]
    BY <1>1, <1>2, <2>1, OneWait
  <2>3. CycleTypes'
    BY <1>3, <2>1, <2>2, CycleAfter DEF CycleInv, CycleTypes
  <2>4. Within(ages', "reentry")
    BY <1>1, <1>2, <2>2, WithinWaits
  <2>5. WaitsAreQuiet'
    BY <1>1, <1>2, <1>3, <2>1, <2>2, <2>4 DEF WaitsAreQuiet, CycleInv
  <2>6. CycleIsOver' /\ RisingIsTimed'
    BY <2>1 DEF CycleIsOver, RisingIsTimed, CycleInv
  <2>7. Descent'
    BY <1>3, <2>1, DescentUnseen DEF CycleInv, CycleTypes, Descent
  <2> QED
    BY <1>4, <2>3, <2>5, <2>6, <2>7 DEF CycleInv
<1> QED
  BY <1>5, <1>6

LEMMA UnblockingKeeps ==
  ASSUME CycleInv, NEW w \in Weights, UnblockingFrame(w) PROVE CycleInv'
<1>1. /\ fatal = "no" /\ blocked /\ ~Loaded(w) /\ Over("wait") /\ ~blocked'
      /\ Seen(w) /\ UNCHANGED sessionVars /\ owner = "none"
  BY DEF UnblockingFrame, CycleInv, OneAtATime, Active
<1>2. Over("quiet")
  BY <1>1, QuietIsOver DEF CycleInv, CycleTypes, WaitsAreQuiet
<1> DEFINE a == [ages EXCEPT !["wait"] = Unset]
<1>3. /\ "wait" \in Waits /\ "quiet" \in Waits \ {"wait"}
      /\ "reentry" \in Waits \ {"wait", "quiet"} /\ "empty" \in Waits \ {"wait", "quiet"}
  BY DEF Waits
<1>4. Fit(a) /\ \A j \in Waits \ {"wait"} : a[j] = ages[j]
  BY <1>3, OneAgeSet DEF CycleInv, CycleTypes
<1>5. IF awaiting THEN ReentryEmpty(w, a)
      ELSE ages' = Quiet(a, w) /\ UNCHANGED << awaiting, motion >>
  BY DEF UnblockingFrame
<1> HIDE DEF a
<1>6. CASE awaiting
  <2>1. Within(a, "reentry")
    <3>1. ages["quiet"] = EmptyDwell /\ Unset \notin Nat /\ EmptyDwell \in Nat
          /\ (ages["reentry"] # Unset => ages["reentry"] <= EmptyDwell)
      BY <1>2, <1>3, LimitsOfWaits DEF Over, CycleInv, CycleTypes, Fit
    <3> QED
      BY <1>3, <1>4, <3>1 DEF Within
  <2> QED
    BY <1>1, <1>2, <1>3, <1>4, <1>5, <1>6, <2>1, EmptyReentryKeeps
<1>7. CASE ~awaiting
  <2>1. /\ Fit(Quiet(a, w))
        /\ \A j \in Waits \ {"quiet"} : Quiet(a, w)[j] = a[j]
    BY <1>4, QuietAges
  <2>2. ages' = Quiet(a, w) /\ awaiting' = awaiting /\ motion' = motion
    BY <1>5, <1>7
  <2>3. Fit(ages') /\ ages'["empty"] = ages["empty"]
    BY <1>3, <1>4, <2>1, <2>2
  <2>4. cycle' = CycleSeen(w) /\ owner' = owner /\ fatal' = fatal
    BY <1>1 DEF Seen, sessionVars
  <2>5. CycleTypes'
    BY <2>2, <2>3, <2>4, CycleAfter DEF CycleInv, CycleTypes
  <2>6. WaitsAreQuiet' /\ OneAtATime'
    BY <1>1, <1>7, <2>2, <2>3, <2>4 DEF CycleInv, WaitsAreQuiet, OneAtATime, Active
  <2>7. CycleIsOver'
    BY <1>1, <1>2, <2>4, CycleAfter DEF CycleIsOver, CycleInv, CycleTypes
  <2>8. Descent' /\ RisingIsTimed'
    BY <1>7, <2>2 DEF Descent, RisingIsTimed, CycleInv
  <2> QED
    BY <2>5, <2>6, <2>7, <2>8 DEF CycleInv
<1> QED
  BY <1>6, <1>7

LEMMA WaitingKeeps ==
  ASSUME CycleInv, NEW w \in Weights, WaitingFrame(w) PROVE CycleInv'
<1>1. /\ fatal = "no" /\ ~blocked /\ awaiting /\ ~Loaded(w) /\ ~blocked'
      /\ ReentryEmpty(w, ages) /\ Seen(w) /\ UNCHANGED sessionVars
  BY DEF WaitingFrame
<1>2. Fit(ages) /\ Within(ages, "reentry")
  BY <1>1 DEF CycleInv, CycleTypes, WaitsAreQuiet
<1>3. Over("reentry") => Over("quiet")
  BY <1>2, QuietIsOver
<1> QED
  BY <1>1, <1>2, <1>3, EmptyReentryKeeps

(* A loaded frame while a renewed rise is waited for.                        *)
LEMMA ReentryKeeps ==
  ASSUME CycleInv, NEW w \in Weights, ReentryFrame(w) PROVE CycleInv'
<1> DEFINE b == Quiet(ages, w)
           a == [b EXCEPT !["reentry"] = Unset]
           m == ObserveReentry(motion, w)
<1>1. /\ "reentry" \in Waits \ {"quiet"} /\ "empty" \in Waits \ {"quiet", "reentry"}
      /\ "session" \in Waits \ {"empty"} /\ "empty" \in Waits \ {"session"}
      /\ "reentry" \in Waits
  BY DEF Waits
<1>2. /\ Fit(b) /\ \A j \in Waits \ {"quiet"} : b[j] = ages[j]
  BY QuietAges DEF CycleInv, CycleTypes
<1>3. \/ /\ motion' = m /\ ages' = a /\ Seen(w) /\ UNCHANGED << sessionVars, awaiting >>
      \/ /\ \E peak \in Weights : StartedByScale(peak)
         /\ motion' = Clean /\ ~awaiting' /\ ages' = [a EXCEPT !["session"] = 0]
         /\ cycle' = LoadedCycle
      \/ /\ AdmissionFails /\ motion' = m /\ ages' = a /\ Seen(w) /\ UNCHANGED awaiting
  BY DEF ReentryFrame
<1> HIDE DEF b
<1>4. Fit(a) /\ a["reentry"] = Unset /\ \A j \in Waits \ {"reentry"} : a[j] = b[j]
  BY <1>1, <1>2, OneAgeSet
<1> HIDE DEF a
<1>5. /\ fatal = "no" /\ ~blocked /\ ~blocked' /\ awaiting /\ owner = "none"
      /\ a["empty"] = Unset
  <2>1. fatal = "no" /\ ~blocked /\ ~blocked' /\ awaiting
    BY DEF ReentryFrame
  <2>2. owner = "none"
    BY <2>1 DEF CycleInv, OneAtATime, Active
  <2>3. a["empty"] = ages["empty"]
    BY <1>1, <1>2, <1>4
  <2> QED
    BY <2>1, <2>2, <2>3 DEF CycleInv, WaitsAreQuiet
<1>6. m \in Detectors /\ (m.rising \/ m.riseAge = 0)
  BY ReentryIsDetector DEF CycleInv, CycleTypes, RisingIsTimed
<1>7. DescentOf(m, CycleSeen(w)) /\ CycleSeen(w) \in CycleRecords
  BY <1>5, DescentObserved, CycleAfter DEF CycleInv, CycleTypes, Descent
<1> HIDE DEF m
<1>8. CASE /\ motion' = m /\ ages' = a /\ Seen(w) /\ UNCHANGED awaiting
           /\ owner' = owner
  <2>1. CycleTypes' /\ Descent' /\ RisingIsTimed'
    BY <1>4, <1>6, <1>7, <1>8 DEF CycleTypes, Descent, RisingIsTimed, Seen
  <2>2. WaitsAreQuiet'
    BY <1>4, <1>5, <1>8 DEF WaitsAreQuiet, Within
  <2>3. OneAtATime' /\ CycleIsOver'
    BY <1>5, <1>8 DEF OneAtATime, CycleIsOver, Active
  <2> QED
    BY <2>1, <2>2, <2>3 DEF CycleInv
<1>9. CASE /\ \E peak \in Weights : StartedByScale(peak)
           /\ motion' = Clean /\ ~awaiting' /\ ages' = [a EXCEPT !["session"] = 0]
           /\ cycle' = LoadedCycle
  <2>1. Fit(ages') /\ ages'["empty"] = Unset
    <3>1. LET c == [a EXCEPT !["session"] = 0]
          IN  Fit(c) /\ \A j \in Waits \ {"session"} : c[j] = a[j]
      BY <1>1, <1>4, OneAgeSet
    <3> QED
      BY <1>1, <1>5, <1>9, <3>1
  <2>2. CycleTypes'
    BY <1>9, <2>1, CleanIsDetector DEF CycleTypes, LoadedCycle, CycleRecords
  <2>3. owner' = "scale" /\ fatal' = fatal
    BY <1>9 DEF StartedByScale
  <2>4. WaitsAreQuiet' /\ OneAtATime' /\ CycleIsOver' /\ Descent' /\ RisingIsTimed'
    BY <1>5, <1>9, <2>1, <2>3
       DEF WaitsAreQuiet, Within, OneAtATime, CycleIsOver, Descent, RisingIsTimed, Clean
  <2> QED
    BY <2>2, <2>4 DEF CycleInv
<1> QED
  BY <1>3, <1>8, <1>9 DEF AdmissionFails, sessionVars

(* Frames of the ordinary state that leave the detector alone.               *)
LEMMA OrdinaryFrameKeeps ==
  ASSUME CycleInv, NEW w \in Weights,
         RisingFrame(w) \/ PlateLostFrame(w) \/ TimeoutFrame(w) \/ PromotionFails(w)
  PROVE  CycleInv'
<1> DEFINE a == Quiet(ages, w)
           s == WithoutSession(ages)
<1>1. /\ Ordinary /\ UNCHANGED << motion, blocked, awaiting >>
      /\ \/ /\ owner = "none" /\ \E peak \in Weights : StartedByScale(peak)
            /\ ages' = [a EXCEPT !["session"] = 0] /\ cycle' = LoadedCycle
         \/ owner # "scale" /\ AdmissionFails /\ ages' = a /\ cycle' = CycleSeen(w)
         \/ /\ owner = "plate" /\ \E reason \in Reasons : Ended(reason, laden)
            /\ ages' = Quiet(s, w) /\ cycle' = CycleSeen(w)
  BY DEF RisingFrame, PlateLostFrame, TimeoutFrame, PromotionFails, CompletePlateLoss,
         Seen, Active, Reasons
<1>2. /\ "session" \in Waits \ {"empty"} /\ "empty" \in Waits \ {"session", "quiet"}
      /\ "session" \in Waits
  BY DEF Waits
<1>3. Fit(a) /\ a["empty"] = ages["empty"]
  BY <1>2, QuietAges DEF CycleInv, CycleTypes
<1>4. Fit(s) /\ s["empty"] = Unset
  BY AgesWithoutSession DEF CycleInv, CycleTypes
<1> HIDE DEF a, s
<1>5. /\ fatal = "no" /\ ~blocked /\ ~blocked' /\ ~awaiting /\ ~awaiting'
      /\ (owner # "scale" => cycle.phase = "open")
  BY <1>1 DEF Ordinary, CycleInv, CycleIsOver
<1>6. Descent' /\ RisingIsTimed'
  BY <1>1, <1>5 DEF CycleInv, Descent, RisingIsTimed
<1>7. CASE /\ owner = "none" /\ \E peak \in Weights : StartedByScale(peak)
           /\ ages' = [a EXCEPT !["session"] = 0] /\ cycle' = LoadedCycle
  <2>1. Fit(ages') /\ ages'["empty"] = Unset
    <3>1. LET c == [a EXCEPT !["session"] = 0]
          IN  Fit(c) /\ \A j \in Waits \ {"session"} : c[j] = a[j]
      BY <1>2, <1>3, OneAgeSet
    <3>2. ages["empty"] = Unset
      BY <1>7 DEF CycleInv, WaitsAreQuiet
    <3> QED
      BY <1>2, <1>3, <1>7, <3>1, <3>2
  <2>2. CycleTypes'
    BY <1>1, <1>7, <2>1 DEF CycleInv, CycleTypes, LoadedCycle, CycleRecords
  <2>3. owner' = "scale" /\ fatal' = fatal
    BY <1>7 DEF StartedByScale
  <2>4. WaitsAreQuiet' /\ OneAtATime' /\ CycleIsOver'
    BY <1>5, <2>1, <2>3 DEF WaitsAreQuiet, Within, OneAtATime, CycleIsOver
  <2> QED
    BY <1>6, <2>2, <2>4 DEF CycleInv
<1>8. CASE owner # "scale" /\ AdmissionFails /\ ages' = a /\ cycle' = CycleSeen(w)
  <2>1. CycleTypes'
    BY <1>1, <1>3, <1>8, CycleAfter DEF CycleInv, CycleTypes
  <2>2. owner' = owner /\ fatal' # "no"
    BY <1>8 DEF AdmissionFails
  <2>3. WaitsAreQuiet' /\ OneAtATime' /\ CycleIsOver'
    BY <1>3, <1>5, <1>8, <2>2 DEF CycleInv, WaitsAreQuiet, OneAtATime, CycleIsOver
  <2> QED
    BY <1>6, <2>1, <2>3 DEF CycleInv
<1>9. CASE /\ owner = "plate" /\ \E reason \in Reasons : Ended(reason, laden)
           /\ ages' = Quiet(s, w) /\ cycle' = CycleSeen(w)
  <2>1. Fit(ages') /\ ages'["empty"] = Unset
    BY <1>2, <1>4, <1>9, QuietAges
  <2>2. CycleTypes'
    BY <1>1, <1>9, <2>1, CycleAfter DEF CycleInv, CycleTypes
  <2>3. owner' = "none"
    BY <1>9 DEF Ended
  <2>4. cycle'.phase = "open"
    BY <1>5, <1>9, CycleAfter DEF CycleInv, CycleTypes
  <2>5. WaitsAreQuiet' /\ OneAtATime' /\ CycleIsOver'
    BY <1>5, <2>1, <2>3, <2>4 DEF WaitsAreQuiet, OneAtATime, CycleIsOver, Active
  <2> QED
    BY <1>6, <2>2, <2>5 DEF CycleInv
<1> QED
  BY <1>1, <1>7, <1>8, <1>9

LEMMA WatchedIsDetector ==
  ASSUME CycleInv, NEW w \in Weights, NEW m \in Watched(w)
  PROVE  /\ m \in Detectors /\ (m.rising \/ m.riseAge = 0) /\ m.armed = motion.armed
         /\ m.departed /\ ~motion.departed => m.reference \in Weights
<1>1. References \subseteq Weights \cup {Unset}
  BY DEF References
<1>2. motion \in Detectors /\ (motion.rising \/ motion.riseAge = 0)
  BY DEF CycleInv, CycleTypes, RisingIsTimed
<1>3. CASE w = 0
  BY <1>2, <1>3 DEF Watched
<1>4. CASE w # 0
  <2>1. PICK r \in References : m = ObserveLoaded(motion, w, r)
    BY <1>4 DEF Watched
  <2>2. /\ ObserveLoaded(motion, w, r) \in Detectors
        /\ ObserveLoaded(motion, w, r).departed /\ ~motion.departed
             => ObserveLoaded(motion, w, r).reference \in Weights
        /\ ObserveLoaded(motion, w, r).rising = motion.rising
        /\ ObserveLoaded(motion, w, r).riseAge = motion.riseAge
        /\ ObserveLoaded(motion, w, r).armed = motion.armed
    BY <1>1, <1>2, LoadedIsDetector
  <2> QED
    BY <1>2, <2>1, <2>2
<1> QED
  BY <1>3, <1>4

LEMMA HeldCycle ==
  ASSUME CycleInv, NEW w \in Weights
  PROVE  CycleHeld(w) \in CycleRecords
BY CycleAfter DEF CycleHeld, LoadedCycle, CycleRecords, CycleInv, CycleTypes

LEMMA HeldAges ==
  ASSUME CycleInv, NEW w \in Weights, fatal = "no"
  PROVE  /\ Fit(AgesHeld(w))
         /\ owner = "plate" => AgesHeld(w)["empty"] = Unset
         /\ owner = "scale" => Within(AgesHeld(w), "empty")
<1> DEFINE a == IF Loaded(w) THEN [ages EXCEPT !["absent"] = Unset] ELSE ages
           b == IF owner = "plate" THEN [a EXCEPT !["empty"] = Unset] ELSE WaitFor(a, "empty", w)
<1>1. /\ "absent" \in Waits /\ "quiet" \in Waits \ {"absent", "empty"}
      /\ "empty" \in Waits \ {"absent", "quiet"}
  BY DEF Waits
<1>2. Fit(a) /\ a["empty"] = ages["empty"] /\ a["quiet"] = ages["quiet"]
  <2>1. LET c == [ages EXCEPT !["absent"] = Unset]
        IN  Fit(c) /\ \A j \in Waits \ {"absent"} : c[j] = ages[j]
    BY <1>1, OneAgeSet DEF CycleInv, CycleTypes
  <2> QED
    BY <1>1, <2>1 DEF CycleInv, CycleTypes
<1>3. AgesHeld(w) = Quiet(b, w)
  BY DEF AgesHeld
<1> HIDE DEF a
<1>4. CASE owner = "plate"
  <2>1. LET c == [a EXCEPT !["empty"] = Unset] IN Fit(c) /\ c["empty"] = Unset
    BY <1>1, <1>2, OneAgeSet
  <2>2. Fit(b) /\ b["empty"] = Unset
    BY <1>4, <2>1
  <2> HIDE DEF b
  <2> QED
    BY <1>1, <1>3, <1>4, <2>2, QuietAges
<1>5. CASE owner # "plate"
  <2>1. b = WaitFor(a, "empty", w)
    BY <1>5
  <2> HIDE DEF b
  <2>2. Fit(b) /\ b["empty"] = Waited(a["empty"], w) /\ b["quiet"] = a["quiet"]
    BY <1>1, <1>2, <2>1, OneWait
  <2>3. /\ Fit(Quiet(b, w)) /\ Quiet(b, w)["quiet"] = Waited(b["quiet"], w)
        /\ Quiet(b, w)["empty"] = b["empty"]
    BY <1>1, <2>2, QuietAges
  <2>4. ASSUME owner = "scale" PROVE Within(Quiet(b, w), "empty")
    <3>1. Within(ages, "empty")
      BY <2>4 DEF CycleInv, WaitsAreQuiet
    <3>2. Within(a, "empty")
      BY <1>2, <3>1 DEF Within
    <3> QED
      BY <1>1, <1>2, <2>2, <2>3, <3>2, WithinWaits
  <2> QED
    BY <1>3, <1>5, <2>3, <2>4
<1> QED
  BY <1>4, <1>5

LEMMA SessionFrameKeepsCycle ==
  ASSUME CycleInv, NEW w \in Weights, SessionFrame(w) PROVE CycleInv'
<1>1. /\ fatal = "no" /\ fatal' = "no" /\ ~blocked /\ ~blocked' /\ ~awaiting /\ ~awaiting'
      /\ owner # "none" /\ owner' = Held(w) /\ cycle' = CycleHeld(w) /\ ages' = AgesHeld(w)
  BY DEF SessionFrame, Goes, Ordinary, Active
<1>2. motion' \in Detectors /\ RisingIsTimed'
  <2>1. PICK m \in Watched(w) : motion' = m
    BY DEF SessionFrame
  <2> QED
    BY <2>1, WatchedIsDetector DEF RisingIsTimed
<1>3. CycleTypes'
  BY <1>1, <1>2, HeldAges, HeldCycle DEF CycleTypes
<1>4. WaitsAreQuiet'
  <2>1. ASSUME owner' = "scale" PROVE Within(ages', "empty")
    <3>1. CASE owner = "scale"
      BY <1>1, <3>1, HeldAges
    <3>2. CASE owner # "scale"
      <4>1. owner = "plate"
        BY <1>1, <3>2 DEF CycleInv, OneAtATime
      <4> QED
        BY <1>1, <4>1, HeldAges DEF Within
    <3> QED
      BY <3>1, <3>2
  <2>2. owner' # "none"
    BY <1>1 DEF Held
  <2> QED
    BY <1>1, <2>1, <2>2 DEF WaitsAreQuiet
<1>5. CycleIsOver'
  <2> SUFFICES ASSUME owner' # "scale" PROVE cycle'.phase = "open"
    BY DEF CycleIsOver
  <2>1. ~Loaded(w) /\ owner # "scale"
    BY <1>1 DEF Held
  <2>2. cycle' = CycleSeen(w) /\ cycle.phase = "open"
    BY <1>1, <2>1 DEF CycleHeld, CycleInv, CycleIsOver
  <2> QED
    BY <2>2, CycleAfter DEF CycleInv, CycleTypes
<1>6. OneAtATime' /\ Descent'
  BY <1>1 DEF OneAtATime, Descent, Held, CycleInv
<1> QED
  BY <1>2, <1>3, <1>4, <1>5, <1>6 DEF CycleInv

(* A dwell of empty frames ends the session of the scale, or fails to.       *)
LEMMA EmptyFrameKeeps ==
  ASSUME CycleInv, NEW w \in Weights, EmptyFrame(w) PROVE CycleInv'
<1>1. /\ fatal = "no" /\ ~blocked /\ ~blocked' /\ ~awaiting /\ ~awaiting'
      /\ owner = "scale" /\ Over("empty") /\ ~Loaded(w) /\ cycle' = CycleSeen(w)
      /\ \/ Ended("scale_empty", laden) /\ ages' = Quiet(WithoutSession(ages), w)
         \/ EndFailsAsIs("scale_empty") /\ ages' = Quiet(ages, w)
  BY DEF EmptyFrame, Goes, EmptySeen, Ordinary, Seen
<1>2. motion' \in Detectors /\ RisingIsTimed'
  <2>1. PICK m \in Watched(w) : motion' = m
    BY DEF EmptyFrame
  <2> QED
    BY <2>1, WatchedIsDetector DEF RisingIsTimed
<1>3. cycle' \in CycleRecords /\ cycle'.phase = "open"
  <2>1. Over("quiet")
    BY <1>1, QuietIsOver DEF CycleInv, CycleTypes, WaitsAreQuiet
  <2> QED
    BY <1>1, <2>1, CycleAfter DEF CycleInv, CycleTypes
<1>4. Descent' /\ CycleIsOver'
  BY <1>1, <1>3 DEF Descent, CycleIsOver
<1>5. "empty" \in Waits \ {"quiet"}
  BY DEF Waits
<1>6. CASE Ended("scale_empty", laden) /\ ages' = Quiet(WithoutSession(ages), w)
  <2> DEFINE s == WithoutSession(ages)
  <2>1. Fit(s) /\ s["empty"] = Unset
    BY AgesWithoutSession DEF CycleInv, CycleTypes
  <2> HIDE DEF s
  <2>2. Fit(Quiet(s, w)) /\ Quiet(s, w)["empty"] = Unset
    BY <1>5, <2>1, QuietAges
  <2>3. Fit(ages') /\ ages'["empty"] = Unset
    BY <1>6, <2>2 DEF s
  <2>4. owner' = "none"
    BY <1>6 DEF Ended
  <2>5. CycleTypes' /\ WaitsAreQuiet' /\ OneAtATime'
    BY <1>1, <1>2, <1>3, <2>3, <2>4 DEF CycleTypes, WaitsAreQuiet, OneAtATime, Active
  <2> QED
    BY <1>2, <1>4, <2>5 DEF CycleInv
<1>7. CASE EndFailsAsIs("scale_empty") /\ ages' = Quiet(ages, w)
  <2>1. owner' = owner /\ fatal' # "no"
    BY <1>7 DEF EndFailsAsIs, EndFails
  <2>2. Fit(ages')
    BY <1>7, QuietAges DEF CycleInv, CycleTypes
  <2>3. CycleTypes' /\ WaitsAreQuiet' /\ OneAtATime'
    BY <1>1, <1>2, <1>3, <2>1, <2>2 DEF CycleTypes, WaitsAreQuiet, OneAtATime
  <2> QED
    BY <1>2, <1>4, <2>3 DEF CycleInv
<1> QED
  BY <1>1, <1>6, <1>7

(* A confirmed drop arms the detector again, or the ending fails.            *)
LEMMA DepartureKeepsCycle ==
  ASSUME CycleInv, NEW w \in Weights, DepartureFrame(w) PROVE CycleInv'
<1>1. PICK m \in Watched(w) :
        /\ m.departed /\ ~motion.departed
        /\ \/ /\ Ended("weight_drop_confirmed", laden \/ Loaded(w))
              /\ motion' = Armed(m.reference) /\ awaiting' = TRUE
              /\ ages' = [Quiet(WithoutSession(ages), w) EXCEPT !["reentry"] = Unset]
              /\ cycle' = DepartedCycle(w)
           \/ /\ EndFails("weight_drop_confirmed") /\ owner' = "scale"
              /\ motion' = m /\ ages' = Quiet(ages, w) /\ cycle' = CycleHeld(w)
              /\ UNCHANGED awaiting
  BY DEF DepartureFrame
<1>2. fatal = "no" /\ ~blocked /\ ~blocked' /\ ~awaiting
  BY DEF DepartureFrame, Goes, Ordinary
<1>3. m \in Detectors /\ (m.rising \/ m.riseAge = 0) /\ m.reference \in Weights
  BY <1>1, WatchedIsDetector
<1>4. CASE /\ Ended("weight_drop_confirmed", laden \/ Loaded(w))
           /\ motion' = Armed(m.reference) /\ awaiting' = TRUE
           /\ ages' = [Quiet(WithoutSession(ages), w) EXCEPT !["reentry"] = Unset]
           /\ cycle' = DepartedCycle(w)
  <2> DEFINE s == WithoutSession(ages)
             b == Quiet(s, w)
             c == [b EXCEPT !["reentry"] = Unset]
  <2>0. /\ "empty" \in Waits \ {"quiet"} /\ "empty" \in Waits \ {"reentry"}
        /\ "reentry" \in Waits
    BY DEF Waits
  <2>1. Fit(s) /\ s["empty"] = Unset
    BY AgesWithoutSession DEF CycleInv, CycleTypes
  <2> HIDE DEF s
  <2>2. Fit(b) /\ b["empty"] = Unset
    BY <2>0, <2>1, QuietAges
  <2> HIDE DEF b
  <2>3. Fit(c) /\ c["reentry"] = Unset /\ c["empty"] = Unset
    <3>1. c["reentry"] = Unset /\ Fit(c) /\ \A j \in Waits \ {"reentry"} : c[j] = b[j]
      BY <2>0, <2>2, OneAgeSet
    <3> QED
      BY <2>0, <2>2, <3>1
  <2>4. ages' = c
    BY <1>4 DEF b, s
  <2> HIDE DEF c
  <2>5. owner' = "none"
    BY <1>4 DEF Ended
  <2>6. CycleTypes' /\ Descent'
    BY <1>3, <1>4, <2>3, <2>4, CleanIsDetector, DescentBegins DEF CycleTypes, Descent
  <2>7. WaitsAreQuiet'
    BY <1>2, <2>3, <2>4, <2>5 DEF WaitsAreQuiet, Within
  <2>8. OneAtATime' /\ CycleIsOver' /\ RisingIsTimed'
    BY <1>2, <1>4, <2>5 DEF OneAtATime, CycleIsOver, RisingIsTimed, Active, Armed, Clean
  <2> QED
    BY <2>6, <2>7, <2>8 DEF CycleInv
<1>5. CASE /\ EndFails("weight_drop_confirmed") /\ owner' = "scale"
           /\ motion' = m /\ ages' = Quiet(ages, w) /\ cycle' = CycleHeld(w)
           /\ UNCHANGED awaiting
  <2>1. fatal' # "no"
    BY <1>5 DEF EndFails
  <2>2. CycleTypes'
    BY <1>3, <1>5, HeldCycle, QuietAges DEF CycleInv, CycleTypes
  <2>3. WaitsAreQuiet' /\ OneAtATime' /\ CycleIsOver'
    BY <1>2, <1>5, <2>1 DEF WaitsAreQuiet, OneAtATime, CycleIsOver
  <2>4. Descent' /\ RisingIsTimed'
    BY <1>2, <1>3, <1>5 DEF Descent, RisingIsTimed
  <2> QED
    BY <2>2, <2>3, <2>4 DEF CycleInv
<1> QED
  BY <1>1, <1>4, <1>5

LEMMA FrameKeepsCycle ==
  ASSUME CycleInv, NEW w \in Weights, OnFrame(w) PROVE CycleInv'
BY PassedFrameKeeps, UnblockingKeeps, WaitingKeeps, ReentryKeeps, OrdinaryFrameKeeps,
   SessionFrameKeepsCycle, EmptyFrameKeeps, DepartureKeepsCycle DEF OnFrame

-----------------------------------------------------------------------------
LEMMA PlateKeepsCycle == ASSUME CycleInv, PlateSeen \/ PlateGone PROVE CycleInv'
<1>1. /\ UNCHANGED << motion, blocked, awaiting, cycle, fatal >>
      /\ \/ owner' = owner
         \/ owner' = "plate" /\ ~blocked /\ ~awaiting /\ owner = "none" /\ fatal = "no"
  BY DEF PlateSeen, PlateGone, StartedByPlate, sessionVars, Active
<1>2. /\ Fit(ages')
      /\ \A k \in {"empty", "wait", "reentry", "quiet"} : ages'[k] = ages[k]
  <2>1. /\ "absent" \in Waits /\ "session" \in Waits
        /\ {"empty", "wait", "reentry", "quiet"} \subseteq Waits \ {"absent", "session"}
    BY DEF Waits
  <2>2. Fit(ages)
    BY DEF CycleInv, CycleTypes
  <2> DEFINE s == [ages EXCEPT !["session"] = 0]
             t == [s EXCEPT !["absent"] = Unset]
             u == [ages EXCEPT !["absent"] = Unset]
             v == [ages EXCEPT !["absent"] = 0]
  <2>3. ages' \in {t, u, v, ages}
    BY DEF PlateSeen, PlateGone
  <2>4. Fit(s) /\ \A j \in Waits \ {"session"} : s[j] = ages[j]
    BY <2>1, <2>2, OneAgeSet
  <2> HIDE DEF s
  <2>5. Fit(t) /\ \A j \in Waits \ {"absent"} : t[j] = s[j]
    BY <2>1, <2>4, OneAgeSet
  <2>6. Fit(u) /\ \A j \in Waits \ {"absent"} : u[j] = ages[j]
    BY <2>1, <2>2, OneAgeSet
  <2>7. Fit(v) /\ \A j \in Waits \ {"absent"} : v[j] = ages[j]
    BY <2>1, <2>2, OneAgeSet
  <2> HIDE DEF t, u, v
  <2> QED
    BY <2>1, <2>2, <2>3, <2>4, <2>5, <2>6, <2>7
<1>3. CycleTypes' /\ Descent' /\ RisingIsTimed'
  BY <1>1, <1>2 DEF CycleInv, CycleTypes, Descent, RisingIsTimed
<1>4. WaitsAreQuiet' /\ OneAtATime' /\ CycleIsOver'
  BY <1>1, <1>2 DEF CycleInv, WaitsAreQuiet, OneAtATime, CycleIsOver, Within, Active
<1> QED
  BY <1>3, <1>4 DEF CycleInv

LEMMA StallKeepsCycle == ASSUME CycleInv, Stall PROVE CycleInv'
<1> DEFINE a == [ages EXCEPT !["wait"] = Unset]
<1>1. /\ blocked' /\ UNCHANGED << motion, awaiting, cycle >>
      /\ \/ ~Active /\ ages' = a /\ UNCHANGED sessionVars
         \/ Active /\ Ended("scale_reader_stalled", laden) /\ ages' = WithoutSession(a)
         \/ Active /\ EndFailsAsIs("scale_reader_stalled") /\ ages' = a
  BY DEF Stall
<1>2. /\ "wait" \in Waits /\ {"empty", "reentry", "quiet"} \subseteq Waits \ {"wait"}
  BY DEF Waits
<1>3. Fit(a) /\ a["wait"] = Unset /\ \A j \in Waits \ {"wait"} : a[j] = ages[j]
  BY <1>2, OneAgeSet DEF CycleInv, CycleTypes
<1> HIDE DEF a
<1>4. /\ Fit(WithoutSession(a)) /\ WithoutSession(a)["empty"] = Unset
      /\ \A j \in {"wait", "reentry", "quiet"} : WithoutSession(a)[j] = a[j]
  BY <1>3, AgesWithoutSession
<1>5. Fit(ages') /\ ages'["wait"] = Unset
  BY <1>1, <1>3, <1>4
<1>6. CycleTypes' /\ Descent' /\ RisingIsTimed' /\ CycleIsOver'
  BY <1>1, <1>5 DEF CycleInv, CycleTypes, Descent, RisingIsTimed, CycleIsOver
<1>7. CASE ~Active /\ ages' = a /\ UNCHANGED sessionVars
  <2>1. owner' = "none" /\ owner = "none" /\ ages'["empty"] = ages["empty"]
    BY <1>2, <1>3, <1>7 DEF Active, sessionVars
  <2>2. WaitsAreQuiet' /\ OneAtATime'
    BY <1>1, <1>5, <2>1 DEF CycleInv, WaitsAreQuiet, Within, OneAtATime, Active
  <2> QED
    BY <1>6, <2>2 DEF CycleInv
<1>8. CASE Active /\ Ended("scale_reader_stalled", laden) /\ ages' = WithoutSession(a)
  <2>1. owner' = "none" /\ ages'["empty"] = Unset
    BY <1>4, <1>8 DEF Ended
  <2>2. WaitsAreQuiet' /\ OneAtATime'
    BY <1>1, <1>5, <2>1 DEF WaitsAreQuiet, Within, OneAtATime, Active
  <2> QED
    BY <1>6, <2>2 DEF CycleInv
<1>9. CASE Active /\ EndFailsAsIs("scale_reader_stalled") /\ ages' = a
  <2>1. owner' = owner /\ fatal' # "no" /\ owner # "none"
    BY <1>9 DEF EndFailsAsIs, EndFails, Active
  <2>2. WaitsAreQuiet' /\ OneAtATime'
    BY <1>1, <1>9, <2>1 DEF CycleInv, WaitsAreQuiet, OneAtATime, Active
  <2> QED
    BY <1>6, <2>2 DEF CycleInv
<1> QED
  BY <1>1, <1>7, <1>8, <1>9

LEMMA TickKeepsCycle == ASSUME CycleInv, Tick PROVE CycleInv'
<1>1. /\ UNCHANGED << sessionVars, blocked, awaiting, cycle >> /\ motion' = Aged(motion)
      /\ ages' = [ k \in DOMAIN ages |->
                     IF ages[k] = Unset THEN Unset ELSE Least(ages[k] + 1, Limits[k]) ]
  BY DEF Tick
<1>2. /\ Fit(ages') /\ \A k \in Waits : ages[k] = Unset => ages'[k] = Unset
      /\ \A k \in {"empty", "wait", "reentry"} : Within(ages, k) => Within(ages', k)
  BY <1>1, TickedAges DEF CycleInv, CycleTypes
<1>3. "empty" \in Waits
  BY DEF Waits
<1>4. CycleTypes'
  BY <1>1, <1>2, AgedIsDetector DEF CycleInv, CycleTypes
<1>5. Descent'
  BY <1>1, DescentAged DEF CycleInv, CycleTypes, Descent
<1>6. RisingIsTimed'
  <2>1. Aged(motion).rising = motion.rising /\ (~motion.rising => Aged(motion).riseAge = 0)
    BY DEF Aged, Detectors, CycleInv, CycleTypes
  <2> QED
    BY <1>1, <2>1 DEF RisingIsTimed
<1>7. owner' = owner /\ fatal' = fatal /\ blocked' = blocked /\ awaiting' = awaiting
  BY <1>1 DEF sessionVars
<1>8. WaitsAreQuiet'
  BY <1>2, <1>3, <1>7 DEF CycleInv, WaitsAreQuiet
<1>9. OneAtATime' /\ CycleIsOver'
  BY <1>1, <1>7 DEF CycleInv, OneAtATime, CycleIsOver, Active
<1> QED
  BY <1>4, <1>5, <1>6, <1>8, <1>9 DEF CycleInv

LEMMA RestartKeepsCycle == ASSUME CycleInv, Restart PROVE CycleInv'
<1>1. Fit(NoAges) /\ OpenCycle \in CycleRecords /\ NoAges["empty"] = Unset
  BY LimitsOfWaits DEF NoAges, Fit, OpenCycle, CycleRecords
<1>2. CycleTypes'
  BY <1>1, CleanIsDetector DEF Restart, CycleTypes
<1>3. WaitsAreQuiet' /\ OneAtATime' /\ CycleIsOver' /\ Descent' /\ RisingIsTimed'
  BY <1>1 DEF Restart, WaitsAreQuiet, OneAtATime, CycleIsOver, Descent, RisingIsTimed,
              Active, OpenCycle, Clean
<1> QED
  BY <1>2, <1>3 DEF CycleInv

LEMMA StutterKeepsCycle == ASSUME CycleInv, UNCHANGED vars PROVE CycleInv'
BY DEF vars, sessionVars, CycleInv, CycleTypes, WaitsAreQuiet, OneAtATime, CycleIsOver,
       Descent, RisingIsTimed, Active

LEMMA CycleInvariance == Spec => []CycleInv
<1>1. CycleInv /\ [Next]_vars => CycleInv'
  BY FrameKeepsCycle, PlateKeepsCycle, StallKeepsCycle, TickKeepsCycle, RestartKeepsCycle,
     StutterKeepsCycle DEF Next
<1> QED
  BY InitCycleInv, <1>1, PTL DEF Spec

(* A rise that the detector decides was a climb: RiseDwell is not zero, so   *)
(* it was rising before, and above its lowest reading.                       *)
LEMMA RisesAreClimbs ==
  ASSUME CycleInv, awaiting, NEW w \in Weights, ObserveReentry(motion, w).risen
  PROVE  cycle.phase = "open" \/ cycle.climbed
<1>1. motion.risen \/ motion.riseAge = RiseDwell
  BY ReentryIsDetector DEF CycleInv, CycleTypes
<1>2. motion.risen \/ motion.rising
  BY <1>1, MotionAssumption DEF CycleInv, RisingIsTimed
<1>3. DescentOf(motion, cycle) /\ cycle \in CycleRecords
  BY DEF CycleInv, CycleTypes, Descent
<1> QED
  BY <1>2, <1>3 DEF DescentOf, CycleRecords

(* The scale owns one session for each loaded cycle: a new one only after    *)
(* the scale was empty for a dwell, or was departed from and climbed again   *)
(* (on_frame, _feed_reentry_locked, observe_reentry), for any weights, any   *)
(* size of the median's window and any thresholds.                           *)
THEOREM CyclesHaveOneSession == Spec => OneSessionPerCycle
<1>1. CycleInv /\ [Next]_vars
        => [owner # "scale" /\ owner' = "scale" => cycle.phase = "open" \/ cycle.climbed]_vars
  <2> SUFFICES ASSUME CycleInv, Next, owner # "scale", owner' = "scale"
               PROVE  cycle.phase = "open" \/ cycle.climbed
    OBVIOUS
  <2>1. ASSUME Ordinary PROVE cycle.phase = "open"
    BY <2>1 DEF Ordinary, CycleInv, CycleIsOver
  <2>2. ASSUME NEW w \in Weights, ReentryFrame(w), owner' # owner
        PROVE  cycle.phase = "open" \/ cycle.climbed
    <3>1. awaiting /\ ObserveReentry(motion, w).risen
      BY <2>2 DEF ReentryFrame, sessionVars
    <3> QED
      BY <3>1, RisesAreClimbs
  <2>3. ASSUME NEW w \in Weights, OnFrame(w) PROVE Ordinary \/ ReentryFrame(w)
    BY <2>3 DEF OnFrame, IgnoredFrame, BlockedFrame, UnblockingFrame, WaitingFrame, IdleFrame,
                RisingFrame, PlateLostFrame, TimeoutFrame, PromotionFails, SessionFrame,
                EmptyFrame, DepartureFrame, Goes, sessionVars
  <2>4. CASE \E w \in Weights : OnFrame(w)
    BY <2>1, <2>2, <2>3, <2>4
  <2>5. CASE PlateSeen \/ PlateGone \/ Stall \/ Tick \/ Restart
    BY <2>5 DEF PlateSeen, PlateGone, Stall, Tick, Restart, StartedByPlate, Ended,
                EndFailsAsIs, sessionVars
  <2> QED
    BY <2>4, <2>5 DEF Next
<1> QED
  BY CycleInvariance, <1>1, PTL DEF Spec, OneSessionPerCycle

-----------------------------------------------------------------------------
(* Types, in the parts the actions share.                                    *)
SessionTypes ==
  /\ owner \in {"none", "plate", "scale"} /\ fatal \in {"no", "admission", "finalization"}
  /\ rawPeak \in Weights \cup {Unset} /\ snapshot \in Reasons \cup {Unset}
  /\ ended \in Endings \cup {Unset}
  /\ spool \in BOOLEAN /\ laden \in BOOLEAN /\ ownRun \in BOOLEAN

ArmedWhileAwaiting ==
  \/ awaiting = TRUE /\ motion.armed # Unset
  \/ awaiting = FALSE /\ motion.armed = Unset

ScaleTypes ==
  /\ ArmedWhileAwaiting /\ blocked \in BOOLEAN /\ rearmBlocked \in BOOLEAN
  /\ last \in Weights \cup {0} /\ cycle.low \in Weights \cup {0}

LEMMA TypesInParts == CycleInv /\ SessionTypes /\ ScaleTypes => TypeOK
<1> SUFFICES ASSUME CycleInv, SessionTypes, ScaleTypes PROVE TypeOK
  OBVIOUS
<1>1. \A k \in DOMAIN Limits : ages[k] \in (0 .. Limits[k]) \cup {Unset}
  <2> SUFFICES ASSUME NEW k \in Waits PROVE ages[k] \in (0 .. Limits[k]) \cup {Unset}
    BY LimitsOfWaits
  <2>1. /\ ages[k] \in Nat \cup {Unset} /\ Limits[k] \in Nat
        /\ ages[k] # Unset => ages[k] <= Limits[k]
    BY LimitsOfWaits DEF CycleInv, CycleTypes, Fit
  <2> QED
    BY <2>1
<1>2. motion \in Detectors /\ cycle \in Cycles
  BY DEF CycleInv, CycleTypes, CycleRecords, Cycles, ScaleTypes
<1>3. awaiting = (motion.armed # Unset)
  BY DEF ScaleTypes, ArmedWhileAwaiting
<1> QED
  BY <1>1, <1>2, <1>3 DEF TypeOK, SessionTypes, ScaleTypes, ArmedWhileAwaiting

LEMMA InitTypes == Init => SessionTypes /\ ScaleTypes
<1> SUFFICES ASSUME Init PROVE SessionTypes /\ ScaleTypes
  OBVIOUS
<1>1. SessionTypes
  BY DEF Init, SessionTypes
<1>2. Clean.armed = Unset /\ OpenCycle.low = 0
  BY DEF Clean, OpenCycle
<1> QED
  BY <1>1, <1>2 DEF Init, ScaleTypes, ArmedWhileAwaiting

LEMMA EndingTypes ==
  ASSUME SessionTypes, NEW reason \in Reasons, NEW load \in BOOLEAN
  PROVE  /\ Ended(reason, load) => SessionTypes'
         /\ EndFailsAsIs(reason) => SessionTypes'
         /\ EndFails(reason) => /\ fatal' = "finalization" /\ snapshot' \in Reasons
                                /\ UNCHANGED << rawPeak, ended, ownRun >>
<1>1. EndReason(reason) \in Reasons
  BY DEF EndReason, SessionTypes
<1>2. ASSUME Ended(reason, load) PROVE SessionTypes'
  <2>1. ended' \in Endings
    BY <1>1, <1>2 DEF Ended, Endings, SessionTypes
  <2>2. fatal' \in {"no", "admission", "finalization"}
    BY <1>2 DEF Ended, SessionTypes
  <2> QED
    BY <1>2, <2>1, <2>2 DEF Ended, SessionTypes
<1>3. ASSUME EndFails(reason)
      PROVE  /\ fatal' = "finalization" /\ snapshot' \in Reasons
             /\ UNCHANGED << rawPeak, ended, ownRun >>
  BY <1>1, <1>3 DEF EndFails
<1>4. ASSUME EndFailsAsIs(reason) PROVE SessionTypes'
  BY <1>3, <1>4 DEF EndFailsAsIs, SessionTypes
<1> QED
  BY <1>2, <1>3, <1>4

LEMMA SameSessionTypes ==
  ASSUME SessionTypes, \/ UNCHANGED sessionVars \/ AdmissionFails \/ StartedByPlate
                       \/ \E peak \in Weights : StartedByScale(peak)
  PROVE  SessionTypes'
BY DEF SessionTypes, sessionVars, AdmissionFails, StartedByPlate, StartedByScale

LEMMA LowTypes ==
  ASSUME CycleInv, ScaleTypes, NEW w \in Weights
  PROVE  /\ CycleSeen(w).low \in Weights \cup {0} /\ CycleHeld(w).low \in Weights \cup {0}
         /\ OpenCycle.low = 0 /\ LoadedCycle.low = 0 /\ DepartedCycle(w).low = w
<1>1. OpenCycle.low = 0 /\ LoadedCycle.low = 0 /\ DepartedCycle(w).low = w
  BY DEF OpenCycle, LoadedCycle, DepartedCycle
<1>2. CycleSeen(w).low \in Weights \cup {0}
  <2>1. cycle \in CycleRecords /\ cycle.low \in Weights \cup {0}
    BY DEF CycleInv, CycleTypes, ScaleTypes
  <2>2. CycleSeen(w).low \in {0, cycle.low, Least(cycle.low, w)}
    BY <1>1, <2>1 DEF CycleSeen, CycleRecords
  <2> QED
    BY <2>1, <2>2 DEF Least
<1> QED
  BY <1>1, <1>2 DEF CycleHeld

LEMMA OrdinaryTypes ==
  ASSUME CycleInv, SessionTypes, ScaleTypes, NEW w \in Weights,
         \/ IgnoredFrame(w) \/ BlockedFrame(w) \/ IdleFrame(w) \/ RisingFrame(w)
         \/ PlateLostFrame(w) \/ TimeoutFrame(w) \/ PromotionFails(w)
  PROVE  SessionTypes' /\ ScaleTypes'
<1>1. /\ UNCHANGED << motion, blocked, awaiting >> /\ last' = w
      /\ rearmBlocked' \in {rearmBlocked, TRUE}
      /\ cycle' \in {CycleSeen(w), LoadedCycle}
  BY DEF IgnoredFrame, BlockedFrame, IdleFrame, RisingFrame, PlateLostFrame, TimeoutFrame,
         PromotionFails, Seen
<1>2. ScaleTypes'
  BY <1>1, LowTypes DEF ScaleTypes, ArmedWhileAwaiting
<1>3. SessionTypes'
  <2>1. \/ UNCHANGED sessionVars \/ AdmissionFails
        \/ \E peak \in Weights : StartedByScale(peak)
        \/ \E reason \in Reasons : Ended(reason, laden)
    BY DEF IgnoredFrame, BlockedFrame, IdleFrame, RisingFrame, PlateLostFrame, TimeoutFrame,
           PromotionFails, CompletePlateLoss, Reasons
  <2>2. laden \in BOOLEAN
    BY DEF SessionTypes
  <2> QED
    BY <2>1, <2>2, SameSessionTypes, EndingTypes
<1> QED
  BY <1>2, <1>3

LEMMA ReentryTypes ==
  ASSUME CycleInv, SessionTypes, ScaleTypes, NEW w \in Weights,
         UnblockingFrame(w) \/ WaitingFrame(w) \/ ReentryFrame(w)
  PROVE  SessionTypes' /\ ScaleTypes'
<1>1. \/ UNCHANGED sessionVars \/ AdmissionFails
      \/ \E peak \in Weights : StartedByScale(peak)
  BY DEF UnblockingFrame, WaitingFrame, ReentryFrame
<1>2. SessionTypes'
  BY <1>1, SameSessionTypes
<1>3. /\ last' = w /\ rearmBlocked' = rearmBlocked /\ blocked' \in {blocked, FALSE}
      /\ cycle' \in {CycleSeen(w), LoadedCycle}
      /\ \/ awaiting' = awaiting /\ motion' \in {motion, ObserveReentry(motion, w)}
         \/ awaiting' = FALSE /\ motion' = Clean
  BY DEF UnblockingFrame, WaitingFrame, ReentryFrame, ReentryEmpty, Seen
<1>4. ObserveReentry(motion, w).armed = motion.armed /\ Clean.armed = Unset
  BY ReentryIsDetector DEF CycleInv, CycleTypes, Clean
<1>5. ArmedWhileAwaiting'
  BY <1>3, <1>4 DEF ScaleTypes, ArmedWhileAwaiting
<1> QED
  BY <1>2, <1>3, <1>5, LowTypes DEF ScaleTypes

LEMMA SessionFrameTypes ==
  ASSUME CycleInv, SessionTypes, ScaleTypes, NEW w \in Weights,
         SessionFrame(w) \/ EmptyFrame(w)
  PROVE  SessionTypes' /\ ScaleTypes'
<1>1. PICK m \in Watched(w) : motion' = m /\ (SessionFrame(w) => ownRun' = RunSeen(m))
  BY DEF SessionFrame, EmptyFrame
<1>2. /\ UNCHANGED << blocked, awaiting, rearmBlocked >> /\ last' = w
      /\ cycle' \in {CycleSeen(w), CycleHeld(w)}
  BY DEF SessionFrame, EmptyFrame, Seen
<1>3. ScaleTypes'
  <2>1. m.armed = motion.armed
    BY WatchedIsDetector
  <2> QED
    BY <1>1, <1>2, <2>1, LowTypes DEF ScaleTypes, ArmedWhileAwaiting
<1>4. CASE SessionFrame(w)
  <2>1. /\ owner' = Held(w) /\ spool' = (Held(w) = "scale") /\ rawPeak' = PeakSeen(w)
        /\ laden' = (laden \/ Loaded(w)) /\ UNCHANGED << fatal, snapshot, ended >>
        /\ ownRun' = RunSeen(m)
    BY <1>1, <1>4 DEF SessionFrame
  <2>2. Held(w) \in {"none", "plate", "scale"} /\ PeakSeen(w) \in Weights \cup {Unset}
    BY DEF SessionTypes, Held, PeakSeen
  <2>3. spool' \in BOOLEAN /\ laden' \in BOOLEAN /\ ownRun' \in BOOLEAN
    BY <2>1 DEF RunSeen
  <2> QED
    BY <1>3, <2>1, <2>2, <2>3 DEF SessionTypes
<1>5. CASE EmptyFrame(w)
  <2>1. Ended("scale_empty", laden) \/ EndFailsAsIs("scale_empty")
    BY <1>5 DEF EmptyFrame
  <2>2. laden \in BOOLEAN /\ "scale_empty" \in Reasons
    BY DEF SessionTypes, Reasons
  <2> QED
    BY <1>3, <2>1, <2>2, EndingTypes
<1> QED
  BY <1>4, <1>5

LEMMA DepartureTypes ==
  ASSUME CycleInv, SessionTypes, ScaleTypes, NEW w \in Weights, DepartureFrame(w)
  PROVE  SessionTypes' /\ ScaleTypes'
<1> DEFINE load == laden \/ Loaded(w)
<1>1. PICK m \in Watched(w) :
        /\ m.departed /\ ~motion.departed
        /\ \/ /\ Ended("weight_drop_confirmed", load)
              /\ motion' = Armed(m.reference) /\ awaiting' = TRUE
              /\ cycle' = DepartedCycle(w)
           \/ /\ EndFails("weight_drop_confirmed")
              /\ owner' = "scale" /\ spool' = TRUE /\ laden' = load
              /\ motion' = m /\ cycle' = CycleHeld(w) /\ UNCHANGED awaiting
  BY DEF DepartureFrame
<1>2. last' = w /\ UNCHANGED << blocked, rearmBlocked >>
  BY DEF DepartureFrame
<1>3. load \in BOOLEAN /\ "weight_drop_confirmed" \in Reasons
  BY DEF Reasons
<1> HIDE DEF load
<1>4. SessionTypes'
  BY <1>1, <1>3, EndingTypes DEF SessionTypes
<1>5. m.armed = motion.armed /\ m.reference \in Weights /\ Unset \notin Weights
  BY <1>1, WatchedIsDetector, MotionAssumption
<1>6. Armed(m.reference).armed = m.reference
  BY DEF Armed, Clean
<1>7. ArmedWhileAwaiting'
  BY <1>1, <1>5, <1>6 DEF ScaleTypes, ArmedWhileAwaiting
<1> QED
  BY <1>1, <1>2, <1>4, <1>7, LowTypes DEF ScaleTypes

LEMMA OtherTypes ==
  ASSUME CycleInv, SessionTypes, ScaleTypes,
         PlateSeen \/ PlateGone \/ Stall \/ Tick \/ Restart \/ UNCHANGED vars
  PROVE  SessionTypes' /\ ScaleTypes'
<1>1. CASE PlateSeen \/ PlateGone \/ Stall \/ UNCHANGED vars
  <2>1. /\ UNCHANGED << motion, awaiting, last, cycle >>
        /\ blocked' \in {blocked, TRUE} /\ rearmBlocked' \in {rearmBlocked, FALSE}
    BY <1>1 DEF PlateSeen, PlateGone, Stall, vars
  <2>2. ScaleTypes'
    BY <2>1 DEF ScaleTypes, ArmedWhileAwaiting
  <2>3. \/ UNCHANGED sessionVars \/ StartedByPlate
        \/ Ended("scale_reader_stalled", laden) \/ EndFailsAsIs("scale_reader_stalled")
    BY <1>1 DEF PlateSeen, PlateGone, Stall, vars
  <2>4. laden \in BOOLEAN /\ "scale_reader_stalled" \in Reasons
    BY DEF SessionTypes, Reasons
  <2> QED
    BY <2>2, <2>3, <2>4, SameSessionTypes, EndingTypes
<1>2. CASE Tick
  <2>1. /\ UNCHANGED << sessionVars, blocked, awaiting, rearmBlocked, last, cycle >>
        /\ motion' = Aged(motion) /\ Aged(motion).armed = motion.armed
    BY <1>2 DEF Tick, Aged, CycleInv, CycleTypes, Detectors
  <2> QED
    BY <2>1, SameSessionTypes DEF ScaleTypes, ArmedWhileAwaiting
<1>3. CASE Restart
  <2>1. ScaleTypes'
    BY <1>3 DEF Restart, ScaleTypes, ArmedWhileAwaiting, Clean, OpenCycle
  <2>2. ended' \in Endings \cup {Unset}
    <3>1. EndReason("shutdown") \in Reasons
      BY DEF EndReason, SessionTypes, Reasons
    <3>2. CASE Shutdown
      BY <3>1, <3>2 DEF Shutdown, Endings, SessionTypes
    <3>3. CASE UNCHANGED ended
      BY <3>3 DEF SessionTypes
    <3> QED
      BY <1>3, <3>2, <3>3 DEF Restart
  <2> QED
    BY <1>3, <2>1, <2>2 DEF Restart, SessionTypes
<1> QED
  BY <1>1, <1>2, <1>3

(* Every variable has its type, no wait outlives its limit, and the detector *)
(* is armed exactly while a renewed rise is waited for: observe_reentry      *)
(* never raises for want of a reference.                                     *)
THEOREM LifecycleTypes == Spec => []TypeOK
<1>1. /\ Init => SessionTypes /\ ScaleTypes
      /\ CycleInv /\ SessionTypes /\ ScaleTypes /\ [Next]_vars => SessionTypes' /\ ScaleTypes'
  BY InitTypes, OrdinaryTypes, ReentryTypes, SessionFrameTypes, DepartureTypes, OtherTypes
     DEF Next, OnFrame
<1>2. Spec => [](SessionTypes /\ ScaleTypes)
  BY CycleInvariance, <1>1, PTL DEF Spec
<1> QED
  BY CycleInvariance, <1>2, TypesInParts, PTL
=============================================================================
