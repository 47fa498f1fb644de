---------------------------- MODULE StartAdmission ----------------------------
(***************************************************************************)
(* services/session/session_manager.py: what a frame of the scale does to  *)
(* the weight of a session and, while there is none, to the attempt to     *)
(* weigh, which ends in a session or in evidence without a stable weight.  *)
(* Each frame is judged by the reader (ScaleStability) and then handled.   *)
(*                                                                         *)
(*   _attempt and the times of its waits          attempt                  *)
(*   _attempt_rearm_low                           rearmLow                 *)
(*   _attempt_wait_reference, _post_session_low   waiting                  *)
(*   rearm_block_until, rearm_reference_weight    guard                    *)
(*   weight_trend_window                          trend                    *)
(*   WeighingSessionState                         visit (VisitWeight)      *)
(*                                                                         *)
(* What ends a session, and which frames it waits through before the next, *)
(* is SessionLifecycle's; here a session may end at any frame, and a frame *)
(* may pass by.  The trend of a session's frames decides nothing.          *)
(***************************************************************************)
EXTENDS VisitWeight

CONSTANTS
  OverloadReading,  \* what the digits of an overload read as: the largest weight
  DepartureKg,   \* SESSION_WEIGHT_DEPARTURE_KG
  Dwell,         \* the departure and empty dwells and the rearm delay, in ticks
  TrendFrames, DirectionalSteps,  \* SESSION_WEIGHT_TREND_FRAMES, ..._DIRECTIONAL_STEPS
  MaxSamples,    \* samples of a rise after a departure (a bound, for TLC)
  MaxFrames      \* frames of a session and its rise (a bound, for TLC)

ASSUME AdmissionAssumption ==
  /\ {DepartureKg, OverloadReading, MaxFrames} \subseteq Nat
  /\ {Dwell, TrendFrames, DirectionalSteps, MaxSamples} \subseteq Nat \ {0}

VARIABLES
  active, visit,
  attempt,    \* NoAttempt, or its maximum and its waits
  rearmLow, waiting, guard, trend,
  frames,     \* of the session and its rise, for the bound
  shown,      \* history: the weights of the session, its rise, and what was loaded in the
              \* reader's window when it began
  emptied,    \* history: the scale was empty since the guard was set
  refused     \* history: a rise was turned away that was not to be

idleVars == << attempt, rearmLow, waiting, guard >>
vars == << feed, active, visit, idleVars, trend, frames, shown, emptied, refused >>

NoAttempt == [max |-> Unset, departed |-> Unset, empty |-> Unset]
NotWaiting == [reference |-> Unset, low |-> Unset]
NoGuard == [reference |-> Unset, age |-> Unset]
Idle == [attempt |-> attempt, rearmLow |-> rearmLow, waiting |-> waiting, guard |-> guard]
Lesser(a, b) == IF a < b THEN a ELSE b
Running(age) == age # Unset /\ age < Dwell
Began(age) == IF age = Unset THEN 0 ELSE age

-----------------------------------------------------------------------------
(* Attempts (_update_attempt).  i is the idle state before it.               *)

(* _archive_no_stable of an attempt that departed: the departing weight is   *)
(* the one that must be left, or risen from.                                 *)
Departed(i, w) ==
  [i EXCEPT !.attempt = NoAttempt, !.rearmLow = w,
            !.waiting = [@ EXCEPT !.reference = w], !.guard = [reference |-> w, age |-> 0]]

Followed(i, a, w) ==
  IF ~Loaded(w)
    THEN LET e == [a EXCEPT !.empty = Began(@)]
         IN  [i EXCEPT !.attempt = IF e.empty = Dwell THEN NoAttempt ELSE e]
  ELSE IF a.max - w >= DepartureKg
    THEN LET d == [a EXCEPT !.empty = Unset, !.departed = Began(@)]
         IN  IF d.departed = Dwell THEN Departed(i, w) ELSE [i EXCEPT !.attempt = d]
  ELSE [i EXCEPT !.attempt = [a EXCEPT !.empty = Unset, !.departed = Unset]]

(* After a departure an attempt begins only on a rise, a stable reading, or  *)
(* an empty scale.                                                           *)
HeldLow(i, w, chained) ==
  /\ i.rearmLow # Unset /\ Loaded(w) /\ ~chained
  /\ w - Lesser(i.rearmLow, w) < DepartureKg

Attempted(i, w, chained) ==
  IF HeldLow(i, w, chained) THEN [i EXCEPT !.rearmLow = Lesser(@, w)]
  ELSE LET j == [i EXCEPT !.rearmLow = Unset]
       IN  IF j.attempt = NoAttempt /\ ~Loaded(w) THEN j
           ELSE Followed(j, [j.attempt EXCEPT !.max = Larger(@, w)], w)

(* _on_frame_locked without a session: on a stable reading, and otherwise.   *)
BlockedTail(s) ==
  /\ waiting # NotWaiting /\ waiting.reference # Unset
  /\ Running(guard.age) \/ Larger(s - waiting.reference, waiting.reference - s) < DepartureKg

Low(w) == Lesser(IF waiting.low = Unset THEN waiting.reference ELSE waiting.low, w)
StillDeparting(w) ==
  /\ waiting.reference # Unset /\ Loaded(w)
  /\ Larger(w - waiting.reference, w - Low(w)) < DepartureKg

AfterFrame(w, r) ==
  IF r.status = "stable"
    THEN IF BlockedTail(r.stable) THEN Idle ELSE Attempted(Idle, w, TRUE)
  ELSE IF StillDeparting(w) THEN [Idle EXCEPT !.waiting.low = Low(w)]
  ELSE Attempted([Idle EXCEPT !.waiting = IF waiting.reference = Unset THEN @ ELSE NotWaiting],
                 w, FALSE)

-----------------------------------------------------------------------------
(* The trend (_check_weight_trend, _can_start_session).                      *)
Trended(w) == IF Loaded(w) THEN Window(trend, w, TrendFrames) ELSE << >>

Rising(t) ==
  /\ Len(t) = TrendFrames /\ t[TrendFrames] - t[1] >= DepartureKg
  /\ Cardinality({ n \in 2 .. TrendFrames : t[n] > t[n - 1] }) >= DirectionalSteps

(* With a guard whose delay is over the last stable reading must be away     *)
(* from its reference; without one the comparison raises, and the frame ends. *)
MayStart(g, stable) ==
  \/ g.age = Unset
  \/ /\ g.age = Dwell /\ stable # Unset
     /\ Larger(stable - g.reference, g.reference - stable) >= DepartureKg

SetIdle(i) ==
  attempt' = i.attempt /\ rearmLow' = i.rearmLow /\ waiting' = i.waiting /\ guard' = i.guard

(* mutant: the weight that was waited to be left is kept.                    *)
StartedWaiting(i) == SetIdle([i EXCEPT !.attempt = NoAttempt, !.guard = NoGuard])

Started(i) ==
  SetIdle([i EXCEPT !.attempt = NoAttempt, !.waiting = NotWaiting, !.guard = NoGuard])

LoadedIn(recent) == { w \in ToSet(recent) : Loaded(w) }

Begin(rise, v) ==
  /\ active' = TRUE /\ visit' = v /\ trend' = << >>
  /\ frames' = Len(rise) /\ shown' = ToSet(rise) \cup LoadedIn(feed'.recent)
  /\ emptied' = FALSE /\ UNCHANGED refused

(* on_status_change: the scale became stable, and is empty.                  *)
BecameEmpty(w, r) == r.status = "stable" /\ StatusOf(feed).status # "stable" /\ ~Loaded(w)
IdleStable(w, r) ==
  IF BecameEmpty(w, r) THEN w ELSE IF r.status = "stable" THEN r.stable ELSE visit.stable

(* A frame without a session.                                                *)
IdleFrame(w, r) ==
  LET next == AfterFrame(w, r)
      stable == IF r.status = "stable" THEN r.stable ELSE visit.stable
      rise == Trended(w)
      unseen == r.status # "stable" /\ StillDeparting(w)
      risen == ~unseen /\ Rising(rise)
  IN  \/ /\ risen /\ MayStart(next.guard, stable)
         /\ Started(next) /\ Begin(rise, StartOnRise(visit, rise))
      \/ /\ ~(risen /\ MayStart(next.guard, stable))
         /\ SetIdle(next) /\ visit' = [visit EXCEPT !.stable = IdleStable(w, r)]
         /\ trend' = IF unseen THEN trend ELSE rise
         /\ emptied' = (next.guard # NoGuard /\ next.guard = guard /\ (emptied \/ ~Loaded(w)))
         /\ refused' = (refused \/ (risen /\ emptied /\ guard.age = Dwell))
         /\ UNCHANGED << active, frames, shown >>

(* A frame of a session.                                                     *)
SessionFrame(w, r, long) ==
  LET seen == Observe(visit, w, long)
  IN  /\ frames < MaxFrames /\ frames' = frames + 1
      /\ visit' = IF r.status = "stable" THEN Record(seen, r.stable) ELSE CloseEpisode(seen)
      /\ shown' = IF w > 0 THEN shown \cup {w} ELSE shown
      /\ UNCHANGED << active, idleVars, trend, emptied, refused >>

(* An overload ends the reader's history, and is handed on as any weight.    *)
Received(w) == IF w = OverloadReading THEN NoFeed ELSE Weighed(feed, w)

(* Whether a row of medians is long enough in time is given.                 *)
Frame(w) ==
  /\ feed' = Received(w)
  /\ \/ ~active /\ IdleFrame(w, StatusOf(feed'))
     \/ active /\ \E long \in BOOLEAN : SessionFrame(w, StatusOf(feed'), long)

(* A frame that the lifecycle keeps for itself while it waits.               *)
PassingFrame(w) ==
  /\ ~active /\ feed' = Received(w)
  /\ visit' = IF BecameEmpty(w, StatusOf(feed')) THEN [visit EXCEPT !.stable = w] ELSE visit
  /\ UNCHANGED << active, idleVars, trend, frames, shown, emptied, refused >>

(* The frame that ends the wait after a stall (_wait_for_empty_cycle) finds   *)
(* the scale empty, clears what holds back a start, and is then handled.     *)
Rearmed == [Idle EXCEPT !.waiting = NotWaiting, !.guard = NoGuard]
RearmingFrame(w) ==
  /\ ~active /\ ~Loaded(w) /\ feed' = Received(w)
  /\ SetIdle(Attempted(Rearmed, w, StatusOf(feed').status = "stable"))
  /\ visit' = [visit EXCEPT !.stable = IdleStable(w, StatusOf(feed'))]
  /\ trend' = << >> /\ emptied' = FALSE
  /\ UNCHANGED << active, frames, shown, refused >>

(* The visit when the samples of a rise were recorded, one after the other.  *)
RecordedAll(v, samples) ==
  LET after[n \in 0 .. Len(samples)] ==
        IF n = 0 THEN v ELSE Record(after[n - 1], samples[n])
  IN  after[Len(samples)]

(* A rise after a departure, of which the frames passed by: its samples count *)
(* as stable readings.  Nothing is held back when a session has ended.       *)
StartAfterDeparture(samples) ==
  /\ ~active /\ attempt = NoAttempt /\ waiting = NotWaiting /\ guard = NoGuard
  /\ feed' = Received(Last(samples))
  /\ Started(Idle)
  /\ Begin(samples, RecordedAll(StartOnRise(visit, samples), samples))

(* A plate starts a session: it inherits no weight.                          *)
StartByPlate ==
  /\ ~active /\ active' = TRUE /\ visit' = NoVisit /\ trend' = << >>
  /\ Started(Idle)
  /\ frames' = 0 /\ shown' = LoadedIn(feed.recent) /\ emptied' = FALSE
  /\ UNCHANGED << feed, refused >>

(* _end_session, of an empty scale and otherwise.                            *)
End(stable) ==
  /\ active /\ active' = FALSE /\ visit' = [NoVisit EXCEPT !.stable = stable]
  /\ trend' = << >> /\ frames' = 0 /\ shown' = {}
  /\ UNCHANGED << feed, idleVars, emptied, refused >>

(* A connection of the reader, or a wrong checksum.                          *)
Gap == feed' = NoFeed /\ feed # NoFeed
       /\ UNCHANGED << active, visit, idleVars, trend, frames, shown, emptied, refused >>

Older(age) == IF age = Unset \/ age = Dwell THEN age ELSE age + 1
Tick ==
  /\ attempt' = [attempt EXCEPT !.departed = Older(@), !.empty = Older(@)]
  /\ guard' = [guard EXCEPT !.age = Older(@)]
  /\ UNCHANGED << feed, active, visit, rearmLow, waiting, trend, frames, shown, emptied, refused >>

-----------------------------------------------------------------------------
Init ==
  /\ feed = NoFeed /\ active = FALSE /\ visit = NoVisit
  /\ attempt = NoAttempt /\ rearmLow = Unset /\ waiting = NotWaiting /\ guard = NoGuard
  /\ trend = << >> /\ frames = 0 /\ shown = {} /\ emptied = FALSE /\ refused = FALSE

Samples ==
  LET loaded == { w \in Weights \cup {OverloadReading} : Loaded(w) }
  IN  UNION { [1 .. n -> loaded] : n \in 1 .. MaxSamples }

Next ==
  \/ \E w \in Weights \cup {OverloadReading} : Frame(w)
  \/ \E w \in Weights \cup {OverloadReading} : PassingFrame(w) \/ RearmingFrame(w)
  \/ \E samples \in Samples : StartAfterDeparture(samples)
  \/ StartByPlate
  \/ \E stable \in {Unset} \cup { w \in Weights : ~Loaded(w) } : End(stable)
  \/ Gap \/ Tick

Spec == Init /\ [][Next]_vars

-----------------------------------------------------------------------------
(* The weight a session would be given now was shown by the scale in this    *)
(* visit, or was still in the window the reader judged when it began: none    *)
(* is left from the vehicle before (_start_session).                         *)
AssignedWasShown == active => Assigned(visit).weight \in shown \cup {Unset}

(* A lower plateau, however long, never takes the place of one that is kept: *)
(* while a plateau is kept the stable weight goes nowhere below its band     *)
(* (_publish_selection; docs/architecture.md, "Weight selection").           *)
PlateauIsKept ==
  [][active /\ active' /\ visit.retained # Unset =>
       \/ visit'.stable = visit.stable
       \/ visit'.stable >= visit.retained - Band]_vars

(* What holds back a start is set and cleared together: a session runs with  *)
(* no attempt and nothing held, and the weight of a departure is waited for  *)
(* only under its guard.                                                     *)
HoldsAgree ==
  /\ active => attempt = NoAttempt /\ waiting = NotWaiting /\ guard = NoGuard
  /\ waiting.reference # Unset => guard # NoGuard

(* Once the weight of an unstable attempt has departed and the delay is over *)
(* the guard is gone: the next vehicle's rise starts a session.              *)
GuardDisarms == ~refused
=============================================================================
