----------------------------- MODULE WeightMotion -----------------------------
(***************************************************************************)
(* services/session/weight_motion.py: the detector of departures and of    *)
(* renewed rises.  The detector is a value, and an observation an operator *)
(* that gives the detector after it.  Times are kept as ages, which the    *)
(* clock advances (Aged) as far as they are ever compared with; the        *)
(* samples kept to seed a session are left out.                            *)
(***************************************************************************)
EXTENDS Integers, Sequences, FiniteSets

CONSTANTS
  Weights,       \* the readings of the scale
  Unset,         \* Python's None
  FilterFrames,  \* SESSION_MOTION_FILTER_FRAMES
  DropMin,       \* SESSION_DROP_MIN_KG
  DropRatio,     \* SESSION_DROP_RATIO, in percent
  DropReadings,  \* SESSION_DROP_MIN_READINGS
  DropDwell,     \* SESSION_DROP_DWELL_SECONDS, in ticks
  RiseMin,       \* SESSION_RISE_MIN_KG
  RiseRatio,     \* SESSION_RISE_RATIO, in percent
  RiseDwell      \* SESSION_RISE_DWELL_SECONDS, in ticks

ASSUME MotionAssumption ==
  /\ Weights \subseteq Nat /\ Unset \notin Nat
  /\ {FilterFrames, DropReadings, RiseMin, RiseDwell} \subseteq Nat \ {0}
  /\ {DropMin, DropRatio, DropDwell, RiseRatio} \subseteq Nat

Least(a, b) == IF a <= b THEN a ELSE b
Greatest(a, b) == IF a >= b THEN a ELSE b

(* statistics.median, doubled: the two readings in the middle, which are   *)
(* one when there is an odd number of them.                                *)
Ranked(q, k) ==
  CHOOSE v \in { q[i] : i \in DOMAIN q } :
    /\ Cardinality({ i \in DOMAIN q : q[i] < v }) < k
    /\ Cardinality({ i \in DOMAIN q : q[i] <= v }) >= k

Median2(q) == Ranked(q, (Len(q) + 1) \div 2) + Ranked(q, (Len(q) + 2) \div 2)

(* deque(maxlen = FilterFrames) *)
Pushed(q, w) == Append(IF Len(q) < FilterFrames THEN q ELSE Tail(q), w)

(* Twice the thresholds, in hundredths. *)
Drop2(reference) == 2 * Greatest(100 * DropMin, DropRatio * reference)
Rise2(reference) == 2 * Greatest(100 * RiseMin, RiseRatio * reference)

(* reset, start_visit *)
Clean == [ filter |-> << >>,
           reference |-> Unset, readings |-> 0, dropAge |-> 0, departed |-> FALSE,
           armed |-> Unset, trough2 |-> Unset, rising |-> FALSE, riseAge |-> 0, risen |-> FALSE ]

Armed(previous) == [Clean EXCEPT !.armed = previous]

Aged(m) ==
  [m EXCEPT !.dropAge = IF m.readings = 0 THEN 0 ELSE Least(@ + 1, DropDwell),
            !.riseAge = IF ~m.rising THEN 0 ELSE Least(@ + 1, RiseDwell)]

(* observe_loaded: a departure is decided once, on DropReadings medians in  *)
(* a row that are a drop below the reference the first of them found.      *)
ObserveLoaded(m, w, reference) ==
  LET seen == [m EXCEPT !.filter = Pushed(@, w)]
      frozen == IF m.reference = Unset THEN reference ELSE m.reference
      count == Least(m.readings + 1, DropReadings)
  IN  IF m.departed \/ reference = Unset
        THEN seen
      ELSE IF 100 * Median2(seen.filter) <= 200 * frozen - Drop2(frozen)
        THEN [seen EXCEPT !.reference = frozen, !.readings = count,
                          !.departed = count = DropReadings /\ m.dropAge = DropDwell]
      ELSE [seen EXCEPT !.reference = Unset, !.readings = 0, !.dropAge = 0]

(* observe_reentry: a rise is decided once, when the median has stayed a    *)
(* rise above the lowest one; a new low, or a lower median, starts again.  *)
ObserveReentry(m, w) ==
  LET seen == [m EXCEPT !.filter = Pushed(@, w)]
      level2 == Median2(seen.filter)
  IN  IF m.trough2 = Unset \/ level2 < m.trough2
        THEN [seen EXCEPT !.trough2 = level2, !.rising = FALSE, !.riseAge = 0]
      ELSE IF 100 * level2 >= 100 * m.trough2 + Rise2(m.armed)
        THEN [seen EXCEPT !.rising = TRUE,
                          !.risen = m.risen \/ (m.riseAge = RiseDwell)]
      ELSE [seen EXCEPT !.rising = FALSE, !.riseAge = 0]

Detectors ==
  [ filter : Seq(Weights),
    reference : Weights \cup {Unset}, readings : 0 .. DropReadings, dropAge : 0 .. DropDwell,
    departed : BOOLEAN,
    armed : Weights \cup {Unset}, trough2 : Nat \cup {Unset}, rising : BOOLEAN,
    riseAge : 0 .. RiseDwell, risen : BOOLEAN ]
=============================================================================
