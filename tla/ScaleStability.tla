---------------------------- MODULE ScaleStability ----------------------------
(***************************************************************************)
(* When a reading of the scale counts as stable (D2008Reader._get_status   *)
(* and _handle_frame, d2008_scale_reader.py): the last few in a row are    *)
(* equal, or the whole window lies within a tolerance.                     *)
(*                                                                         *)
(*   _recent_weights                      feed.recent                      *)
(*   _same_weight, _same_weight_count     feed.same, feed.count            *)
(*                                                                         *)
(* The count goes no further than the number that is asked of it.          *)
(***************************************************************************)
EXTENDS Integers, Sequences, FiniteSets, SequencesExt

CONSTANTS
  Weights,       \* what the scale may show
  StableCount,   \* readings in the window
  ExactCount,    \* equal readings in a row that are enough
  Tolerance      \* the spread of a stable window

ASSUME StabilityAssumption ==
  /\ Weights \subseteq Nat
  /\ {StableCount, ExactCount} \subseteq Nat \ {0}
  /\ Tolerance \in Nat

VARIABLE feed    \* what the reader remembers of the readings

Unset == -1
Overload == -2     \* the digits 999999
Corrupt == -3      \* a frame with a wrong checksum

(* The last n elements of a sequence with one more, as in a bounded deque.  *)
Slide(s, e, n) == LET t == Append(s, e) IN SubSeq(t, Len(t) - n + 1, Len(t))
Window(s, e, n) == IF Len(s) < n THEN Append(s, e) ELSE Slide(s, e, n)

Least(S) == CHOOSE x \in S : \A y \in S : x <= y
Greatest(S) == CHOOSE x \in S : \A y \in S : x >= y
Spread(s) == Greatest(ToSet(s)) - Least(ToSet(s))

(* The most frequent element, the newest one of those that tie.             *)
Occurrences(s, e) == Cardinality({ i \in DOMAIN s : s[i] = e })
Frequent(s) ==
  { i \in DOMAIN s : \A j \in DOMAIN s : Occurrences(s, s[i]) >= Occurrences(s, s[j]) }
ModeNewest(s) == s[Greatest(Frequent(s))]

NoFeed == [recent |-> << >>, same |-> Unset, count |-> 0]

Weighed(f, w) ==
  [ recent |-> Window(f.recent, w, StableCount), same |-> w,
    count |-> IF w # f.same THEN 1
              ELSE IF f.count < ExactCount THEN f.count + 1 ELSE ExactCount ]

(* The status of the newest reading, and its stable weight.                 *)
StatusOf(f) ==
  IF f.count >= ExactCount THEN [status |-> "stable", stable |-> f.same]
  ELSE IF Len(f.recent) = StableCount /\ Spread(f.recent) <= Tolerance
    THEN [status |-> "stable", stable |-> ModeNewest(f.recent)]
  ELSE [status |-> "unstable", stable |-> Unset]
=============================================================================
