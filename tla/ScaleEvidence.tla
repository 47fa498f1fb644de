----------------------------- MODULE ScaleEvidence -----------------------------
(***************************************************************************)
(* services/scale/evidence.py and what scripts/recover_missed_session.py   *)
(* asks of it: what the databases of the scale prove about a session that  *)
(* was given no weight.                                                    *)
(*                                                                         *)
(* A log has at most one reading at each tick.  A missing database is a    *)
(* log without the readings of its day, which proves nothing either.       *)
(***************************************************************************)
EXTENDS Integers, FiniteSets, FiniteSetsExt

CONSTANTS
  Ticks,
  NoReading,     \* nothing was logged at a tick
  Threshold,     \* WEIGHT_THRESHOLD
  EmptyDwell,    \* SESSION_END_EMPTY_DWELL_SECONDS, in ticks
  Before, After  \* the margins of a session that are looked at

ASSUME EvidenceAssumption ==
  /\ Ticks \subseteq Nat /\ IsFiniteSet(Ticks)
  /\ {Threshold, EmptyDwell, Before, After} \subseteq Nat

(* Definitions marked "mutant" are wrong on purpose; nothing uses them.     *)

-----------------------------------------------------------------------------
(* rows_between: the ticks of an interval with a reading.  Rows with a wrong *)
(* checksum, or none at all, are refused.                                    *)
Rows(log, lo, hi) == { t \in Ticks : lo <= t /\ t <= hi /\ log[t] # NoReading }
Loaded(log, rows) == { t \in rows : log[t].weight > Threshold }
Sound(log, rows) == rows # {} /\ \A t \in rows : log[t].ok

-----------------------------------------------------------------------------
(* group_loaded_cycles: rows are in different cycles when between two loaded *)
(* ones that follow each other the scale was empty, and the dwell went by.   *)
Parted(log, rows, p, q) ==
  \E x, y \in Loaded(log, rows) :
    /\ p <= x /\ x < y /\ y <= q /\ y - x >= EmptyDwell
    /\ \A t \in Loaded(log, rows) : ~(x < t /\ t < y)
    /\ \E t \in rows : x < t /\ t < y

CycleOf(log, rows, p) ==
  { q \in Loaded(log, rows) : ~Parted(log, rows, p, q) /\ ~Parted(log, rows, q, p) }
Cycles(log, rows) == { CycleOf(log, rows, p) : p \in Loaded(log, rows) }

(* select_loaded_stable: the most frequent, of those that tie the newest.    *)
StableIn(log, rows) == { t \in Loaded(log, rows) : log[t].stable }
SelectedWeight(log, rows) ==
  LET stable == StableIn(log, rows)
      Count(t) == Cardinality({ u \in stable : log[u].weight = log[t].weight })
      selected == CHOOSE t \in stable : \A u \in stable :
                    Count(t) > Count(u) \/ (Count(t) = Count(u) /\ t >= u)
  IN  log[selected].weight

-----------------------------------------------------------------------------
Interval(log, s) == Rows(log, s.start, s.end)
Look(log, s) == Rows(log, s.start - Before, s.end + After)
Overlapping(log, s) ==
  { c \in Cycles(log, Look(log, s)) : c \cap Interval(log, s) # {} }

(* mutant: a load again before the session ends is not looked for.           *)
ConfirmedBefore(log, s, c) ==
  \E first \in c : (\A q \in c : first <= q) /\ \E t \in Look(log, s) : t < first

(* _confirmed_cycle_boundaries: the scale was empty right before the cycle,  *)
(* long enough after the load before it, and from its last loaded row to     *)
(* the end of the session, for the dwell.                                    *)
EmptyBefore(log, s, first) ==
  LET before == { t \in Look(log, s) : t < first }
      prior == Loaded(log, before)
  IN  /\ \E t \in before \ prior : \A u \in before : u <= t
      /\ \A p \in prior : first - p >= EmptyDwell

EmptyAfter(log, s, last) ==
  LET after == { t \in Look(log, s) : last < t /\ t <= s.end }
  IN  after # {} /\ Loaded(log, after) = {} /\ s.end - last >= EmptyDwell

Confirmed(log, s, c) ==
  \E first, last \in c :
    /\ \A q \in c : first <= q /\ q <= last
    /\ EmptyBefore(log, s, first) /\ EmptyAfter(log, s, last)

(* _scale_evidence: the load that was on the scale in the session, and       *)
(* whether the log proves it to be the only one.                             *)
LoadOf(log, s) == UNION Overlapping(log, s)
Peak(log, s) == Max({ log[t].weight : t \in Loaded(log, Interval(log, s)) })

Proves(log, s) ==
  /\ Sound(log, Look(log, s)) /\ Interval(log, s) # {}
  /\ StableIn(log, Interval(log, s)) # {}
  /\ \E c \in Overlapping(log, s) : Overlapping(log, s) = {c} /\ Confirmed(log, s, c)
=============================================================================
