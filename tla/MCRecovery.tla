------------------------------ MODULE MCRecovery ------------------------------
(***************************************************************************)
(* A case with an image and a session of the service after it.  The load   *)
(* of the case is read at ticks 3 and 4; the scale is empty after it or    *)
(* not, a row may be corrupt, and the next vehicle comes at tick 7, at     *)
(* tick 8 or never.  Of these logs the ones that prove the case are tried, *)
(* and one that does not: its script ends with the plan, as any other's.   *)
(***************************************************************************)
EXTENDS MissedSessionRecovery, TLC

CONSTANTS missed, live

TwoEvents == {missed, live}
OneCase == {missed}
Audited == missed :> [weight |-> 500, peak |-> 700]
Spans == missed :> [start |-> 2, end |-> 6] @@ live :> [start |-> 7, end |-> 9]
NineTicks == 1 .. 9

Row(w, stable, ok) == [weight |-> w, stable |-> stable, ok |-> ok]
Empty == Row(0, TRUE, TRUE)
Full == Row(500, TRUE, TRUE)
Corrupt == Row(0, TRUE, FALSE)

Candidates ==
  { << NoReading, Empty, Full, Row(700, FALSE, TRUE), fifth, sixth >> \o next :
      fifth \in {Empty, Full}, sixth \in {Empty, Full, Corrupt},
      next \in { << Full, Empty, Empty >>, << Empty, Full, Empty >>, << Empty, Empty, Empty >> } }

ProvingLogs ==
  { l \in Candidates :
      /\ Proves(l, Spans[missed])
      /\ SelectedWeight(l, Interval(l, Spans[missed])) = 500
      /\ Peak(l, Spans[missed]) = 700 } \cup {[t \in Ticks |-> NoReading]}
=============================================================================
