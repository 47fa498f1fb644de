----------------------------- MODULE MCRetention -----------------------------
(***************************************************************************)
(* One day with the evidence of two sessions, either of which may be       *)
(* finalized at any time later.                                            *)
(***************************************************************************)
EXTENDS RetentionCleaners, TLC

CONSTANTS monday, s1, s2

OneDay == {monday}
TwoSessions == {s1, s2}
BothMonday == s1 :> monday @@ s2 :> monday
=============================================================================
