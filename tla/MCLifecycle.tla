----------------------------- MODULE MCLifecycle -----------------------------
(***************************************************************************)
(* A small scale for TLC: empty, a residue, a light and a heavy vehicle,   *)
(* with the thresholds between them and every dwell a tick or two.         *)
(***************************************************************************)
EXTENDS SessionLifecycle

FourWeights == {0, 1, 10, 40}
=============================================================================
