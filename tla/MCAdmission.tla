----------------------------- MODULE MCAdmission -----------------------------
(* An empty scale, a residue, a light load, and two loads within a band of   *)
(* each other.                                                               *)
EXTENDS StartAdmission

FiveWeights == {0, 50, 300, 1000, 1010}
=============================================================================
