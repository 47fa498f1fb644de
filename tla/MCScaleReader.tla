---------------------------- MODULE MCScaleReader ----------------------------
(* Two weights within the tolerance and one outside.                         *)
EXTENDS ScaleReader, TLC

ThreeWeights == {0, 10, 40}
=============================================================================
