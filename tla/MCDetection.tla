----------------------------- MODULE MCDetection -----------------------------
(***************************************************************************)
(* Two cameras, and the smallest waits that have a before and an after.    *)
(***************************************************************************)
EXTENDS PlateDetection, TLC

CONSTANTS cam1, cam3

TwoCameras == {cam1, cam3}
=============================================================================
