------------------------------ MODULE MCImages ------------------------------
(***************************************************************************)
(* Two images, one of them saved again, and a queue for one task, so that  *)
(* a full queue is met.                                                    *)
(***************************************************************************)
EXTENDS ImageUpload, TLC

CONSTANTS front, rear

TwoImages == {front, rear}
Saves == front :> 2 @@ rear :> 1
=============================================================================
