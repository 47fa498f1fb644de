---------------------------- MODULE MCFrameSpool ----------------------------
(* Two sessions and the one worker of the deployment                       *)
(* (LPR_DEFERRED_WORKER_COUNT), with room for one notification.            *)
EXTENDS SessionFrameSpool

CONSTANTS s1, s2, w1

TwoSessions == {s1, s2}
OneWorker == {w1}
=============================================================================
