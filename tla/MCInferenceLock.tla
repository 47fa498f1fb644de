--------------------------- MODULE MCInferenceLock ---------------------------
(* One camera: its detect and OCR threads, and the deferred worker(s). *)
EXTENDS PriorityInferenceLock
=============================================================================
