---------------------------- MODULE MCPublication ----------------------------
(* DeferredPublication for TLC. *)
EXTENDS DeferredPublication, TLC

CONSTANTS s1, s2, w1, w2

TwoSessions == {s1, s2}
OneWorker == {w1}
TwoWorkers == {w1, w2}
NoSession == {}
SessionsAlike == Permutations(TwoSessions)
LastSession == {s2}

(* Faults by what they disturb. *)
ReadableLedger == AllFaultKinds \ {"ledgerRead", "spoolMove"}

(* The faults that suffice to break PublishedNotDeadLettered,              *)
(* FinalizedIsPersisted and RecordMatchesEvent.                            *)
LedgerFaults == {"crash", "ledgerWrite"}
WriteFaults == {"crash", "outboxWrite"}
FinalizeFaults == {"finalizeWrite"}
=============================================================================
