------------------------- MODULE MissedSessionRecovery -------------------------
(***************************************************************************)
(* scripts/recover_missed_session.py: an operator has the event of a       *)
(* session that was given no weight put into the file of the outbox, for   *)
(* the service to send.  The script plans, looks whether the service runs, *)
(* copies and uploads the image, and rewrites the file; the service, when  *)
(* it is up, rewrites the same file from its memory (PublishOutbox).       *)
(*                                                                         *)
(*   .scale_data.lock                held while the reader of the scale is  *)
(*                                   open: service = "up"                   *)
(*   publish_pending.jsonl           disk                                   *)
(*   recovery-audit.jsonl            audits                                 *)
(*                                                                         *)
(* What the case, the terminal record and the log say of a session never   *)
(* changes, so that its payload is always the same.  Events that are not   *)
(* cases are those of the service's own sessions.                          *)
(***************************************************************************)
EXTENDS PublishOutbox, ScaleEvidence

CONSTANTS
  Cases,      \* RECOVERY_CASES of this host
  Case,       \* the weight and the peak they were audited with
  Imageless,  \* those without an image
  Span,       \* the start and the end of each session
  Logs,       \* what the databases may hold
  Attended,   \* the operator does one thing after the other
  MaxRuns     \* runs of the script (a bound, for TLC)

ASSUME RecoveryAssumption ==
  /\ Cases \subseteq Events /\ Imageless \subseteq Cases /\ Attended \in BOOLEAN
  /\ Case \in [Cases -> [weight : Nat, peak : Nat]]
  /\ Span \in [Events -> [start : Nat, end : Nat]]
  /\ MaxRuns \in Nat

VARIABLES
  service,   \* "off", "up", or "closing": its reader is closed, its outbox is not
  script,    \* its step and its session, what its plan saw, and what it read
  runs,
  log,       \* the readings of the scale
  sources,   \* the cases whose diagnostic image has not been archived
  copies, stored,  \* the cases with a local copy, and an object in the store
  audits,    \* the cases the audit file has as staged
  promised   \* history: events of the service that were activated

evidence == << log, sources, copies, stored, audits >>
recoveryVars == << outboxVars, faults, service, script, runs, evidence, promised >>

NoScript == [at |-> "idle", event |-> None, seen |-> FALSE, file |-> << >>]
Working(step) == script.at = step
GoTo(step) == script' = [script EXCEPT !.at = step]
Ended == script' = NoScript

(* An attended script and the service are started and stopped in turn.      *)
Alone == Attended => script = NoScript

-----------------------------------------------------------------------------
(* plan: the evidence is that of the audit, and its image is there.  It      *)
(* sees whether the event is pending or completed.                           *)
AsAudited(s) ==
  /\ Proves(log, Span[s])
  /\ SelectedWeight(log, Interval(log, Span[s])) = Case[s].weight
  /\ Peak(log, Span[s]) = Case[s].peak
HasEvidence(s) == s \in Imageless \cup sources
Seen(s) == s \in completed \/ disk[s] # "absent"

Plan(s) ==
  /\ Working("idle") /\ runs < MaxRuns /\ runs' = runs + 1
  /\ AsAudited(s) /\ HasEvidence(s)
  /\ script' = [NoScript EXCEPT !.at = "planned", !.event = s, !.seen = Seen(s)]
  /\ UNCHANGED << outboxVars, faults, service, evidence, promised >>

(* mutant: the lock is not tried.                                            *)
UnlockedGate ==
  /\ Working("planned") /\ GoTo("allowed")
  /\ UNCHANGED << outboxVars, faults, service, runs, evidence, promised >>

(* The databases of the scale hold a shared lock while the reader has them. *)
Locked == service = "up"

(* _service_running tries the lock.                                          *)
Gate ==
  /\ Working("planned") /\ (Attended => service # "closing")
  /\ IF Locked THEN Ended ELSE GoTo("allowed")
  /\ UNCHANGED << outboxVars, faults, service, runs, evidence, promised >>

(* apply: an event the plan saw is left alone.  A copy is made under another *)
(* name, verified, and named; one that is there is verified.                 *)
AlreadyThere ==
  /\ Working("allowed") /\ script.seen /\ Ended
  /\ UNCHANGED << outboxVars, faults, service, runs, evidence, promised >>

CopyImage ==
  /\ Working("allowed") /\ ~script.seen
  /\ \/ script.event \in Imageless /\ GoTo("uploaded") /\ UNCHANGED copies
     \/ /\ script.event \in copies \cup sources /\ GoTo("copied")
        /\ copies' = copies \cup {script.event}
  /\ UNCHANGED << outboxVars, faults, service, runs, log, sources, stored, audits, promised >>

(* mutant: an upload that failed is passed over.                             *)
UploadAnyhow ==
  /\ Working("copied") /\ GoTo("uploaded") /\ UNCHANGED stored
  /\ UNCHANGED << outboxVars, faults, service, runs, log, sources, copies, audits, promised >>

UploadImage ==
  /\ Working("copied") /\ GoTo("uploaded") /\ stored' = stored \cup {script.event}
  /\ UNCHANGED << outboxVars, faults, service, runs, log, sources, copies, audits, promised >>

(* The file of the outbox is read, and replaced by one with the event.       *)
ReadFile ==
  /\ Working("uploaded")
  /\ IF disk[script.event] # "absent" THEN Ended
     ELSE script' = [script EXCEPT !.at = "read", !.file = disk]
  /\ UNCHANGED << outboxVars, faults, service, runs, evidence, promised >>

Staged(file, e) == [file EXCEPT ![e] = "active"]

WriteFile ==
  /\ Working("read") /\ GoTo("written")
  /\ disk' = Staged(script.file, script.event)
  /\ aged' = aged \ {script.event}
  /\ UNCHANGED << pending, queue, completed, deadLetters, sender, clientVars >>
  /\ UNCHANGED << faults, service, runs, evidence, promised >>

AuditStaged ==
  /\ Working("written") /\ Ended /\ audits' = audits \cup {script.event}
  /\ UNCHANGED << outboxVars, faults, service, runs, log, sources, copies, stored, promised >>

(* An exception or a signal ends the script after any step.                  *)
Abandon ==
  /\ ~Working("idle") /\ Ended
  /\ UNCHANGED << outboxVars, faults, service, runs, evidence, promised >>

-----------------------------------------------------------------------------
(* construct_service opens the scale's databases, and with them the lock,    *)
(* before the outbox loads its file.                                         *)
Start ==
  /\ service = "off" /\ Alone /\ service' = "up" /\ LoadPending
  /\ UNCHANGED << faults, script, runs, evidence, promised >>

(* shutdown_service closes the reader first and the outbox near the end:     *)
(* until then sessions are finalized and events sent.                        *)
Stop ==
  /\ service = "up" /\ Alone /\ service' = "closing"
  /\ UNCHANGED << outboxVars, faults, script, runs, evidence, promised >>

Gone ==
  /\ service' = "off" /\ pending' = [e \in Events |-> "absent"] /\ queue' = << >> /\ sender' = Idle
  /\ kept' = NoMessages
  /\ UNCHANGED << disk, completed, deadLetters, aged, sent, unconfirmed >>
  /\ UNCHANGED << script, runs, evidence, promised >>

(* The publish thread ends with the process; an acknowledgement that came is *)
(* recorded unless stop() gives up waiting.                                  *)
Exit == service = "closing" /\ sender.pc # "acked" /\ Gone /\ UNCHANGED faults
Crash == service # "off" /\ Fault("crash") /\ Gone

(* The service's own sessions: enqueue(activate=False), then activate.       *)
EnqueueLive(e) ==
  /\ service # "off" /\ e \notin promised /\ New(e) /\ Enqueue(e)
  /\ UNCHANGED << service, script, runs, evidence, promised >>

ActivateLive(e) ==
  /\ service # "off" /\ pending[e] = "held" /\ Activate(e) /\ promised' = promised \cup {e}
  /\ UNCHANGED << service, script, runs, evidence >>

PublishThread ==
  /\ service # "off" /\ (Take \/ \E e \in Events : PublishEvent(e) \/ ClientStep(e))
  /\ UNCHANGED << service, script, runs, evidence, promised >>

MonthPasses(e) == Age(e) /\ UNCHANGED << service, script, runs, evidence, promised >>

(* DiagnosticArchiveCleaner packs the day of the case.                       *)
ArchiveSource(s) ==
  /\ s \in sources /\ sources' = sources \ {s}
  /\ UNCHANGED << outboxVars, faults, service, script, runs, log, copies, stored, audits, promised >>

-----------------------------------------------------------------------------
RecoveryInit ==
  /\ OutboxInit /\ service = "off" /\ script = NoScript /\ runs = 0 /\ log \in Logs
  /\ sources = Cases \ Imageless /\ copies = {} /\ stored = {} /\ audits = {} /\ promised = {}

ScriptStep ==
  \/ \E s \in Cases : Plan(s)
  \/ Gate \/ AlreadyThere \/ CopyImage \/ UploadImage \/ ReadFile \/ WriteFile \/ AuditStaged
  \/ Abandon

ServiceStep ==
  \/ Start \/ Stop \/ Exit \/ Crash \/ PublishThread
  \/ \E e \in Events \ Cases : EnqueueLive(e) \/ ActivateLive(e)

RecoveryNext ==
  \/ ScriptStep \/ ServiceStep
  \/ \E e \in Events : MonthPasses(e)
  \/ \E s \in Cases : ArchiveSource(s)

RecoverySpec == RecoveryInit /\ [][RecoveryNext]_recoveryVars

-----------------------------------------------------------------------------
Delivered(e) == e \in completed \/ e \in deadLetters \/ sent[e] > 0

(* An event that the audit has as staged, and one that the service has       *)
(* activated, is in the file until it has been delivered or given up: the    *)
(* two that rewrite the file whole do not undo each other.                   *)
NothingIsLost == \A e \in audits \cup promised : disk[e] # "absent" \/ Delivered(e)

(* docs/operations.md has the session's id as the event's, so that "a retry  *)
(* can never publish twice".  What holds: an event that the ledger has as    *)
(* acknowledged is published no more, although the script may have planned   *)
(* before, or stage it in a file that a crash left behind.                   *)
RetryLeavesCompleted == [][CompletedIsLeftAlone]_recoveryVars

(* A recovered event is sent with its image in its place, here and in the    *)
(* object store (apply uploads before it stages).                            *)
SentWithItsImage ==
  \A s \in Cases \ Imageless :
    sent[s] > 0 \/ kept[s] > 0 \/ disk[s] # "absent" => s \in copies \cap stored

(* The load that the log proves for the session a plan went through with is  *)
(* not proved for another that does not overlap it: no vehicle is recovered  *)
(* twice.                                                                    *)
Overlap(s, r) == Span[s].start <= Span[r].end /\ Span[r].start <= Span[s].end
LoadsDiffer ==
  Working("planned") =>
    \A r \in Events \ {script.event} :
      Proves(log, Span[r]) /\ ~Overlap(script.event, r) =>
        LoadOf(log, Span[script.event]) \cap LoadOf(log, Span[r]) = {}

(* docs/operations.md: "the tool verifies no weighing_service.py process is  *)
(* running".                                                                 *)
GateMeansStopped ==
  script.at \in {"allowed", "copied", "uploaded", "read", "written"} => service = "off"
=============================================================================
