------------------------- MODULE DeferredPublication -------------------------
(***************************************************************************)
(* From an ended session to the broker: the deferred worker threads        *)
(* (services/pipeline/deferred_lpr_worker.py), the finalization they call  *)
(* (SessionManager.finalize_deferred_session), the terminal ledger         *)
(* (services/session/finalization_store.py) and the outbox.                *)
(*                                                                         *)
(* A session's job manifest is "pending", "processing" (claimed),          *)
(* "acknowledged" or "failed"; SessionFrameSpool models its files.  The    *)
(* terminal ledger holds "open" for a session it does not have, otherwise  *)
(* "no_weight", or what was published, one of the Readings.                *)
(* MQTT is enabled, so that every published record has an outbox id, and   *)
(* the id of the event is the id of the session.                           *)
(***************************************************************************)
EXTENDS PublishOutbox

CONSTANTS
  Workers,     \* LPR_DEFERRED_WORKER_COUNT threads
  MaxRetries,  \* attempts before a job is dead-lettered
  Readings,    \* what can be published of a session: a plate, or UNKNOWN
  NoWeight     \* the sessions that ended without a usable weight

Sessions == Events

ASSUME WorkerAssumption ==
  /\ MaxRetries \in Nat \ {0}
  /\ "open" \notin Readings /\ "no_weight" \notin Readings
  /\ NoWeight \subseteq Sessions

VARIABLES
  job,        \* where the session's manifest is
  attempts,   \* _retry_counts, by session: in memory
  outcome,    \* the terminal ledger
  body,       \* the result stored in the session's outbox event
  worker      \* each worker thread: its step, its session, its reading

workVars == << job, attempts, outcome, body, worker >>
vars == << outboxVars, faults, workVars >>

JobPlaces == {"none", "pending", "processing", "acknowledged", "failed"}
Outcomes == {"open", "no_weight"} \cup Readings
WorkerSteps == {"idle", "claimed", "enqueue", "mark", "activate", "acknowledge",
                "failing", "dead"}
WorkerStates == [pc : WorkerSteps, session : Sessions \cup {None}, reading : Outcomes]

Free == [pc |-> "idle", session |-> None, reading |-> "open"]
On(pc, s, r) == [pc |-> pc, session |-> s, reading |-> r]

Published(s) == outcome[s] \in Readings

Goto(w, pc) == worker' = [worker EXCEPT ![w].pc = pc]

(* The except clause of _run: count the attempt; the same job is tried     *)
(* again after a delay, until the last attempt dead-letters it.            *)
RetryOrFail(w, s) ==
  /\ attempts' = [attempts EXCEPT ![s] = @ + 1]
  /\ worker' = [worker EXCEPT ![w] =
                 On(IF attempts[s] + 1 >= MaxRetries THEN "failing" ELSE "claimed",
                    s, "open")]

-----------------------------------------------------------------------------
(* The session manager ends a session: its manifest is in pending/. *)
EndSession(s) ==
  /\ job[s] = "none"
  /\ job' = [job EXCEPT ![s] = "pending"]
  /\ UNCHANGED << outboxVars, faults, attempts, outcome, body, worker >>

(* mutant: the manifest stays in pending/ *)
ClaimInPlace(w, s) ==
  /\ worker[w] = Free /\ job[s] = "pending"
  /\ worker' = [worker EXCEPT ![w] = On("claimed", s, "open")]
  /\ UNCHANGED << outboxVars, faults, job, attempts, outcome, body >>

(* get_pending_job: rename to processing/. *)
Claim(w, s) ==
  /\ worker[w] = Free /\ job[s] = "pending"
  /\ job' = [job EXCEPT ![s] = "processing"]
  /\ worker' = [worker EXCEPT ![w] = On("claimed", s, "open")]
  /\ UNCHANGED << outboxVars, faults, attempts, outcome, body >>

(* An error other than the file being gone leaves _run: the thread ends.   *)
ClaimRaises(w, s) ==
  /\ worker[w] = Free /\ job[s] = "pending"
  /\ Fault("spoolMove")
  /\ Goto(w, "dead")
  /\ UNCHANGED << outboxVars, job, attempts, outcome, body >>

(* The finalizer finds the session in the terminal ledger. *)
AlreadyFinalized(w, s) ==
  \/ Published(s) /\ Goto(w, "activate")
  \/ outcome[s] = "no_weight" /\ Goto(w, "acknowledge")

(* It does not: the branch depends on the weight, and the reading on the   *)
(* frames this attempt could process.                                      *)
Decide(w, s) ==
  /\ outcome[s] = "open"
  /\ \/ s \in NoWeight /\ worker' = [worker EXCEPT ![w] = On("mark", s, "no_weight")]
     \/ /\ s \notin NoWeight
        /\ \E r \in Readings : worker' = [worker EXCEPT ![w] = On("enqueue", s, r)]

(* _process_job up to the finalizer's branch: recognise the frames, read   *)
(* the terminal ledger, save the images of a session it does not have.     *)
Recognise(w, s) ==
  /\ worker[w] = On("claimed", s, "open")
  /\ AlreadyFinalized(w, s) \/ Decide(w, s)
  /\ UNCHANGED << outboxVars, faults, job, attempts, outcome, body >>

(* No frame could be processed, the service is stopping, the ledger cannot *)
(* be read, or an image the branch needs cannot be saved.                  *)
RecogniseFails(w, s) ==
  /\ worker[w] = On("claimed", s, "open")
  /\ Fault("recognise")
  /\ RetryOrFail(w, s)
  /\ UNCHANGED << outboxVars, job, outcome, body >>

(* The event is staged with this attempt's reading, unless it already is.  *)
StageEvent(w, s) ==
  /\ worker[w].pc = "enqueue" /\ worker[w].session = s
  /\ \/ Enqueue(s) /\ Goto(w, "mark") /\ UNCHANGED attempts
     \/ EnqueueRaises(s) /\ RetryOrFail(w, s)
  /\ body' = [body EXCEPT ![s] = IF pending'[s] = pending[s] THEN @ ELSE worker[w].reading]
  /\ UNCHANGED << job, outcome >>

(* markSessionFinalized: one commit, or an exception. *)
MarkFinalized(w, s) ==
  /\ worker[w].pc = "mark" /\ worker[w].session = s
  /\ \/ /\ UNCHANGED << faults, attempts >>
        /\ outcome' = [outcome EXCEPT ![s] = worker[w].reading]
        /\ Goto(w, IF worker[w].reading = "no_weight" THEN "acknowledge" ELSE "activate")
     \/ /\ Fault("finalizeWrite")
        /\ RetryOrFail(w, s)
        /\ UNCHANGED outcome
  /\ UNCHANGED << outboxVars, job, body >>

(* False makes the worker raise "deferred session finalization failed".    *)
ActivateEvent(w, s) ==
  /\ worker[w].pc = "activate" /\ worker[w].session = s
  /\ \/ Activate(s) /\ Goto(w, "acknowledge") /\ UNCHANGED attempts
     \/ ActivateRefused(s) /\ RetryOrFail(w, s)
     \/ ActivateRaises(s) /\ RetryOrFail(w, s)
  /\ UNCHANGED << job, outcome, body >>

(* acknowledge_job: once the manifest is in cleanup/ it is never retried.  *)
Acknowledge(w, s) ==
  /\ worker[w].pc = "acknowledge" /\ worker[w].session = s
  /\ \/ /\ job' = [job EXCEPT ![s] = "acknowledged"]
        /\ attempts' = [attempts EXCEPT ![s] = 0]
        /\ worker' = [worker EXCEPT ![w] = Free]
        /\ UNCHANGED faults
     \/ Fault("spoolMove") /\ RetryOrFail(w, s) /\ UNCHANGED job
  /\ UNCHANGED << outboxVars, outcome, body >>

(* fail_job, outside the try block: an exception here ends the thread.     *)
DeadLetterJob(w, s) ==
  /\ worker[w].pc = "failing" /\ worker[w].session = s
  /\ \/ /\ job' = [job EXCEPT ![s] = "failed"]
        /\ attempts' = [attempts EXCEPT ![s] = 0]
        /\ worker' = [worker EXCEPT ![w] = Free]
        /\ UNCHANGED faults
     \/ /\ Fault("spoolMove")
        /\ worker' = [worker EXCEPT ![w] = [Free EXCEPT !.pc = "dead"]]
        /\ UNCHANGED << job, attempts >>
  /\ UNCHANGED << outboxVars, outcome, body >>

(* mutant: claimed jobs are left in processing/ *)
LeaveClaimed == job

(* _recover_disk_state: claimed jobs go back to pending/.                  *)
Recovered == [s \in Sessions |-> IF job[s] = "processing" THEN "pending" ELSE job[s]]

(* The process dies or stops at any point and is started again.            *)
Restart ==
  /\ Fault("crash")
  /\ LoadPending
  /\ job' = Recovered
  /\ attempts' = [s \in Sessions |-> 0]
  /\ worker' = [w \in Workers |-> Free]
  /\ UNCHANGED << outcome, body >>

-----------------------------------------------------------------------------
Init ==
  /\ OutboxInit
  /\ job = [s \in Sessions |-> "none"]
  /\ attempts = [s \in Sessions |-> 0]
  /\ outcome = [s \in Sessions |-> "open"]
  /\ body = [s \in Sessions |-> "open"]
  /\ worker = [w \in Workers |-> Free]

WorkerStep(w, s) ==
  \/ Claim(w, s) \/ ClaimRaises(w, s)
  \/ Recognise(w, s) \/ RecogniseFails(w, s)
  \/ StageEvent(w, s) \/ MarkFinalized(w, s) \/ ActivateEvent(w, s)
  \/ Acknowledge(w, s) \/ DeadLetterJob(w, s)

OutboxStep ==
  /\ Take \/ \E e \in Events : PublishEvent(e) \/ ClientStep(e) \/ Age(e)
  /\ UNCHANGED workVars

Next ==
  \/ \E s \in Sessions : EndSession(s)
  \/ \E w \in Workers, s \in Sessions : WorkerStep(w, s)
  \/ OutboxStep
  \/ Restart

Spec == Init /\ [][Next]_vars

TypeOK ==
  /\ OutboxTypeOK
  /\ job \in [Sessions -> JobPlaces]
  /\ attempts \in [Sessions -> Nat]
  /\ outcome \in [Sessions -> Outcomes]
  /\ body \in [Sessions -> Outcomes]
  /\ worker \in [Workers -> WorkerStates]

-----------------------------------------------------------------------------
(* Fairness: every thread keeps running; thirty days do pass.  The broker  *)
(* and the connection owe nothing: what the client keeps may never arrive. *)
Fairness ==
  /\ \A w \in Workers : WF_vars(\E s \in Sessions : WorkerStep(w, s))
  /\ WF_vars(Take /\ UNCHANGED workVars)
  /\ WF_vars((\E e \in Events : PublishEvent(e)) /\ UNCHANGED workVars)
  /\ \A e \in Events : WF_vars(Age(e) /\ UNCHANGED workVars)

FairSpec == Spec /\ Fairness

-----------------------------------------------------------------------------
(* Two workers never have the same job. *)
OneOwner ==
  \A v, w \in Workers :
    v # w /\ worker[v].session # None => worker[v].session # worker[w].session

(* Nothing of a session reaches the broker, or the client that will send   *)
(* it, before its terminal record is committed: the event is staged first  *)
(* and activated last.                                                     *)
NothingSentBeforeFinalized ==
  \A s \in Sessions : sent[s] > 0 \/ kept[s] > 0 => Published(s)

Settled(s) == s \in completed \/ s \in deadLetters \/ sent[s] > 0

(* Once the job (and its frames) may be deleted, the weighing it stands    *)
(* for is decided, and if it is to be published, its activated event is in *)
(* the file, or has been delivered or given up.                            *)
AcknowledgedIsDurable ==
  \A s \in Sessions :
    job[s] = "acknowledged" =>
      /\ outcome[s] # "open"
      /\ Published(s) => disk[s] = "active" \/ Settled(s)

(* The terminal record of a session is written once. *)
LedgerIsWriteOnce ==
  [][\A s \in Sessions : outcome[s] # "open" => outcome'[s] = outcome[s]]_vars

(* Of an event that the ledger has as acknowledged no new message is made: *)
(* what still arrives was with the client before.                          *)
CompletedNeverRepublished == [][CompletedIsLeftAlone]_vars

(* Every ended session's job leaves the spool: acknowledged or failed. *)
JobsAreSettled ==
  \A s \in Sessions : job[s] = "pending" ~> job[s] \in {"acknowledged", "failed"}

(* Every acknowledged session that is to be published is delivered, or     *)
(* dead-lettered when the broker stays away.                               *)
AcknowledgedIsSettled ==
  \A s \in Sessions : job[s] = "acknowledged" /\ Published(s) ~> Settled(s)

(* The pipeline implements the delivery it promises. *)
Delivery == INSTANCE WeighingDelivery WITH
              deliveries <- sent, inTransit <- kept, closed <- completed,
              abandoned <- deadLetters

DeliverySpec == Delivery!Spec

-----------------------------------------------------------------------------
(* What comments and documents say, and the code does not do. *)

(* "Persist finalized sessions until local images exist and MQTT acks."    *)
FinalizedIsPersisted ==
  \A s \in Sessions : Published(s) => disk[s] # "absent" \/ Settled(s)

(* An already-published session is not dead-lettered on crash re-entry.    *)
PublishedNotDeadLettered ==
  \A s \in Sessions : sent[s] > 0 => job[s] # "failed"

(* docs/architecture.md: replaying a session "cannot publish twice", unless *)
(* something breaks.                                                       *)
NeverTwice == \A s \in Sessions : sent[s] <= 1 + faults

(* Retries are idempotent: the record and the event tell the same story.   *)
RecordMatchesEvent ==
  \A s \in Sessions : Published(s) /\ pending[s] # "absent" => body[s] = outcome[s]
=============================================================================
