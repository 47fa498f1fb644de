---------------------------- MODULE PublishOutbox ----------------------------
(***************************************************************************)
(* The durable MQTT outbox, services/storage/publish_outbox.py.            *)
(*                                                                         *)
(* State of the code and of the model:                                     *)
(*   _pending_events        pending  (memory, under _pending_lock)         *)
(*   publish_pending.jsonl  disk     (rewritten whole by _persist_locked)  *)
(*   _publish_queue         queue    (memory, FIFO)                        *)
(*   publish_completed.db   completed                                      *)
(*   dead-letter/mqtt-*     deadLetters                                    *)
(*   the publish thread     sender                                         *)
(*   the MQTT client        kept                                           *)
(*                                                                         *)
(* An event is "held" between enqueue(activate=False) and activate().      *)
(* The operations other threads call (Enqueue..., Activate...) are split   *)
(* by what the caller sees: a normal return, a False, an exception.        *)
(*                                                                         *)
(* The client is paho (mqtt_service.py), with QoS 1 and a clean session.   *)
(* It keeps every message that publish() was given, one given while there  *)
(* is no connection included, until the broker has acknowledged it; with a *)
(* connection again it sends what it keeps.  What publish() returned, and  *)
(* that the outbox has given up waiting, change nothing of that.           *)
(***************************************************************************)
EXTENDS Naturals, Sequences, FiniteSets, FiniteSetsExt

CONSTANTS
  Events,         \* event ids (a session's event has the session's id)
  None,           \* no event
  FaultKinds,     \* the kinds of fault that may happen
  MaxFaults,      \* how many faults a behaviour may have (a bound, for TLC)
  MaxUnconfirmed  \* after how many unconfirmed calls no message is made (a bound)

AllFaultKinds == { "crash",          \* the process dies, and is restarted
                   "ackLost",        \* the connection is lost before the ack
                   "ledgerRead",     \* publish_completed.db cannot be read
                   "ledgerWrite",    \* publish_completed.db cannot be written
                   "outboxWrite",    \* publish_pending.jsonl cannot be written
                   "deadLetterWrite",
                   "finalizeWrite",  \* session-finalization.db not written
                   "recognise",      \* the job fails before it is finalized
                   "spoolMove" }     \* a job manifest cannot be renamed

ASSUME OutboxAssumption ==
  /\ None \notin Events
  /\ FaultKinds \subseteq AllFaultKinds
  /\ MaxFaults \in Nat /\ MaxUnconfirmed \in Nat

VARIABLES
  pending,      \* memory: "absent", "held" or "active", for each event
  disk,         \* the same, in publish_pending.jsonl
  queue,        \* ids waiting for the publish thread
  completed,    \* ids in the completion ledger
  deadLetters,  \* ids moved to the dead letter file
  aged,         \* pending events older than PENDING_RETENTION_DAYS
  sender,       \* the publish thread: where it is, and with which event
  kept,         \* messages of each event that the client still has to deliver
  sent,         \* how many copies of each event the broker received
  unconfirmed,  \* history: calls that left a message with the client, and
                \* returned without its acknowledgement
  faults        \* faults so far

clientVars == << kept, sent, unconfirmed >>
outboxVars == << pending, disk, queue, completed, deadLetters, aged, sender, clientVars >>

Marks == {"absent", "held", "active"}
SenderSteps == {"idle", "read", "waiting", "acked", "recorded", "expired", "retry"}
SenderStates == [pc : SenderSteps, event : Events \cup {None}]
Idle == [pc |-> "idle", event |-> None]
At(pc, e) == [pc |-> pc, event |-> e]

Fault(kind) ==
  /\ kind \in FaultKinds
  /\ faults < MaxFaults
  /\ faults' = faults + 1

(* Definitions marked "mutant" are wrong on purpose. No action uses them:   *)
(* they stand for bugs the properties are there to notice.                 *)

(* mutant: the write is forgotten *)
PersistNothing == disk' = disk

(* _persist_locked: the file is replaced by the events in memory. *)
Persist == disk' = pending'

-----------------------------------------------------------------------------
(* enqueue(result, activate=False), the form every caller uses. *)

New(e) == e \notin completed /\ pending[e] = "absent"

Stage(e) ==
  /\ pending' = [pending EXCEPT ![e] = "held"]
  /\ aged' = aged \ {e}                      \* created_at is now
  /\ UNCHANGED << queue, completed, deadLetters, sender, clientVars >>

(* It returns the event id. *)
Enqueue(e) ==
  /\ UNCHANGED faults
  /\ \/ New(e) /\ Stage(e) /\ Persist
     \/ ~New(e) /\ UNCHANGED outboxVars

(* It raises: from the ledger, before anything changed, or from _persist,   *)
(* when the event is already in memory.                                    *)
EnqueueRaises(e) ==
  \/ Fault("ledgerRead") /\ UNCHANGED outboxVars
  \/ Fault("outboxWrite") /\ New(e) /\ Stage(e) /\ UNCHANGED disk

-----------------------------------------------------------------------------
(* activate(event_id) *)

Release(e) ==
  /\ pending[e] # "absent"
  /\ pending' = [pending EXCEPT ![e] = "active"]
  /\ UNCHANGED << completed, deadLetters, aged, sender, clientVars >>

(* It returns True. *)
Activate(e) ==
  /\ UNCHANGED faults
  /\ \/ Release(e) /\ Persist /\ queue' = Append(queue, e)
     \/ pending[e] = "absent" /\ e \in completed /\ UNCHANGED outboxVars

(* It returns False: the event is neither pending nor completed. *)
ActivateRefused(e) ==
  /\ New(e)
  /\ UNCHANGED << outboxVars, faults >>

ActivateRaises(e) ==
  \/ Fault("ledgerRead") /\ pending[e] = "absent" /\ UNCHANGED outboxVars
  \/ Fault("outboxWrite") /\ Release(e) /\ UNCHANGED << disk, queue >>

-----------------------------------------------------------------------------
(* The publish thread: _publish_loop and _publish_event. *)

(* Take the next id and look it up; an id no longer pending is dropped. *)
Take ==
  /\ sender = Idle
  /\ queue # << >>
  /\ queue' = Tail(queue)
  /\ sender' = IF pending[Head(queue)] = "absent" THEN Idle ELSE At("read", Head(queue))
  /\ UNCHANGED << pending, disk, completed, deadLetters, aged, clientVars, faults >>

(* An expired event is appended to the dead letter file. *)
Expire(e) ==
  /\ sender = At("read", e) /\ e \in aged
  /\ deadLetters' = deadLetters \cup {e}
  /\ sender' = At("expired", e)
  /\ UNCHANGED << pending, disk, queue, completed, aged, clientVars, faults >>

ExpireRaises(e) ==
  /\ sender = At("read", e) /\ e \in aged
  /\ Fault("deadLetterWrite")
  /\ sender' = At("retry", e)
  /\ UNCHANGED << pending, disk, queue, completed, deadLetters, aged, clientVars >>

AllUnconfirmed == MapThenSumSet(LAMBDA e : unconfirmed[e], Events)

(* publish_weighbridge_event(wait_for_ack=True) gives the client a message. *)
GiveClient(e) ==
  /\ AllUnconfirmed < MaxUnconfirmed
  /\ kept' = [kept EXCEPT ![e] = @ + 1]
  /\ UNCHANGED sent

Unconfirmed(e) == unconfirmed' = [unconfirmed EXCEPT ![e] = @ + 1]

(* mutant: that the client accepted the message is taken for the ack *)
HandOverUnchecked(e) ==
  /\ sender = At("read", e) /\ e \notin aged
  /\ GiveClient(e)
  /\ sender' = At("acked", e)
  /\ UNCHANGED << pending, disk, queue, completed, deadLetters, aged, unconfirmed, faults >>

(* There is a connection: the acknowledgement is waited for, 10 s. *)
HandOver(e) ==
  /\ sender = At("read", e) /\ e \notin aged
  /\ GiveClient(e)
  /\ sender' = At("waiting", e)
  /\ UNCHANGED << pending, disk, queue, completed, deadLetters, aged, unconfirmed, faults >>

TimeOut(e) ==
  /\ sender = At("waiting", e)
  /\ sender' = At("retry", e)
  /\ Unconfirmed(e)
  /\ UNCHANGED << pending, disk, queue, completed, deadLetters, aged, kept, sent, faults >>

(* False, at once: there is no client or no valid payload, or there is no   *)
(* connection, and the client keeps the message all the same.              *)
SendRefused(e) ==
  /\ sender = At("read", e) /\ e \notin aged
  /\ sender' = At("retry", e)
  /\ \/ UNCHANGED clientVars
     \/ GiveClient(e) /\ Unconfirmed(e)
  /\ UNCHANGED << pending, disk, queue, completed, deadLetters, aged, faults >>

(* The thread of the client: a message reaches the broker.  Its             *)
(* acknowledgement takes it from the client, and ends the wait if it is the *)
(* message that is waited for and not an older one of the same event.      *)
Arrives(e) ==
  /\ kept[e] > 0
  /\ sent' = [sent EXCEPT ![e] = @ + 1]
  /\ UNCHANGED << pending, disk, queue, completed, deadLetters, aged, unconfirmed >>

Deliver(e) ==
  /\ Arrives(e)
  /\ kept' = [kept EXCEPT ![e] = @ - 1]
  /\ \/ sender = At("waiting", e) /\ sender' = At("acked", e)
     \/ (sender = At("waiting", e) => kept[e] > 1) /\ UNCHANGED sender
  /\ UNCHANGED faults

(* The connection is lost before the acknowledgement: the client still has  *)
(* the message, and sends it again.                                        *)
DeliverUnacked(e) ==
  /\ Arrives(e)
  /\ Fault("ackLost")
  /\ UNCHANGED << kept, sender >>

(* _mark_completed; when its write fails the event is dropped all the same. *)
MarkCompleted(e) ==
  /\ sender = At("acked", e)
  /\ sender' = At("recorded", e)
  /\ \/ completed' = completed \cup {e} /\ UNCHANGED faults
     \/ Fault("ledgerWrite") /\ UNCHANGED completed
  /\ UNCHANGED << pending, disk, queue, deadLetters, aged, clientVars >>

(* mutant: the loop puts back an event that was published *)
RequeuePublished(e) ==
  /\ sender = At("recorded", e)
  /\ sender' = At("retry", e)
  /\ UNCHANGED << pending, disk, queue, completed, deadLetters, aged, clientVars, faults >>

(* _mark_published: out of memory, then out of the file. When the file      *)
(* cannot be written the loop puts the id back, to find it gone.           *)
MarkPublished(e) ==
  /\ sender \in { At("recorded", e), At("expired", e) }
  /\ pending' = [pending EXCEPT ![e] = "absent"]
  /\ \/ Persist /\ sender' = Idle /\ UNCHANGED faults
     \/ Fault("outboxWrite") /\ sender' = At("retry", e) /\ UNCHANGED disk
  /\ UNCHANGED << queue, completed, deadLetters, aged, clientVars >>

(* mutant: the event is not put back *)
DropRefused(e) ==
  /\ sender = At("retry", e)
  /\ sender' = Idle
  /\ UNCHANGED << pending, disk, queue, completed, deadLetters, aged, clientVars, faults >>

(* After 10 s the id goes back to the end of the queue. *)
Requeue(e) ==
  /\ sender = At("retry", e)
  /\ queue' = Append(queue, e)
  /\ sender' = Idle
  /\ UNCHANGED << pending, disk, completed, deadLetters, aged, clientVars, faults >>

PublishEvent(e) ==
  \/ Expire(e) \/ ExpireRaises(e)
  \/ HandOver(e) \/ TimeOut(e) \/ SendRefused(e)
  \/ MarkCompleted(e) \/ MarkPublished(e) \/ Requeue(e)

ClientStep(e) == Deliver(e) \/ DeliverUnacked(e)

(* Thirty days pass for an event of the file. *)
Age(e) ==
  /\ e \notin aged /\ (pending[e] # "absent" \/ disk[e] # "absent")
  /\ aged' = aged \cup {e}
  /\ UNCHANGED << pending, disk, queue, completed, deadLetters, sender, clientVars, faults >>

-----------------------------------------------------------------------------
(* What the client kept, it kept in memory. *)
NoMessages == [e \in Events |-> 0]

(* Restart: _load_pending. An event of the file that the ledger has is      *)
(* dropped; one whose ledger entry cannot be read stays. The activated      *)
(* events are queued (in the order of the file, any order here).           *)

IsOrdering(q, S) ==
  /\ q \in Seq(S)
  /\ \A e \in S : \E i \in DOMAIN q : q[i] = e
  /\ \A i, j \in DOMAIN q : q[i] = q[j] => i = j

Orderings(S) == { q \in [1 .. Cardinality(S) -> S] : IsOrdering(q, S) }

(* mutant: the ledger is not consulted *)
KeptInFile(unread) == { e \in Events : disk[e] # "absent" }

Kept(unread) == { e \in Events : disk[e] # "absent" /\ (e \in completed => e \in unread) }

(* mutant: held events are queued too *)
ResumedHeld(loaded) == loaded

Resumed(loaded) == { e \in loaded : disk[e] = "active" }

LoadPending ==
  \E unread \in SUBSET completed :
    /\ unread # {} => "ledgerRead" \in FaultKinds
    /\ pending' = [e \in Events |-> IF e \in Kept(unread) THEN disk[e] ELSE "absent"]
    /\ Persist
    /\ queue' \in Orderings(Resumed(Kept(unread)))
    /\ sender' = Idle
    /\ kept' = NoMessages
    /\ UNCHANGED << completed, deadLetters, aged, sent, unconfirmed >>

OutboxInit ==
  /\ pending = [e \in Events |-> "absent"]
  /\ disk = [e \in Events |-> "absent"]
  /\ queue = << >>
  /\ completed = {} /\ deadLetters = {} /\ aged = {}
  /\ sender = Idle
  /\ kept = NoMessages /\ sent = NoMessages /\ unconfirmed = NoMessages
  /\ faults = 0

OutboxTypeOK ==
  /\ pending \in [Events -> Marks]
  /\ disk \in [Events -> Marks]
  /\ queue \in Seq(Events)
  /\ completed \subseteq Events /\ deadLetters \subseteq Events /\ aged \subseteq Events
  /\ sender \in SenderStates
  /\ sender.pc = "idle" <=> sender.event = None
  /\ {kept, sent, unconfirmed} \subseteq [Events -> Nat]
  /\ faults \in 0 .. MaxFaults

-----------------------------------------------------------------------------
(* Every copy of an event, at the broker or with the client, is the first,  *)
(* or was made after a call that returned unconfirmed or after a fault: an  *)
(* event whose acknowledgement came is given to the client no more, however *)
(* its job is retried, its file rewritten and the service restarted.       *)
CopiesAreAccountedFor ==
  \A e \in Events : sent[e] + kept[e] <= 1 + unconfirmed[e] + faults

(* Of an event that the ledger has, the client gets no further message. *)
CompletedIsLeftAlone == \A e \in completed : kept'[e] <= kept[e]
=============================================================================
