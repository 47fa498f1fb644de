--------------------------- MODULE PublicationProofs ---------------------------
(***************************************************************************)
(* The safety properties of the two programs that write the publish        *)
(* outbox, for any events, workers, fault kinds and number of faults.      *)
(*                                                                         *)
(* DeferredPublication: the pipeline publishes what it finalized, makes a  *)
(* further copy of an event only after a call that returned unconfirmed or *)
(* a fault, and refines WeighingDelivery.                                  *)
(*                                                                         *)
(* MissedSessionRecovery: no load is proved for two sessions, as the scale *)
(* was seen empty, for the dwell, between the end of the first load and    *)
(* the end of its session.  An event leaves with its image, as the script  *)
(* copied it before it staged the event.  While the ledger can be read,    *)
(* an event that it has is published no more.  What was staged stays in    *)
(* the file of the outbox, while script and service take turns.            *)
(***************************************************************************)
EXTENDS DeferredPublication, MissedSessionRecovery, WellFoundedInduction, TLAPS

USE DEF clientVars

LedgerReadable == "ledgerRead" \notin FaultKinds

(* A worker owns the job it has claimed, alone.                            *)
Ownership ==
  /\ \A w \in Workers : worker[w].session = None <=> worker[w].pc \in {"idle", "dead"}
  /\ \A w \in Workers :
       worker[w].session # None => job[worker[w].session] = "processing"
  /\ OneOwner

(* The event of the session survives a crash, or no longer has to.         *)
Durable(s) == disk[s] = "active" \/ Settled(s)

(* What a worker has established when it gets to a step. *)
StepInOrder(w) ==
  LET s == worker[w].session IN
  /\ worker[w].pc = "enqueue" => outcome[s] = "open" /\ worker[w].reading \in Readings
  /\ worker[w].pc = "mark" =>
       outcome[s] = "open" /\ worker[w].reading \in {"no_weight"} \cup Readings
  /\ worker[w].pc = "activate" => Published(s)
  /\ worker[w].pc = "acknowledge" => outcome[s] # "open" /\ (Published(s) => Durable(s))

StepsInOrder == \A w \in Workers : StepInOrder(w)

(* Only the event of a published session is ever activated, and so on.     *)
OnlyPublished ==
  /\ \A s \in Sessions :
       \/ pending[s] = "active" \/ disk[s] = "active"
       \/ sent[s] > 0 \/ kept[s] > 0 \/ s \in completed \/ s \in deadLetters
       => Published(s)
  /\ \A i \in 1 .. Len(queue) : Published(queue[i])
  /\ sender.event # None => Published(sender.event)

(* What the publish thread has established when it gets to a step. *)
SenderInOrder ==
  /\ sender.pc \in {"read", "waiting"} => pending[sender.event] # "absent"
  /\ sender.pc = "waiting" => kept[sender.event] > 0
  /\ sender.pc \in {"acked", "recorded"} => sent[sender.event] > 0
  /\ sender.pc = "expired" => sender.event \in deadLetters

(* The file never holds on to an activated event that memory lost.         *)
DiskFollows == \A s \in Sessions : disk[s] = "active" => pending[s] = "active" \/ Settled(s)

(* An event is dead-lettered for its age and keeps it.                     *)
AbandonedIsAged == deadLetters \subseteq aged

(* As long as the ledger can be read, what it has is out of memory, or     *)
(* about to be.                                                            *)
CompletedLeaves ==
  LedgerReadable =>
    \A s \in completed : pending[s] = "absent" \/ sender = At("recorded", s)

(* The copy that nothing accounts for yet is waited for, or was            *)
(* acknowledged, and then it will not be followed by another.              *)
Acknowledging(s) ==
  \/ sender = At("acked", s)
  \/ s \in completed /\ (sender = At("recorded", s) \/ pending[s] = "absent")

Copies(s) == sent[s] + kept[s]
Excuses(s) == unconfirmed[s] + faults

PaidFor(s) ==
  \/ Copies(s) <= Excuses(s)
  \/ Copies(s) <= 1 + Excuses(s) /\ (sender = At("waiting", s) \/ Acknowledging(s))

CopiesPaidFor == \A s \in Sessions : PaidFor(s)

OutboxInv ==
  /\ OnlyPublished /\ SenderInOrder /\ DiskFollows
  /\ AbandonedIsAged /\ CompletedLeaves /\ CopiesPaidFor

WorkInv == Ownership /\ StepsInOrder /\ AcknowledgedIsDurable

IInv == TypeOK /\ OutboxInv /\ WorkInv

-----------------------------------------------------------------------------
LEMMA InitIInv == Init => IInv
<1> SUFFICES ASSUME Init PROVE IInv
  OBVIOUS
<1> USE OutboxAssumption, WorkerAssumption DEF OutboxAssumption, WorkerAssumption
<1> USE DEF Init, OutboxInit, Sessions
<1>1. TypeOK
  BY DEF TypeOK, OutboxTypeOK, Marks, SenderSteps, SenderStates, Idle, JobPlaces,
     Outcomes, WorkerSteps, WorkerStates, Free, NoMessages
<1>2. OutboxInv
  BY DEF OutboxInv, OnlyPublished, SenderInOrder, DiskFollows, AbandonedIsAged,
     CompletedLeaves, CopiesPaidFor, PaidFor, Copies, Excuses, Idle, NoMessages
<1>3. WorkInv
  BY DEF WorkInv, Ownership, OneOwner, StepsInOrder, StepInOrder, AcknowledgedIsDurable, Free
<1> QED
  BY <1>1, <1>2, <1>3 DEF IInv

-----------------------------------------------------------------------------
(* The variables keep their types.                                         *)

LEMMA FaultType ==
  ASSUME TypeOK, NEW kind, Fault(kind)
  PROVE  faults' \in 0 .. MaxFaults /\ faults' = faults + 1
BY OutboxAssumption DEF OutboxAssumption, Fault, TypeOK, OutboxTypeOK

LEMMA WorkerStateType ==
  ASSUME NEW pc \in WorkerSteps, NEW s \in Sessions, NEW r \in Outcomes
  PROVE  On(pc, s, r) \in WorkerStates
BY DEF On, WorkerStates

LEMMA FreeType == Free \in WorkerStates /\ [Free EXCEPT !.pc = "dead"] \in WorkerStates
BY DEF Free, WorkerStates, WorkerSteps, Outcomes

LEMMA GotoType ==
  ASSUME TypeOK, NEW w \in Workers, NEW pc \in WorkerSteps, Goto(w, pc)
  PROVE  worker' \in [Workers -> WorkerStates]
BY DEF Goto, TypeOK, WorkerStates

LEMMA RetryType ==
  ASSUME TypeOK, NEW w \in Workers, NEW s \in Sessions, RetryOrFail(w, s)
  PROVE  attempts' \in [Sessions -> Nat] /\ worker' \in [Workers -> WorkerStates]
<1>1. On("failing", s, "open") \in WorkerStates /\ On("claimed", s, "open") \in WorkerStates
  BY WorkerStateType DEF WorkerSteps, Outcomes
<1> QED
  BY <1>1 DEF RetryOrFail, TypeOK

LEMMA SenderStateType ==
  ASSUME NEW pc \in SenderSteps, NEW e \in Events
  PROVE  At(pc, e) \in SenderStates /\ At(pc, e).pc = pc /\ At(pc, e).event = e
BY DEF At, SenderStates

LEMMA IdleType == Idle \in SenderStates /\ Idle.pc = "idle" /\ Idle.event = None
BY DEF Idle, SenderStates, SenderSteps

LEMMA MarkType ==
  ASSUME TypeOK, NEW e \in Events, NEW m \in Marks
  PROVE  [pending EXCEPT ![e] = m] \in [Events -> Marks]
BY DEF TypeOK, OutboxTypeOK

LEMMA WorkerTypeStep ==
  ASSUME TypeOK, NEW w \in Workers, NEW s \in Sessions, WorkerStep(w, s)
  PROVE  TypeOK'
<1>o. OutboxTypeOK /\ s \in Events
  BY DEF TypeOK, Sessions
<1>u. ASSUME UNCHANGED outboxVars, faults' \in 0 .. MaxFaults PROVE OutboxTypeOK'
  BY <1>u, <1>o DEF outboxVars, OutboxTypeOK
<1>f. faults \in 0 .. MaxFaults
  BY <1>o DEF OutboxTypeOK
<1>1. CASE Claim(w, s)
  <2>1. On("claimed", s, "open") \in WorkerStates
    BY WorkerStateType DEF WorkerSteps, Outcomes
  <2> QED
    BY <1>1, <1>u, <1>f, <2>1 DEF Claim, JobPlaces, TypeOK
<1>2. CASE ClaimRaises(w, s)
  BY <1>2, <1>u, FaultType, GotoType DEF ClaimRaises, WorkerSteps, TypeOK
<1>3. CASE Recognise(w, s)
  <2>1. worker' \in [Workers -> WorkerStates]
    <3>1. CASE Goto(w, "activate") \/ Goto(w, "acknowledge")
      BY <3>1, GotoType DEF WorkerSteps
    <3>2. ASSUME NEW pc \in {"mark", "enqueue"}, NEW r \in Outcomes,
                 worker' = [worker EXCEPT ![w] = On(pc, s, r)]
          PROVE  worker' \in [Workers -> WorkerStates]
      BY <3>2, WorkerStateType DEF TypeOK, WorkerSteps
    <3> QED
      BY <1>3, <3>1, <3>2 DEF Recognise, AlreadyFinalized, Decide, Outcomes
  <2> QED
    BY <1>3, <1>u, <1>f, <2>1 DEF Recognise, TypeOK
<1>4. CASE RecogniseFails(w, s)
  BY <1>4, <1>u, FaultType, RetryType DEF RecogniseFails, TypeOK
<1>5. CASE StageEvent(w, s)
  <2>b. body' \in [Sessions -> Outcomes]
    BY <1>5 DEF StageEvent, TypeOK, WorkerStates
  <2>t. ASSUME Stage(s), faults' \in 0 .. MaxFaults, disk' \in {disk, pending'}
        PROVE  OutboxTypeOK'
    <3>1. pending' \in [Events -> Marks]
      BY <2>t, <1>o, MarkType DEF Stage, Marks
    <3> QED
      BY <2>t, <3>1, <1>o DEF Stage, OutboxTypeOK
  <2>1. CASE Enqueue(s) /\ Goto(w, "mark") /\ UNCHANGED attempts
    <3>1. OutboxTypeOK'
      BY <2>1, <2>t, <1>u, <1>f DEF Enqueue, Persist
    <3>2. worker' \in [Workers -> WorkerStates]
      BY <2>1, GotoType DEF WorkerSteps
    <3> QED
      BY <3>1, <3>2, <2>1, <2>b, <1>5 DEF StageEvent, TypeOK
  <2>2. CASE EnqueueRaises(s) /\ RetryOrFail(w, s)
    <3>1. OutboxTypeOK'
      BY <2>2, <2>t, <1>u, FaultType DEF EnqueueRaises
    <3> QED
      BY <3>1, <2>2, <2>b, <1>5, RetryType DEF StageEvent, TypeOK
  <2> QED
    BY <1>5, <2>1, <2>2 DEF StageEvent
<1>6. CASE MarkFinalized(w, s)
  <2>1. CASE /\ UNCHANGED << faults, attempts >>
             /\ outcome' = [outcome EXCEPT ![s] = worker[w].reading]
             /\ Goto(w, IF worker[w].reading = "no_weight" THEN "acknowledge" ELSE "activate")
    <3>1. worker' \in [Workers -> WorkerStates]
      BY <2>1, GotoType DEF WorkerSteps
    <3>2. outcome' \in [Sessions -> Outcomes]
      BY <2>1 DEF TypeOK, WorkerStates
    <3> QED
      BY <1>6, <1>u, <1>f, <2>1, <3>1, <3>2 DEF MarkFinalized, TypeOK
  <2>2. CASE Fault("finalizeWrite") /\ RetryOrFail(w, s) /\ UNCHANGED outcome
    BY <1>6, <1>u, <2>2, FaultType, RetryType DEF MarkFinalized, TypeOK
  <2> QED
    BY <1>6, <2>1, <2>2 DEF MarkFinalized
<1>7. CASE ActivateEvent(w, s)
  <2>t. ASSUME Release(s), faults' \in 0 .. MaxFaults, disk' \in {disk, pending'},
               queue' \in Seq(Events)
        PROVE  OutboxTypeOK'
    <3>1. pending' \in [Events -> Marks]
      BY <2>t, <1>o, MarkType DEF Release, Marks
    <3> QED
      BY <2>t, <3>1, <1>o DEF Release, OutboxTypeOK
  <2>q. queue \in Seq(Events) /\ Append(queue, s) \in Seq(Events)
    BY <1>o DEF OutboxTypeOK
  <2>1. CASE Activate(s) /\ Goto(w, "acknowledge") /\ UNCHANGED attempts
    <3>1. OutboxTypeOK'
      BY <2>1, <2>t, <2>q, <1>u, <1>f DEF Activate, Persist
    <3>2. worker' \in [Workers -> WorkerStates]
      BY <2>1, GotoType DEF WorkerSteps
    <3> QED
      BY <3>1, <3>2, <2>1, <1>7 DEF ActivateEvent, TypeOK
  <2>2. CASE ActivateRefused(s) /\ RetryOrFail(w, s)
    BY <2>2, <1>7, <1>u, <1>f, RetryType DEF ActivateEvent, ActivateRefused, TypeOK
  <2>3. CASE ActivateRaises(s) /\ RetryOrFail(w, s)
    <3>1. OutboxTypeOK'
      BY <2>3, <2>t, <2>q, <1>u, FaultType DEF ActivateRaises
    <3> QED
      BY <3>1, <2>3, <1>7, RetryType DEF ActivateEvent, TypeOK
  <2> QED
    BY <1>7, <2>1, <2>2, <2>3 DEF ActivateEvent
<1>8. CASE Acknowledge(w, s)
  <2>1. CASE Fault("spoolMove") /\ RetryOrFail(w, s) /\ UNCHANGED job
    BY <1>8, <1>u, <2>1, FaultType, RetryType DEF Acknowledge, TypeOK
  <2>2. CASE ~(Fault("spoolMove") /\ RetryOrFail(w, s) /\ UNCHANGED job)
    BY <1>8, <1>u, <1>f, <2>2, FreeType DEF Acknowledge, JobPlaces, TypeOK
  <2> QED
    BY <2>1, <2>2
<1>9. CASE DeadLetterJob(w, s)
  <2>1. OutboxTypeOK'
    BY <1>9, <1>u, <1>f, FaultType DEF DeadLetterJob
  <2> QED
    BY <1>9, <2>1, FreeType DEF DeadLetterJob, JobPlaces, TypeOK
<1> QED
  BY <1>1, <1>2, <1>3, <1>4, <1>5, <1>6, <1>7, <1>8, <1>9 DEF WorkerStep

LEMMA PublishTypeStep ==
  ASSUME TypeOK, NEW e \in Events, PublishEvent(e)
  PROVE  OutboxTypeOK'
<1>o. OutboxTypeOK /\ faults \in 0 .. MaxFaults
  BY DEF TypeOK, OutboxTypeOK
<1>s. \A pc \in SenderSteps \ {"idle"} :
        sender' = At(pc, e) =>
          sender' \in SenderStates /\ (sender'.pc = "idle" <=> sender'.event = None)
  BY SenderStateType, OutboxAssumption DEF OutboxAssumption
<1>1. CASE Expire(e) \/ ExpireRaises(e)
  BY <1>1, <1>o, <1>s, FaultType DEF Expire, ExpireRaises, OutboxTypeOK, SenderSteps
<1>2. CASE HandOver(e) \/ TimeOut(e) \/ SendRefused(e)
  <2>0. kept \in [Events -> Nat] /\ sent \in [Events -> Nat] /\ unconfirmed \in [Events -> Nat]
    BY <1>o DEF OutboxTypeOK
  <2>1. kept' \in [Events -> Nat] /\ sent' \in [Events -> Nat] /\ unconfirmed' \in [Events -> Nat]
    BY <1>2, <2>0 DEF HandOver, TimeOut, SendRefused, GiveClient, Unconfirmed
  <2>2. sender' \in SenderStates /\ (sender'.pc = "idle" <=> sender'.event = None)
    BY <1>2, <1>s DEF HandOver, TimeOut, SendRefused, SenderSteps
  <2> QED
    BY <1>2, <1>o, <2>1, <2>2 DEF HandOver, TimeOut, SendRefused, OutboxTypeOK
<1>4. CASE MarkCompleted(e)
  BY <1>4, <1>o, <1>s, FaultType DEF MarkCompleted, OutboxTypeOK, SenderSteps
<1>5. CASE MarkPublished(e)
  <2>1. pending' \in [Events -> Marks] /\ disk' \in [Events -> Marks]
    BY <1>5, <1>o, MarkType DEF MarkPublished, Marks, Persist, OutboxTypeOK
  <2>2. sender' \in SenderStates /\ (sender'.pc = "idle" <=> sender'.event = None)
    BY <1>5, <1>s, IdleType DEF MarkPublished, SenderSteps
  <2>3. faults' \in 0 .. MaxFaults
    BY <1>5, <1>o, FaultType DEF MarkPublished
  <2> QED
    BY <1>5, <1>o, <2>1, <2>2, <2>3 DEF MarkPublished, OutboxTypeOK
<1>6. CASE Requeue(e)
  BY <1>6, <1>o, IdleType DEF Requeue, OutboxTypeOK
<1> QED
  BY <1>1, <1>2, <1>4, <1>5, <1>6 DEF PublishEvent

LEMMA ClientTypeStep ==
  ASSUME TypeOK, NEW e \in Events, ClientStep(e)
  PROVE  OutboxTypeOK'
<1>o. OutboxTypeOK /\ faults \in 0 .. MaxFaults /\ kept[e] \in Nat /\ kept[e] > 0
  BY DEF TypeOK, OutboxTypeOK, ClientStep, Deliver, DeliverUnacked, Arrives
<1>1. kept' \in [Events -> Nat] /\ sent' \in [Events -> Nat] /\ unconfirmed' \in [Events -> Nat]
  <2>1. kept \in [Events -> Nat] /\ sent \in [Events -> Nat] /\ unconfirmed \in [Events -> Nat]
    BY <1>o DEF OutboxTypeOK
  <2> QED
    BY <1>o, <2>1 DEF ClientStep, Deliver, DeliverUnacked, Arrives
<1>2. sender' \in SenderStates /\ (sender'.pc = "idle" <=> sender'.event = None)
  <2>1. At("acked", e) \in SenderStates /\ At("acked", e).pc = "acked" /\ At("acked", e).event = e
    BY SenderStateType DEF SenderSteps
  <2> QED
    BY <1>o, <2>1, OutboxAssumption
    DEF ClientStep, Deliver, DeliverUnacked, OutboxTypeOK, OutboxAssumption
<1>3. faults' \in 0 .. MaxFaults
  BY <1>o, FaultType DEF ClientStep, Deliver, DeliverUnacked
<1> QED
  BY <1>o, <1>1, <1>2, <1>3 DEF ClientStep, Deliver, DeliverUnacked, Arrives, OutboxTypeOK

LEMMA OutboxTypeStep == TypeOK /\ OutboxStep => TypeOK'
<1> SUFFICES ASSUME TypeOK, OutboxStep PROVE TypeOK'
  OBVIOUS
<1>1. OutboxTypeOK'
  <2>o. OutboxTypeOK
    BY DEF TypeOK
  <2>1. CASE Take
    <3>1. Head(queue) \in Events /\ Tail(queue) \in Seq(Events)
      BY <2>1, <2>o DEF Take, OutboxTypeOK
    <3>2. sender' \in SenderStates /\ (sender'.pc = "idle" <=> sender'.event = None)
      BY <2>1, <3>1, SenderStateType, IdleType, OutboxAssumption
      DEF Take, SenderSteps, OutboxAssumption
    <3> QED
      BY <2>1, <2>o, <3>1, <3>2 DEF Take, OutboxTypeOK
  <2>2. ASSUME NEW e \in Events, Age(e) PROVE OutboxTypeOK'
    BY <2>2, <2>o DEF Age, OutboxTypeOK
  <2>3. ASSUME NEW e \in Events, PublishEvent(e) PROVE OutboxTypeOK'
    BY <2>3, PublishTypeStep
  <2>4. ASSUME NEW e \in Events, ClientStep(e) PROVE OutboxTypeOK'
    BY <2>4, ClientTypeStep
  <2> QED
    BY <2>1, <2>2, <2>3, <2>4 DEF OutboxStep
<1> QED
  BY <1>1 DEF OutboxStep, workVars, TypeOK

(* What a restart loads: the ids queued are those of activated events.     *)
LEMMA LoadedPending ==
  ASSUME TypeOK, LoadPending
  PROVE  /\ queue' \in Seq(Events)
         /\ \A i \in 1 .. Len(queue') : disk[queue'[i]] = "active"
         /\ \A e \in Events :
              /\ pending'[e] \in {"absent", disk[e]}
              /\ pending'[e] = "absent" /\ disk[e] # "absent" => e \in completed
              /\ LedgerReadable /\ e \in completed => pending'[e] = "absent"
         /\ pending' \in [Events -> Marks]
<1>1. PICK unread \in SUBSET completed :
        /\ unread # {} => "ledgerRead" \in FaultKinds
        /\ pending' = [e \in Events |-> IF e \in Kept(unread) THEN disk[e] ELSE "absent"]
        /\ queue' \in Orderings(Resumed(Kept(unread)))
  BY DEF LoadPending
<1>2. queue' \in Seq(Resumed(Kept(unread)))
  BY <1>1 DEF Orderings, IsOrdering
<1>3. /\ queue' \in Seq(Events)
      /\ \A i \in 1 .. Len(queue') : disk[queue'[i]] = "active"
  BY <1>2 DEF Resumed, Kept
<1>4. LedgerReadable => unread = {}
  BY <1>1 DEF LedgerReadable
<1> QED
  BY <1>1, <1>3, <1>4 DEF Kept, TypeOK, OutboxTypeOK, Marks

LEMMA RestartTypeStep == TypeOK /\ Restart => TypeOK'
<1> SUFFICES ASSUME TypeOK, Restart PROVE TypeOK'
  OBVIOUS
<1>1. LoadPending /\ faults' \in 0 .. MaxFaults
  BY FaultType DEF Restart
<1>2. /\ disk' = pending' /\ sender' = Idle /\ kept' = NoMessages
      /\ UNCHANGED << completed, deadLetters, aged, sent, unconfirmed >>
  BY <1>1 DEF LoadPending, Persist
<1>3. OutboxTypeOK'
  BY <1>1, <1>2, LoadedPending, IdleType DEF TypeOK, OutboxTypeOK, NoMessages
<1> QED
  BY <1>3, FreeType DEF Restart, Recovered, TypeOK, JobPlaces

LEMMA TypeStep == TypeOK /\ [Next]_vars => TypeOK'
<1> SUFFICES ASSUME TypeOK, [Next]_vars PROVE TypeOK'
  OBVIOUS
<1>1. ASSUME NEW s \in Sessions, EndSession(s) PROVE TypeOK'
  BY <1>1 DEF EndSession, outboxVars, TypeOK, OutboxTypeOK, JobPlaces
<1>2. CASE UNCHANGED vars
  BY <1>2 DEF vars, outboxVars, workVars, TypeOK, OutboxTypeOK
<1> QED
  BY <1>1, <1>2, WorkerTypeStep, OutboxTypeStep, RestartTypeStep DEF Next

-----------------------------------------------------------------------------
(* The steps that leave the outbox alone, and at most finalize a session.  *)

LEMMA OutboxKept ==
  ASSUME IInv, UNCHANGED outboxVars, faults' \in {faults, faults + 1},
         \A s \in Sessions : Published(s) => Published(s)'
  PROVE  OutboxInv'
<1> USE DEF IInv, OutboxInv, outboxVars
<1>t. /\ faults \in Nat /\ {kept, sent, unconfirmed} \subseteq [Events -> Nat]
      /\ queue \in Seq(Events) /\ sender \in SenderStates /\ completed \subseteq Events
  BY OutboxAssumption DEF TypeOK, OutboxTypeOK, OutboxAssumption
<1>1. OnlyPublished'
  <2>1. \A i \in 1 .. Len(queue) : queue[i] \in Sessions
    BY <1>t DEF Sessions
  <2>2. sender.event # None => sender.event \in Sessions
    BY <1>t DEF SenderStates, Sessions
  <2>3. /\ \A s \in Sessions :
             \/ pending[s] = "active" \/ disk[s] = "active"
             \/ sent[s] > 0 \/ kept[s] > 0 \/ s \in completed \/ s \in deadLetters
             => Published(s)'
        /\ \A i \in 1 .. Len(queue) : Published(queue[i])'
        /\ sender.event # None => Published(sender.event)'
    BY <2>1, <2>2 DEF OnlyPublished, Published
  <2> QED
    BY <2>3 DEF OnlyPublished, Published
<1>2. SenderInOrder' /\ DiskFollows' /\ AbandonedIsAged'
  BY DEF SenderInOrder, DiskFollows, AbandonedIsAged, Settled
<1>3. CompletedLeaves'
  BY DEF CompletedLeaves, LedgerReadable
<1>4. CopiesPaidFor'
  <2> SUFFICES ASSUME NEW s \in Sessions PROVE PaidFor(s)'
    BY DEF CopiesPaidFor
  <2>1. Acknowledging(s)' <=> Acknowledging(s)
    BY DEF Acknowledging
  <2>2. sent[s] \in Nat /\ kept[s] \in Nat /\ unconfirmed[s] \in Nat /\ PaidFor(s)
    BY <1>t DEF Sessions, CopiesPaidFor
  <2> QED
    BY <2>1, <2>2, <1>t DEF PaidFor, Copies, Excuses
<1> QED
  BY <1>1, <1>2, <1>3, <1>4

LEMMA FinalizedOnce ==
  ASSUME IInv, NEW w \in Workers, NEW s \in Sessions, MarkFinalized(w, s)
  PROVE  \A t \in Sessions : outcome[t] # "open" => outcome'[t] = outcome[t]
BY DEF IInv, WorkInv, StepsInOrder, StepInOrder, MarkFinalized, TypeOK

-----------------------------------------------------------------------------
(* What is durable stays so, whatever the outbox writes. *)
LEMMA DurableKept ==
  ASSUME IInv, disk' \in {disk, pending'},
         completed \subseteq completed', deadLetters \subseteq deadLetters',
         \A s \in Sessions : sent[s] > 0 => sent'[s] > 0,
         \A s \in Sessions : pending[s] = "active" => pending'[s] = "active" \/ Settled(s)'
  PROVE  DiskFollows' /\ \A s \in Sessions : Durable(s) => Durable(s)'
<1>1. \A s \in Sessions : Settled(s) => Settled(s)'
  BY DEF Settled
<1>2. \A s \in Sessions : disk[s] = "active" => pending[s] = "active" \/ Settled(s)
  BY DEF IInv, OutboxInv, DiskFollows
<1>3. \A s \in Sessions : disk'[s] = "active" => pending'[s] = "active" \/ Settled(s)'
  BY <1>1, <1>2
<1> QED
  BY <1>1, <1>2, <1>3 DEF DiskFollows, Durable

(* A step of one worker, on its own session: the others are not disturbed. *)
LEMMA StepsElsewhere ==
  ASSUME IInv, NEW w \in Workers, NEW s \in Sessions,
         worker[w].session = s \/ job[s] = "pending",
         \A v \in Workers \ {w} : worker'[v] = worker[v],
         \A t \in Sessions \ {s} : outcome'[t] = outcome[t],
         \A t \in Sessions : Durable(t) => Durable(t)'
  PROVE  \A v \in Workers \ {w} : StepInOrder(v)'
<1> SUFFICES ASSUME NEW v \in Workers \ {w} PROVE StepInOrder(v)'
  OBVIOUS
<1> DEFINE t == worker[v].session
<1>1. worker'[v] = worker[v] /\ StepInOrder(v)
  BY DEF IInv, WorkInv, StepsInOrder
<1>2. CASE t = None
  <2>1. worker[v].pc \in {"idle", "dead"}
    BY <1>2 DEF IInv, WorkInv, Ownership
  <2> QED
    BY <2>1, <1>1 DEF StepInOrder
<1>3. CASE t # None
  <2>1. t \in Sessions
    BY <1>3 DEF IInv, TypeOK, WorkerStates
  <2>2. t # s
    BY <1>3 DEF IInv, WorkInv, Ownership, OneOwner
  <2>3. outcome'[t] = outcome[t] /\ (Durable(t) => Durable(t)')
    BY <2>1, <2>2
  <2>4. worker'[v].session = t
    BY <1>1
  <2> QED
    BY <1>1, <2>3, <2>4 DEF StepInOrder, Published, Durable, Settled
<1> QED
  BY <1>2, <1>3

(* The steps that leave the workers alone. *)
LEMMA WorkKept ==
  ASSUME IInv, UNCHANGED workVars,
         \A s \in Sessions : Durable(s) => Durable(s)'
  PROVE  WorkInv'
<1> USE DEF IInv, WorkInv, workVars
<1>1. Ownership'
  BY DEF Ownership, OneOwner
<1>2. StepsInOrder'
  <2> SUFFICES ASSUME NEW w \in Workers PROVE StepInOrder(w)'
    BY DEF StepsInOrder
  <2>1. StepInOrder(w)
    BY DEF StepsInOrder
  <2>2. worker[w].pc = "acknowledge" => worker[w].session \in Sessions
    BY DEF Ownership, TypeOK, WorkerStates
  <2>3. worker[w].pc = "acknowledge" =>
          (Durable(worker[w].session) => Durable(worker[w].session)')
    BY <2>2
  <2> QED
    BY <2>1, <2>3 DEF StepInOrder, Published, Durable, Settled
<1>3. AcknowledgedIsDurable'
  BY DEF AcknowledgedIsDurable, Published, Durable
<1> QED
  BY <1>1, <1>2, <1>3

-----------------------------------------------------------------------------
(* The steps of the workers preserve WorkInv. *)

(* A worker that goes on with its session, gets one, or lets one go.       *)
LEMMA OwnershipStep ==
  ASSUME IInv, NEW w \in Workers, NEW s \in Sessions, NEW x \in WorkerStates,
         NEW place \in JobPlaces,
         worker' = [worker EXCEPT ![w] = x],
         job' = [job EXCEPT ![s] = place],
         worker[w].session = s \/ (worker[w].session = None /\ job[s] = "pending"),
         \/ x.session = s /\ place = "processing" /\ x.pc \notin {"idle", "dead"}
         \/ x.session = None /\ x.pc \in {"idle", "dead"}
  PROVE  Ownership'
<1>t. /\ worker \in [Workers -> WorkerStates] /\ job \in [Sessions -> JobPlaces]
      /\ worker'[w] = x /\ \A v \in Workers \ {w} : worker'[v] = worker[v]
      /\ s # None
  BY OutboxAssumption DEF IInv, TypeOK, OutboxAssumption, Sessions
<1>o. Ownership
  BY DEF IInv, WorkInv
<1>1. \A v \in Workers \ {w} : worker[v].session # s
  BY <1>o, <1>t DEF Ownership, OneOwner
<1>2. \A v \in Workers \ {w} :
        worker[v].session # None => job'[worker[v].session] = "processing"
  BY <1>o, <1>1, <1>t DEF Ownership, WorkerStates
<1>3. worker'[w].session # None => job'[worker'[w].session] = "processing"
  BY <1>t
<1>4. OneOwner'
  BY <1>o, <1>1, <1>t DEF Ownership, OneOwner
<1> QED
  BY <1>o, <1>2, <1>3, <1>4, <1>t DEF Ownership

(* A worker that goes on with its session. *)
LEMMA GoesOn ==
  ASSUME IInv, NEW w \in Workers, NEW s \in Sessions, NEW x \in WorkerStates,
         worker[w].session = s, worker' = [worker EXCEPT ![w] = x], UNCHANGED job,
         x.session = s, x.pc \notin {"idle", "dead"}
  PROVE  Ownership'
<1>1. job[s] = "processing" /\ job = [job EXCEPT ![s] = "processing"]
  BY OutboxAssumption DEF IInv, WorkInv, Ownership, TypeOK, OutboxAssumption, Sessions
<1>2. "processing" \in JobPlaces
  BY DEF JobPlaces
<1> QED
  BY <1>1, <1>2, OwnershipStep

(* RetryOrFail leaves a worker that has nothing more to establish. *)
LEMMA Retries ==
  ASSUME IInv, NEW w \in Workers, NEW s \in Sessions, worker[w].session = s,
         RetryOrFail(w, s), UNCHANGED << job, outcome >>,
         \A t \in Sessions : Durable(t) => Durable(t)'
  PROVE  WorkInv'
<1>1. PICK pc \in {"failing", "claimed"} : worker' = [worker EXCEPT ![w] = On(pc, s, "open")]
  BY DEF RetryOrFail
<1> DEFINE x == On(pc, s, "open")
<1>2. x \in WorkerStates /\ x.session = s /\ x.pc = pc
  BY WorkerStateType DEF On, WorkerSteps, Outcomes
<1>3. Ownership'
  BY <1>1, <1>2, GoesOn
<1>4. worker \in [Workers -> WorkerStates]
  BY DEF IInv, TypeOK
<1>5. worker'[w] = x /\ \A v \in Workers \ {w} : worker'[v] = worker[v]
  BY <1>1, <1>4
<1>6. \A v \in Workers \ {w} : StepInOrder(v)'
  BY <1>5, StepsElsewhere
<1>7. StepInOrder(w)'
  BY <1>2, <1>5 DEF StepInOrder
<1>8. AcknowledgedIsDurable'
  BY DEF IInv, WorkInv, AcknowledgedIsDurable, Published, Durable
<1> QED
  BY <1>3, <1>6, <1>7, <1>8 DEF WorkInv, StepsInOrder

LEMMA DurableSame ==
  ASSUME UNCHANGED outboxVars
  PROVE  \A t \in Sessions : Durable(t) => Durable(t)'
BY DEF outboxVars, Durable, Settled

LEMMA ClaimWork ==
  ASSUME IInv, NEW w \in Workers, NEW s \in Sessions, Claim(w, s)
  PROVE  WorkInv'
<1> DEFINE x == On("claimed", s, "open")
<1>1. x \in WorkerStates /\ x.session = s /\ x.pc = "claimed"
  BY WorkerStateType DEF On, WorkerSteps, Outcomes
<1>2. Ownership'
  <2>1. worker[w].session = None /\ job[s] = "pending"
    BY DEF Claim, Free
  <2>2. worker' = [worker EXCEPT ![w] = x] /\ job' = [job EXCEPT ![s] = "processing"]
    BY DEF Claim
  <2> QED
    BY <1>1, <2>1, <2>2, OwnershipStep DEF JobPlaces
<1>3. worker'[w] = x /\ \A v \in Workers \ {w} : worker'[v] = worker[v]
  BY DEF Claim, IInv, TypeOK
<1>4. \A v \in Workers \ {w} : StepInOrder(v)'
  BY <1>3, StepsElsewhere, DurableSame DEF Claim
<1>5. StepInOrder(w)'
  BY <1>1, <1>3 DEF StepInOrder
<1>6. AcknowledgedIsDurable'
  <2>1. \A t \in Sessions : job'[t] = "acknowledged" => job[t] = "acknowledged"
    BY DEF Claim, IInv, TypeOK
  <2> QED
    BY <2>1, DurableSame DEF Claim, IInv, WorkInv, AcknowledgedIsDurable, Published, Durable
<1> QED
  BY <1>2, <1>4, <1>5, <1>6 DEF WorkInv, StepsInOrder

(* A thread ends, with no session left to it. *)
LEMMA LetsGo ==
  ASSUME IInv, NEW w \in Workers, NEW s \in Sessions, NEW x \in WorkerStates,
         NEW place \in JobPlaces,
         worker' = [worker EXCEPT ![w] = x], job' = [job EXCEPT ![s] = place],
         UNCHANGED << outboxVars, outcome >>,
         worker[w].session = s \/ (worker[w].session = None /\ job[s] = "pending"),
         x.session = None, x.pc \in {"idle", "dead"},
         place = "acknowledged" => outcome[s] # "open" /\ (Published(s) => Durable(s))
  PROVE  WorkInv'
<1>1. Ownership'
  BY OwnershipStep
<1>2. worker'[w] = x /\ \A v \in Workers \ {w} : worker'[v] = worker[v]
  BY DEF IInv, TypeOK
<1>3. \A v \in Workers \ {w} : StepInOrder(v)'
  BY <1>2, StepsElsewhere, DurableSame
<1>4. StepInOrder(w)'
  BY <1>2 DEF StepInOrder
<1>5. AcknowledgedIsDurable'
  <2>1. \A t \in Sessions \ {s} : job'[t] = job[t]
    BY DEF IInv, TypeOK
  <2>2. job'[s] = place
    BY DEF IInv, TypeOK
  <2> QED
    BY <2>1, <2>2, DurableSame DEF IInv, WorkInv, AcknowledgedIsDurable, Published, Durable
<1> QED
  BY <1>1, <1>3, <1>4, <1>5 DEF WorkInv, StepsInOrder

LEMMA FreeShape ==
  /\ Free.session = None /\ Free.pc = "idle"
  /\ [Free EXCEPT !.pc = "dead"].session = None /\ [Free EXCEPT !.pc = "dead"].pc = "dead"
BY DEF Free

LEMMA ClaimRaisesWork ==
  ASSUME IInv, NEW w \in Workers, NEW s \in Sessions, ClaimRaises(w, s)
  PROVE  WorkInv'
<1>1. worker' = [worker EXCEPT ![w] = [Free EXCEPT !.pc = "dead"]]
  BY DEF ClaimRaises, Goto, Free, IInv, TypeOK
<1>2. job' = [job EXCEPT ![s] = "pending"]
  BY DEF ClaimRaises, IInv, TypeOK
<1>3. worker[w].session = None /\ job[s] = "pending"
  BY DEF ClaimRaises, Free
<1> QED
  BY <1>1, <1>2, <1>3, FreeType, FreeShape, LetsGo
  DEF ClaimRaises, JobPlaces

LEMMA DeadLetterWork ==
  ASSUME IInv, NEW w \in Workers, NEW s \in Sessions, DeadLetterJob(w, s)
  PROVE  WorkInv'
<1>1. job[s] = "processing" /\ worker[w].session = s
  BY OutboxAssumption
  DEF DeadLetterJob, IInv, WorkInv, Ownership, OutboxAssumption, Sessions
<1>2. CASE worker' = [worker EXCEPT ![w] = Free] /\ job' = [job EXCEPT ![s] = "failed"]
  BY <1>1, <1>2, FreeType, FreeShape, LetsGo DEF DeadLetterJob, JobPlaces
<1>3. CASE worker' = [worker EXCEPT ![w] = [Free EXCEPT !.pc = "dead"]] /\ UNCHANGED job
  <2>1. job' = [job EXCEPT ![s] = "processing"]
    BY <1>1, <1>3 DEF IInv, TypeOK
  <2> QED
    BY <1>1, <1>3, <2>1, FreeType, FreeShape, LetsGo DEF DeadLetterJob, JobPlaces
<1> QED
  BY <1>2, <1>3 DEF DeadLetterJob

(* A worker that goes on with its session, and what it has to establish.   *)
LEMMA NextStep ==
  ASSUME IInv, NEW w \in Workers, NEW s \in Sessions, NEW x \in WorkerStates,
         worker[w].session = s, worker' = [worker EXCEPT ![w] = x],
         x.session = s, x.pc \notin {"idle", "dead"}, UNCHANGED job,
         \A t \in Sessions \ {s} : outcome'[t] = outcome[t],
         \A t \in Sessions : Durable(t) => Durable(t)',
         x.pc = "enqueue" => outcome'[s] = "open" /\ x.reading \in Readings,
         x.pc = "mark" => outcome'[s] = "open" /\ x.reading \in {"no_weight"} \cup Readings,
         x.pc = "activate" => outcome'[s] \in Readings,
         x.pc = "acknowledge" =>
           outcome'[s] # "open" /\ (outcome'[s] \in Readings => Durable(s)')
  PROVE  WorkInv'
<1>1. Ownership'
  BY GoesOn
<1>2. worker'[w] = x /\ \A v \in Workers \ {w} : worker'[v] = worker[v]
  BY DEF IInv, TypeOK
<1>3. \A v \in Workers \ {w} : StepInOrder(v)'
  BY <1>2, StepsElsewhere
<1>4. StepInOrder(w)'
  BY <1>2 DEF StepInOrder, Published, Durable, Settled
<1>5. AcknowledgedIsDurable'
  <2>1. job[s] # "acknowledged"
    BY OutboxAssumption DEF IInv, WorkInv, Ownership, OutboxAssumption, Sessions
  <2> QED
    BY <2>1 DEF IInv, WorkInv, AcknowledgedIsDurable, Published, Durable
<1> QED
  BY <1>1, <1>3, <1>4, <1>5 DEF WorkInv, StepsInOrder

LEMMA GotoShape ==
  ASSUME TypeOK, NEW w \in Workers, NEW pc \in WorkerSteps, Goto(w, pc)
  PROVE  \E x \in WorkerStates :
           /\ worker' = [worker EXCEPT ![w] = x] /\ x.pc = pc
           /\ x.session = worker[w].session /\ x.reading = worker[w].reading
<1> DEFINE x == [worker[w] EXCEPT !.pc = pc]
<1>1. x \in WorkerStates /\ x.pc = pc /\ x.session = worker[w].session
        /\ x.reading = worker[w].reading
  BY DEF TypeOK, WorkerStates
<1>2. worker' = [worker EXCEPT ![w] = x]
  BY DEF Goto
<1> QED
  BY <1>1, <1>2

LEMMA RecogniseWork ==
  ASSUME IInv, NEW w \in Workers, NEW s \in Sessions, Recognise(w, s)
  PROVE  WorkInv'
<1>1. worker[w].session = s /\ TypeOK /\ UNCHANGED << outboxVars, job, outcome >>
  BY DEF Recognise, On, IInv
<1>2. \A t \in Sessions : Durable(t) => Durable(t)'
  BY <1>1, DurableSame
<1>3. CASE Published(s) /\ Goto(w, "activate")
  <2>1. PICK x \in WorkerStates : /\ worker' = [worker EXCEPT ![w] = x]
                                  /\ x.pc = "activate" /\ x.session = s
    BY <1>1, <1>3, GotoShape DEF WorkerSteps
  <2> QED
    BY <1>1, <1>2, <1>3, <2>1, NextStep DEF Published
<1>4. CASE outcome[s] = "no_weight" /\ Goto(w, "acknowledge")
  <2>1. PICK x \in WorkerStates : /\ worker' = [worker EXCEPT ![w] = x]
                                  /\ x.pc = "acknowledge" /\ x.session = s
    BY <1>1, <1>4, GotoShape DEF WorkerSteps
  <2> QED
    BY <1>1, <1>2, <1>4, <2>1, NextStep, WorkerAssumption
<1>5. CASE /\ outcome[s] = "open"
           /\ worker' = [worker EXCEPT ![w] = On("mark", s, "no_weight")]
  <2> DEFINE x == On("mark", s, "no_weight")
  <2>1. x \in WorkerStates
    BY WorkerStateType DEF WorkerSteps, Outcomes
  <2>2. x.pc = "mark" /\ x.session = s /\ x.reading = "no_weight"
    BY DEF On
  <2>3. worker' = [worker EXCEPT ![w] = x]
    BY <1>5
  <2> HIDE DEF x
  <2> QED
    BY <1>1, <1>2, <1>5, <2>1, <2>2, <2>3, NextStep
<1>6. ASSUME outcome[s] = "open",
             NEW r \in Readings, worker' = [worker EXCEPT ![w] = On("enqueue", s, r)]
      PROVE  WorkInv'
  <2> DEFINE x == On("enqueue", s, r)
  <2>1. x \in WorkerStates
    BY WorkerStateType DEF WorkerSteps, Outcomes
  <2>2. x.pc = "enqueue" /\ x.session = s /\ x.reading = r
    BY DEF On
  <2>3. worker' = [worker EXCEPT ![w] = x]
    BY <1>6
  <2> HIDE DEF x
  <2> QED
    BY <1>1, <1>2, <1>6, <2>1, <2>2, <2>3, NextStep
<1> QED
  BY <1>3, <1>4, <1>5, <1>6 DEF Recognise, AlreadyFinalized, Decide

LEMMA RecogniseFailsWork ==
  ASSUME IInv, NEW w \in Workers, NEW s \in Sessions, RecogniseFails(w, s)
  PROVE  WorkInv'
<1>1. worker[w].session = s
  BY DEF RecogniseFails, On
<1> QED
  BY <1>1, Retries, DurableSame DEF RecogniseFails

LEMMA MarkFinalizedWork ==
  ASSUME IInv, NEW w \in Workers, NEW s \in Sessions, MarkFinalized(w, s)
  PROVE  WorkInv'
<1>1. /\ worker[w].session = s /\ worker[w].pc = "mark" /\ TypeOK
      /\ UNCHANGED << outboxVars, job >>
  BY DEF MarkFinalized, IInv
<1>2. \A t \in Sessions : Durable(t) => Durable(t)'
  BY <1>1, DurableSame
<1>3. CASE Fault("finalizeWrite") /\ RetryOrFail(w, s) /\ UNCHANGED outcome
  BY <1>1, <1>2, <1>3, Retries
<1>4. CASE /\ outcome' = [outcome EXCEPT ![s] = worker[w].reading]
           /\ Goto(w, IF worker[w].reading = "no_weight" THEN "acknowledge" ELSE "activate")
  <2> DEFINE r == worker[w].reading
             pc == IF r = "no_weight" THEN "acknowledge" ELSE "activate"
  <2>1. outcome[s] = "open" /\ r \in {"no_weight"} \cup Readings
    BY <1>1 DEF IInv, WorkInv, StepsInOrder, StepInOrder
  <2>2. pc \in WorkerSteps
    BY DEF WorkerSteps
  <2>3. PICK x \in WorkerStates : /\ worker' = [worker EXCEPT ![w] = x]
                                  /\ x.pc = pc /\ x.session = s
    BY <1>1, <1>4, <2>2, GotoShape
  <2>4. outcome'[s] = r /\ \A t \in Sessions \ {s} : outcome'[t] = outcome[t]
    BY <1>1, <1>4 DEF TypeOK
  <2>5. x.pc = "activate" => outcome'[s] \in Readings
    BY <2>1, <2>3, <2>4
  <2>6. x.pc = "acknowledge" => outcome'[s] = "no_weight"
    BY <2>3, <2>4
  <2>7. x.pc \in {"acknowledge", "activate"}
    BY <2>3
  <2> HIDE DEF r, pc
  <2> QED
    BY <1>1, <1>2, <2>3, <2>4, <2>5, <2>6, <2>7, NextStep, WorkerAssumption
<1> QED
  BY <1>3, <1>4 DEF MarkFinalized

LEMMA AcknowledgeWork ==
  ASSUME IInv, NEW w \in Workers, NEW s \in Sessions, Acknowledge(w, s)
  PROVE  WorkInv'
<1>1. /\ worker[w].session = s /\ worker[w].pc = "acknowledge"
      /\ UNCHANGED << outboxVars, outcome >>
  BY DEF Acknowledge
<1>2. CASE Fault("spoolMove") /\ RetryOrFail(w, s) /\ UNCHANGED job
  BY <1>1, <1>2, Retries, DurableSame
<1>3. CASE job' = [job EXCEPT ![s] = "acknowledged"] /\ worker' = [worker EXCEPT ![w] = Free]
  <2>1. outcome[s] # "open" /\ (Published(s) => Durable(s))
    BY <1>1 DEF IInv, WorkInv, StepsInOrder, StepInOrder
  <2> QED
    BY <1>1, <1>3, <2>1, FreeType, FreeShape, LetsGo DEF JobPlaces
<1> QED
  BY <1>2, <1>3 DEF Acknowledge

-----------------------------------------------------------------------------
(* The steps of the workers that change the outbox. *)

LEMMA OutboxFacts ==
  ASSUME IInv
  PROVE  /\ faults \in Nat /\ queue \in Seq(Events)
         /\ sent \in [Events -> Nat] /\ kept \in [Events -> Nat]
         /\ unconfirmed \in [Events -> Nat]
         /\ pending \in [Events -> Marks] /\ disk \in [Events -> Marks]
         /\ sender \in SenderStates /\ completed \subseteq Events
         /\ deadLetters \subseteq Events /\ aged \subseteq Events
         /\ outcome \in [Events -> Outcomes]
         /\ sender.pc = "idle" <=> sender.event = None
         /\ None \notin Events
BY OutboxAssumption DEF IInv, TypeOK, OutboxTypeOK, OutboxAssumption, Sessions

(* No copy was made, and what was acknowledged or is waited for still is.  *)
LEMMA StillPaidFor ==
  ASSUME IInv, NEW t \in Sessions, Copies(t)' = Copies(t), unconfirmed'[t] = unconfirmed[t],
         faults' \in {faults, faults + 1},
         Acknowledging(t) => Acknowledging(t)',
         sender = At("waiting", t) => sender' = At("waiting", t) \/ Acknowledging(t)'
  PROVE  PaidFor(t)'
<1>1. sent[t] \in Nat /\ kept[t] \in Nat /\ unconfirmed[t] \in Nat /\ faults \in Nat
  BY OutboxFacts DEF Sessions
<1>2. PaidFor(t)
  BY DEF IInv, OutboxInv, CopiesPaidFor
<1>3. Excuses(t)' \in {Excuses(t), Excuses(t) + 1} /\ Excuses(t) \in Nat /\ Copies(t) \in Nat
  BY <1>1 DEF Excuses, Copies
<1> QED
  BY <1>2, <1>3 DEF PaidFor

LEMMA StageInv ==
  ASSUME IInv, NEW s \in Sessions, New(s), Stage(s), outcome[s] = "open", UNCHANGED outcome,
         disk' \in {disk, pending'}, faults' \in {faults, faults + 1}
  PROVE  OutboxInv' /\ \A t \in Sessions : Durable(t) => Durable(t)'
<1>t. s \in Events /\ pending'[s] = "held" /\ \A t \in Events \ {s} : pending'[t] = pending[t]
  BY OutboxFacts DEF Sessions, Stage
<1>u. UNCHANGED << queue, completed, deadLetters, sender, kept, sent, unconfirmed, outcome >>
  BY DEF Stage
<1>p. ~Published(s)
  BY WorkerAssumption DEF Published
<1>1. DiskFollows' /\ \A t \in Sessions : Durable(t) => Durable(t)'
  <2>1. \A t \in Sessions : pending[t] = "active" => pending'[t] = "active"
    BY <1>t DEF Sessions, New
  <2> QED
    BY <2>1, <1>u, DurableKept
<1>2. OnlyPublished'
  <2>1. \A t \in Sessions : disk'[t] = "active" \/ pending'[t] = "active" =>
                              disk[t] = "active" \/ pending[t] = "active"
    BY <1>t DEF Sessions
  <2> QED
    BY <2>1, <1>u DEF IInv, OutboxInv, OnlyPublished, Published
<1>3. SenderInOrder'
  <2>1. sender.pc \in {"read", "waiting"} => sender.event \in Events
    BY OutboxFacts DEF SenderStates
  <2> QED
    BY <1>t, <1>u, <2>1 DEF IInv, OutboxInv, SenderInOrder
<1>4. AbandonedIsAged'
  BY <1>p DEF Stage, IInv, OutboxInv, AbandonedIsAged, OnlyPublished
<1>5. CompletedLeaves'
  BY <1>t, <1>u, OutboxFacts DEF New, IInv, OutboxInv, CompletedLeaves, LedgerReadable
<1>6. CopiesPaidFor'
  <2> SUFFICES ASSUME NEW t \in Sessions PROVE PaidFor(t)'
    BY DEF CopiesPaidFor
  <2>1. Acknowledging(t) => Acknowledging(t)'
    BY <1>t, <1>u DEF New, Acknowledging, Sessions
  <2> QED
    BY <1>u, <2>1, StillPaidFor DEF Copies
<1> QED
  BY <1>1, <1>2, <1>3, <1>4, <1>5, <1>6 DEF OutboxInv

LEMMA ReleaseInv ==
  ASSUME IInv, NEW s \in Sessions, Release(s), Published(s), UNCHANGED outcome,
         disk' \in {disk, pending'}, faults' \in {faults, faults + 1},
         queue' \in {queue, Append(queue, s)}
  PROVE  OutboxInv' /\ \A t \in Sessions : Durable(t) => Durable(t)'
<1>t. /\ s \in Events /\ pending'[s] = "active" /\ pending[s] # "absent"
      /\ \A t \in Events \ {s} : pending'[t] = pending[t]
  BY OutboxFacts DEF Sessions, Release
<1>u. UNCHANGED << completed, deadLetters, aged, sender, kept, sent, unconfirmed, outcome >>
  BY DEF Release
<1>1. DiskFollows' /\ \A t \in Sessions : Durable(t) => Durable(t)'
  <2>1. \A t \in Sessions : pending[t] = "active" => pending'[t] = "active"
    BY <1>t DEF Sessions
  <2> QED
    BY <2>1, <1>u, DurableKept
<1>2. OnlyPublished'
  <2>1. \A t \in Sessions : disk'[t] = "active" \/ pending'[t] = "active" =>
                              t = s \/ disk[t] = "active" \/ pending[t] = "active"
    BY <1>t DEF Sessions
  <2>2. \A i \in 1 .. Len(queue') : queue'[i] = s \/ Published(queue'[i])
    <3>1. \A i \in 1 .. Len(Append(queue, s)) :
            Append(queue, s)[i] = s \/ (i \in 1 .. Len(queue) /\ Append(queue, s)[i] = queue[i])
      BY <1>t, OutboxFacts
    <3> QED
      BY <3>1 DEF IInv, OutboxInv, OnlyPublished
  <2> QED
    BY <2>1, <2>2, <1>u DEF IInv, OutboxInv, OnlyPublished, Published
<1>3. SenderInOrder'
  <2>1. sender.pc \in {"read", "waiting"} => sender.event \in Events
    BY OutboxFacts DEF SenderStates
  <2> QED
    BY <1>t, <1>u, <2>1 DEF IInv, OutboxInv, SenderInOrder
<1>4. AbandonedIsAged'
  BY <1>u DEF IInv, OutboxInv, AbandonedIsAged
<1>5. CompletedLeaves'
  BY <1>t, <1>u, OutboxFacts DEF IInv, OutboxInv, CompletedLeaves, LedgerReadable
<1>6. CopiesPaidFor'
  <2> SUFFICES ASSUME NEW t \in Sessions PROVE PaidFor(t)'
    BY DEF CopiesPaidFor
  <2>1. Acknowledging(t) => Acknowledging(t)'
    BY <1>t, <1>u DEF Acknowledging, Sessions
  <2> QED
    BY <1>u, <2>1, StillPaidFor DEF Copies
<1> QED
  BY <1>1, <1>2, <1>3, <1>4, <1>5, <1>6 DEF OutboxInv

LEMMA FaultCount ==
  ASSUME NEW kind, Fault(kind)
  PROVE  faults' \in {faults, faults + 1}
BY DEF Fault

LEMMA StageEventInv ==
  ASSUME IInv, NEW w \in Workers, NEW s \in Sessions, StageEvent(w, s)
  PROVE  OutboxInv' /\ WorkInv'
<1>1. /\ worker[w].session = s /\ worker[w].pc = "enqueue" /\ UNCHANGED << job, outcome >>
      /\ TypeOK
  BY DEF StageEvent, IInv
<1>2. outcome[s] = "open" /\ worker[w].reading \in Readings
  BY <1>1 DEF IInv, WorkInv, StepsInOrder, StepInOrder
<1>3. CASE Enqueue(s) /\ Goto(w, "mark")
  <2>1. OutboxInv' /\ \A t \in Sessions : Durable(t) => Durable(t)'
    <3>1. CASE New(s) /\ Stage(s) /\ Persist /\ UNCHANGED faults
      BY <3>1, <1>1, <1>2, StageInv DEF Persist
    <3>2. CASE UNCHANGED << outboxVars, faults >>
      BY <3>2, <1>1, OutboxKept, DurableSame DEF Published
    <3> QED
      BY <1>3, <3>1, <3>2 DEF Enqueue
  <2>2. PICK x \in WorkerStates : /\ worker' = [worker EXCEPT ![w] = x] /\ x.pc = "mark"
                                  /\ x.session = s /\ x.reading \in Readings
    BY <1>1, <1>2, <1>3, GotoShape DEF WorkerSteps
  <2> QED
    BY <1>1, <1>2, <2>1, <2>2, NextStep
<1>4. CASE EnqueueRaises(s) /\ RetryOrFail(w, s)
  <2>1. OutboxInv' /\ \A t \in Sessions : Durable(t) => Durable(t)'
    <3>1. CASE New(s) /\ Stage(s) /\ UNCHANGED disk /\ Fault("outboxWrite")
      BY <3>1, <1>1, <1>2, StageInv, FaultCount
    <3>2. CASE UNCHANGED outboxVars /\ Fault("ledgerRead")
      BY <3>2, <1>1, OutboxKept, DurableSame, FaultCount DEF Published
    <3> QED
      BY <1>4, <3>1, <3>2 DEF EnqueueRaises
  <2> QED
    BY <1>1, <1>4, <2>1, Retries
<1> QED
  BY <1>3, <1>4 DEF StageEvent

LEMMA ActivateEventInv ==
  ASSUME IInv, NEW w \in Workers, NEW s \in Sessions, ActivateEvent(w, s)
  PROVE  OutboxInv' /\ WorkInv'
<1>1. /\ worker[w].session = s /\ worker[w].pc = "activate" /\ UNCHANGED << job, outcome >>
      /\ TypeOK
  BY DEF ActivateEvent, IInv
<1>2. Published(s)
  BY <1>1 DEF IInv, WorkInv, StepsInOrder, StepInOrder
<1>k. ASSUME UNCHANGED outboxVars, faults' \in {faults, faults + 1}
      PROVE  OutboxInv' /\ \A t \in Sessions : Durable(t) => Durable(t)'
  BY <1>k, <1>1, OutboxKept, DurableSame DEF Published
<1>3. CASE Activate(s) /\ Goto(w, "acknowledge")
  <2>1. OutboxInv' /\ Durable(s)' /\ \A t \in Sessions : Durable(t) => Durable(t)'
    <3>1. CASE Release(s) /\ Persist /\ queue' = Append(queue, s) /\ UNCHANGED faults
      <4>1. disk'[s] = "active"
        BY <3>1, OutboxFacts DEF Release, Persist, Sessions
      <4> QED
        BY <3>1, <4>1, <1>1, <1>2, ReleaseInv DEF Persist, Durable
    <3>2. CASE s \in completed /\ UNCHANGED << outboxVars, faults >>
      BY <3>2, <1>k DEF Durable, Settled, outboxVars
    <3> QED
      BY <1>3, <3>1, <3>2 DEF Activate
  <2>2. PICK x \in WorkerStates : /\ worker' = [worker EXCEPT ![w] = x]
                                  /\ x.pc = "acknowledge" /\ x.session = s
    BY <1>1, <1>3, GotoShape DEF WorkerSteps
  <2> QED
    BY <1>1, <1>2, <2>1, <2>2, NextStep, WorkerAssumption DEF Published
<1>4. CASE ActivateRefused(s) /\ RetryOrFail(w, s)
  BY <1>1, <1>4, <1>k, Retries DEF ActivateRefused
<1>5. CASE ActivateRaises(s) /\ RetryOrFail(w, s)
  <2>1. OutboxInv' /\ \A t \in Sessions : Durable(t) => Durable(t)'
    <3>1. CASE Release(s) /\ UNCHANGED << disk, queue >> /\ Fault("outboxWrite")
      BY <3>1, <1>1, <1>2, ReleaseInv, FaultCount
    <3>2. CASE UNCHANGED outboxVars /\ Fault("ledgerRead")
      BY <3>2, <1>k, FaultCount
    <3> QED
      BY <1>5, <3>1, <3>2 DEF ActivateRaises
  <2> QED
    BY <1>1, <1>5, <2>1, Retries
<1> QED
  BY <1>3, <1>4, <1>5 DEF ActivateEvent

-----------------------------------------------------------------------------
(* The steps of the publish thread. *)

LEMMA AtShape ==
  \A pc, e : At(pc, e).pc = pc /\ At(pc, e).event = e
BY DEF At

(* A step that only moves the sender on, or changes the history.           *)
LEMMA TakeInv == ASSUME IInv, Take, UNCHANGED workVars PROVE OutboxInv' /\ WorkInv'
<1>u. /\ UNCHANGED << pending, disk, completed, deadLetters, aged, faults, outcome >>
      /\ UNCHANGED << kept, sent, unconfirmed >>
  BY DEF Take, workVars
<1>d. DiskFollows' /\ \A t \in Sessions : Durable(t) => Durable(t)'
  BY <1>u DEF IInv, OutboxInv, DiskFollows, Durable, Settled
<1>1. /\ Head(queue) \in Events /\ Published(Head(queue))
      /\ \A i \in 1 .. Len(Tail(queue)) : Published(Tail(queue)[i])
  <2>1. queue \in Seq(Events) /\ queue # << >>
    BY OutboxFacts DEF Take
  <2>2. /\ Head(queue) = queue[1] /\ 1 \in 1 .. Len(queue) /\ queue[1] \in Events
        /\ \A i \in 1 .. Len(Tail(queue)) :
             i + 1 \in 1 .. Len(queue) /\ Tail(queue)[i] = queue[i + 1]
    BY <2>1
  <2> QED
    BY <2>2 DEF IInv, OutboxInv, OnlyPublished
<1>s. \/ sender' = Idle
      \/ sender' = At("read", Head(queue)) /\ pending[Head(queue)] # "absent"
  BY DEF Take
<1>2. OnlyPublished'
  <2>1. sender'.event # None => Published(sender'.event)
    BY <1>1, <1>s, AtShape, IdleType
  <2>2. queue' = Tail(queue)
    BY DEF Take
  <2> QED
    BY <1>1, <1>u, <2>1, <2>2 DEF IInv, OutboxInv, OnlyPublished, Published
<1>3. SenderInOrder'
  BY <1>s, <1>u, AtShape, IdleType DEF SenderInOrder
<1>4. AbandonedIsAged'
  BY <1>u DEF IInv, OutboxInv, AbandonedIsAged
<1>i. \A pc, e : pc # "idle" => sender # At(pc, e)
  BY AtShape, IdleType DEF Take
<1>5. CompletedLeaves'
  BY <1>u, <1>i DEF IInv, OutboxInv, CompletedLeaves, LedgerReadable
<1>6. CopiesPaidFor'
  <2> SUFFICES ASSUME NEW t \in Sessions PROVE PaidFor(t)'
    BY DEF CopiesPaidFor
  <2> QED
    BY <1>u, <1>i, StillPaidFor DEF Acknowledging, Copies
<1> QED
  BY <1>d, <1>2, <1>3, <1>4, <1>5, <1>6, WorkKept DEF OutboxInv

LEMMA AgeInv ==
  ASSUME IInv, NEW e \in Events, Age(e), UNCHANGED workVars
  PROVE  OutboxInv' /\ WorkInv'
<1>u. /\ UNCHANGED << pending, disk, queue, completed, deadLetters, sender, faults >>
      /\ UNCHANGED << kept, sent, unconfirmed, outcome >> /\ aged \subseteq aged'
  BY DEF Age, workVars
<1>d. \A t \in Sessions : Durable(t) => Durable(t)'
  BY <1>u DEF Durable, Settled
<1>1. OutboxInv'
  BY <1>u DEF IInv, OutboxInv, OnlyPublished, SenderInOrder, DiskFollows, AbandonedIsAged,
     CompletedLeaves, CopiesPaidFor, PaidFor, Copies, Excuses, Published, Settled,
     Acknowledging, LedgerReadable
<1> QED
  BY <1>1, <1>d, WorkKept

(* A step for an event that is published, which leaves memory and file      *)
(* alone.                                                                  *)
LEMMA MovesOn ==
  ASSUME IInv, NEW e \in Events, Published(e), UNCHANGED workVars,
         UNCHANGED << pending, disk, completed, aged >>,
         \A t \in Events \ {e} : sent'[t] = sent[t] /\ kept'[t] = kept[t],
         sent[e] > 0 => sent'[e] > 0,
         \/ sender' = sender
         \/ sender'.event \in {None, e} /\ \A t : sender # At("recorded", t),
         queue' \in {queue, Append(queue, e)},
         deadLetters \subseteq deadLetters', deadLetters' \subseteq (deadLetters \cup {e}) \cap aged,
         SenderInOrder', CopiesPaidFor'
  PROVE  OutboxInv' /\ WorkInv'
<1>u. UNCHANGED outcome
  BY DEF workVars
<1>1. DiskFollows' /\ \A t \in Sessions : Durable(t) => Durable(t)'
  BY DEF IInv, OutboxInv, DiskFollows, Durable, Settled, Sessions
<1>2. OnlyPublished'
  <2>1. \A i \in 1 .. Len(queue') : Published(queue'[i])
    <3>1. \A i \in 1 .. Len(Append(queue, e)) :
            Append(queue, e)[i] = e \/ (i \in 1 .. Len(queue) /\ Append(queue, e)[i] = queue[i])
      BY OutboxFacts
    <3> QED
      BY <3>1 DEF IInv, OutboxInv, OnlyPublished
  <2>2. sender'.event # None => Published(sender'.event)
    BY DEF IInv, OutboxInv, OnlyPublished
  <2>3. \A t \in Sessions : sent'[t] > 0 \/ kept'[t] > 0 \/ t \in deadLetters' =>
                              t = e \/ sent[t] > 0 \/ kept[t] > 0 \/ t \in deadLetters
    BY DEF Sessions
  <2> QED
    BY <2>1, <2>2, <2>3, <1>u DEF IInv, OutboxInv, OnlyPublished, Published
<1>3. AbandonedIsAged'
  BY DEF AbandonedIsAged
<1>4. CompletedLeaves'
  BY DEF IInv, OutboxInv, CompletedLeaves, LedgerReadable
<1> QED
  BY <1>1, <1>2, <1>3, <1>4, WorkKept DEF OutboxInv

(* The event is given up, cannot be, or is put back. *)
LEMMA TurnAwayInv ==
  ASSUME IInv, NEW e \in Events, UNCHANGED workVars,
         Expire(e) \/ ExpireRaises(e) \/ Requeue(e)
  PROVE  OutboxInv' /\ WorkInv'
<1>0. /\ sender.event = e /\ sender.pc \in {"read", "retry"}
      /\ sender' = Idle \/ \E pc \in {"expired", "retry"} : sender' = At(pc, e)
      /\ UNCHANGED << pending, disk, completed, aged, kept, sent, unconfirmed >>
      /\ queue' \in {queue, Append(queue, e)} /\ faults' \in {faults, faults + 1}
      /\ deadLetters \subseteq deadLetters' /\ deadLetters' \subseteq deadLetters \cup ({e} \cap aged)
  BY AtShape, FaultCount DEF Expire, ExpireRaises, Requeue
<1>p. Published(e) /\ deadLetters \subseteq aged
  BY <1>0, OutboxFacts DEF IInv, OutboxInv, OnlyPublished, AbandonedIsAged
<1>s. sender'.event \in {None, e} /\ sender'.pc \in {"idle", "expired", "retry"}
  BY <1>0, AtShape, IdleType
<1>r. \A t : sender # At("recorded", t) /\ sender # At("acked", t) /\ sender # At("waiting", t)
  BY <1>0, AtShape
<1>1. SenderInOrder'
  <2>1. CASE Expire(e)
    BY <2>1, AtShape DEF Expire, SenderInOrder
  <2>2. CASE sender' = Idle \/ sender' = At("retry", e)
    BY <2>2, AtShape, IdleType DEF SenderInOrder
  <2> QED
    BY <2>1, <2>2 DEF ExpireRaises, Requeue
<1>2. CopiesPaidFor'
  <2> SUFFICES ASSUME NEW t \in Sessions PROVE PaidFor(t)'
    BY DEF CopiesPaidFor
  <2> QED
    BY <1>0, <1>r, StillPaidFor DEF Acknowledging, Copies
<1> QED
  BY <1>0, <1>p, <1>s, <1>r, <1>1, <1>2, MovesOn

(* The client is given a message, or the wait for it ends without an ack.  *)
LEMMA SendInv ==
  ASSUME IInv, NEW e \in Events, UNCHANGED workVars,
         HandOver(e) \/ TimeOut(e) \/ SendRefused(e)
  PROVE  OutboxInv' /\ WorkInv'
<1> USE DEF GiveClient, Unconfirmed
<1>0. /\ sender.event = e /\ sender.pc \in {"read", "waiting"}
      /\ \E pc \in {"waiting", "retry"} : sender' = At(pc, e)
      /\ UNCHANGED << pending, disk, queue, completed, deadLetters, aged, sent, faults >>
  BY AtShape DEF HandOver, TimeOut, SendRefused
<1>p. Published(e) /\ deadLetters \subseteq aged /\ pending[e] # "absent"
  BY <1>0, OutboxFacts DEF IInv, OutboxInv, OnlyPublished, AbandonedIsAged, SenderInOrder
<1>r. \A t : sender # At("recorded", t) /\ sender # At("acked", t)
  BY <1>0, AtShape
<1>n. \A t \in Events : /\ sent[t] \in Nat /\ kept[t] \in Nat /\ unconfirmed[t] \in Nat
                        /\ faults \in Nat
                        /\ t # e => kept'[t] = kept[t] /\ unconfirmed'[t] = unconfirmed[t]
  BY OutboxFacts DEF HandOver, TimeOut, SendRefused
<1>1. SenderInOrder'
  <2>1. CASE HandOver(e)
    <3>1. kept'[e] > 0
      BY <2>1, OutboxFacts DEF HandOver
    <3> QED
      BY <2>1, <3>1, <1>0, <1>p, AtShape DEF HandOver, SenderInOrder
  <2>2. CASE sender' = At("retry", e)
    BY <2>2, AtShape DEF SenderInOrder
  <2> QED
    BY <2>1, <2>2 DEF TimeOut, SendRefused
<1>2. CopiesPaidFor'
  <2> SUFFICES ASSUME NEW t \in Sessions PROVE PaidFor(t)'
    BY DEF CopiesPaidFor
  <2>0. PaidFor(t) /\ t \in Events
    BY DEF IInv, OutboxInv, CopiesPaidFor, Sessions
  <2>1. CASE t # e
    <3>1. sender # At("waiting", t)
      BY <1>0, <2>1, AtShape
    <3> QED
      BY <1>0, <1>n, <1>r, <2>0, <2>1, <3>1, StillPaidFor DEF Acknowledging, Copies
  <2>2. CASE t = e
    <3>1. \/ Copies(e) <= Excuses(e)
          \/ Copies(e) <= 1 + Excuses(e) /\ sender = At("waiting", e)
      BY <2>0, <2>2, <1>r, <1>p DEF PaidFor, Acknowledging
    <3>2. CASE HandOver(e)
      <4>1. sender # At("waiting", e) /\ sender' = At("waiting", e) /\ kept'[e] = kept[e] + 1
            /\ unconfirmed'[e] = unconfirmed[e]
        BY <3>2, AtShape, OutboxFacts DEF HandOver
      <4> QED
        BY <1>0, <1>n, <2>2, <3>1, <4>1 DEF PaidFor, Copies, Excuses
    <3>3. CASE TimeOut(e)
      <4>1. kept'[e] = kept[e] /\ unconfirmed'[e] = unconfirmed[e] + 1
        BY <3>3, OutboxFacts DEF TimeOut
      <4> QED
        BY <1>0, <1>n, <2>2, <3>1, <4>1 DEF PaidFor, Copies, Excuses
    <3>4. CASE SendRefused(e)
      <4>1. /\ sender # At("waiting", e)
            /\ \/ kept'[e] = kept[e] /\ unconfirmed'[e] = unconfirmed[e]
               \/ kept'[e] = kept[e] + 1 /\ unconfirmed'[e] = unconfirmed[e] + 1
        BY <3>4, AtShape, OutboxFacts DEF SendRefused
      <4> QED
        BY <1>0, <1>n, <2>2, <3>1, <4>1 DEF PaidFor, Copies, Excuses
    <3> QED
      BY <3>2, <3>3, <3>4
  <2> QED
    BY <2>1, <2>2
<1>s. sender'.event = e
  BY <1>0, AtShape
<1> QED
  BY <1>0, <1>p, <1>r, <1>n, <1>s, <1>1, <1>2, MovesOn

(* The client's thread: what it delivers is of a published session. *)
LEMMA ClientInv ==
  ASSUME IInv, NEW e \in Events, ClientStep(e), UNCHANGED workVars
  PROVE  OutboxInv' /\ WorkInv'
<1> USE DEF Arrives
<1>0. /\ kept[e] > 0
      /\ UNCHANGED << pending, disk, queue, completed, deadLetters, aged, unconfirmed >>
      /\ sent' = [sent EXCEPT ![e] = @ + 1] /\ faults' \in {faults, faults + 1}
  BY FaultCount DEF ClientStep, Deliver, DeliverUnacked
<1>n. /\ \A t \in Events : sent[t] \in Nat /\ kept[t] \in Nat /\ unconfirmed[t] \in Nat
      /\ sent'[e] = sent[e] + 1 /\ faults \in Nat
      /\ \A t \in Events \ {e} : sent'[t] = sent[t] /\ kept'[t] = kept[t]
  BY <1>0, OutboxFacts DEF ClientStep, Deliver, DeliverUnacked
<1>p. Published(e) /\ deadLetters \subseteq aged
  BY <1>0 DEF IInv, OutboxInv, OnlyPublished, AbandonedIsAged, Sessions
<1>s. sender' = sender \/ (sender = At("waiting", e) /\ sender' = At("acked", e))
  BY DEF ClientStep, Deliver, DeliverUnacked
<1>1. SenderInOrder'
  <2>1. CASE sender = At("waiting", e) /\ sender' = At("acked", e)
    BY <2>1, <1>n, AtShape DEF SenderInOrder
  <2>2. CASE sender' = sender
    <3>1. \A t \in Events : sent[t] > 0 => sent'[t] > 0
      BY <1>n
    <3>2. sender.pc \notin {"idle"} => sender.event \in Events
      BY OutboxFacts DEF SenderStates
    <3>3. sender.pc = "waiting" => kept'[sender.event] > 0
      <4>1. CASE sender = At("waiting", e) => kept[e] > 1
        <5>1. kept'[e] \in {kept[e], kept[e] - 1}
          BY <1>0, OutboxFacts DEF ClientStep, Deliver, DeliverUnacked
        <5>2. sender.pc = "waiting" /\ sender.event = e => sender = At("waiting", e)
          BY OutboxFacts DEF SenderStates, At
        <5> QED
          BY <4>1, <5>1, <5>2, <3>2, <1>n DEF IInv, OutboxInv, SenderInOrder
      <4>2. CASE DeliverUnacked(e)
        BY <4>2 DEF DeliverUnacked, IInv, OutboxInv, SenderInOrder
      <4> QED
        BY <4>1, <4>2, <2>2, AtShape DEF ClientStep, Deliver
    <3> QED
      BY <2>2, <3>1, <3>2, <3>3, <1>0 DEF IInv, OutboxInv, SenderInOrder
  <2> QED
    BY <1>s, <2>1, <2>2
<1>2. CopiesPaidFor'
  <2> SUFFICES ASSUME NEW t \in Sessions PROVE PaidFor(t)'
    BY DEF CopiesPaidFor
  <2>0. PaidFor(t) /\ t \in Events
    BY DEF IInv, OutboxInv, CopiesPaidFor, Sessions
  <2>a. /\ Acknowledging(t) => Acknowledging(t)'
        /\ sender = At("waiting", t) => sender' = At("waiting", t) \/ Acknowledging(t)'
    BY <1>0, <1>s, AtShape DEF Acknowledging
  <2>1. CASE Deliver(e)
    <3>1. kept'[e] = kept[e] - 1 /\ UNCHANGED faults
      BY <2>1, OutboxFacts DEF Deliver
    <3>2. Copies(t)' = Copies(t)
      BY <3>1, <1>n, <2>0 DEF Copies
    <3> QED
      BY <2>a, <3>1, <3>2, <1>0, StillPaidFor
  <2>2. CASE DeliverUnacked(e)
    <3>0. /\ faults' = faults + 1 /\ kept' = kept /\ sent'[t] \in {sent[t], sent[t] + 1}
          /\ unconfirmed' = unconfirmed
      BY <2>2, <2>0, <1>0, <1>n DEF DeliverUnacked, Fault
    <3>1. /\ Excuses(t)' = Excuses(t) + 1
          /\ Copies(t)' \in {Copies(t), Copies(t) + 1}
          /\ Copies(t) \in Nat /\ Excuses(t) \in Nat
      BY <2>0, <3>0, <1>n DEF Excuses, Copies
    <3> QED
      BY <2>0, <2>a, <3>1 DEF PaidFor
  <2> QED
    BY <2>1, <2>2 DEF ClientStep
<1>r. sender' # sender => sender'.event = e /\ \A t : sender # At("recorded", t)
  BY <1>s, AtShape
<1> QED
  BY <1>0, <1>n, <1>p, <1>r, <1>1, <1>2, MovesOn

LEMMA MarkCompletedInv ==
  ASSUME IInv, NEW e \in Events, MarkCompleted(e), UNCHANGED workVars
  PROVE  OutboxInv' /\ WorkInv'
<1>0. /\ sender = At("acked", e) /\ sender' = At("recorded", e)
      /\ sender.event = e /\ sender.pc = "acked"
      /\ sender'.event = e /\ sender'.pc = "recorded"
      /\ UNCHANGED << pending, disk, queue, deadLetters, aged, outcome >>
      /\ UNCHANGED << kept, sent, unconfirmed >>
      /\ completed' \in {completed, completed \cup {e}}
  BY AtShape DEF MarkCompleted, workVars
<1>p. Published(e) /\ sent[e] > 0
  BY <1>0, OutboxFacts DEF IInv, OutboxInv, OnlyPublished, SenderInOrder
<1>1. DiskFollows' /\ \A t \in Sessions : Durable(t) => Durable(t)'
  BY <1>0 DEF IInv, OutboxInv, DiskFollows, Durable, Settled
<1>2. OnlyPublished'
  <2>1. \A t \in completed' : t = e \/ t \in completed
    BY <1>0
  <2> QED
    BY <1>0, <1>p, <2>1 DEF IInv, OutboxInv, OnlyPublished, Published
<1>3. SenderInOrder' /\ AbandonedIsAged'
  BY <1>0, <1>p DEF IInv, OutboxInv, SenderInOrder, AbandonedIsAged
<1>r. \A t : sender # At("recorded", t)
  BY <1>0, AtShape
<1>4. CompletedLeaves'
  BY <1>0, <1>r DEF IInv, OutboxInv, CompletedLeaves, LedgerReadable
<1>5. CopiesPaidFor'
  <2> SUFFICES ASSUME NEW t \in Sessions PROVE PaidFor(t)'
    BY DEF CopiesPaidFor
  <2>f. /\ faults \in Nat /\ sent[t] \in Nat /\ kept[t] \in Nat /\ unconfirmed[t] \in Nat
        /\ sender # At("waiting", t)
    BY <1>0, AtShape, OutboxFacts DEF Sessions
  <2>1. PaidFor(t)
    BY DEF IInv, OutboxInv, CopiesPaidFor
  <2>2. CASE completed' = completed \cup {e} /\ UNCHANGED faults
    <3>1. Acknowledging(t) => Acknowledging(t)'
      BY <2>2, <1>0, <1>r, AtShape DEF Acknowledging
    <3> QED
      BY <1>0, <2>2, <2>f, <3>1, StillPaidFor DEF Copies
  <2>3. CASE Fault("ledgerWrite")
    BY <1>0, <2>1, <2>3, <2>f DEF Fault, PaidFor, Copies, Excuses
  <2> QED
    BY <2>2, <2>3 DEF MarkCompleted
<1> QED
  BY <1>0, <1>1, <1>2, <1>3, <1>4, <1>5, WorkKept DEF OutboxInv

LEMMA MarkPublishedInv ==
  ASSUME IInv, NEW e \in Events, MarkPublished(e), UNCHANGED workVars
  PROVE  OutboxInv' /\ WorkInv'
<1>0. /\ sender \in { At("recorded", e), At("expired", e) }
      /\ sender.event = e /\ sender.pc \in {"recorded", "expired"}
      /\ sender' \in { Idle, At("retry", e) }
      /\ disk' \in {disk, pending'}
      /\ UNCHANGED << queue, completed, deadLetters, aged, kept, sent, unconfirmed, outcome >>
  BY AtShape DEF MarkPublished, Persist, workVars
<1>t. pending'[e] = "absent" /\ \A t \in Events \ {e} : pending'[t] = pending[t]
  BY OutboxFacts DEF MarkPublished
<1>p. Published(e) /\ Settled(e)
  BY <1>0, OutboxFacts DEF IInv, OutboxInv, OnlyPublished, SenderInOrder, Settled
<1>s. /\ sender'.pc \in {"idle", "retry"} /\ sender'.event \in {None, e}
      /\ \A t : sender' # At("recorded", t) /\ sender' # At("acked", t)
  BY <1>0, AtShape, IdleType
<1>1. DiskFollows' /\ \A t \in Sessions : Durable(t) => Durable(t)'
  <2>1. \A t \in Sessions : pending[t] = "active" => pending'[t] = "active" \/ Settled(t)'
    BY <1>t, <1>p, <1>0 DEF Sessions, Settled
  <2> QED
    BY <1>0, <2>1, DurableKept
<1>2. OnlyPublished'
  <2>1. \A t \in Sessions : disk'[t] = "active" \/ pending'[t] = "active" =>
                              disk[t] = "active" \/ pending[t] = "active"
    BY <1>t, <1>0 DEF Sessions
  <2> QED
    BY <1>0, <1>p, <1>s, <2>1 DEF IInv, OutboxInv, OnlyPublished, Published
<1>3. SenderInOrder'
  BY <1>s DEF SenderInOrder
<1>4. AbandonedIsAged'
  BY <1>0 DEF IInv, OutboxInv, AbandonedIsAged
<1>r. \A t \in Events \ {e} : sender # At("recorded", t) /\ sender # At("acked", t)
  BY <1>0, AtShape
<1>5. CompletedLeaves'
  BY <1>0, <1>t, <1>r, OutboxFacts DEF IInv, OutboxInv, CompletedLeaves, LedgerReadable
<1>6. CopiesPaidFor'
  <2> SUFFICES ASSUME NEW t \in Sessions PROVE PaidFor(t)'
    BY DEF CopiesPaidFor
  <2>f. faults' \in {faults, faults + 1} /\ sender # At("waiting", t)
    BY <1>0, AtShape, FaultCount DEF MarkPublished
  <2>2. Acknowledging(t) => t \in completed /\ pending'[t] = "absent"
    BY <1>0, <1>t, <1>r, AtShape DEF Acknowledging, Sessions
  <2> QED
    BY <2>f, <2>2, <1>0, StillPaidFor DEF Acknowledging, Copies
<1> QED
  BY <1>0, <1>1, <1>2, <1>3, <1>4, <1>5, <1>6, WorkKept DEF OutboxInv

LEMMA OutboxStepInv == IInv /\ OutboxStep => OutboxInv' /\ WorkInv'
<1> SUFFICES ASSUME IInv, OutboxStep PROVE OutboxInv' /\ WorkInv'
  OBVIOUS
<1>1. UNCHANGED workVars
  BY DEF OutboxStep
<1>2. ASSUME NEW e \in Events, PublishEvent(e) PROVE OutboxInv' /\ WorkInv'
  BY <1>1, <1>2, TurnAwayInv, SendInv, MarkCompletedInv, MarkPublishedInv DEF PublishEvent
<1> QED
  BY <1>1, <1>2, TakeInv, ClientInv, AgeInv DEF OutboxStep

-----------------------------------------------------------------------------
(* A restart keeps what is on the disk, and nothing else. *)
LEMMA RestartInv == IInv /\ Restart => OutboxInv' /\ WorkInv'
<1> SUFFICES ASSUME IInv, Restart PROVE OutboxInv' /\ WorkInv'
  OBVIOUS
<1>0. /\ LoadPending /\ TypeOK /\ disk' = pending' /\ sender' = Idle
      /\ UNCHANGED << completed, deadLetters, aged, sent, unconfirmed, outcome >>
      /\ kept' = NoMessages /\ faults' = faults + 1
  BY DEF Restart, LoadPending, Persist, Fault, IInv
<1>1. /\ queue' \in Seq(Events)
      /\ \A i \in 1 .. Len(queue') : disk[queue'[i]] = "active"
      /\ \A e \in Events :
           /\ pending'[e] \in {"absent", disk[e]}
           /\ pending'[e] = "absent" /\ disk[e] # "absent" => e \in completed
           /\ LedgerReadable /\ e \in completed => pending'[e] = "absent"
  BY <1>0, LoadedPending
<1>2. \A t \in Sessions : Durable(t) => Durable(t)'
  BY <1>0, <1>1 DEF Durable, Settled, Sessions
<1>3. OutboxInv'
  <2>1. DiskFollows' /\ AbandonedIsAged'
    BY <1>0 DEF DiskFollows, IInv, OutboxInv, AbandonedIsAged
  <2>2. OnlyPublished'
    <3>1. \A i \in 1 .. Len(queue') : Published(queue'[i])
      <4>1. \A i \in 1 .. Len(queue') : queue'[i] \in Sessions
        BY <1>1 DEF Sessions
      <4> QED
        BY <1>1, <4>1 DEF IInv, OutboxInv, OnlyPublished
    <3>2. \A t \in Sessions : pending'[t] = "active" => disk[t] = "active"
      BY <1>1 DEF Sessions
    <3> QED
      BY <1>0, <3>1, <3>2, IdleType
      DEF IInv, OutboxInv, OnlyPublished, Published, NoMessages, Sessions
  <2>3. SenderInOrder'
    BY <1>0, IdleType DEF SenderInOrder
  <2>4. CompletedLeaves'
    BY <1>0, <1>1, OutboxFacts DEF CompletedLeaves, LedgerReadable
  <2>5. CopiesPaidFor'
    <3> SUFFICES ASSUME NEW t \in Sessions PROVE PaidFor(t)'
      BY DEF CopiesPaidFor
    <3>1. /\ sent[t] \in Nat /\ kept[t] \in Nat /\ unconfirmed[t] \in Nat /\ faults \in Nat
          /\ kept'[t] = 0
      BY <1>0, OutboxFacts DEF Sessions, NoMessages
    <3>2. PaidFor(t)
      BY DEF IInv, OutboxInv, CopiesPaidFor
    <3> QED
      BY <1>0, <3>1, <3>2 DEF PaidFor, Copies, Excuses
  <2> QED
    BY <2>1, <2>2, <2>3, <2>4, <2>5 DEF OutboxInv
<1>4. WorkInv'
  <2>1. \A w \in Workers : worker'[w] = Free
    BY DEF Restart
  <2>2. Ownership'
    BY <2>1, FreeShape DEF Ownership, OneOwner
  <2>3. StepsInOrder'
    BY <2>1, FreeShape DEF StepsInOrder, StepInOrder
  <2>4. \A t \in Sessions : job'[t] = "acknowledged" => job[t] = "acknowledged"
    BY DEF Restart, Recovered
  <2>5. AcknowledgedIsDurable'
    BY <1>0, <1>2, <2>4 DEF IInv, WorkInv, AcknowledgedIsDurable, Published, Durable
  <2> QED
    BY <2>2, <2>3, <2>5 DEF WorkInv
<1> QED
  BY <1>3, <1>4

-----------------------------------------------------------------------------
LEMMA EndSessionInv ==
  ASSUME IInv, NEW s \in Sessions, EndSession(s)
  PROVE  OutboxInv' /\ WorkInv'
<1>0. /\ UNCHANGED << outboxVars, faults, outcome, worker >> /\ job[s] = "none"
      /\ job' = [job EXCEPT ![s] = "pending"] /\ job \in [Sessions -> JobPlaces]
  BY DEF EndSession, IInv, TypeOK
<1>1. OutboxInv'
  BY <1>0, OutboxKept DEF Published
<1>2. Ownership'
  BY <1>0 DEF IInv, WorkInv, Ownership, OneOwner, TypeOK, WorkerStates
<1>3. \A w \in Workers : StepInOrder(w)'
  BY <1>0 DEF IInv, WorkInv, StepsInOrder, StepInOrder, Published, Durable, Settled, outboxVars
<1>4. \A t \in Sessions : job'[t] = "acknowledged" => job[t] = "acknowledged"
  BY <1>0
<1>5. AcknowledgedIsDurable'
  BY <1>0, <1>4, DurableSame DEF IInv, WorkInv, AcknowledgedIsDurable, Published, Durable
<1> QED
  BY <1>1, <1>2, <1>3, <1>5 DEF WorkInv, StepsInOrder

LEMMA WorkerStepInv ==
  ASSUME IInv, NEW w \in Workers, NEW s \in Sessions, WorkerStep(w, s)
  PROVE  OutboxInv' /\ WorkInv'
<1>1. CASE StageEvent(w, s) \/ ActivateEvent(w, s)
  BY <1>1, StageEventInv, ActivateEventInv
<1>2. CASE ~(StageEvent(w, s) \/ ActivateEvent(w, s))
  <2>1. UNCHANGED outboxVars /\ faults' \in {faults, faults + 1}
    BY <1>2, FaultCount
    DEF WorkerStep, Claim, ClaimRaises, Recognise, RecogniseFails, MarkFinalized, Acknowledge,
        DeadLetterJob
  <2>2. \A t \in Sessions : Published(t) => Published(t)'
    <3>1. CASE MarkFinalized(w, s)
      BY <3>1, FinalizedOnce, WorkerAssumption DEF Published
    <3>2. CASE UNCHANGED outcome
      BY <3>2 DEF Published
    <3> QED
      BY <1>2, <3>1, <3>2
      DEF WorkerStep, Claim, ClaimRaises, Recognise, RecogniseFails, Acknowledge, DeadLetterJob
  <2>3. WorkInv'
    BY <1>2, ClaimWork, ClaimRaisesWork, RecogniseWork, RecogniseFailsWork, MarkFinalizedWork,
       AcknowledgeWork, DeadLetterWork DEF WorkerStep
  <2> QED
    BY <2>1, <2>2, <2>3, OutboxKept
<1> QED
  BY <1>1, <1>2

LEMMA NextIInv == IInv /\ [Next]_vars => IInv'
<1> SUFFICES ASSUME IInv, [Next]_vars PROVE IInv'
  OBVIOUS
<1>1. TypeOK'
  BY TypeStep DEF IInv
<1>2. OutboxInv' /\ WorkInv'
  <2>1. CASE UNCHANGED vars
    <3>1. UNCHANGED << outboxVars, faults, workVars >>
      BY <2>1 DEF vars
    <3>2. \A t \in Sessions : Published(t) => Published(t)'
      BY <3>1 DEF Published, workVars
    <3> QED
      BY <3>1, <3>2, OutboxKept, WorkKept, DurableSame
  <2> QED
    BY <2>1, EndSessionInv, WorkerStepInv, OutboxStepInv, RestartInv DEF Next
<1> QED
  BY <1>1, <1>2 DEF IInv

(* IInv is an invariant of every behaviour of the pipeline. *)
LEMMA Invariance == Spec => []IInv
<1> QED
  BY InitIInv, NextIInv, PTL DEF Spec

-----------------------------------------------------------------------------
(* The variables keep their types. *)
THEOREM PublicationTypes == Spec => []TypeOK
<1>1. IInv => TypeOK
  BY DEF IInv
<1> QED
  BY Invariance, <1>1, PTL

(* Two workers never process the same job. *)
THEOREM JobsHaveOneOwner == Spec => []OneOwner
<1>1. IInv => OneOwner
  BY DEF IInv, WorkInv, Ownership
<1> QED
  BY Invariance, <1>1, PTL

(* Nothing of a session is sent before its terminal record is committed.   *)
THEOREM SentOnlyWhenFinalized == Spec => []NothingSentBeforeFinalized
<1>1. IInv => NothingSentBeforeFinalized
  BY DEF IInv, OutboxInv, OnlyPublished, NothingSentBeforeFinalized
<1> QED
  BY Invariance, <1>1, PTL

(* However often jobs are retried, files rewritten and the service           *)
(* restarted, each copy of an event after the first follows a call that     *)
(* left a message with the client and returned unconfirmed, or a fault.     *)
THEOREM CopiesAreBounded == Spec => []CopiesAreAccountedFor
<1>1. ASSUME IInv PROVE CopiesAreAccountedFor
  <2> SUFFICES ASSUME NEW e \in Events PROVE sent[e] + kept[e] <= 1 + unconfirmed[e] + faults
    BY DEF CopiesAreAccountedFor
  <2>1. sent[e] \in Nat /\ kept[e] \in Nat /\ unconfirmed[e] \in Nat /\ faults \in Nat
    BY <1>1, OutboxFacts
  <2>2. PaidFor(e)
    BY <1>1 DEF IInv, OutboxInv, CopiesPaidFor, Sessions
  <2> QED
    BY <2>1, <2>2 DEF PaidFor, Copies, Excuses
<1> QED
  BY Invariance, <1>1, PTL

(* When a job is acknowledged, its event needs the job no longer. *)
THEOREM AcknowledgedSurvives == Spec => []AcknowledgedIsDurable
<1>1. IInv => AcknowledgedIsDurable
  BY DEF IInv, WorkInv
<1> QED
  BY Invariance, <1>1, PTL

(* No retry and no restart rewrites the terminal record of a session.      *)
LEMMA OutcomeStep ==
  ASSUME IInv, [Next]_vars
  PROVE  \A s \in Sessions : outcome[s] # "open" => outcome'[s] = outcome[s]
<1>1. ASSUME NEW w \in Workers, NEW s \in Sessions, MarkFinalized(w, s)
      PROVE  \A t \in Sessions : outcome[t] # "open" => outcome'[t] = outcome[t]
  BY <1>1, FinalizedOnce
<1>2. CASE UNCHANGED outcome
  BY <1>2
<1> QED
  BY <1>1, <1>2
  DEF Next, EndSession, OutboxStep, Restart, WorkerStep, Claim, ClaimRaises, Recognise,
      RecogniseFails, StageEvent, ActivateEvent, Acknowledge, DeadLetterJob, vars, workVars

THEOREM RecordsAreWrittenOnce == Spec => LedgerIsWriteOnce
<1>1. IInv /\ [Next]_vars =>
        [\A s \in Sessions : outcome[s] # "open" => outcome'[s] = outcome[s]]_vars
  BY OutcomeStep
<1> QED
  BY Invariance, <1>1, PTL DEF Spec, LedgerIsWriteOnce

-----------------------------------------------------------------------------
(* The refinement: what a step does to the four variables of the abstract  *)
(* delivery.                                                               *)
LEMMA PublishDelivers ==
  ASSUME LedgerReadable, IInv, NEW e \in Events, PublishEvent(e), UNCHANGED workVars
  PROVE  [Delivery!Next]_(Delivery!deliveryVars)
<1> USE DEF Delivery!Next, Delivery!deliveryVars
<1>u. UNCHANGED outcome /\ e \in Sessions
  BY DEF workVars, Sessions
<1>r. ASSUME sender = At("read", e)
      PROVE  e \notin completed /\ Published(e)
  <2>1. sender.event = e /\ sender.pc = "read" /\ sender # At("recorded", e)
    BY <1>r, AtShape
  <2>2. pending[e] # "absent"
    BY <2>1 DEF IInv, OutboxInv, SenderInOrder
  <2> QED
    BY <2>1, <2>2, OutboxFacts DEF IInv, OutboxInv, CompletedLeaves, OnlyPublished
<1>1. CASE Expire(e)
  <2>1. Delivery!Abandon(e)
    BY <1>1, <1>u, <1>r DEF Expire, Delivery!Abandon, Delivery!Decided, Published
  <2> QED
    BY <2>1, <1>u
<1>2. CASE (HandOver(e) \/ SendRefused(e)) /\ GiveClient(e)
  <2>1. e \notin deadLetters
    BY <1>2 DEF HandOver, SendRefused, IInv, OutboxInv, AbandonedIsAged
  <2>2. Delivery!Send(e)
    BY <1>2, <1>u, <1>r, <2>1
    DEF HandOver, SendRefused, GiveClient, Delivery!Send, Delivery!Decided, Published
  <2> QED
    BY <2>2, <1>u
<1>3. CASE MarkCompleted(e)
  <2>1. sent[e] > 0
    BY <1>3, AtShape DEF MarkCompleted, IInv, OutboxInv, SenderInOrder
  <2>2. CASE completed' = completed \cup {e}
    <3>1. Delivery!Close(e)
      BY <1>3, <1>u, <2>1, <2>2 DEF MarkCompleted, Delivery!Close
    <3> QED
      BY <3>1, <1>u
  <2>3. CASE UNCHANGED completed
    BY <1>3, <1>u, <2>3 DEF MarkCompleted
  <2> QED
    BY <1>3, <2>2, <2>3 DEF MarkCompleted
<1>4. CASE ExpireRaises(e) \/ TimeOut(e) \/ MarkPublished(e) \/ Requeue(e)
  BY <1>4, <1>u DEF ExpireRaises, TimeOut, MarkPublished, Requeue
<1>5. CASE SendRefused(e) /\ ~GiveClient(e)
  BY <1>5, <1>u DEF SendRefused
<1> QED
  BY <1>1, <1>2, <1>3, <1>4, <1>5 DEF PublishEvent, HandOver

LEMMA ClientDelivers ==
  ASSUME NEW e \in Events, ClientStep(e), UNCHANGED workVars
  PROVE  Delivery!Deliver(e)
BY DEF ClientStep, Deliver, DeliverUnacked, Arrives, workVars, Delivery!Deliver

LEMMA StepDelivers ==
  ASSUME LedgerReadable, IInv, [Next]_vars
  PROVE  [Delivery!Next]_(Delivery!deliveryVars)
<1>1. ASSUME NEW w \in Workers, NEW s \in Sessions, MarkFinalized(w, s)
      PROVE  [Delivery!Next]_(Delivery!deliveryVars)
  <2>1. UNCHANGED << kept, sent, completed, deadLetters >>
    BY <1>1 DEF MarkFinalized, outboxVars
  <2>2. CASE outcome' = [outcome EXCEPT ![s] = worker[w].reading]
    <3>1. outcome[s] = "open" /\ worker[w].reading \in {"no_weight"} \cup Readings
      BY <1>1 DEF MarkFinalized, IInv, WorkInv, StepsInOrder, StepInOrder
    <3>2. Delivery!Decide(s)
      BY <2>1, <2>2, <3>1 DEF Delivery!Decide
    <3> QED
      BY <3>2 DEF Delivery!Next
  <2>3. CASE UNCHANGED outcome
    BY <2>1, <2>3 DEF Delivery!deliveryVars
  <2> QED
    BY <1>1, <2>2, <2>3 DEF MarkFinalized
<1>2. ASSUME NEW w \in Workers, NEW s \in Sessions, WorkerStep(w, s), ~MarkFinalized(w, s)
      PROVE  [Delivery!Next]_(Delivery!deliveryVars)
  <2>1. UNCHANGED << outcome, kept, sent, completed, deadLetters >>
    <3>1. CASE StageEvent(w, s)
      BY <3>1 DEF StageEvent, Enqueue, EnqueueRaises, Stage, outboxVars
    <3>2. CASE ActivateEvent(w, s)
      BY <3>2 DEF ActivateEvent, Activate, ActivateRefused, ActivateRaises, Release, outboxVars
    <3> QED
      BY <1>2, <3>1, <3>2
      DEF WorkerStep, Claim, ClaimRaises, Recognise, RecogniseFails, Acknowledge,
          DeadLetterJob, outboxVars
  <2> QED
    BY <2>1 DEF Delivery!deliveryVars
<1>3. CASE OutboxStep
  <2>1. UNCHANGED workVars
    BY <1>3 DEF OutboxStep
  <2>2. CASE Take
    BY <2>1, <2>2 DEF Take, workVars, Delivery!deliveryVars
  <2>3. ASSUME NEW e \in Events, Age(e) PROVE [Delivery!Next]_(Delivery!deliveryVars)
    BY <2>1, <2>3 DEF Age, workVars, Delivery!deliveryVars
  <2>4. ASSUME NEW e \in Events, ClientStep(e) PROVE Delivery!Next
    BY <2>1, <2>4, ClientDelivers DEF Delivery!Next, Sessions
  <2> QED
    BY <1>3, <2>1, <2>2, <2>3, <2>4, PublishDelivers DEF OutboxStep
<1>4. CASE Restart
  <2>1. Delivery!Lose
    BY <1>4 DEF Restart, LoadPending, NoMessages, Sessions, Delivery!Lose
  <2> QED
    BY <2>1 DEF Delivery!Next
<1>5. ASSUME NEW s \in Sessions, EndSession(s) PROVE [Delivery!Next]_(Delivery!deliveryVars)
  BY <1>5 DEF EndSession, outboxVars, Delivery!deliveryVars
<1>6. CASE UNCHANGED vars
  BY <1>6 DEF vars, outboxVars, workVars, Delivery!deliveryVars
<1> QED
  BY <1>1, <1>2, <1>3, <1>4, <1>5, <1>6 DEF Next

(* As long as the completion ledger can be read, the pipeline implements   *)
(* the delivery: it sends only what is decided, and makes no new message   *)
(* of what is recorded as delivered or given up.  What the client kept may *)
(* arrive after that.                                                      *)
THEOREM PipelineImplementsDelivery ==
  ASSUME LedgerReadable PROVE Spec => DeliverySpec
<1>1. Init => Delivery!Init
  BY DEF Init, OutboxInit, NoMessages, Delivery!Init, Sessions
<1>2. IInv /\ [Next]_vars => [Delivery!Next]_(Delivery!deliveryVars)
  BY StepDelivers
<1> QED
  BY Invariance, <1>1, <1>2, PTL DEF Spec, DeliverySpec, Delivery!Spec

(* As long as the completion ledger can be read, the client is given no     *)
(* further message of an event that the ledger has.                        *)
THEOREM CompletedStaysCompleted ==
  ASSUME LedgerReadable PROVE Spec => CompletedNeverRepublished
<1>1. ASSUME IInv, [Next]_vars PROVE CompletedIsLeftAlone
  <2>1. [Delivery!Next]_(Delivery!deliveryVars)
    BY <1>1, StepDelivers
  <2>2. kept \in [Sessions -> Nat] /\ completed \subseteq Sessions
    BY <1>1, OutboxFacts DEF Sessions
  <2> QED
    BY <2>1, <2>2
    DEF Delivery!Next, Delivery!deliveryVars, Delivery!Decide, Delivery!Send, Delivery!Deliver,
        Delivery!Lose, Delivery!Close, Delivery!Abandon, CompletedIsLeftAlone
<1>2. IInv /\ [Next]_vars => [CompletedIsLeftAlone]_vars
  BY <1>1
<1> QED
  BY Invariance, <1>2, PTL DEF Spec, CompletedNeverRepublished

-----------------------------------------------------------------------------
LEMMA TicksAreNat ==
  Ticks \subseteq Nat /\ EmptyDwell \in Nat /\ Threshold \in Nat
BY EvidenceAssumption

LEMMA SpansAreNat ==
  /\ Cases \subseteq Events
  /\ \A s \in Events : Span[s].start \in Nat /\ Span[s].end \in Nat
BY RecoveryAssumption

LEMMA LeastExists ==
  ASSUME NEW T \in SUBSET Nat, T # {}
  PROVE  \E b \in T : \A t \in T : b <= t
<1> DEFINE R == OpToRel(<, Nat)
<1>1. IsWellFoundedOn(R, Nat)
  BY NatLessThanWellFounded
<1> HIDE DEF R
<1>2. PICK b \in T : \A t \in T : << t, b >> \notin R
  BY <1>1, WFMin
<1>3. \A t \in T : ~(t < b)
  BY <1>2 DEF R, OpToRel
<1> QED
  BY <1>3

LEMMA LookedAt ==
  ASSUME NEW l, NEW s
  PROVE  Look(l, s) \subseteq Ticks /\ Loaded(l, Look(l, s)) \subseteq Look(l, s)
BY DEF Look, Rows, Loaded

(* Two rows of a cycle are not parted.                                       *)
LEMMA CyclesHoldTogether ==
  ASSUME NEW l, NEW rows \in SUBSET Ticks, NEW p \in Loaded(l, rows),
         NEW x \in CycleOf(l, rows, p), NEW y \in CycleOf(l, rows, p)
  PROVE  ~Parted(l, rows, x, y)
<1> SUFFICES ASSUME Parted(l, rows, x, y) PROVE FALSE
  OBVIOUS
<1>1. PICK a, b \in Loaded(l, rows) :
        /\ x <= a /\ a < b /\ b <= y /\ b - a >= EmptyDwell
        /\ \A t \in Loaded(l, rows) : ~(a < t /\ t < b)
        /\ \E t \in rows : a < t /\ t < b
  BY DEF Parted
<1>2. Loaded(l, rows) \subseteq Nat
  BY TicksAreNat DEF Loaded
<1>3. x \in Loaded(l, rows) /\ y \in Loaded(l, rows)
  BY DEF CycleOf
<1>4. p \in Nat /\ a \in Nat /\ b \in Nat /\ x \in Nat /\ y \in Nat
  BY <1>2, <1>3
<1>5. ~(a < p /\ p < b)
  BY <1>1
<1>6. CASE p <= a
  <2>1. Parted(l, rows, p, y)
    BY <1>1, <1>6 DEF Parted
  <2> QED
    BY <2>1 DEF CycleOf
<1>7. CASE b <= p
  <2>1. Parted(l, rows, x, p)
    BY <1>1, <1>7 DEF Parted
  <2> QED
    BY <2>1 DEF CycleOf
<1> QED
  BY <1>4, <1>5, <1>6, <1>7

(* The load of a session that a log proves lies before the end of the        *)
(* session; after it the scale was seen empty, for the dwell.                *)
LEMMA ProvedLoad ==
  ASSUME NEW l, NEW s, Proves(l, s)
  PROVE  /\ \E p \in Loaded(l, Look(l, s)) : LoadOf(l, s) = CycleOf(l, Look(l, s), p)
         /\ LoadOf(l, s) \cap Interval(l, s) # {}
         /\ \E last \in LoadOf(l, s) :
              (\A q \in LoadOf(l, s) : q <= last) /\ EmptyAfter(l, s, last)
<1>1. PICK c \in Overlapping(l, s) : Overlapping(l, s) = {c} /\ Confirmed(l, s, c)
  BY DEF Proves
<1>2. LoadOf(l, s) = c
  BY <1>1 DEF LoadOf
<1>3. c \in Cycles(l, Look(l, s)) /\ c \cap Interval(l, s) # {}
  BY DEF Overlapping
<1>4. PICK p \in Loaded(l, Look(l, s)) : c = CycleOf(l, Look(l, s), p)
  BY <1>3 DEF Cycles
<1>5. \E last \in c : (\A q \in c : q <= last) /\ EmptyAfter(l, s, last)
  BY <1>1 DEF Confirmed
<1> QED
  BY <1>2, <1>3, <1>4, <1>5

(* The later session was loaded after the earlier one ended; a row of both   *)
(* loads would be before that empty time, and so in another cycle.           *)
LEMMA LaterLoadDiffers ==
  ASSUME NEW l, NEW s \in Events, NEW r \in Events, Proves(l, Span[s]), Proves(l, Span[r]),
         Span[s].end < Span[r].start
  PROVE  LoadOf(l, Span[s]) \cap LoadOf(l, Span[r]) = {}
<1> DEFINE S == Span[s]  R == Span[r]  rows == Look(l, R)
<1> SUFFICES ASSUME NEW x \in LoadOf(l, S), x \in LoadOf(l, R) PROVE FALSE
  OBVIOUS
<1>1. PICK last \in LoadOf(l, S) :
        (\A q \in LoadOf(l, S) : q <= last) /\ EmptyAfter(l, S, last)
  BY ProvedLoad
<1>2. PICK p \in Loaded(l, rows) : LoadOf(l, R) = CycleOf(l, rows, p)
  BY ProvedLoad
<1>3. PICK y \in LoadOf(l, R) : y \in Interval(l, R)
  BY ProvedLoad
<1>4. PICK o \in Loaded(l, Look(l, S)) : LoadOf(l, S) = CycleOf(l, Look(l, S), o)
  BY ProvedLoad
<1>5. last \in Loaded(l, Look(l, S)) /\ last \in Ticks /\ x \in Ticks /\ y \in Ticks
  BY <1>1, <1>2, <1>3, <1>4, LookedAt DEF CycleOf
<1>6. /\ last \in Nat /\ x \in Nat /\ y \in Nat /\ rows \subseteq Nat
      /\ S.end \in Nat /\ R.start \in Nat /\ EmptyDwell \in Nat
  BY <1>5, TicksAreNat, SpansAreNat, LookedAt
<1>7. x <= last /\ R.start <= y /\ S.end - last >= EmptyDwell
  BY <1>1, <1>3 DEF EmptyAfter, Interval, Rows
<1>8. x \in Loaded(l, rows) /\ y \in Loaded(l, rows)
  BY <1>2, <1>3 DEF CycleOf
<1>9. last \in Loaded(l, rows)
  <2>1. last \in Look(l, R)
    <3>1. x \in Look(l, R) /\ y \in Look(l, R)
      BY <1>8, LookedAt
    <3>2. R.start - Before <= x /\ y <= R.end + After
      BY <3>1 DEF Look, Rows
    <3>3. last \in Look(l, S)
      BY <1>5, LookedAt
    <3>4. Before \in Nat /\ After \in Nat /\ R.end \in Nat
      BY EvidenceAssumption, SpansAreNat
    <3> QED
      BY <1>5, <1>6, <1>7, <3>2, <3>3, <3>4 DEF Look, Rows
  <2> QED
    BY <1>5, <2>1 DEF Loaded
<1> DEFINE later == { t \in Loaded(l, rows) : last < t }
<1>10. later \subseteq Nat /\ y \in later
  <2>1. last < y
    BY <1>6, <1>7, SpansAreNat
  <2> QED
    BY <2>1, <1>6, <1>8 DEF Loaded
<1>11. PICK b \in later : \A t \in later : b <= t
  <2> HIDE DEF later
  <2> QED
    BY <1>10, LeastExists
<1>12. S.end < b
  <2>1. SUFFICES ASSUME b <= S.end PROVE FALSE
    BY <1>6, <1>10, <1>11
  <2>2. b \in Look(l, S)
    BY <1>5, <1>6, <1>11, <2>1, EvidenceAssumption, SpansAreNat, LookedAt DEF
                                                                              Look, Rows, Loaded
  <2> QED
    BY <1>1, <1>11, <2>1, <2>2 DEF EmptyAfter, Loaded
<1>13. \E t \in rows : last < t /\ t < b
  <2>1. PICK t \in Look(l, S) : last < t /\ t <= S.end
    BY <1>1 DEF EmptyAfter
  <2>2. t \in Ticks /\ l[t] # NoReading
    BY <2>1 DEF Look, Rows
  <2>3. t \in Nat /\ b \in Nat
    BY <1>10, <1>11, <2>1, LookedAt, TicksAreNat
  <2>4. R.start - Before <= last /\ y <= R.end + After
    BY <1>8, <1>9 DEF Look, Rows, Loaded
  <2>5. Before \in Nat /\ After \in Nat /\ R.end \in Nat
    BY EvidenceAssumption, SpansAreNat
  <2>6. R.start - Before <= t /\ t <= R.end + After
    BY <1>6, <1>7, <2>1, <2>3, <2>4, <2>5
  <2>7. t \in rows
    BY <2>2, <2>6 DEF Look, Rows
  <2> QED
    BY <1>6, <1>12, <2>1, <2>3, <2>7
<1>14. last < b /\ b <= y /\ b - last >= EmptyDwell
  <2>1. b \in Nat /\ b <= y
    BY <1>10, <1>11
  <2> QED
    BY <2>1, <1>6, <1>7, <1>11, <1>12
<1>15. \A t \in Loaded(l, rows) : ~(last < t /\ t < b)
  <2> SUFFICES ASSUME NEW t \in Loaded(l, rows), last < t, t < b PROVE FALSE
    OBVIOUS
  <2>1. t \in later /\ t \in Nat /\ b \in Nat
    BY <1>6, <1>10, <1>11, LookedAt
  <2> QED
    BY <2>1, <1>11
<1>16. b \in Loaded(l, rows)
  BY <1>11
<1>17. Parted(l, rows, x, y)
  BY <1>7, <1>9, <1>13, <1>14, <1>15, <1>16 DEF Parted
<1> QED
  BY <1>2, <1>3, <1>17, CyclesHoldTogether, LookedAt

-----------------------------------------------------------------------------
(* A script that goes on after its plan has the evidence of its session.     *)
PlannedIsProved ==
  Working("planned") => script.event \in Cases /\ Proves(log, Span[script.event])

IsScript ==
  script = [at |-> script.at, event |-> script.event, seen |-> script.seen, file |-> script.file]

ScriptInv == IsScript /\ PlannedIsProved

LEMMA PlanProves == RecoverySpec => []ScriptInv
<1>1. RecoveryInit => ScriptInv
  BY DEF RecoveryInit, NoScript, Working, IsScript, PlannedIsProved, ScriptInv
<1>2. ScriptInv /\ [RecoveryNext]_recoveryVars => ScriptInv'
  <2> SUFFICES ASSUME ScriptInv, [RecoveryNext]_recoveryVars PROVE ScriptInv'
    OBVIOUS
  <2> USE DEF ScriptInv, IsScript
  <2>1. ASSUME NEW s \in Cases, Plan(s) PROVE ScriptInv'
    BY <2>1 DEF Plan, AsAudited, NoScript, Working, evidence, PlannedIsProved
  <2>2. CASE script' = script /\ log' = log
    BY <2>2 DEF Working, PlannedIsProved
  <2>3. CASE IsScript' /\ ~Working("planned")'
    BY <2>3 DEF PlannedIsProved
  <2>4. CASE UNCHANGED recoveryVars
    BY <2>2, <2>4 DEF recoveryVars, evidence
  <2>5. CASE ScriptStep
    <3>1. CASE Gate
      BY <2>3, <3>1 DEF Gate, GoTo, Ended, NoScript, Working
    <3>2. CASE AlreadyThere
      BY <2>3, <3>2 DEF AlreadyThere, GoTo, Ended, NoScript, Working
    <3>3. CASE CopyImage
      BY <2>3, <3>3 DEF CopyImage, GoTo, Ended, NoScript, Working
    <3>4. CASE UploadImage
      BY <2>3, <3>4 DEF UploadImage, GoTo, Ended, NoScript, Working
    <3>5. CASE ReadFile
      <4>1. CASE disk[script.event] # "absent"
        BY <2>3, <3>5, <4>1 DEF ReadFile, Ended, NoScript, Working
      <4>2. CASE disk[script.event] = "absent"
        BY <2>3, <3>5, <4>2 DEF ReadFile, Working
      <4> QED
        BY <4>1, <4>2
    <3>6. CASE WriteFile
      BY <2>3, <3>6 DEF WriteFile, GoTo, Ended, NoScript, Working
    <3>7. CASE AuditStaged
      BY <2>3, <3>7 DEF AuditStaged, GoTo, Ended, NoScript, Working
    <3>8. CASE Abandon
      BY <2>3, <3>8 DEF Abandon, GoTo, Ended, NoScript, Working
    <3> QED
      BY <2>1, <2>5, <3>1, <3>2, <3>3, <3>4, <3>5, <3>6, <3>7, <3>8 DEF ScriptStep
  <2>6. CASE ServiceStep
    BY <2>2, <2>6 DEF ServiceStep, Start, Stop, Exit, Crash, Gone,
                      PublishThread, EnqueueLive, ActivateLive, evidence
  <2>7. CASE \E e \in Events : MonthPasses(e)
    BY <2>2, <2>7 DEF MonthPasses, evidence
  <2>8. CASE \E s \in Cases : ArchiveSource(s)
    BY <2>2, <2>8 DEF ArchiveSource
  <2> QED
    BY <2>4, <2>5, <2>6, <2>7, <2>8 DEF RecoveryNext
<1> QED
  BY <1>1, <1>2, PTL DEF RecoverySpec

(* No load is proved for the session of a plan and for another one: what     *)
(* recover_missed_session.py concludes from the scale cannot give one        *)
(* vehicle's weight to two sessions.                                         *)
THEOREM NoLoadTwice == RecoverySpec => []LoadsDiffer
<1>1. PlannedIsProved => LoadsDiffer
  <2> SUFFICES ASSUME PlannedIsProved, Working("planned"), NEW r \in Events \ {script.event},
                      Proves(log, Span[r]), ~Overlap(script.event, r)
               PROVE  LoadOf(log, Span[script.event]) \cap LoadOf(log, Span[r]) = {}
    BY DEF LoadsDiffer
  <2>1. script.event \in Events /\ Proves(log, Span[script.event])
    BY SpansAreNat DEF PlannedIsProved
  <2>2. Span[script.event].end < Span[r].start \/ Span[r].end < Span[script.event].start
    BY <2>1, SpansAreNat DEF Overlap
  <2> QED
    BY <2>1, <2>2, LaterLoadDiffers
<1> QED
  BY <1>1, PlanProves, PTL DEF ScriptInv

-----------------------------------------------------------------------------
(* The types that the rest of the proofs need; the queue's does not matter.  *)
Shape ==
  /\ pending \in [Events -> Marks] /\ disk \in [Events -> Marks]
  /\ sent \in [Events -> Nat] /\ kept \in [Events -> Nat] /\ faults \in Nat
  /\ sender = At(sender.pc, sender.event)
  /\ IsScript
  /\ ~Working("idle") => script.event \in Cases
  /\ Working("read") => script.file \in [Events -> Marks]
  /\ audits \cup promised \cup completed \subseteq Events

(* What an operation of the outbox leaves of its types.                      *)
OutboxShape ==
  /\ pending' \in [Events -> Marks] /\ disk' \in [Events -> Marks]
  /\ sent' \in [Events -> Nat] /\ kept' \in [Events -> Nat] /\ faults' \in Nat
  /\ sender' = At(sender'.pc, sender'.event)
  /\ completed' \subseteq Events

LEMMA FileIsRead ==
  ASSUME IsScript, ReadFile
  PROVE  \/ script' = NoScript
         \/ /\ disk[script.event] = "absent"
            /\ script' = [at |-> "read", event |-> script.event, seen |-> script.seen,
                          file |-> disk]
<1>1. CASE disk[script.event] # "absent"
  BY <1>1 DEF ReadFile, Ended
<1>2. CASE disk[script.event] = "absent"
  BY <1>2 DEF ReadFile, IsScript
<1> QED
  BY <1>1, <1>2

LEMMA ScriptIsShaped ==
  ASSUME Shape, ScriptStep PROVE Shape'
<1> USE SpansAreNat DEF Shape, IsScript, Working, GoTo, Ended, NoScript, outboxVars, evidence
<1>1. ASSUME NEW s \in Cases, Plan(s) PROVE Shape'
  BY <1>1 DEF Plan
<1>2. CASE Gate
  <2>1. CASE Locked
    BY <1>2, <2>1 DEF Gate
  <2>2. CASE ~Locked
    BY <1>2, <2>2 DEF Gate
  <2> QED
    BY <2>1, <2>2
<1>3. CASE AlreadyThere
  BY <1>3 DEF AlreadyThere
<1>4. CASE CopyImage
  BY <1>4 DEF CopyImage
<1>5. CASE UploadImage
  BY <1>5 DEF UploadImage
<1>6. CASE ReadFile
  <2>1. Working("uploaded") /\ UNCHANGED << outboxVars, faults, audits, promised >>
    BY <1>6 DEF ReadFile
  <2> QED
    BY <1>6, <2>1, FileIsRead
<1>7. CASE WriteFile
  BY <1>7 DEF WriteFile, Staged, Marks
<1>8. CASE AuditStaged
  BY <1>8 DEF AuditStaged
<1>9. CASE Abandon
  BY <1>9 DEF Abandon
<1> QED
  BY <1>1, <1>2, <1>3, <1>4, <1>5, <1>6, <1>7, <1>8, <1>9 DEF ScriptStep

LEMMA ServiceIsShaped ==
  ASSUME Shape, ServiceStep PROVE Shape'
<1>1. CASE UNCHANGED << script, audits >> /\ promised' \subseteq Events /\ OutboxShape
  BY <1>1 DEF Shape, OutboxShape, IsScript, Working
<1> USE DEF Shape, OutboxShape, outboxVars, evidence, At, Idle, Marks, Fault, NoMessages
<1>2. CASE Start
  <2>1. pending' \in [Events -> Marks] /\ disk' = pending' /\ sender' = Idle
    BY <1>2 DEF Start, LoadPending, Persist
  <2> QED
    BY <1>1, <1>2, <2>1 DEF Start, LoadPending
<1>3. CASE Stop
  BY <1>1, <1>3 DEF Stop
<1>4. CASE Exit \/ Crash
  BY <1>1, <1>4 DEF Exit, Crash, Gone
<1>5. CASE PublishThread
  <2>1. CASE Take
    BY <1>1, <1>5, <2>1 DEF PublishThread, Take
  <2>2. ASSUME NEW e \in Events, PublishEvent(e) PROVE OutboxShape
    <3>1. CASE Expire(e) \/ ExpireRaises(e) \/ Requeue(e) \/ MarkCompleted(e)
      BY <3>1 DEF Expire, ExpireRaises, Requeue, MarkCompleted
    <3>2. CASE HandOver(e) \/ TimeOut(e) \/ SendRefused(e)
      BY <3>2 DEF HandOver, TimeOut, SendRefused, GiveClient, Unconfirmed
    <3>3. CASE MarkPublished(e)
      BY <3>3 DEF MarkPublished, Persist
    <3> QED
      BY <2>2, <3>1, <3>2, <3>3 DEF PublishEvent
  <2>3. ASSUME NEW e \in Events, ClientStep(e) PROVE OutboxShape
    BY <2>3 DEF ClientStep, Deliver, DeliverUnacked, Arrives
  <2> QED
    BY <1>1, <1>5, <2>1, <2>2, <2>3 DEF PublishThread
<1>6. ASSUME NEW e \in Events, EnqueueLive(e) PROVE Shape'
  BY <1>1, <1>6 DEF EnqueueLive, Enqueue, Stage, Persist
<1>7. ASSUME NEW e \in Events, ActivateLive(e) PROVE Shape'
  BY <1>1, <1>7 DEF ActivateLive, Activate, Release, Persist
<1> QED
  BY <1>2, <1>3, <1>4, <1>5, <1>6, <1>7 DEF ServiceStep

LEMMA ShapeStays == ASSUME Shape, [RecoveryNext]_recoveryVars PROVE Shape'
<1>1. CASE UNCHANGED recoveryVars \/ (\E e \in Events : MonthPasses(e)) \/ (\E s \in Cases : ArchiveSource(s))
  BY <1>1 DEF Shape, IsScript, Working, recoveryVars, outboxVars, evidence, MonthPasses, Age,
              ArchiveSource
<1> QED
  BY <1>1, ScriptIsShaped, ServiceIsShaped DEF RecoveryNext

LEMMA ShapeHolds == RecoverySpec => []Shape
<1>1. RecoveryInit => Shape
  BY DEF RecoveryInit, OutboxInit, Shape, IsScript, Working, NoScript, Marks, At, Idle,
         NoMessages
<1> QED
  BY <1>1, ShapeStays, PTL DEF RecoverySpec

-----------------------------------------------------------------------------
(* SentWithItsImage: wherever a case may still be sent from, its image is in *)
(* its two places: memory, the file, what the script has read of the file,   *)
(* and the hands of the publish thread.                                      *)
Underway(s) ==
  \/ pending[s] # "absent" \/ disk[s] # "absent" \/ sender.event = s
  \/ kept[s] > 0 \/ sent[s] > 0
  \/ Working("read") /\ script.file[s] # "absent"
  \/ script.at \in {"uploaded", "read", "written"} /\ script.event = s

ImagesAreThere ==
  \A s \in Cases \ Imageless :
    /\ Underway(s) => s \in copies \cap stored
    /\ Working("copied") /\ script.event = s => s \in copies

LEMMA ScriptKeepsImages ==
  ASSUME Shape, ImagesAreThere, ScriptStep PROVE ImagesAreThere'
<1> USE DEF Shape, IsScript, ImagesAreThere, Underway, Working, GoTo, Ended, NoScript,
            outboxVars, evidence
<1>1. ASSUME NEW s \in Cases, Plan(s) PROVE ImagesAreThere'
  BY <1>1 DEF Plan
<1>2. CASE Gate \/ AlreadyThere \/ Abandon
  BY <1>2 DEF Gate, AlreadyThere, Abandon
<1>3. CASE CopyImage
  BY <1>3 DEF CopyImage
<1>4. CASE UploadImage
  BY <1>4 DEF UploadImage
<1>5. CASE ReadFile
  <2>1. Working("uploaded") /\ UNCHANGED << outboxVars, copies, stored >>
    BY <1>5 DEF ReadFile
  <2> QED
    BY <1>5, <2>1, FileIsRead
<1>6. CASE WriteFile
  BY <1>6, SpansAreNat DEF WriteFile, Staged
<1>7. CASE AuditStaged
  BY <1>7 DEF AuditStaged
<1> QED
  BY <1>1, <1>2, <1>3, <1>4, <1>5, <1>6, <1>7 DEF ScriptStep

LEMMA ServiceKeepsImages ==
  ASSUME Shape, ImagesAreThere, ServiceStep PROVE ImagesAreThere'
<1>1. CASE /\ UNCHANGED << script, copies, stored >>
           /\ \A s \in Cases \ Imageless :
                \/ pending'[s] # "absent" \/ disk'[s] # "absent" \/ sender'.event = s
                \/ kept'[s] > 0 \/ sent'[s] > 0
                => Underway(s)
  BY <1>1 DEF ImagesAreThere, Underway, Working
<1>0. None \notin Cases /\ Cases \subseteq Events
  BY SpansAreNat, OutboxAssumption
<1> USE <1>0 DEF Shape, Underway, outboxVars, evidence, At, Idle, Fault, NoMessages
<1>2. CASE Start
  <2>1. /\ \A s \in Cases : pending'[s] # "absent" => disk[s] # "absent"
        /\ disk' = pending' /\ sent' = sent /\ kept' = NoMessages /\ sender' = Idle
    BY <1>2 DEF Start, LoadPending, Persist, Kept
  <2> QED
    BY <1>1, <1>2, <2>1 DEF Start
<1>3. CASE Stop
  BY <1>1, <1>3 DEF Stop
<1>4. CASE Exit \/ Crash
  BY <1>1, <1>4 DEF Exit, Crash, Gone
<1>5. CASE PublishThread
  <2>1. CASE Take
    BY <1>1, <1>5, <2>1 DEF PublishThread, Take
  <2>2. ASSUME NEW e \in Events, PublishEvent(e) PROVE ImagesAreThere'
    <3>1. CASE Expire(e) \/ ExpireRaises(e) \/ Requeue(e) \/ MarkCompleted(e)
      BY <1>1, <1>5, <3>1 DEF PublishThread, Expire, ExpireRaises, Requeue, MarkCompleted
    <3>2. CASE HandOver(e) \/ TimeOut(e) \/ SendRefused(e)
      BY <1>1, <1>5, <3>2 DEF PublishThread, HandOver, TimeOut, SendRefused, GiveClient, Unconfirmed
    <3>3. CASE MarkPublished(e)
      BY <1>1, <1>5, <3>3 DEF PublishThread, MarkPublished, Persist
    <3> QED
      BY <2>2, <3>1, <3>2, <3>3 DEF PublishEvent
  <2>3. ASSUME NEW e \in Events, ClientStep(e) PROVE ImagesAreThere'
    BY <1>1, <1>5, <2>3 DEF PublishThread, ClientStep, Deliver, DeliverUnacked, Arrives
  <2> QED
    BY <1>5, <2>1, <2>2, <2>3 DEF PublishThread
<1>6. ASSUME NEW e \in Events \ Cases, EnqueueLive(e) PROVE ImagesAreThere'
  BY <1>1, <1>6 DEF EnqueueLive, Enqueue, Stage, Persist
<1>7. ASSUME NEW e \in Events \ Cases, ActivateLive(e) PROVE ImagesAreThere'
  BY <1>1, <1>7 DEF ActivateLive, Activate, Release, Persist
<1> QED
  BY <1>2, <1>3, <1>4, <1>5, <1>6, <1>7 DEF ServiceStep

(* A recovered event is never sent, nor put where it can be sent from,       *)
(* before its image is copied and uploaded, whatever fails and whoever       *)
(* rewrites the file of the outbox meanwhile (apply stages last).            *)
THEOREM ImageComesFirst == RecoverySpec => []SentWithItsImage
<1>1. RecoveryInit => ImagesAreThere
  BY SpansAreNat, OutboxAssumption DEF RecoveryInit, OutboxInit, Idle, NoScript, NoMessages, Working,
                                       ImagesAreThere, Underway
<1>2. Shape /\ ImagesAreThere /\ [RecoveryNext]_recoveryVars => ImagesAreThere'
  <2>1. CASE UNCHANGED << pending, disk, kept, sent, sender, script, copies, stored >>
    BY <2>1 DEF ImagesAreThere, Underway, Working
  <2> QED
    BY <2>1, ScriptKeepsImages, ServiceKeepsImages
    DEF RecoveryNext, recoveryVars, outboxVars, evidence, MonthPasses, Age, ArchiveSource
<1>3. ImagesAreThere => SentWithItsImage
  BY DEF ImagesAreThere, Underway, SentWithItsImage
<1> QED
  BY <1>1, <1>2, <1>3, ShapeHolds, PTL DEF RecoverySpec

-----------------------------------------------------------------------------
(* RetryLeavesCompleted: a completed event is out of memory, or the publish  *)
(* thread is about to take it out; and what the thread has in its hands is   *)
(* in memory.                                                                *)

RecoveredLeaves(e) == e \in completed /\ pending[e] # "absent" => sender = At("recorded", e)
InHand(e) ==
  sender.event = e /\ sender.pc \in {"read", "waiting", "acked", "recorded", "expired"}
    => pending[e] # "absent"

CompletedIsGone ==
  /\ \A e \in Events : RecoveredLeaves(e) /\ InHand(e)
  /\ service = "off" => sender = Idle

LEMMA PublishThreadLeaves ==
  ASSUME Shape, CompletedIsGone, PublishThread PROVE CompletedIsGone'
<1> USE DEF Shape, CompletedIsGone, RecoveredLeaves, InHand, At, Idle, Fault
<1>0. service # "off" /\ service' = service
  BY DEF PublishThread
<1>1. CASE Take
  BY <1>0, <1>1 DEF Take
<1>2. ASSUME NEW e \in Events, PublishEvent(e), NEW x \in Events
      PROVE  (RecoveredLeaves(x) /\ InHand(x))'
  <2>1. RecoveredLeaves(x) /\ InHand(x)
    OBVIOUS
  <2>2. CASE Expire(e) \/ ExpireRaises(e) \/ Requeue(e)
    BY <2>1, <2>2 DEF Expire, ExpireRaises, Requeue
  <2>3. CASE HandOver(e) \/ TimeOut(e) \/ SendRefused(e)
    BY <2>1, <2>3 DEF HandOver, TimeOut, SendRefused
  <2>4. CASE MarkCompleted(e)
    BY <2>1, <2>4 DEF MarkCompleted
  <2>5. CASE MarkPublished(e)
    BY <2>1, <2>5 DEF MarkPublished, Persist
  <2> QED
    BY <1>2, <2>2, <2>3, <2>4, <2>5 DEF PublishEvent
<1>3. ASSUME NEW e \in Events, ClientStep(e), NEW x \in Events
      PROVE  (RecoveredLeaves(x) /\ InHand(x))'
  BY <1>3 DEF ClientStep, Deliver, DeliverUnacked, Arrives
<1> QED
  BY <1>0, <1>1, <1>2, <1>3 DEF PublishThread

LEMMA ServiceLeaves ==
  ASSUME LedgerReadable, Shape, CompletedIsGone, ServiceStep PROVE CompletedIsGone'
<1> USE DEF Shape, CompletedIsGone, RecoveredLeaves, InHand, At, Idle, outboxVars
<1>1. CASE Start
  <2>1. \A e \in Events : pending'[e] # "absent" => e \notin completed
    BY <1>1 DEF Start, LoadPending, Kept, LedgerReadable
  <2>2. completed' = completed /\ sender' = Idle /\ service' = "up"
    BY <1>1 DEF Start, LoadPending
  <2> QED
    BY <2>1, <2>2, OutboxAssumption
<1>2. CASE Stop
  BY <1>2 DEF Stop
<1>3. CASE Exit \/ Crash
  BY <1>3, OutboxAssumption DEF Exit, Crash, Gone
<1>4. CASE PublishThread
  BY <1>4, PublishThreadLeaves
<1>5. ASSUME NEW e \in Events, EnqueueLive(e) PROVE CompletedIsGone'
  BY <1>5 DEF EnqueueLive, Enqueue, New, Stage, Persist
<1>6. ASSUME NEW e \in Events, ActivateLive(e) PROVE CompletedIsGone'
  BY <1>6 DEF ActivateLive, Activate, Release, Persist
<1> QED
  BY <1>1, <1>2, <1>3, <1>4, <1>5, <1>6 DEF ServiceStep

LEMMA ScriptIsAside ==
  ASSUME ScriptStep
  PROVE  /\ UNCHANGED << pending, queue, completed, deadLetters, sender, kept, sent >>
         /\ UNCHANGED << faults, service, promised >>
BY DEF ScriptStep, Plan, Gate, AlreadyThere, CopyImage, UploadImage, ReadFile, WriteFile,
       AuditStaged, Abandon, outboxVars

(* Only the publish thread gives the client a message, of what it has taken. *)
LEMMA ServiceRepublishesNothing ==
  ASSUME Shape, CompletedIsGone, ServiceStep PROVE CompletedIsLeftAlone
<1> USE DEF Shape, CompletedIsGone, RecoveredLeaves, InHand, CompletedIsLeftAlone
<1>1. CASE kept' = NoMessages
  BY <1>1, SMTT(30) DEF NoMessages
<1>2. CASE kept' = kept
  BY <1>2
<1>3. ASSUME NEW e \in Events, HandOver(e) \/ SendRefused(e) PROVE CompletedIsLeftAlone
  <2>1. e \notin completed
    BY <1>3 DEF HandOver, SendRefused, At
  <2>2. \A x \in Events \ {e} : kept'[x] = kept[x]
    BY <1>3 DEF HandOver, SendRefused, GiveClient
  <2> QED
    BY <2>1, <2>2
<1>4. ASSUME NEW e \in Events, ClientStep(e) PROVE CompletedIsLeftAlone
  BY <1>4 DEF ClientStep, Deliver, DeliverUnacked, Arrives
<1>5. CASE PublishThread
  BY <1>2, <1>3, <1>4, <1>5
  DEF PublishThread, Take, PublishEvent, Expire, ExpireRaises, TimeOut, MarkCompleted,
      MarkPublished, Requeue
<1> QED
  BY <1>1, <1>2, <1>5
  DEF ServiceStep, Start, LoadPending, Stop, Exit, Crash, Gone, EnqueueLive, Enqueue, Stage,
      ActivateLive, Activate, Release, outboxVars

(* However often the script stages an event, and whatever of the file a      *)
(* crash left behind, an event that the ledger has is published no more, as  *)
(* long as the ledger of the completed events can be read.                   *)
THEOREM RecoveryRepublishesNothing ==
  ASSUME LedgerReadable PROVE RecoverySpec => RetryLeavesCompleted
<1>1. RecoveryInit => CompletedIsGone
  BY OutboxAssumption DEF RecoveryInit, OutboxInit, Idle, CompletedIsGone, RecoveredLeaves, InHand
<1>2. Shape /\ CompletedIsGone /\ [RecoveryNext]_recoveryVars => CompletedIsGone'
  <2>1. CASE UNCHANGED << pending, completed, sender, service >>
    BY <2>1 DEF CompletedIsGone, RecoveredLeaves, InHand
  <2> QED
    BY <2>1, ScriptIsAside, ServiceLeaves
    DEF RecoveryNext, recoveryVars, outboxVars, evidence, MonthPasses, Age, ArchiveSource
<1>3. Shape /\ CompletedIsGone /\ [RecoveryNext]_recoveryVars => [CompletedIsLeftAlone]_recoveryVars
  <2>1. ASSUME Shape, kept' = kept PROVE CompletedIsLeftAlone
    BY <2>1 DEF Shape, CompletedIsLeftAlone
  <2> QED
    BY <2>1, ScriptIsAside, ServiceRepublishesNothing
    DEF RecoveryNext, MonthPasses, Age, ArchiveSource, outboxVars
<1> QED
  BY <1>1, <1>2, <1>3, ShapeHolds, PTL DEF RecoverySpec, RetryLeavesCompleted

-----------------------------------------------------------------------------
(* NothingIsLost: between the two that rewrite the file, in turn.            *)
Staging == script.at \notin {"idle", "planned"}

InTurn ==
  /\ service \in {"off", "up", "closing"}
  /\ Staging => service = "off"
  /\ service = "off" => sender = Idle /\ \A e \in Events : pending[e] = "absent"

(* The file has what memory has, and more only when that was settled.        *)
FileFollows ==
  service # "off" =>
    \A e \in Events :
      /\ pending[e] # "absent" => disk[e] # "absent"
      /\ disk[e] # "absent" => pending[e] # "absent" \/ Delivered(e)

(* What the publish thread is about to take out of memory is settled.        *)
SettledFirst ==
  \A e \in Events : sender \in { At("acked", e), At("recorded", e), At("expired", e) } => Delivered(e)

(* The script has read the file as it still is, and what it wrote is there.   *)
ReadIsCurrent ==
  /\ Working("read") => script.file = disk
  /\ Working("written") => disk[script.event] # "absent" \/ Delivered(script.event)

FileInv == InTurn /\ FileFollows /\ SettledFirst /\ ReadIsCurrent /\ NothingIsLost

LEMMA ScriptLosesNothing ==
  ASSUME Attended, Shape, FileInv, ScriptStep PROVE FileInv'
<1> USE DEF Shape, IsScript, FileInv, InTurn, FileFollows, SettledFirst, ReadIsCurrent, NothingIsLost,
            Delivered, Staging, Working, GoTo, Ended, NoScript, outboxVars, evidence, At, Idle
<1>1. ASSUME NEW s \in Cases, Plan(s) PROVE FileInv'
  BY <1>1 DEF Plan
<1>2. CASE Gate
  <2>1. service # "closing"
    BY <1>2, Zenon DEF Gate
  <2> QED
    BY <1>2, <2>1 DEF Gate, Locked
<1>3. CASE AlreadyThere \/ Abandon
  BY <1>3 DEF AlreadyThere, Abandon
<1>4. CASE CopyImage
  BY <1>4 DEF CopyImage
<1>5. CASE UploadImage
  BY <1>5 DEF UploadImage
<1>6. CASE ReadFile
  <2>1. Working("uploaded") /\ UNCHANGED << outboxVars, service, audits, promised >>
    BY <1>6 DEF ReadFile
  <2> QED
    BY <1>6, <2>1, FileIsRead
<1>7. CASE WriteFile
  <2>1. /\ script.at = "read" /\ script'.at = "written" /\ script'.event = script.event
        /\ UNCHANGED << pending, completed, deadLetters, sender, sent, service, audits, promised >>
    BY <1>7 DEF WriteFile
  <2>2. script.event \in Events /\ disk' = [disk EXCEPT ![script.event] = "active"]
    BY <1>7, SpansAreNat DEF WriteFile, Staged
  <2>3. \A e \in Events : disk[e] # "absent" => disk'[e] # "absent"
    BY <2>2
  <2>4. disk'[script.event] # "absent"
    BY <2>2
  <2>5. InTurn' /\ FileFollows' /\ SettledFirst' /\ ReadIsCurrent'
    BY <2>1, <2>4
  <2> QED
    BY <2>1, <2>3, <2>5
<1>8. CASE AuditStaged
  BY <1>8 DEF AuditStaged
<1> QED
  BY <1>1, <1>2, <1>3, <1>4, <1>5, <1>6, <1>7, <1>8 DEF ScriptStep

(* No step but the script's touches the file while it stages.                *)
LEMMA ServiceLosesNothing ==
  ASSUME Attended, Shape, FileInv, ServiceStep PROVE FileInv'
<1>0. script' = script /\ (~Working("idle") => script # NoScript)
  BY DEF ServiceStep, Start, Stop, Exit, Crash, Gone, PublishThread, EnqueueLive, ActivateLive,
         Working, NoScript
<1> USE <1>0 DEF Shape, FileInv, InTurn, FileFollows, SettledFirst, ReadIsCurrent,
                 NothingIsLost, Delivered, Staging, Working, outboxVars, evidence, At, Idle, Fault
<1>1. CASE Start
  <2>1. script.at = "idle"
    BY <1>1, Zenon DEF Start, Alone, NoScript
  <2>2. service' = "up" /\ UNCHANGED << completed, deadLetters, sent, audits, promised >>
    BY <1>1 DEF Start, LoadPending
  <2>3. disk' = pending' /\ sender' = Idle
    BY <1>1 DEF Start, LoadPending, Persist
  <2>4. \A e \in Events : disk[e] # "absent" => pending'[e] # "absent" \/ e \in completed
    BY <1>1 DEF Start, LoadPending, Kept
  <2> QED
    BY <2>1, <2>2, <2>3, <2>4
<1>2. CASE Stop
  <2>1. script.at = "idle"
    BY <1>2, Zenon DEF Stop, Alone, NoScript
  <2> QED
    BY <1>2, <2>1 DEF Stop
<1>3. CASE Exit \/ Crash
  BY <1>3 DEF Exit, Crash, Gone
<1>4. CASE PublishThread
  <2>0. service # "off" /\ UNCHANGED << service, audits, promised >>
    BY <1>4 DEF PublishThread, evidence
  <2>1. CASE Take
    BY <2>0, <2>1 DEF Take
  <2>2. ASSUME NEW e \in Events, PublishEvent(e) PROVE FileInv'
    <3>1. CASE Expire(e) \/ ExpireRaises(e)
      BY <2>0, <3>1 DEF Expire, ExpireRaises
    <3>2. CASE HandOver(e) \/ TimeOut(e) \/ SendRefused(e)
      BY <2>0, <3>2 DEF HandOver, TimeOut, SendRefused, GiveClient
    <3>3. CASE Requeue(e)
      BY <2>0, <3>3 DEF Requeue
    <3>4. CASE MarkCompleted(e)
      BY <2>0, <3>4 DEF MarkCompleted
    <3>5. CASE MarkPublished(e)
      <4>1. Delivered(e)
        BY <3>5 DEF MarkPublished
      <4> QED
        BY <2>0, <3>5, <4>1 DEF MarkPublished, Persist
    <3> QED
      BY <2>2, <3>1, <3>2, <3>3, <3>4, <3>5 DEF PublishEvent
  <2>3. ASSUME NEW e \in Events, ClientStep(e) PROVE FileInv'
    <3>1. sent' = [sent EXCEPT ![e] = @ + 1] /\ sender' \in { sender, At("acked", e) }
      BY <2>3 DEF ClientStep, Deliver, DeliverUnacked, Arrives
    <3>2. UNCHANGED << pending, disk, completed, deadLetters >>
      BY <2>3 DEF ClientStep, Deliver, DeliverUnacked, Arrives
    <3>3. sent'[e] > 0 /\ \A x \in Events : sent[x] > 0 => sent'[x] > 0
      BY <3>1
    <3> QED
      BY <2>0, <3>1, <3>2, <3>3
  <2> QED
    BY <1>4, <2>1, <2>2, <2>3 DEF PublishThread
<1>5. ASSUME NEW e \in Events, EnqueueLive(e) PROVE FileInv'
  BY <1>5 DEF EnqueueLive, Enqueue, Stage, Persist
<1>6. ASSUME NEW e \in Events, ActivateLive(e) PROVE FileInv'
  BY <1>6 DEF ActivateLive, Activate, Release, Persist
<1> QED
  BY <1>1, <1>2, <1>3, <1>4, <1>5, <1>6 DEF ServiceStep

(* An event that the audit has as staged, or that the service activated, is  *)
(* in the file until it was delivered or given up, wherever either of the    *)
(* two dies, when they are run in turn (docs/operations.md has the service   *)
(* stopped first).                                                           *)
THEOREM StagedIsKept ==
  ASSUME Attended PROVE RecoverySpec => []NothingIsLost
<1>1. RecoveryInit => FileInv
  BY DEF RecoveryInit, OutboxInit, Idle, NoScript, Working, FileInv, InTurn, Staging, FileFollows,
         SettledFirst, ReadIsCurrent, NothingIsLost, At
<1>2. Shape /\ FileInv /\ [RecoveryNext]_recoveryVars => FileInv'
  <2>1. CASE /\ UNCHANGED << pending, disk, completed, deadLetters, sender, sent, service, script >>
             /\ UNCHANGED << audits, promised >>
    BY <2>1 DEF FileInv, InTurn, Staging, FileFollows, SettledFirst, ReadIsCurrent, NothingIsLost,
                Delivered, Working
  <2> QED
    BY <2>1, ScriptLosesNothing, ServiceLosesNothing
    DEF RecoveryNext, recoveryVars, outboxVars, evidence, MonthPasses, Age, ArchiveSource
<1>3. FileInv => NothingIsLost
  BY DEF FileInv
<1> QED
  BY <1>1, <1>2, <1>3, ShapeHolds, PTL DEF RecoverySpec
=============================================================================
