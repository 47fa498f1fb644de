------------------------------ MODULE SpoolProofs ------------------------------
(***************************************************************************)
(* What SessionFrameSpool keeps of an admitted session, for any sessions,  *)
(* workers and queue, and any number of failures and crashes.              *)
(***************************************************************************)
EXTENDS SessionFrameSpool, TLAPS

(* A session whose work is neither done nor given up.                        *)
Owed(s) == s \notin done \cup given
Waiting == {"pending", "processing", "failed"}

(* What the proof needs of the types: names and the queue do not matter.     *)
Shape ==
  /\ manager.session \in Sessions \cup {None} /\ activeFile \subseteq Sessions
  /\ admitted \subseteq Sessions
  /\ manager.pc = "idle" <=> manager.session = None
  /\ frames \in [Sessions -> FrameStates] /\ manifest \in [Sessions -> Places]
  /\ worker = [w \in Workers |-> At(worker[w].pc, worker[w].session)]
  /\ cleaner = [pc |-> cleaner.pc, session |-> cleaner.session, todo |-> cleaner.todo]
  /\ boot \in Phases

(* The frames of an owed session are whole while anything refers to them.    *)
FramesKept ==
  \A s \in Sessions :
    Owed(s) /\ (s \in activeFile \/ manager.session = s \/ manifest[s] \in Waiting)
      => frames[s] = "whole"

(* Only what is not owed is removed, by whichever thread.                    *)
RemovedIsSettled ==
  /\ manager.pc \in {"discarding", "unlisting"} => manager.session \in given
  /\ \A s \in Sessions : manifest[s] \in {"cleanup", "gone"} => ~ Owed(s)
  /\ \A w \in Workers :
       worker[w].pc \in {"acknowledging", "moved", "opened", "removing", "unlinking"}
         => worker[w].session \in done
  /\ cleaner.pc \in {"opened", "removing", "unlinking"} => ~ Owed(cleaner.session)

(* A session that has ended has its manifest before its active file goes.    *)
EndedHasManifest ==
  manager.pc \in {"ending", "notifying"} /\ Owed(manager.session)
    => manifest[manager.session] \in Waiting

(* A claimed job is worked at by the worker that claimed it, not by one that *)
(* has heard of it only.                                                     *)
ClaimedIsWorkedAt ==
  \A s \in Sessions :
    Up /\ manifest[s] = "processing" =>
      \E w \in Workers : /\ worker[w].session = s
                         /\ worker[w].pc \in {"working", "acknowledging"}

(* Recovery runs before the threads, and each phase leaves nothing behind.   *)
RecoveryInOrder ==
  /\ ~ Up => /\ manager = Idle /\ cleaner = CleanerIdle
             /\ \A w \in Workers : worker[w] = Idle
  /\ boot \in {"cleanup", "active", "orphans"} =>
       \A s \in Sessions : manifest[s] # "processing"
  /\ boot = "orphans" => activeFile = {}

IInv ==
  /\ Shape /\ FramesKept /\ RemovedIsSettled /\ EndedHasManifest /\ NothingForgotten
  /\ ClaimedIsWorkedAt /\ RecoveryInOrder

-----------------------------------------------------------------------------
LEMMA NoneApart == None \notin Sessions
BY SpoolAssumption

LEMMA InitIInv == Init => IInv
BY NoneApart DEF Init, Idle, CleanerIdle, At, FrameStates, Places, Phases, Up, IInv, Shape,
                 FramesKept, RemovedIsSettled, EndedHasManifest, NothingForgotten,
                 ClaimedIsWorkedAt, RecoveryInOrder, Owed, Waiting

-----------------------------------------------------------------------------
(* The session manager. The workers and the cleaner stay as they are.        *)
LEMMA ManagerKeeps ==
  ASSUME IInv, NEW s \in Sessions, ManagerStep(s) PROVE IInv'
<1> USE NoneApart DEF IInv, Shape, FramesKept, RemovedIsSettled, EndedHasManifest,
                      NothingForgotten, ClaimedIsWorkedAt, RecoveryInOrder, Owed, Waiting,
                      Idle, CleanerIdle, At, FrameStates, Places, Phases, Up, queueVars, history
<1>1. CASE Begin(s)
  BY <1>1 DEF Begin, SetFrames
<1>2. CASE WriteActive(s)
  BY <1>2 DEF WriteActive
<1>3. CASE Admit(s)
  BY <1>3 DEF Admit
<1>4. CASE AdmissionFails(s)
  BY <1>4 DEF AdmissionFails, Fault
<1>5. CASE DiscardFrames(s)
  <2>1. /\ manager.pc = "discarding" /\ manager'.pc = "unlisting"
        /\ manager.session = s /\ manager'.session = s
    BY <1>5 DEF DiscardFrames
  <2>2. /\ frames' = [frames EXCEPT ![s] = "gone"]
        /\ UNCHANGED << activeFile, manifest, worker, cleaner, boot, admitted, done, given >>
    BY <1>5 DEF DiscardFrames, SetFrames
  <2>3. frames' \in [Sessions -> FrameStates] /\ \A t \in Sessions \ {s} : frames'[t] = frames[t]
    BY <2>2
  <2>4. Shape' /\ ClaimedIsWorkedAt' /\ RecoveryInOrder'
    <3>1. Shape'
      BY <2>1, <2>2, <2>3
    <3>2. ClaimedIsWorkedAt' /\ RecoveryInOrder'
      BY <2>1, <2>2
    <3> QED
      BY <3>1, <3>2
  <2>5. FramesKept' /\ RemovedIsSettled' /\ EndedHasManifest' /\ NothingForgotten'
    BY <2>1, <2>2, <2>3
  <2> QED
    BY <2>4, <2>5
<1>6. CASE DiscardActive(s)
  <2>1. /\ manager.pc = "unlisting" /\ manager.session = s
        /\ manager'.pc = "idle" /\ manager'.session = None
    BY <1>6 DEF DiscardActive
  <2>2. /\ activeFile' = activeFile \ {s}
        /\ UNCHANGED << frames, manifest, worker, cleaner, boot, admitted, done, given >>
    BY <1>6 DEF DiscardActive
  <2>3. Shape' /\ ClaimedIsWorkedAt' /\ RecoveryInOrder'
    BY <2>1, <2>2
  <2>4. FramesKept' /\ RemovedIsSettled' /\ EndedHasManifest' /\ NothingForgotten'
    BY <2>1, <2>2
  <2> QED
    BY <2>3, <2>4
<1>7. CASE WriteManifest(s)
  BY <1>7 DEF WriteManifest, Move
<1>8. CASE EndActive(s)
  BY <1>8 DEF EndActive
<1>9. CASE Notify(s)
  BY <1>9 DEF Notify
<1> QED
  BY <1>1, <1>2, <1>3, <1>4, <1>5, <1>6, <1>7, <1>8, <1>9 DEF ManagerStep

-----------------------------------------------------------------------------
(* A worker is at a step with a session, and the others where they were.     *)
WorkerAt(w, pc, s) ==
  /\ worker'[w].pc = pc /\ worker'[w].session = s
  /\ \A x \in Workers \ {w} : worker'[x] = worker[x]
  /\ worker' = [x \in Workers |-> At(worker'[x].pc, worker'[x].session)]

LEMMA WorkerGoes ==
  ASSUME Shape, NEW w \in Workers, NEW pc, NEW s, worker' = [worker EXCEPT ![w] = At(pc, s)]
  PROVE  WorkerAt(w, pc, s)
<1>1. DOMAIN worker = Workers /\ \A x \in Workers : worker[x] = At(worker[x].pc, worker[x].session)
  BY DEF Shape
<1>2. worker'[w] = At(pc, s) /\ \A x \in Workers \ {w} : worker'[x] = worker[x]
  BY <1>1
<1>3. worker'[w].pc = pc /\ worker'[w].session = s
  BY <1>2 DEF At
<1>4. \A x \in Workers : worker'[x] = At(worker'[x].pc, worker'[x].session)
  BY <1>1, <1>2, <1>3
<1>5. worker' = [x \in Workers |-> worker'[x]]
  BY <1>1
<1> QED
  BY <1>2, <1>3, <1>4, <1>5 DEF WorkerAt

LEMMA WorkerProceeds ==
  ASSUME Shape, NEW w \in Workers, NEW pc, NEW s, worker[w].session = s, Step(w, pc)
  PROVE  WorkerAt(w, pc, s)
<1>1. [worker[w] EXCEPT !.pc = pc] = At(pc, s)
  BY DEF Shape, At
<1>2. worker' = [worker EXCEPT ![w] = At(pc, s)]
  BY <1>1 DEF Step
<1> QED
  BY <1>2, WorkerGoes

(* What a step of worker w at the job of s does: it goes on, to a step that  *)
(* removes only if the job is done, and it does not drop a claim.            *)
Leaves(w, s, pc) ==
  /\ UNCHANGED << manager, activeFile, cleaner, boot, admitted, given >>
  /\ done \subseteq done'
  /\ WorkerAt(w, pc, IF pc \in {"idle", "dead"} THEN None ELSE s)
  /\ worker[w].session = s /\ worker[w].pc # "idle"
  /\ pc \in {"acknowledging", "moved", "opened", "removing", "unlinking"} => s \in done'
FilesGo(s) ==
  /\ frames' \in [Sessions -> FrameStates] /\ manifest' \in [Sessions -> Places]
  /\ \A t \in Sessions \ {s} : frames'[t] = frames[t] /\ manifest'[t] = manifest[t]
  /\ s \notin done' => frames'[s] = frames[s]
  /\ s \notin done' => (manifest'[s] \in Waiting <=> manifest[s] \in Waiting)
  /\ s \notin done' => (manifest'[s] \in {"cleanup", "gone"} => manifest[s] \in {"cleanup", "gone"})

ClaimGoes(w, s, pc) ==
  manifest'[s] = "processing" =>
    \/ pc \in {"working", "acknowledging"}
    \/ manifest[s] = "processing" /\ worker[w].pc \notin {"working", "acknowledging"}

LEMMA JobEffects ==
  ASSUME IInv, NEW w \in Workers, NEW s \in Sessions, JobStep(w, s)
  PROVE  FilesGo(s) /\ \E pc \in WorkerSteps : Leaves(w, s, pc) /\ ClaimGoes(w, s, pc)
<1> USE DEF FilesGo, Leaves, ClaimGoes, Waiting, WorkerSteps, FrameStates, Places, managerVars,
            queueVars, history
<1>0. Shape
  BY DEF IInv
<1>1. CASE Forget(w, s)
  <2>1. worker[w].session = s /\ worker[w].pc = "taken" /\ WorkerAt(w, "claiming", s)
    BY <1>0, <1>1, WorkerProceeds DEF Forget, At
  <2> QED
    BY <1>0, <1>1, <2>1 DEF Forget, Shape
<1>2. CASE Claim(w, s)
  <2>1. worker[w].session = s /\ worker[w].pc = "claiming" /\ WorkerAt(w, "working", s)
    BY <1>0, <1>2, WorkerProceeds DEF Claim, At
  <2> QED
    BY <1>0, <1>2, <2>1 DEF Claim, Shape, Move
<1>3. CASE ClaimMisses(w, s)
  <2>0. WorkerAt(w, "idle", None)
    BY <1>0, <1>3, WorkerGoes DEF ClaimMisses, Idle
  <2>1. worker[w].session = s /\ worker[w].pc = "claiming"
    BY <1>3 DEF ClaimMisses, At
  <2>2. FilesGo(s) /\ Leaves(w, s, "idle") /\ ClaimGoes(w, s, "idle")
    BY <1>0, <1>3, <2>0, <2>1 DEF ClaimMisses, Shape
  <2> QED
    BY <2>2
<1>4. CASE Process(w, s)
  <2>1. worker[w].session = s /\ worker[w].pc = "working" /\ WorkerAt(w, "acknowledging", s)
    BY <1>0, <1>4, WorkerProceeds DEF Process, At
  <2> QED
    BY <1>0, <1>4, <2>1 DEF Process, Shape
<1>5. CASE GiveUp(w, s)
  <2>1. worker[w].session = s /\ worker[w].pc = "working"
    BY <1>5 DEF GiveUp, At
  <2>2. CASE manifest[s] = "processing"
    <3>1. WorkerAt(w, "idle", None)
      BY <1>0, <1>5, <2>2, WorkerGoes DEF GiveUp, Idle
    <3> QED
      BY <1>0, <1>5, <2>1, <2>2, <3>1 DEF GiveUp, Shape, Move
  <2>3. CASE manifest[s] # "processing"
    <3>1. WorkerAt(w, "dead", None)
      BY <1>0, <1>5, <2>3, WorkerGoes DEF GiveUp
    <3> QED
      BY <1>0, <1>5, <2>1, <2>3, <3>1 DEF GiveUp, Shape
  <2> QED
    BY <2>2, <2>3
<1>6. CASE AckMoves(w, s)
  <2>1. worker[w].session = s /\ worker[w].pc = "acknowledging" /\ WorkerAt(w, "moved", s)
    BY <1>0, <1>6, WorkerProceeds DEF AckMoves, At
  <2>2. s \in done
    BY <2>1 DEF IInv, RemovedIsSettled
  <2> QED
    BY <1>0, <1>6, <2>1, <2>2 DEF AckMoves, Shape, Move
<1>7. CASE AckReads(w, s)
  <2>1. worker[w].session = s /\ worker[w].pc = "moved"
    BY <1>7 DEF AckReads, At
  <2>2. s \in done
    BY <2>1 DEF IInv, RemovedIsSettled
  <2>3. WorkerAt(w, "opened", s) \/ WorkerAt(w, "working", s)
    BY <1>0, <1>7, <2>1, WorkerProceeds DEF AckReads
  <2> QED
    BY <1>0, <1>7, <2>1, <2>2, <2>3 DEF AckReads, Shape
<1>8. CASE AckRemoves(w, s)
  <2>1. worker[w].session = s /\ worker[w].pc \in {"opened", "removing"}
    BY <1>8 DEF AckRemoves, At
  <2>2. s \in done
    BY <2>1 DEF IInv, RemovedIsSettled
  <2>3. \E pc \in {"removing", "unlinking", "idle"} :
          WorkerAt(w, pc, IF pc = "idle" THEN None ELSE s)
    <3>1. Step(w, "removing") \/ Step(w, "unlinking") \/ worker' = [worker EXCEPT ![w] = Idle]
      BY <1>8 DEF AckRemoves
    <3>2. CASE Step(w, "removing")
      BY <1>0, <2>1, <3>2, WorkerProceeds
    <3>3. CASE Step(w, "unlinking")
      BY <1>0, <2>1, <3>3, WorkerProceeds
    <3>4. CASE worker' = [worker EXCEPT ![w] = Idle]
      BY <1>0, <3>4, WorkerGoes DEF Idle
    <3> QED
      BY <3>1, <3>2, <3>3, <3>4
  <2>4. /\ frames' \in [Sessions -> FrameStates]
        /\ \A t \in Sessions \ {s} : frames'[t] = frames[t]
        /\ UNCHANGED << manager, activeFile, cleaner, boot, admitted, given, done, manifest >>
    BY <1>0, <1>8 DEF AckRemoves, RemoveStarts, RemoveEnds, SetFrames, Shape
  <2> QED
    BY <1>0, <2>1, <2>2, <2>3, <2>4 DEF Shape
<1>9. CASE AckUnlinks(w, s)
  <2>0. WorkerAt(w, "idle", None)
    BY <1>0, <1>9, WorkerGoes DEF AckUnlinks, Idle
  <2>1. worker[w].session = s /\ worker[w].pc = "unlinking"
    BY <1>9 DEF AckUnlinks, At
  <2>2. s \in done
    BY <2>1 DEF IInv, RemovedIsSettled
  <2>3. FilesGo(s)
    BY <1>0, <1>9, <2>2 DEF AckUnlinks, Shape, Move
  <2>4. Leaves(w, s, "idle") /\ ClaimGoes(w, s, "idle")
    BY <1>0, <1>9, <2>0, <2>1, <2>2 DEF AckUnlinks, Shape, Move
  <2> QED
    BY <2>3, <2>4
<1> QED
  BY <1>1, <1>2, <1>3, <1>4, <1>5, <1>6, <1>7, <1>8, <1>9 DEF JobStep

LEMMA JobKeeps ==
  ASSUME IInv, NEW w \in Workers, NEW s \in Sessions, JobStep(w, s) PROVE IInv'
<1>1. PICK pc \in WorkerSteps : FilesGo(s) /\ Leaves(w, s, pc) /\ ClaimGoes(w, s, pc)
  BY JobEffects
<1>2. Up
  BY <1>1 DEF IInv, RecoveryInOrder, Idle, At, Leaves
<1>3. Shape'
  BY <1>1 DEF IInv, Shape, FilesGo, Leaves, WorkerAt
<1>4. FramesKept'
  BY <1>1 DEF IInv, FramesKept, FilesGo, Leaves, Owed
<1>5. RemovedIsSettled'
  BY <1>1 DEF IInv, RemovedIsSettled, FilesGo, Leaves, WorkerAt, Owed
<1>6. EndedHasManifest'
  BY <1>1, NoneApart DEF IInv, Shape, EndedHasManifest, FilesGo, Leaves, Owed, Waiting
<1>7. NothingForgotten'
  BY <1>1 DEF IInv, Shape, NothingForgotten, FilesGo, Leaves, Waiting
<1>8. ClaimedIsWorkedAt'
  BY <1>1 DEF IInv, ClaimedIsWorkedAt, FilesGo, Leaves, ClaimGoes, WorkerAt, Up
<1>9. RecoveryInOrder'
  BY <1>1, <1>2 DEF RecoveryInOrder, Leaves, Up
<1> QED
  BY <1>3, <1>4, <1>5, <1>6, <1>7, <1>8, <1>9 DEF IInv

(* What says nothing of the files or of a job in hand keeps the invariant.   *)
LEMMA QueueKeeps ==
  ASSUME IInv, NEW w \in Workers, Refill(w) \/ Take(w) PROVE IInv'
<1>1. CASE Refill(w)
  BY <1>1 DEF Refill, managerVars, history, IInv, Shape, FramesKept, RemovedIsSettled,
              EndedHasManifest, NothingForgotten, ClaimedIsWorkedAt, RecoveryInOrder, Owed, Up
<1>2. CASE Take(w)
  <2>1. PICK s : s = Head(inbox)
    OBVIOUS
  <2>0. WorkerAt(w, "taken", s)
    BY <1>2, <2>1, WorkerGoes DEF Take, IInv
  <2>2. /\ Up /\ worker[w].pc = "idle" /\ WorkerAt(w, "taken", s)
        /\ UNCHANGED << manager, activeFile, frames, manifest, cleaner, boot,
                        admitted, done, given >>
    BY <1>2, <2>0 DEF Take, Idle, At, managerVars, history
  <2>3. Shape' /\ FramesKept' /\ EndedHasManifest' /\ NothingForgotten'
    BY <2>2 DEF IInv, Shape, FramesKept, EndedHasManifest, NothingForgotten,
                Owed, Waiting, WorkerAt
  <2>4. RemovedIsSettled' /\ ClaimedIsWorkedAt' /\ RecoveryInOrder'
    BY <2>2 DEF IInv, RemovedIsSettled, ClaimedIsWorkedAt, RecoveryInOrder, Owed, WorkerAt, Up
  <2> QED
    BY <2>3, <2>4 DEF IInv
<1> QED
  BY <1>1, <1>2

-----------------------------------------------------------------------------
(* The cleaner, and the expiry of what failed. *)
LEMMA NextListedShape ==
  ASSUME Shape, NextListed
  PROVE  /\ cleaner'.pc \in {"idle", "listed"}
         /\ cleaner' = [pc |-> cleaner'.pc, session |-> cleaner'.session, todo |-> cleaner'.todo]
BY DEF Shape, NextListed, CleanerIdle

(* What the cleaner does with s: it removes only what is settled.            *)
LEMMA SettledGoes ==
  ASSUME IInv, Up, NEW s \in Sessions, ~ Owed(s),
         UNCHANGED << manager, activeFile, worker, boot, admitted, done, given >>,
         frames' \in [Sessions -> FrameStates], manifest' \in [Sessions -> Places],
         \A t \in Sessions \ {s} : frames'[t] = frames[t] /\ manifest'[t] = manifest[t],
         manifest'[s] = manifest[s] \/ manifest'[s] = "gone",
         cleaner' = [pc |-> cleaner'.pc, session |-> cleaner'.session, todo |-> cleaner'.todo],
         cleaner'.pc \in {"idle", "listed"} \/ cleaner'.session = s
  PROVE  IInv'
<1>1. Shape' /\ FramesKept' /\ RemovedIsSettled'
  BY DEF IInv, Shape, FramesKept, RemovedIsSettled, Owed
<1>2. EndedHasManifest' /\ NothingForgotten'
  BY NoneApart DEF IInv, Shape, EndedHasManifest, NothingForgotten, Owed, Waiting
<1>3. ClaimedIsWorkedAt' /\ RecoveryInOrder'
  BY DEF IInv, ClaimedIsWorkedAt, RecoveryInOrder, Up
<1> QED
  BY <1>1, <1>2, <1>3 DEF IInv

LEMMA CleanerKeeps ==
  ASSUME IInv, NEW s \in Sessions, CleanerStep(s) PROVE IInv'
<1>0. Shape
  BY DEF IInv
<1>1. CASE CleanerRead(s)
  <2>1. UNCHANGED << manager, activeFile, frames, manifest, worker, boot,
                     admitted, done, given >>
    BY <1>1 DEF CleanerRead, managerVars, history
  <2>2. /\ Up
        /\ \/ cleaner'.pc = "opened" /\ cleaner'.session = s /\ manifest[s] = "cleanup"
           \/ cleaner'.pc = "idle"
        /\ cleaner' = [pc |-> cleaner'.pc, session |-> cleaner'.session, todo |-> cleaner'.todo]
    BY <1>1 DEF CleanerRead, CleanerIdle, IInv, RecoveryInOrder
  <2>3. Shape' /\ FramesKept' /\ EndedHasManifest' /\ NothingForgotten'
    BY <2>1, <2>2 DEF IInv, Shape, FramesKept, EndedHasManifest, NothingForgotten, Owed
  <2>4. RemovedIsSettled' /\ ClaimedIsWorkedAt' /\ RecoveryInOrder'
    BY <2>1, <2>2 DEF IInv, RemovedIsSettled, ClaimedIsWorkedAt, RecoveryInOrder, Owed, Up
  <2> QED
    BY <2>3, <2>4 DEF IInv
<1>2. CASE CleanerRemoves(s)
  <2>1. /\ cleaner.session = s /\ cleaner.pc \in {"opened", "removing"}
        /\ UNCHANGED << manager, activeFile, worker, boot, admitted, done, given, manifest >>
    BY <1>2 DEF CleanerRemoves, managerVars, history
  <2>2. Up /\ ~ Owed(s)
    BY <2>1 DEF IInv, RecoveryInOrder, RemovedIsSettled, CleanerIdle
  <2>3. /\ frames' \in [Sessions -> FrameStates]
        /\ \A t \in Sessions \ {s} : frames'[t] = frames[t]
    BY <1>0, <1>2 DEF CleanerRemoves, RemoveStarts, RemoveEnds, SetFrames, Shape, FrameStates
  <2>4. \/ \E pc \in {"removing", "unlinking"} : cleaner' = [cleaner EXCEPT !.pc = pc]
        \/ NextListed
    BY <1>2 DEF CleanerRemoves
  <2>5. /\ cleaner' = [pc |-> cleaner'.pc, session |-> cleaner'.session, todo |-> cleaner'.todo]
        /\ cleaner'.pc \in {"idle", "listed"} \/ cleaner'.session = s
    BY <1>0, <2>1, <2>4, NextListedShape DEF Shape
  <2> QED
    BY <1>0, <2>1, <2>2, <2>3, <2>5, SettledGoes DEF Shape
<1>3. CASE CleanerUnlinks(s)
  <2>1. /\ cleaner.session = s /\ cleaner.pc = "unlinking"
        /\ UNCHANGED << manager, activeFile, worker, boot, admitted, done, given, frames >>
    BY <1>3 DEF CleanerUnlinks, managerVars, history
  <2>2. Up /\ ~ Owed(s)
    BY <2>1 DEF IInv, RecoveryInOrder, RemovedIsSettled, CleanerIdle
  <2>3. /\ manifest' \in [Sessions -> Places]
        /\ manifest'[s] = manifest[s] \/ manifest'[s] = "gone"
        /\ \A t \in Sessions \ {s} : manifest'[t] = manifest[t]
    BY <1>0, <1>3 DEF CleanerUnlinks, Move, Shape, Places
  <2>4. /\ cleaner' = [pc |-> cleaner'.pc, session |-> cleaner'.session, todo |-> cleaner'.todo]
        /\ cleaner'.pc \in {"idle", "listed"}
    BY <1>0, <1>3, NextListedShape DEF CleanerUnlinks
  <2> QED
    BY <1>0, <2>1, <2>2, <2>3, <2>4, SettledGoes DEF Shape
<1> QED
  BY <1>1, <1>2, <1>3 DEF CleanerStep

LEMMA ListKeeps == IInv /\ CleanerList => IInv'
BY DEF CleanerList, managerVars, queueVars, history, IInv, Shape, FramesKept,
       RemovedIsSettled,
       EndedHasManifest, NothingForgotten, ClaimedIsWorkedAt, RecoveryInOrder, Owed, Up

LEMMA ExpireKeeps == ASSUME IInv, NEW s \in Sessions, Expire(s) PROVE IInv'
<1>1. /\ UNCHANGED << manager, activeFile, worker, cleaner, boot, admitted, done >>
      /\ frames' = [frames EXCEPT ![s] = "gone"] /\ given' = given \cup {s}
      /\ manifest' = manifest \/ manifest' = [manifest EXCEPT ![s] = "gone"]
  BY DEF Expire, Move, SetFrames, managerVars
<1>2. /\ frames' \in [Sessions -> FrameStates] /\ manifest' \in [Sessions -> Places]
      /\ \A t \in Sessions \ {s} : frames'[t] = frames[t] /\ manifest'[t] = manifest[t]
      /\ manifest'[s] = manifest[s] \/ manifest'[s] = "gone"
  BY <1>1 DEF IInv, Shape, FrameStates, Places
<1>3. Shape' /\ FramesKept' /\ RemovedIsSettled'
  BY <1>1, <1>2 DEF IInv, Shape, FramesKept, RemovedIsSettled, Owed
<1>4. EndedHasManifest' /\ NothingForgotten'
  BY <1>1, <1>2, NoneApart DEF IInv, Shape, EndedHasManifest, NothingForgotten, Owed, Waiting
<1>5. ClaimedIsWorkedAt' /\ RecoveryInOrder'
  BY <1>1, <1>2 DEF IInv, ClaimedIsWorkedAt, RecoveryInOrder, Up
<1> QED
  BY <1>3, <1>4, <1>5 DEF IInv

-----------------------------------------------------------------------------
LEMMA CrashKeeps == IInv /\ Crash => IInv'
<1> SUFFICES ASSUME IInv, Crash PROVE IInv'
  OBVIOUS
<1>1. /\ UNCHANGED << activeFile, frames, manifest, admitted, done, given >>
      /\ boot' = "claims" /\ manager' = Idle /\ cleaner' = CleanerIdle
      /\ worker' = [w \in Workers |-> Idle]
  BY DEF Crash, history
<1>2. Shape'
  BY <1>1 DEF IInv, Shape, Idle, CleanerIdle, At, Phases
<1>3. FramesKept' /\ NothingForgotten'
  BY <1>1, NoneApart DEF IInv, FramesKept, NothingForgotten, Owed, Idle, At
<1>4. RemovedIsSettled' /\ EndedHasManifest'
  BY <1>1 DEF IInv, RemovedIsSettled, EndedHasManifest, Owed, Idle, CleanerIdle, At
<1>5. ClaimedIsWorkedAt' /\ RecoveryInOrder'
  BY <1>1 DEF ClaimedIsWorkedAt, RecoveryInOrder, Up
<1> QED
  BY <1>2, <1>3, <1>4, <1>5 DEF IInv

(* Recovery: no thread runs, and a step is about one session.                *)
LEMMA RecoverySteps ==
  ASSUME IInv, NEW s \in Sessions,
         RecoverClaim(s) \/ RecoverCleanup(s) \/ RequeueActive(s) \/ DropActive(s) \/ Orphan(s)
  PROVE  IInv'
<1> USE NoneApart DEF recovering, IInv, Shape, FramesKept, RemovedIsSettled, EndedHasManifest,
                      NothingForgotten, ClaimedIsWorkedAt, RecoveryInOrder, Owed, Waiting, Idle,
                      CleanerIdle, At, FrameStates, Places, Phases, Up
<1>1. CASE RecoverClaim(s)
  BY <1>1 DEF RecoverClaim, Move
<1>2. CASE RecoverCleanup(s)
  BY <1>2 DEF RecoverCleanup, SetFrames, Move
<1>3. CASE RequeueActive(s)
  BY <1>3 DEF RequeueActive, Referenced, Move
<1>4. CASE DropActive(s)
  BY <1>4 DEF DropActive, Referenced
<1>5. CASE Orphan(s)
  BY <1>5 DEF Orphan, Referenced, SetFrames
<1> QED
  BY <1>1, <1>2, <1>3, <1>4, <1>5

LEMMA RecoveryKeeps == IInv /\ RecoveryStep => IInv'
<1> SUFFICES ASSUME IInv, RecoveryStep PROVE IInv'
  OBVIOUS
<1> USE DEF IInv, Shape, FramesKept, RemovedIsSettled, EndedHasManifest, NothingForgotten,
            ClaimedIsWorkedAt, RecoveryInOrder, Owed, Waiting, Phases, Up
<1>1. CASE PhaseEnds
  BY <1>1 DEF PhaseEnds, InCleanup, recovering
<1>2. CASE Started
  BY <1>2 DEF Started, managerVars, history
<1> QED
  BY <1>1, <1>2, RecoverySteps DEF RecoveryStep

-----------------------------------------------------------------------------
LEMMA Invariance == Spec => []IInv
<1>1. IInv /\ [Next]_vars => IInv'
  <2> SUFFICES ASSUME IInv, [Next]_vars PROVE IInv'
    OBVIOUS
  <2>1. CASE Next
    BY <2>1, ManagerKeeps, JobKeeps, QueueKeeps, CleanerKeeps, ListKeeps, ExpireKeeps,
       CrashKeeps, RecoveryKeeps DEF Next, WorkerStep
  <2>2. CASE UNCHANGED vars
    BY <2>2 DEF vars, IInv, Shape, FramesKept, RemovedIsSettled, EndedHasManifest,
                NothingForgotten, ClaimedIsWorkedAt, RecoveryInOrder, Owed, Up
  <2> QED
    BY <2>1, <2>2
<1> QED
  BY InitIInv, <1>1, PTL DEF Spec

(* The frames a job refers to are whole until a worker has processed it or   *)
(* it was given up: what abort_session, acknowledge_job, _resume_cleanup,    *)
(* the expiry and recovery remove is never what a worker is still to read.   *)
THEOREM FramesAreThere == Spec => []FramesOutliveWork
<1>1. IInv => FramesOutliveWork
  BY DEF IInv, FramesKept, FramesOutliveWork, Owed, Waiting
<1> QED
  BY Invariance, <1>1, PTL

(* Between begin_session and the acknowledgement a session has its active    *)
(* file or its manifest, wherever the process dies and however often.        *)
THEOREM SessionsSurvive == Spec => []NothingForgotten
<1>1. IInv => NothingForgotten
  BY DEF IInv
<1> QED
  BY Invariance, <1>1, PTL

(* While the service runs, what is in processing/ is in a worker's hands.    *)
THEOREM ClaimsAreHeld == Spec => []ClaimedIsHeld
<1>1. IInv => ClaimedIsHeld
  BY DEF IInv, ClaimedIsWorkedAt, ClaimedIsHeld
<1> QED
  BY Invariance, <1>1, PTL
=============================================================================
