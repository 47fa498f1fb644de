--------------------------- MODULE SessionFrameSpool ---------------------------
(***************************************************************************)
(* services/capture/session_frame_spool.py: the directories in which a     *)
(* session's frames and its job manifest live, and the threads that move   *)
(* them: the session manager (begin, abort, end), the deferred workers     *)
(* (claim, acknowledge, fail), the sampler's cleanup, and recovery at a    *)
(* start.  A step is one effect on the file system, or one critical        *)
(* section; the process may die between any two.                           *)
(*                                                                         *)
(*   sessions/<id>/     frames          active/<id>.json   activeFile      *)
(*   pending/, processing/, cleanup/, failed/*.json        manifest        *)
(*   manifest names, in the order of their time stamps     names           *)
(*   _notifications, _known_notifications                  inbox, known    *)
(*                                                                         *)
(* Which frames were captured is left out.  Files are never corrupt, and   *)
(* a rename or an unlink of a file that is there succeeds.                 *)
(***************************************************************************)
EXTENDS Naturals, Sequences, FiniteSets

CONSTANTS
  Sessions,
  None,        \* no session
  Workers,     \* the deferred worker threads
  QueueSize,   \* notification_queue_size
  MaxFaults    \* crashes and failed operations in a behaviour (a bound, for TLC)

ASSUME SpoolAssumption ==
  /\ None \notin Sessions
  /\ QueueSize \in Nat \ {0}
  /\ MaxFaults \in Nat

VARIABLES
  manager,     \* the session manager: its step, and the session
  activeFile,  \* sessions with a file in active/
  frames,      \* each session's directory
  manifest,    \* the directory each session's job manifest is in
  names,       \* the sessions whose manifests were written, oldest name first
  inbox,       \* notifications, oldest first
  known,       \* sessions notified and not taken
  worker,      \* each worker thread: its step, and its job
  cleaner,     \* the sampler's _resume_cleanup: its step, its session, the rest
  boot,        \* "up", or the phase of _recover_disk_state
  admitted,    \* history: sessions that got a file in active/
  done,        \* history: sessions a worker processed
  given,       \* history: sessions aborted, or expired from quarantine
  faults       \* faults so far

vars == << manager, activeFile, frames, manifest, names, inbox, known, worker, cleaner,
           boot, admitted, done, given, faults >>

ManagerSteps == {"idle", "opening", "begun", "active", "ending", "notifying", "discarding", "unlisting"}
FrameStates == {"none", "whole", "removing", "contested", "gone", "orphaned"}
Places == {"none", "pending", "processing", "cleanup", "failed", "gone"}
WorkerSteps == {"idle", "taken", "claiming", "working", "acknowledging", "moved", "opened",
                "removing", "unlinking", "dead"}
CleanerSteps == {"idle", "listed", "opened", "removing", "unlinking"}
Phases == {"claims", "cleanup", "active", "orphans", "up"}

At(pc, s) == [pc |-> pc, session |-> s]
Idle == At("idle", None)
CleanerIdle == [pc |-> "idle", session |-> None, todo |-> {}]

Fault == faults < MaxFaults /\ faults' = faults + 1
Up == boot = "up"

managerVars == << manager, activeFile >>
queueVars == << inbox, known >>
history == << admitted, done, given >>

Step(w, pc) == worker' = [worker EXCEPT ![w].pc = pc]
Move(s, place) == manifest' = [manifest EXCEPT ![s] = place]
SetFrames(s, state) == frames' = [frames EXCEPT ![s] = state]

(* Definitions marked "mutant" are wrong on purpose. No action uses them:   *)
(* they stand for bugs the properties are there to notice.                 *)

-----------------------------------------------------------------------------
(* begin_session: the directory is made, then the active file written.     *)
Begin(s) ==
  /\ Up /\ manager = Idle /\ frames[s] = "none"
  /\ SetFrames(s, "whole")
  /\ manager' = At("opening", s)
  /\ UNCHANGED << activeFile, manifest, names, queueVars, worker, cleaner, boot, history, faults >>

WriteActive(s) ==
  /\ manager = At("opening", s)
  /\ activeFile' = activeFile \cup {s}
  /\ admitted' = admitted \cup {s}
  /\ manager' = At("begun", s)
  /\ UNCHANGED << frames, manifest, names, queueVars, worker, cleaner, boot, done, given,
                  faults >>

(* The rest of _start_session_spool. *)
Admit(s) ==
  /\ manager = At("begun", s)
  /\ manager' = At("active", s)
  /\ UNCHANGED << activeFile, frames, manifest, names, queueVars, worker, cleaner, boot,
                  history, faults >>

(* Either half of the admission fails: abort_session.                      *)
AdmissionFails(s) ==
  /\ manager \in { At("opening", s), At("begun", s) }
  /\ Fault
  /\ manager' = At("discarding", s)
  /\ given' = given \cup {s}
  /\ UNCHANGED << activeFile, frames, manifest, names, queueVars, worker, cleaner, boot,
                  admitted, done >>

DiscardFrames(s) ==
  /\ manager = At("discarding", s)
  /\ SetFrames(s, "gone")
  /\ manager' = At("unlisting", s)
  /\ UNCHANGED << activeFile, manifest, names, queueVars, worker, cleaner, boot, history, faults >>

DiscardActive(s) ==
  /\ manager = At("unlisting", s)
  /\ activeFile' = activeFile \ {s}
  /\ manager' = Idle
  /\ UNCHANGED << frames, manifest, names, queueVars, worker, cleaner, boot, history, faults >>

(* A new manifest has the last name. *)
Renamed(s) == Append(SelectSeq(names, LAMBDA t : t # s), s)

(* end_session: the manifest is written, the active file removed, and the  *)
(* job notified.                                                           *)
WriteManifest(s) ==
  /\ manager = At("active", s)
  /\ Move(s, "pending")
  /\ names' = Renamed(s)
  /\ manager' = At("ending", s)
  /\ UNCHANGED << activeFile, frames, queueVars, worker, cleaner, boot, history, faults >>

EndActive(s) ==
  /\ manager = At("ending", s)
  /\ activeFile' = activeFile \ {s}
  /\ manager' = At("notifying", s)
  /\ UNCHANGED << frames, manifest, names, queueVars, worker, cleaner, boot, history, faults >>

(* _notify: what is known is not repeated; what does not fit is dropped.   *)
Accepted(s) == s \notin known /\ Len(inbox) < QueueSize

Notify(s) ==
  /\ manager = At("notifying", s)
  /\ inbox' = IF Accepted(s) THEN Append(inbox, s) ELSE inbox
  /\ known' = IF Accepted(s) THEN known \cup {s} ELSE known
  /\ manager' = Idle
  /\ UNCHANGED << activeFile, frames, manifest, names, worker, cleaner, boot, history, faults >>

-----------------------------------------------------------------------------
(* get_pending_job. When nothing is queued, pending/ is listed and what is *)
(* not known is notified, oldest first, as far as there is room.           *)

Listed == SelectSeq(names, LAMBDA s : manifest[s] = "pending")

(* mutant: what the queue had no room for is not looked for *)
RefilledNever(k) == << >>

Refilled(k) ==
  LET fresh == SelectSeq(Listed, LAMBDA s : s \notin k)
  IN  SubSeq(fresh, 1, IF Len(fresh) < QueueSize THEN Len(fresh) ELSE QueueSize)

Members(q) == { q[i] : i \in DOMAIN q }

Refill(w) ==
  /\ Up /\ worker[w] = Idle
  /\ inbox = << >> /\ Refilled(known) # << >>
  /\ inbox' = Refilled(known)
  /\ known' = known \cup Members(inbox')
  /\ UNCHANGED << managerVars, frames, manifest, names, worker, cleaner, boot, history, faults >>

(* The id is taken from the queue, then forgotten under the lock.          *)
Take(w) ==
  /\ Up /\ worker[w] = Idle /\ inbox # << >>
  /\ worker' = [worker EXCEPT ![w] = At("taken", Head(inbox))]
  /\ inbox' = Tail(inbox)
  /\ UNCHANGED << managerVars, frames, manifest, names, known, cleaner, boot, history, faults >>

Forget(w, s) ==
  /\ worker[w] = At("taken", s)
  /\ known' = known \ {s}
  /\ Step(w, "claiming")
  /\ UNCHANGED << managerVars, frames, manifest, names, inbox, cleaner, boot, history, faults >>

(* The rename to processing/ is the claim; a job that is not in pending/    *)
(* any more is somebody else's.                                            *)
Claim(w, s) ==
  /\ worker[w] = At("claiming", s) /\ manifest[s] = "pending"
  /\ Move(s, "processing")
  /\ Step(w, "working")
  /\ UNCHANGED << managerVars, frames, names, queueVars, cleaner, boot, history, faults >>

ClaimMisses(w, s) ==
  /\ worker[w] = At("claiming", s) /\ manifest[s] # "pending"
  /\ worker' = [worker EXCEPT ![w] = Idle]
  /\ UNCHANGED << managerVars, frames, manifest, names, queueVars, cleaner, boot, history, faults >>

-----------------------------------------------------------------------------
(* _run around a claimed job. _process_job opens the manifest first.       *)
Process(w, s) ==
  /\ worker[w] = At("working", s) /\ manifest[s] = "processing"
  /\ Step(w, "acknowledging")
  /\ done' = done \cup {s}
  /\ UNCHANGED << managerVars, frames, manifest, names, queueVars, cleaner, boot,
                  admitted, given, faults >>

(* The attempts are used up, on whatever error: fail_job. When its rename   *)
(* finds no manifest, the exception ends the thread.                       *)
GiveUp(w, s) ==
  /\ worker[w] = At("working", s)
  /\ \/ manifest[s] = "processing" /\ Fault
     \/ manifest[s] # "processing" /\ UNCHANGED faults
  /\ IF manifest[s] = "processing"
       THEN Move(s, "failed") /\ worker' = [worker EXCEPT ![w] = Idle]
       ELSE UNCHANGED manifest /\ worker' = [worker EXCEPT ![w] = At("dead", None)]
  /\ UNCHANGED << managerVars, frames, names, queueVars, cleaner, boot, history >>

(* acknowledge_job: into cleanup/, then read back for the session's        *)
(* directory.  If it is not there, _move_failed raises, and the worker     *)
(* counts a failed attempt and tries the job again.                        *)
AckMoves(w, s) ==
  /\ worker[w] = At("acknowledging", s)
  /\ Move(s, "cleanup")
  /\ Step(w, "moved")
  /\ UNCHANGED << managerVars, frames, names, queueVars, cleaner, boot, history, faults >>

AckReads(w, s) ==
  /\ worker[w] = At("moved", s)
  /\ Step(w, IF manifest[s] = "cleanup" THEN "opened" ELSE "working")
  /\ UNCHANGED << managerVars, frames, manifest, names, queueVars, cleaner, boot, history, faults >>

(* rmtree, by a worker or by the sampler: it takes time; when both are at   *)
(* it, either may find a file gone and stop.                               *)
RemoveStarts(s) ==
  /\ frames[s] \in {"whole", "removing", "contested"}
  /\ SetFrames(s, IF frames[s] = "whole" THEN "removing" ELSE "contested")

RemoveEnds(s) == frames[s] \in {"removing", "contested"} /\ SetFrames(s, "gone")

(* FileNotFoundError *)
RemoveMisses(s) == frames[s] \in {"contested", "gone", "orphaned"}

AckRemoves(w, s) ==
  /\ \/ /\ worker[w] = At("opened", s)
        /\ \/ RemoveStarts(s) /\ Step(w, "removing")
           \/ frames[s] \in {"gone", "orphaned"} /\ UNCHANGED frames
                /\ worker' = [worker EXCEPT ![w] = Idle]
     \/ /\ worker[w] = At("removing", s)
        /\ \/ RemoveEnds(s) /\ Step(w, "unlinking")
           \/ RemoveMisses(s) /\ UNCHANGED frames /\ worker' = [worker EXCEPT ![w] = Idle]
  /\ UNCHANGED << managerVars, manifest, names, queueVars, cleaner, boot, history, faults >>

AckUnlinks(w, s) ==
  /\ worker[w] = At("unlinking", s)
  /\ IF manifest[s] = "cleanup" THEN Move(s, "gone") ELSE UNCHANGED manifest
  /\ worker' = [worker EXCEPT ![w] = Idle]
  /\ UNCHANGED << managerVars, frames, names, queueVars, cleaner, boot, history, faults >>

-----------------------------------------------------------------------------
(* The sampler, every ten seconds: _resume_cleanup.                        *)
InCleanup == { s \in Sessions : manifest[s] = "cleanup" }

CleanerList ==
  /\ Up /\ cleaner.pc = "idle" /\ InCleanup # {}
  /\ cleaner' = [pc |-> "listed", session |-> None, todo |-> InCleanup]
  /\ UNCHANGED << managerVars, frames, manifest, names, queueVars, worker, boot, history, faults >>

NextListed == cleaner' = IF cleaner.todo = {} THEN CleanerIdle
                         ELSE [cleaner EXCEPT !.pc = "listed", !.session = None]

(* A manifest that has gone since raises out of the loop over the list.    *)
CleanerRead(s) ==
  /\ cleaner.pc = "listed" /\ s \in cleaner.todo
  /\ cleaner' = IF manifest[s] = "cleanup"
                  THEN [pc |-> "opened", session |-> s, todo |-> cleaner.todo \ {s}]
                  ELSE CleanerIdle
  /\ UNCHANGED << managerVars, frames, manifest, names, queueVars, worker, boot, history, faults >>

(* mutant: a directory that is gone is taken for one that cannot be removed *)
CleanerSkipsGone(s) ==
  /\ cleaner.session = s
  /\ \/ /\ cleaner.pc = "opened"
        /\ \/ RemoveStarts(s) /\ cleaner' = [cleaner EXCEPT !.pc = "removing"]
           \/ frames[s] \in {"gone", "orphaned"} /\ UNCHANGED frames /\ NextListed
     \/ /\ cleaner.pc = "removing"
        /\ \/ RemoveEnds(s) /\ cleaner' = [cleaner EXCEPT !.pc = "unlinking"]
           \/ RemoveMisses(s) /\ UNCHANGED frames /\ NextListed
  /\ UNCHANGED << managerVars, manifest, names, queueVars, worker, boot, history, faults >>

CleanerRemoves(s) ==
  /\ cleaner.session = s
  /\ \/ /\ cleaner.pc = "opened"
        /\ \/ RemoveStarts(s) /\ cleaner' = [cleaner EXCEPT !.pc = "removing"] /\ UNCHANGED faults
           \/ frames[s] \in {"gone", "orphaned"} /\ UNCHANGED << frames, faults >>
                /\ cleaner' = [cleaner EXCEPT !.pc = "unlinking"]
     \/ /\ cleaner.pc = "removing"
        /\ \/ RemoveEnds(s) /\ cleaner' = [cleaner EXCEPT !.pc = "unlinking"] /\ UNCHANGED faults
           \/ RemoveMisses(s) /\ UNCHANGED << frames, faults >>
                /\ cleaner' = [cleaner EXCEPT !.pc = "unlinking"]
           \/ Fault /\ UNCHANGED frames /\ NextListed     \* another OSError
  /\ UNCHANGED << managerVars, manifest, names, queueVars, worker, boot, history >>

CleanerUnlinks(s) ==
  /\ cleaner.pc = "unlinking" /\ cleaner.session = s
  /\ IF manifest[s] = "cleanup" THEN Move(s, "gone") ELSE UNCHANGED manifest
  /\ NextListed
  /\ UNCHANGED << managerVars, frames, names, queueVars, worker, boot, history, faults >>

(* _expire_quarantine: thirty days after it failed, or was orphaned.       *)
Expire(s) ==
  /\ boot \in {"up", "cleanup"} /\ cleaner.pc = "idle"
  /\ manifest[s] = "failed" \/ frames[s] = "orphaned"
  /\ IF manifest[s] = "failed" THEN Move(s, "gone") ELSE UNCHANGED manifest
  /\ SetFrames(s, "gone")
  /\ given' = given \cup {s}
  /\ UNCHANGED << managerVars, names, queueVars, worker, cleaner, boot, admitted, done, faults >>

-----------------------------------------------------------------------------
(* The process dies, in recovery or not; memory is lost.                   *)
Crash ==
  /\ Fault
  /\ boot' = "claims"
  /\ manager' = Idle
  /\ inbox' = << >> /\ known' = {}
  /\ worker' = [w \in Workers |-> Idle]
  /\ cleaner' = CleanerIdle
  /\ UNCHANGED << activeFile, frames, manifest, names, history >>

(* _recover_disk_state, in its order, one file at a time.                  *)
recovering == << manager, inbox, known, worker, cleaner, admitted, done >>

RecoverClaim(s) ==
  /\ boot = "claims" /\ manifest[s] = "processing"
  /\ Move(s, "pending")
  /\ UNCHANGED << activeFile, frames, names, boot, recovering, given, faults >>

RecoverCleanup(s) ==
  /\ boot = "cleanup" /\ manifest[s] = "cleanup"
  /\ IF frames[s] \in {"whole", "removing", "contested"}
       THEN SetFrames(s, "gone") /\ UNCHANGED manifest
       ELSE Move(s, "gone") /\ UNCHANGED frames
  /\ UNCHANGED << activeFile, names, boot, recovering, given, faults >>

(* mutant: pending/ is not read *)
ReferencedByFailed == { s \in Sessions : manifest[s] = "failed" }

(* A session that was active gets a manifest, unless it has one.           *)
Referenced == { s \in Sessions : manifest[s] \in {"pending", "failed"} }

(* mutant: the active file of an interrupted session is just removed *)
DropInterrupted(s) ==
  /\ boot = "active" /\ s \in activeFile \ Referenced
  /\ activeFile' = activeFile \ {s}
  /\ UNCHANGED << frames, manifest, names, boot, recovering, given, faults >>

RequeueActive(s) ==
  /\ boot = "active" /\ s \in activeFile \ Referenced
  /\ Move(s, "pending")
  /\ names' = Renamed(s)
  /\ UNCHANGED << activeFile, frames, boot, recovering, given, faults >>

DropActive(s) ==
  /\ boot = "active" /\ s \in activeFile \cap Referenced
  /\ activeFile' = activeFile \ {s}
  /\ UNCHANGED << frames, manifest, names, boot, recovering, given, faults >>

Orphan(s) ==
  /\ boot = "orphans" /\ s \notin Referenced
  /\ frames[s] \in {"whole", "removing", "contested"}
  /\ SetFrames(s, "orphaned")
  /\ UNCHANGED << activeFile, manifest, names, boot, recovering, given, faults >>

(* mutant: claims are no leases *)
ClaimsAreKept ==
  /\ \/ /\ boot = "claims" /\ boot' = "cleanup"
     \/ /\ boot = "cleanup" /\ InCleanup = {} /\ boot' = "active"
     \/ /\ boot = "active" /\ activeFile = {} /\ boot' = "orphans"
  /\ UNCHANGED << activeFile, frames, manifest, names, recovering, given, faults >>

(* A phase ends when its files are dealt with; a cleanup that cannot        *)
(* remove a directory leaves it for later.                                 *)
PhaseEnds ==
  /\ \/ /\ boot = "claims" /\ \A s \in Sessions : manifest[s] # "processing"
        /\ boot' = "cleanup" /\ UNCHANGED faults
     \/ /\ boot = "cleanup" /\ boot' = "active"
        /\ IF InCleanup = {} THEN UNCHANGED faults ELSE Fault
     \/ /\ boot = "active" /\ activeFile = {}
        /\ boot' = "orphans" /\ UNCHANGED faults
  /\ UNCHANGED << activeFile, frames, manifest, names, recovering, given >>

Started ==
  /\ boot = "orphans"
  /\ \A s \in Sessions \ Referenced : frames[s] \notin {"whole", "removing", "contested"}
  /\ boot' = "up"
  /\ inbox' = Refilled({}) /\ known' = Members(inbox')
  /\ UNCHANGED << managerVars, frames, manifest, names, worker, cleaner, history, faults >>

-----------------------------------------------------------------------------
Init ==
  /\ manager = Idle /\ activeFile = {}
  /\ frames = [s \in Sessions |-> "none"]
  /\ manifest = [s \in Sessions |-> "none"]
  /\ names = << >> /\ inbox = << >> /\ known = {}
  /\ worker = [w \in Workers |-> Idle]
  /\ cleaner = CleanerIdle
  /\ boot = "up"
  /\ admitted = {} /\ done = {} /\ given = {} /\ faults = 0

ManagerStep(s) ==
  \/ Begin(s) \/ WriteActive(s) \/ Admit(s)
  \/ AdmissionFails(s) \/ DiscardFrames(s) \/ DiscardActive(s)
  \/ WriteManifest(s) \/ EndActive(s) \/ Notify(s)

JobStep(w, s) ==
  \/ Forget(w, s) \/ Claim(w, s) \/ ClaimMisses(w, s)
  \/ Process(w, s) \/ GiveUp(w, s)
  \/ AckMoves(w, s) \/ AckReads(w, s) \/ AckRemoves(w, s) \/ AckUnlinks(w, s)

WorkerStep(w) == Refill(w) \/ Take(w) \/ \E s \in Sessions : JobStep(w, s)

CleanerStep(s) == CleanerRead(s) \/ CleanerRemoves(s) \/ CleanerUnlinks(s)

RecoveryStep ==
  \/ \E s \in Sessions : RecoverClaim(s) \/ RecoverCleanup(s) \/ RequeueActive(s)
                           \/ DropActive(s) \/ Orphan(s)
  \/ PhaseEnds \/ Started

Next ==
  \/ \E s \in Sessions : ManagerStep(s) \/ CleanerStep(s) \/ Expire(s)
  \/ \E w \in Workers : WorkerStep(w)
  \/ CleanerList
  \/ Crash \/ RecoveryStep

Spec == Init /\ [][Next]_vars

(* Every thread goes on with what it began; sessions need not end, and     *)
(* nothing has to expire.                                                  *)
Fairness ==
  /\ \A s \in Sessions : WF_vars(Notify(s))
  /\ \A w \in Workers : WF_vars(WorkerStep(w))
  /\ WF_vars(CleanerList) /\ WF_vars(\E s \in Sessions : CleanerStep(s))
  /\ WF_vars(RecoveryStep)

FairSpec == Spec /\ Fairness

-----------------------------------------------------------------------------
TypeOK ==
  /\ manager \in [pc : ManagerSteps, session : Sessions \cup {None}]
  /\ activeFile \subseteq Sessions
  /\ frames \in [Sessions -> FrameStates]
  /\ manifest \in [Sessions -> Places]
  /\ names \in Seq(Sessions)
  /\ inbox \in Seq(Sessions) /\ Len(inbox) <= QueueSize
  /\ known \subseteq Sessions
  /\ worker \in [Workers -> [pc : WorkerSteps, session : Sessions \cup {None}]]
  /\ cleaner \in [pc : CleanerSteps, session : Sessions \cup {None}, todo : SUBSET Sessions]
  /\ boot \in Phases
  /\ admitted \subseteq Sessions /\ done \subseteq Sessions /\ given \subseteq Sessions
  /\ faults \in 0 .. MaxFaults

(* The frames of a job are whole until a worker has processed it, or it     *)
(* was given up: no cleanup, recovery or expiry takes them away before.    *)
FramesOutliveWork ==
  \A s \in Sessions \ (done \cup given) :
    manifest[s] \in {"pending", "processing", "failed"} => frames[s] = "whole"

(* A session that was admitted is not forgotten, wherever the process dies: *)
(* until it is processed, or given up, it is active or has a manifest.     *)
NothingForgotten ==
  \A s \in admitted \ (done \cup given) :
    s \in activeFile \/ manifest[s] \in {"pending", "processing", "failed"}

(* While the service runs, a claimed job is in some worker's hands: nobody  *)
(* looks into processing/ before the next start.                           *)
ClaimedIsHeld ==
  \A s \in Sessions :
    Up /\ manifest[s] = "processing" => \E w \in Workers : worker[w].session = s

(* A pending job is claimed in the end, also when its notification was      *)
(* dropped or lost in a crash, unless no worker is left.                   *)
PendingIsClaimed ==
  \A s \in Sessions :
    manifest[s] = "pending" ~>
      manifest[s] # "pending" \/ \A w \in Workers : worker[w].pc = "dead"

(* What is in cleanup/ leaves it. *)
CleanupEnds == \A s \in Sessions : manifest[s] = "cleanup" ~> manifest[s] # "cleanup"

=============================================================================
