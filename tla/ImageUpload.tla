----------------------------- MODULE ImageUpload -----------------------------
(***************************************************************************)
(* services/storage/image_save_worker.py: images are saved under the       *)
(* session's name, a task for each is kept in memory and in                *)
(* upload_pending.jsonl, and one thread uploads them.  Beside it runs      *)
(* VerifiedMinioCacheCleaner of retention_cleaner.py, which removes local  *)
(* images of past days that the object store has.                          *)
(*                                                                         *)
(* An object key and the path of its file determine each other, so that a  *)
(* key stands for both.  Its content is the number of the save that wrote  *)
(* it: a session that is finalized again saves under the same key.  A task *)
(* is an object, named by its key and its number; two tasks of a key made  *)
(* in one second are equal by value (created_at has seconds).              *)
(***************************************************************************)
EXTENDS Integers, Sequences, FiniteSets, FiniteSetsExt

CONSTANTS
  Keys,
  QueueSize,   \* UPLOAD_QUEUE_SIZE
  MaxSaves,    \* saves of each image (a bound, for TLC)
  MaxFaults    \* failed operations, stops and crashes (a bound, for TLC)

ASSUME UploadAssumption ==
  /\ QueueSize \in Nat \ {0} /\ MaxSaves \in [Keys -> Nat \ {0}] /\ MaxFaults \in Nat

VARIABLES
  file,        \* the content of each local image
  remote,      \* the content of each object in the store
  disk,        \* the keys with a task in upload_pending.jsonl
  dead,        \* keys with a record in the dead letters
  pending,     \* _pending_tasks: the number of each key's task
  due,         \* keys whose pending task has reached its next_attempt_at
  made,        \* tasks made of each key
  queue,       \* _upload_queue
  queued,      \* _queued_keys
  worker,      \* the upload thread: its step, its task, the content it read
  running,     \* _worker_started
  stopping,    \* _stop_event
  saver,       \* what a session's thread is doing with each image
  saves,       \* saves begun of each image
  saved,       \* history: the last save that was reported as done
  old,         \* images of a day before the cache window
  cleaner,     \* the cleaner's pass: the images left to look at, the one verified
  faults

files == << file, remote, dead >>
tasks == << disk, pending, due, made >>
buffer == << queue, queued >>
thread == << worker, running, stopping >>
saverVars == << saver, saves, saved, old >>
vars == << files, tasks, buffer, thread, saverVars, cleaner, faults >>

Absent == 0
Torn == -1           \* a file that is being written, or whose writing failed
NoTask == 0
Task(k, n) == [key |-> k, n |-> n]
Idle == [at |-> "idle", key |-> CHOOSE k \in Keys : TRUE, n |-> NoTask, content |-> Absent]
NoPass == [todo |-> {}, verified |-> {}]

At(step) == worker' = [worker EXCEPT !.at = step]
Fault == faults < MaxFaults /\ faults' = faults + 1
NoFault == UNCHANGED faults

(* Definitions marked "mutant" are wrong on purpose; no action uses them.   *)

-----------------------------------------------------------------------------
(* mutant: the file is rewritten when a task ends, and not for a new one.    *)
PersistRemovals == disk' = { k \in disk : pending'[k] # NoTask }

(* _persist_pending_locked replaces the file at once.  It may raise before   *)
(* or after the replacement.                                                 *)
Persist == disk' = { k \in Keys : pending'[k] # NoTask }
PersistRaises == Fault /\ (UNCHANGED disk \/ Persist)

(* The queue takes QueueSize tasks.                                          *)
Room(q, ready) == Min({QueueSize - Len(q), Cardinality(ready)})

(* _fill_upload_queue_locked over the queue q of keys s: tasks that are due  *)
(* and not queued are put in while there is room, in some order.             *)
Fill(q, s) ==
  LET ready == { k \in Keys \ s : pending'[k] # NoTask /\ k \in due' }
      room == Room(q, ready)
  IN  \E order \in [1 .. room -> ready] :
        /\ \A i, j \in 1 .. room : order[i] = order[j] => i = j
        /\ queue' = q \o [i \in 1 .. room |-> Task(order[i], pending'[order[i]])]
        /\ queued' = s \cup { order[i] : i \in 1 .. room }

-----------------------------------------------------------------------------
(* _encode_save_local opens the path for writing in place.                   *)
BeginSave(k) ==
  /\ running /\ saver[k] = "idle" /\ k \notin old /\ saves[k] < MaxSaves[k]
  /\ saver' = [saver EXCEPT ![k] = "writing"]
  /\ saves' = [saves EXCEPT ![k] = @ + 1]
  /\ file' = [file EXCEPT ![k] = Torn]
  /\ UNCHANGED << remote, dead, tasks, buffer, thread, saved, old, cleaner, faults >>

EndSave(k) ==
  /\ saver[k] = "writing"
  /\ \/ /\ saver' = [saver EXCEPT ![k] = "written"]
        /\ file' = [file EXCEPT ![k] = saves[k]] /\ NoFault
     \/ saver' = [saver EXCEPT ![k] = "idle"] /\ UNCHANGED file /\ Fault
  /\ UNCHANGED << remote, dead, tasks, buffer, thread, saves, saved, old, cleaner >>

(* _enqueue_upload: a new task takes the place of the key's.  When the file  *)
(* cannot be written the task stays in memory, and the save is not reported. *)
NewTask(k) ==
  /\ made' = [made EXCEPT ![k] = @ + 1]
  /\ pending' = [pending EXCEPT ![k] = made[k] + 1]
  /\ due' = due \cup {k}

Enqueue(k) ==
  /\ saver[k] = "written" /\ saver' = [saver EXCEPT ![k] = "idle"]
  /\ NewTask(k)
  /\ \/ /\ Persist /\ Fill(queue, queued) /\ NoFault
        /\ saved' = [saved EXCEPT ![k] = saves[k]]
     \/ PersistRaises /\ UNCHANGED << buffer, saved >>
  /\ UNCHANGED << files, thread, saves, old, cleaner >>

-----------------------------------------------------------------------------
(* The thread takes an entry of the queue and compares it with the pending   *)
(* task of its key: equal by value when it is the same object, and maybe     *)
(* when it is another.                                                       *)
Current(t) == pending[t.key] = t.n
MayEqual(t) == pending[t.key] # NoTask

Take ==
  /\ running /\ ~stopping /\ worker.at = "idle" /\ queue # << >>
  /\ LET t == Head(queue)
     IN  worker' \in { [at |-> step, key |-> t.key, n |-> t.n, content |-> Absent] :
                         step \in (IF Current(t) THEN {} ELSE {"ending"})
                                  \cup (IF MayEqual(t) THEN {"checking"} ELSE {}) }
  /\ queue' = Tail(queue)
  /\ UNCHANGED << files, tasks, queued, running, stopping, saverVars, cleaner, faults >>

(* A task that has expired, or whose file is gone, becomes a dead letter and *)
(* is then dropped as if it had been uploaded.                               *)
DeadLetter ==
  /\ worker.at = "checking"
  /\ worker.key \in old \/ file[worker.key] = Absent
  /\ \/ dead' = dead \cup {worker.key} /\ At("marking") /\ NoFault
     \/ UNCHANGED dead /\ At("retrying") /\ Fault
  /\ UNCHANGED << file, remote, tasks, buffer, running, stopping, saverVars, cleaner >>

Read ==
  /\ worker.at = "checking" /\ file[worker.key] # Absent
  /\ worker' = [worker EXCEPT !.at = "uploading", !.content = file[worker.key]]
  /\ UNCHANGED << files, tasks, buffer, running, stopping, saverVars, cleaner, faults >>

(* fput_object: it may fail, before or after the store has the object.       *)
Upload ==
  /\ worker.at = "uploading"
  /\ \/ /\ remote' = [remote EXCEPT ![worker.key] = worker.content]
        /\ \/ At("marking") /\ NoFault
           \/ At("retrying") /\ Fault
     \/ UNCHANGED remote /\ At("retrying") /\ Fault
  /\ UNCHANGED << file, dead, tasks, buffer, running, stopping, saverVars, cleaner >>

(* _mark_uploaded drops the task that is pending for the key, whichever it   *)
(* is.  When the file cannot be written the exception leads to the retry.    *)
Uploaded(k) ==
  /\ pending' = [pending EXCEPT ![k] = NoTask]
  /\ due' = due \ {k} /\ UNCHANGED made

MarkUploaded ==
  /\ worker.at = "marking" /\ Uploaded(worker.key)
  /\ \/ Persist /\ Fill(queue, queued \ {worker.key}) /\ At("ending") /\ NoFault
     \/ /\ PersistRaises /\ queued' = queued \ {worker.key} /\ UNCHANGED queue
        /\ At("retrying")
  /\ UNCHANGED << files, running, stopping, saverVars, cleaner >>

(* _schedule_retry: only the very object that failed is put off.             *)
ScheduleRetry ==
  /\ worker.at = "retrying" /\ At("ending")
  /\ IF Current(worker)
     THEN /\ due' = due \ {worker.key} /\ UNCHANGED << pending, made >>
          /\ (Persist /\ NoFault) \/ PersistRaises
     ELSE UNCHANGED << tasks, faults >>
  /\ UNCHANGED << files, buffer, running, stopping, saverVars, cleaner >>

(* mutant: the key stays among those that are queued.                        *)
FinishKeepsKey ==
  /\ worker.at = "ending" /\ worker' = Idle
  /\ UNCHANGED << files, tasks, running, stopping, saverVars, cleaner, faults >>
  /\ Fill(queue, queued)

(* The end of a turn of _upload_loop.                                        *)
Finish ==
  /\ worker.at = "ending" /\ worker' = Idle
  /\ UNCHANGED << files, tasks, running, stopping, saverVars, cleaner, faults >>
  /\ Fill(queue, queued \ {worker.key})

Refill ==
  /\ running /\ ~stopping /\ worker.at = "idle" /\ queue = << >>
  /\ UNCHANGED << files, tasks, thread, saverVars, cleaner, faults >>
  /\ Fill(queue, queued) /\ queue' # queue

BecomesDue(k) ==
  /\ pending[k] # NoTask /\ k \notin due /\ due' = due \cup {k}
  /\ UNCHANGED << files, disk, pending, made, buffer, thread, saverVars, cleaner, faults >>

-----------------------------------------------------------------------------
(* _load_pending_uploads: tasks of the file are new objects; those in memory *)
(* are kept.  A task whose image is gone becomes a dead letter.              *)
Load(tasksRead) ==
  LET loaded == { k \in tasksRead : file[k] # Absent }
  IN  /\ made' = [k \in Keys |-> IF k \in loaded THEN made[k] + 1 ELSE made[k]]
      /\ pending' = [k \in Keys |-> IF k \in loaded THEN made'[k] ELSE pending[k]]
      /\ \E early \in SUBSET loaded : due' = (due \ loaded) \cup early
      /\ dead' = dead \cup (tasksRead \ loaded)

(* _ensure_worker: at the start of the service, and at any call after the    *)
(* thread has ended.  When the file cannot be read to its end, a dead letter *)
(* not be written, or the file not be replaced, there is no thread.          *)
EnsureWorker ==
  /\ ~running /\ UNCHANGED worker
  /\ \/ /\ Load(disk) /\ Persist /\ Fill(queue, queued) /\ NoFault
        /\ running' = TRUE /\ stopping' = FALSE
     \/ /\ \/ Load(disk) /\ PersistRaises
           \/ Fault /\ UNCHANGED disk /\ \E part \in SUBSET disk : Load(part)
        /\ UNCHANGED << buffer, running, stopping >>
  /\ UNCHANGED << file, remote, saverVars, cleaner >>

(* stop() sets the event and the thread ends after its task; deferred        *)
(* sessions may still be at work.                                            *)
Stop ==
  /\ running /\ ~stopping /\ stopping' = TRUE /\ Fault
  /\ UNCHANGED << files, tasks, buffer, worker, running, saverVars, cleaner >>

Exit ==
  /\ running /\ stopping /\ worker.at = "idle" /\ running' = FALSE
  /\ UNCHANGED << files, tasks, buffer, worker, stopping, saverVars, cleaner, faults >>

Crash ==
  /\ Fault
  /\ pending' = [k \in Keys |-> NoTask] /\ due' = {} /\ queue' = << >> /\ queued' = {}
  /\ worker' = Idle /\ running' = FALSE /\ stopping' = FALSE
  /\ saver' = [k \in Keys |-> "idle"] /\ cleaner' = NoPass
  /\ UNCHANGED << files, disk, made, saves, saved, old >>

-----------------------------------------------------------------------------
(* Images are saved under the day of their saving: those of a past day are   *)
(* not written any more.                                                     *)
DayPasses(k) ==
  /\ k \notin old /\ saver[k] = "idle" /\ old' = old \cup {k}
  /\ UNCHANGED << files, tasks, buffer, thread, saver, saves, saved, cleaner, faults >>

(* run_once of the cleaner: the day that ends the cache window and the       *)
(* pending keys are read once, and the images of before and of no pending    *)
(* key are looked at; an unreadable file of keys counts as empty.            *)
BeginPass ==
  /\ cleaner = NoPass
  /\ \/ cleaner' = [NoPass EXCEPT !.todo = old \ disk] /\ NoFault
     \/ disk # {} /\ cleaner' = [NoPass EXCEPT !.todo = old] /\ Fault
  /\ cleaner'.todo # {}
  /\ UNCHANGED << files, tasks, buffer, thread, saverVars >>

(* mutant: an object of that name is enough.                                 *)
VerifiedByName(k) == remote[k] # Absent

(* Size and MD5 of the object are compared with those of the file.           *)
Verified(k) == file[k] # Torn /\ remote[k] = file[k]

Removable(k) == file[k] # Absent /\ Verified(k)

Verify(k) ==
  /\ cleaner.verified = {} /\ k \in cleaner.todo
  /\ cleaner' = [todo |-> cleaner.todo \ {k}, verified |-> {k} \cap {i \in Keys : Removable(i)}]
  /\ UNCHANGED << files, tasks, buffer, thread, saverVars, faults >>

Remove(k) ==
  /\ k \in cleaner.verified
  /\ file' = [file EXCEPT ![k] = Absent] /\ cleaner' = [cleaner EXCEPT !.verified = {}]
  /\ UNCHANGED << remote, dead, tasks, buffer, thread, saverVars, faults >>

-----------------------------------------------------------------------------
Init ==
  /\ file = [k \in Keys |-> Absent] /\ remote = file /\ dead = {}
  /\ disk = {} /\ pending = [k \in Keys |-> NoTask] /\ due = {} /\ made = pending
  /\ queue = << >> /\ queued = {}
  /\ worker = Idle /\ running = FALSE /\ stopping = FALSE
  /\ saver = [k \in Keys |-> "idle"] /\ saves = [k \in Keys |-> 0] /\ saved = saves
  /\ old = {} /\ cleaner = NoPass /\ faults = 0

WorkerStep ==
  \/ Take \/ DeadLetter \/ Read \/ Upload \/ MarkUploaded \/ ScheduleRetry \/ Finish
  \/ Refill \/ Exit

Next ==
  \/ \E k \in Keys : BeginSave(k) \/ EndSave(k) \/ Enqueue(k) \/ BecomesDue(k)
                     \/ DayPasses(k) \/ Verify(k) \/ Remove(k)
  \/ WorkerStep \/ EnsureWorker \/ Stop \/ Crash \/ BeginPass

Spec == Init /\ [][Next]_vars

(* The thread runs, delays end, and the service is started again.            *)
FairSpec ==
  /\ Spec /\ WF_vars(WorkerStep) /\ WF_vars(EnsureWorker)
  /\ \A k \in Keys : WF_vars(BecomesDue(k))

-----------------------------------------------------------------------------
Most == Max({ MaxSaves[k] : k \in Keys })
Contents == Torn .. Most
Numbers == 0 .. Most + MaxFaults + 1

(* Every variable has its type, only pending tasks wait, and the queue keeps *)
(* within its size.                                                          *)
TypeOK ==
  /\ file \in [Keys -> Contents] /\ remote \in [Keys -> Contents]
  /\ disk \subseteq Keys /\ dead \subseteq Keys
  /\ pending \in [Keys -> Numbers] /\ made \in [Keys -> Numbers]
  /\ due \subseteq { k \in Keys : pending[k] # NoTask }
  /\ queue \in Seq([key : Keys, n : Numbers]) /\ Len(queue) <= QueueSize
  /\ queued \subseteq Keys
  /\ worker \in [ at : {"idle", "checking", "uploading", "marking", "retrying", "ending"},
                  key : Keys, n : Numbers, content : Contents ]
  /\ running \in BOOLEAN /\ stopping \in BOOLEAN
  /\ saver \in [Keys -> {"idle", "writing", "written"}]
  /\ saves \in [Keys -> 0 .. Most] /\ saved \in [Keys -> 0 .. Most]
  /\ old \subseteq Keys
  /\ cleaner \in [todo : SUBSET Keys, verified : SUBSET Keys]
  /\ faults \in 0 .. MaxFaults

(* The save of k that was reported as done is the last that was begun.       *)
Settled(k) == saved[k] > 0 /\ saves[k] = saved[k]

(* The image that was saved last is in the file or in the object store: the  *)
(* cleaner does not remove an image of which the store has another version.  *)
ImageSurvives == \A k \in Keys : Settled(k) => saved[k] \in {file[k], remote[k]}

(* A saved image has its task in upload_pending.jsonl until the store has an *)
(* object of its name or the dead letters have the task (_persist before the *)
(* save is reported, and after the upload).                                  *)
UploadIsDurable ==
  \A k \in Keys : Settled(k) => k \in disk \/ remote[k] # Absent \/ k \in dead

(* Every saved image gets to the object store or to the dead letters,        *)
(* whatever fails and however full the queue is.                             *)
SavedIsUploaded ==
  \A k \in Keys : saved[k] > 0 ~> remote[k] # Absent \/ k \in dead

(* docs/storage.md: result images are written under storage/weighbridge and  *)
(* uploaded; an image whose task has ended without a dead letter is the one  *)
(* in the store.                                                             *)
StoreHasTheImage ==
  \A k \in Keys : Settled(k) => k \in disk \/ remote[k] = saved[k] \/ k \in dead
=============================================================================
