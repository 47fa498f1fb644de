----------------------------- MODULE ImageProofs -----------------------------
(***************************************************************************)
(* What ImageUpload keeps of a saved image, for any images and queue, and  *)
(* any number of saves, failures, stops and crashes.                       *)
(***************************************************************************)
EXTENDS ImageUpload, TLAPS

Uploading(k) == worker.at = "uploading" /\ worker.key = k
Safe(k) == remote[k] # Absent \/ k \in dead

(* After a crash nobody persists tasks before the file has been loaded.      *)
Fresh == ~ running /\ worker.at = "idle" /\ \A k \in Keys : saver[k] = "idle"

Shape ==
  /\ file \in [Keys -> Int] /\ remote \in [Keys -> Int]
  /\ pending \in [Keys -> Nat] /\ made \in [Keys -> Nat]
  /\ saver \in [Keys -> {"idle", "writing", "written"}]
  /\ saves \in [Keys -> Nat] /\ saved \in [Keys -> Nat]
  /\ worker = [at |-> worker.at, key |-> worker.key, n |-> worker.n, content |-> worker.content]
  /\ cleaner = [todo |-> cleaner.todo, verified |-> cleaner.verified]

(* No content is newer than the last save, and a save in progress is newer   *)
(* than everything but the file.                                             *)
InOrder(k) ==
  /\ file[k] <= saves[k] /\ remote[k] <= saves[k] /\ saved[k] <= saves[k]
  /\ saver[k] # "idle" => saved[k] < saves[k]
  /\ saver[k] = "writing" => file[k] = Torn /\ remote[k] < saves[k]
  /\ saver[k] = "written" => file[k] = saves[k]
  /\ Uploading(k) => /\ worker.content \in Int /\ worker.content # Absent
                     /\ worker.content <= saves[k]
                     /\ saver[k] = "writing" => worker.content < saves[k]

(* The thread holds what the file has, or the store has something else.      *)
InHand(k) ==
  Uploading(k) => worker.content = file[k] \/ remote[k] # file[k] \/ file[k] \in {Torn, Absent}

(* What the cleaner looks at is old; what it has verified the store has, and *)
(* the thread will not put something else in its place.                      *)
Cleaned(k) ==
  /\ k \in old => saver[k] = "idle"
  /\ k \in cleaner.todo \cup cleaner.verified => k \in old
  /\ k \in cleaner.verified => /\ file[k] \notin {Absent, Torn} /\ remote[k] = file[k]
                               /\ Uploading(k) => worker.content = file[k]

(* The last save is in the file until the cleaner removes it, and then in    *)
(* the store for good.                                                       *)
LastIsThere(k) ==
  Settled(k) => \/ file[k] = saved[k]
                \/ /\ file[k] = Absent /\ remote[k] = saved[k]
                   /\ Uploading(k) => worker.content = saved[k]

(* A task ends when its image is in the store or in the dead letters, and is *)
(* in the file until then: in memory too, unless that was just lost.         *)
EndsSafely(k) == worker.at = "marking" /\ worker.key = k => Safe(k)
Durable(k) == Settled(k) => Safe(k) \/ (k \in disk /\ (pending[k] # NoTask \/ Fresh))

Image(k) == InOrder(k) /\ InHand(k) /\ Cleaned(k) /\ LastIsThere(k)
Upkeep(k) == EndsSafely(k) /\ Durable(k)

IInv == Shape /\ \A k \in Keys : Image(k) /\ Upkeep(k)

-----------------------------------------------------------------------------
LEMMA Contents0 == Absent = 0 /\ Torn = -1 /\ NoTask = 0
BY DEF Absent, Torn, NoTask

LEMMA InitIInv == Init => IInv
<1> SUFFICES ASSUME Init PROVE IInv
  OBVIOUS
<1>1. Shape
  BY Contents0 DEF Init, Shape, Idle, NoPass
<1>2. \A k \in Keys : Image(k)
  BY Contents0 DEF Init, Idle, NoPass, Image, InOrder, InHand, Cleaned,
                   LastIsThere, Settled, Uploading
<1>3. \A k \in Keys : Upkeep(k)
  BY DEF Init, Idle, Upkeep, EndsSafely, Durable, Settled
<1> QED
  BY <1>1, <1>2, <1>3 DEF IInv

-----------------------------------------------------------------------------
(* The thread goes on, without an image in hand that it did not have, and    *)
(* what was in upload_pending.jsonl for good reason is there.                *)
LEMMA ThreadGoesOn ==
  ASSUME IInv,
         UNCHANGED << file, remote, pending, made, saver, saves, saved, old, cleaner >>,
         dead \subseteq dead',
         worker' = [ at |-> worker'.at, key |-> worker'.key,
                     n |-> worker'.n, content |-> worker'.content ],
         \/ worker' = worker
         \/ worker'.at \notin {"uploading", "marking"}
         \/ worker'.at = "marking" /\ worker'.key \in dead',
         \A k \in Keys : k \in disk /\ (pending[k] # NoTask \/ Fresh)
                           => k \in disk' /\ (pending[k] # NoTask \/ Fresh')
  PROVE  IInv'
<1>1. Shape'
  BY DEF IInv, Shape
<1>2. \A k \in Keys : Image(k)'
  BY DEF IInv, Image, InOrder, InHand, Cleaned, LastIsThere, Settled, Uploading
<1>3. \A k \in Keys : Upkeep(k)'
  BY DEF IInv, Upkeep, EndsSafely, Durable, Settled, Safe
<1> QED
  BY <1>1, <1>2, <1>3 DEF IInv

LEMMA TurnKeeps ==
  ASSUME IInv, \/ Take \/ DeadLetter \/ ScheduleRetry \/ Finish \/ Refill \/ Exit \/ Stop
               \/ \E k \in Keys : BecomesDue(k)
  PROVE  IInv'
<1> USE DEF IInv
<1>1. CASE Take
  <2>1. /\ worker' = [ at |-> worker'.at, key |-> worker'.key,
                       n |-> worker'.n, content |-> worker'.content ]
        /\ worker'.at \in {"ending", "checking"}
    BY <1>1 DEF Take
  <2> QED
    BY <1>1, <2>1, ThreadGoesOn DEF Take, files, tasks, saverVars, Fresh
<1>2. CASE DeadLetter
  <2>1. /\ worker' = [ at |-> worker'.at, key |-> worker'.key,
                       n |-> worker'.n, content |-> worker'.content ]
        /\ \/ worker'.at \notin {"uploading", "marking"}
           \/ worker'.at = "marking" /\ worker'.key \in dead'
        /\ dead \subseteq dead' /\ worker.at # "idle"
    BY <1>2 DEF DeadLetter, At, Shape
  <2> QED
    BY <1>2, <2>1, ThreadGoesOn DEF DeadLetter, tasks, saverVars, Fresh
<1>3. CASE ScheduleRetry
  <2>1. /\ worker' = [ at |-> worker'.at, key |-> worker'.key,
                       n |-> worker'.n, content |-> worker'.content ]
        /\ worker'.at = "ending" /\ worker.at # "idle"
    BY <1>3 DEF ScheduleRetry, At, Shape
  <2>2. /\ UNCHANGED << pending, made >>
        /\ \A k \in Keys : k \in disk /\ pending[k] # NoTask => k \in disk'
    BY <1>3 DEF ScheduleRetry, Persist, PersistRaises, tasks
  <2> QED
    BY <1>3, <2>1, <2>2, ThreadGoesOn DEF ScheduleRetry, files, saverVars, Fresh
<1>4. CASE Finish
  <2>1. /\ worker' = [ at |-> worker'.at, key |-> worker'.key,
                       n |-> worker'.n, content |-> worker'.content ]
        /\ worker'.at = "idle" /\ worker.at # "idle"
    BY <1>4 DEF Finish, Idle
  <2> QED
    BY <1>4, <2>1, ThreadGoesOn DEF Finish, files, tasks, saverVars, Fresh
<1>5. CASE Refill \/ Exit \/ Stop \/ \E k \in Keys : BecomesDue(k)
  <2>1. /\ worker' = worker /\ (Fresh => Fresh')
        /\ UNCHANGED << file, remote, dead, disk, pending, made, saver, saves,
                        saved, old, cleaner >>
    BY <1>5 DEF Refill, Exit, Stop, BecomesDue, thread, files, tasks, saverVars, Fresh
  <2> QED
    BY <2>1, ThreadGoesOn DEF Shape
<1> QED
  BY <1>1, <1>2, <1>3, <1>4, <1>5

-----------------------------------------------------------------------------
(* The savers: a session's image is written, and its task made.              *)
LEMMA BeginSaveKeeps ==
  ASSUME IInv, NEW k \in Keys, BeginSave(k)
  PROVE  IInv'
<1>1. /\ running /\ saver[k] = "idle" /\ k \notin old
      /\ saver' = [saver EXCEPT ![k] = "writing"] /\ saves' = [saves EXCEPT ![k] = @ + 1]
      /\ file' = [file EXCEPT ![k] = Torn]
      /\ UNCHANGED << remote, dead, pending, made, disk, worker, running, saved,
                      old, cleaner >>
  BY DEF BeginSave, tasks, thread
<1>2. Shape'
  BY <1>1, Contents0 DEF IInv, Shape
<1>3. \A j \in Keys : Image(j)'
  <2> SUFFICES ASSUME NEW j \in Keys PROVE Image(j)'
    OBVIOUS
  <2>1. Image(j)
    BY DEF IInv
  <2> QED
    BY <1>1, <2>1, Contents0 DEF IInv, Shape, Image, InOrder, InHand, Cleaned,
                                 LastIsThere, Settled, Uploading
<1>4. \A j \in Keys : Upkeep(j)'
  <2> SUFFICES ASSUME NEW j \in Keys PROVE Upkeep(j)'
    OBVIOUS
  <2>1. Image(j) /\ Upkeep(j)
    BY DEF IInv
  <2> QED
    BY <1>1, <2>1, Contents0 DEF IInv, Shape, Image, InOrder, Upkeep, Uploading,
                                 Fresh, EndsSafely, Durable, Settled, Safe
<1> QED
  BY <1>2, <1>3, <1>4 DEF IInv

LEMMA EndSaveKeeps ==
  ASSUME IInv, NEW k \in Keys, EndSave(k)
  PROVE  IInv'
<1>1. /\ saver[k] = "writing"
      /\ \/ saver' = [saver EXCEPT ![k] = "written"] /\ file' = [file EXCEPT ![k] = saves[k]]
         \/ saver' = [saver EXCEPT ![k] = "idle"] /\ file' = file
      /\ UNCHANGED << remote, dead, pending, made, disk, worker, running, saves,
                      saved, old, cleaner >>
  BY DEF EndSave, tasks, thread
<1>2. Shape'
  BY <1>1, Contents0 DEF IInv, Shape
<1>3. \A j \in Keys : Image(j)'
  <2> SUFFICES ASSUME NEW j \in Keys PROVE Image(j)'
    OBVIOUS
  <2>1. Image(j)
    BY DEF IInv
  <2> QED
    BY <1>1, <2>1, Contents0 DEF IInv, Shape, Image, InOrder, InHand, Cleaned,
                                 LastIsThere, Settled, Uploading
<1>4. \A j \in Keys : Upkeep(j)'
  <2> SUFFICES ASSUME NEW j \in Keys PROVE Upkeep(j)'
    OBVIOUS
  <2>1. Image(j) /\ Upkeep(j)
    BY DEF IInv
  <2> QED
    BY <1>1, <2>1, Contents0 DEF IInv, Shape, Image, InOrder, Upkeep, Uploading,
                                 Fresh, EndsSafely, Durable, Settled, Safe
<1> QED
  BY <1>2, <1>3, <1>4 DEF IInv

LEMMA EnqueueKeeps ==
  ASSUME IInv, NEW k \in Keys, Enqueue(k)
  PROVE  IInv'
<1>1. /\ saver[k] = "written" /\ saver' = [saver EXCEPT ![k] = "idle"]
      /\ made' = [made EXCEPT ![k] = @ + 1] /\ pending' = [pending EXCEPT ![k] = made[k] + 1]
      /\ \/ saved' = [saved EXCEPT ![k] = saves[k]] /\ disk' = { j \in Keys : pending'[j] # NoTask }
         \/ saved' = saved /\ (disk' = disk \/ disk' = { j \in Keys : pending'[j] # NoTask })
      /\ UNCHANGED << file, remote, dead, worker, running, saves, old, cleaner >>
  BY DEF Enqueue, NewTask, Persist, PersistRaises, files, thread
<1>2. Shape'
  BY <1>1, Contents0 DEF IInv, Shape
<1>3. \A j \in Keys : Image(j)'
  <2> SUFFICES ASSUME NEW j \in Keys PROVE Image(j)'
    OBVIOUS
  <2>1. Image(j)
    BY DEF IInv
  <2> QED
    BY <1>1, <2>1, Contents0 DEF IInv, Shape, Image, InOrder, InHand, Cleaned,
                                 LastIsThere, Settled, Uploading
<1>4. \A j \in Keys : Upkeep(j)'
  <2> SUFFICES ASSUME NEW j \in Keys PROVE Upkeep(j)'
    OBVIOUS
  <2>1. Image(j) /\ Upkeep(j)
    BY DEF IInv
  <2> QED
    BY <1>1, <2>1, Contents0 DEF IInv, Shape, Image, InOrder, Upkeep, Uploading,
                                 Fresh, EndsSafely, Durable, Settled, Safe
<1> QED
  BY <1>2, <1>3, <1>4 DEF IInv

-----------------------------------------------------------------------------
(* The thread with an image in hand. *)
LEMMA ReadKeeps ==
  ASSUME IInv, Read
  PROVE  IInv'
<1>1. /\ worker.at = "checking" /\ file[worker.key] # Absent
      /\ worker'.at = "uploading" /\ worker'.key = worker.key /\ worker'.content = file[worker.key]
      /\ worker' = [ at |-> worker'.at, key |-> worker'.key,
                   n |-> worker'.n, content |-> worker'.content ]
      /\ UNCHANGED << file, remote, dead, pending, made, disk, running, saver,
                      saves, saved, old, cleaner >>
  BY DEF Read, IInv, Shape, files, tasks, saverVars
<1>2. Shape'
  BY <1>1, Contents0 DEF IInv, Shape
<1>3. \A j \in Keys : Image(j)'
  <2> SUFFICES ASSUME NEW j \in Keys PROVE Image(j)'
    OBVIOUS
  <2>1. Image(j)
    BY DEF IInv
  <2> QED
    BY <1>1, <2>1, Contents0 DEF IInv, Shape, Image, InOrder, InHand, Cleaned,
                                 LastIsThere, Settled, Uploading
<1>4. \A j \in Keys : Upkeep(j)'
  <2> SUFFICES ASSUME NEW j \in Keys PROVE Upkeep(j)'
    OBVIOUS
  <2>1. Image(j) /\ Upkeep(j)
    BY DEF IInv
  <2> QED
    BY <1>1, <2>1, Contents0 DEF IInv, Shape, Image, InOrder, Upkeep, Uploading,
                                 Fresh, EndsSafely, Durable, Settled, Safe
<1> QED
  BY <1>2, <1>3, <1>4 DEF IInv

LEMMA UploadKeeps ==
  ASSUME IInv, Upload
  PROVE  IInv'
<1>1. /\ worker.at = "uploading" /\ worker'.key = worker.key
      /\ worker'.at \in {"marking", "retrying"}
      /\ \/ remote' = [remote EXCEPT ![worker.key] = worker.content]
         \/ remote' = remote /\ worker'.at = "retrying"
      /\ worker' = [ at |-> worker'.at, key |-> worker'.key,
                   n |-> worker'.n, content |-> worker'.content ]
      /\ UNCHANGED << file, dead, pending, made, disk, running, saver, saves,
                      saved, old, cleaner >>
  BY DEF Upload, At, IInv, Shape, tasks, saverVars
<1>2. worker.key \in Keys => worker.content \in Int
  BY <1>1 DEF IInv, Image, InOrder, Uploading
<1>3. remote' \in [Keys -> Int]
  BY <1>1, <1>2 DEF IInv, Shape
<1>4. Shape'
  BY <1>1, <1>3 DEF IInv, Shape
<1>5. \A j \in Keys : Image(j)'
  <2> SUFFICES ASSUME NEW j \in Keys PROVE Image(j)'
    OBVIOUS
  <2>1. Image(j)
    BY DEF IInv
  <2> QED
    BY <1>1, <2>1, Contents0 DEF IInv, Shape, Image, InOrder, InHand, Cleaned,
                                 LastIsThere, Settled, Uploading
<1>6. \A j \in Keys : Upkeep(j)'
  <2> SUFFICES ASSUME NEW j \in Keys PROVE Upkeep(j)'
    OBVIOUS
  <2>1. Image(j) /\ Upkeep(j)
    BY DEF IInv
  <2> QED
    BY <1>1, <2>1, Contents0 DEF IInv, Shape, Image, InOrder, Upkeep, Uploading,
                                 Fresh, EndsSafely, Durable, Settled, Safe
<1> QED
  BY <1>4, <1>5, <1>6 DEF IInv

LEMMA MarkKeeps ==
  ASSUME IInv, MarkUploaded
  PROVE  IInv'
<1>1. /\ worker.at = "marking" /\ worker'.key = worker.key /\ worker'.at \in {"ending", "retrying"}
      /\ pending' = [pending EXCEPT ![worker.key] = NoTask]
      /\ disk' = disk \/ disk' = { j \in Keys : pending'[j] # NoTask }
      /\ worker' = [ at |-> worker'.at, key |-> worker'.key,
                     n |-> worker'.n, content |-> worker'.content ]
      /\ UNCHANGED << file, remote, dead, made, running, saver, saves, saved, old, cleaner >>
  <2>1. \E step \in {"ending", "retrying"} : At(step)
    BY DEF MarkUploaded
  <2>2. /\ worker'.key = worker.key /\ worker'.at \in {"ending", "retrying"}
        /\ worker' = [ at |-> worker'.at, key |-> worker'.key,
                       n |-> worker'.n, content |-> worker'.content ]
    BY <2>1 DEF At, IInv, Shape
  <2> QED
    BY <2>2 DEF MarkUploaded, Uploaded, Persist, PersistRaises, files, saverVars
<1>2. Shape'
  BY <1>1, Contents0 DEF IInv, Shape
<1>3. \A j \in Keys : Image(j)'
  <2> SUFFICES ASSUME NEW j \in Keys PROVE Image(j)'
    OBVIOUS
  <2>1. Image(j)
    BY DEF IInv
  <2> QED
    BY <1>1, <2>1, Contents0 DEF IInv, Shape, Image, InOrder, InHand, Cleaned,
                                 LastIsThere, Settled, Uploading
<1>4. \A j \in Keys : Upkeep(j)'
  <2> SUFFICES ASSUME NEW j \in Keys PROVE Upkeep(j)'
    OBVIOUS
  <2>1. Image(j) /\ Upkeep(j)
    BY DEF IInv
  <2> QED
    BY <1>1, <2>1, Contents0 DEF IInv, Shape, Image, InOrder, Upkeep, Uploading,
                                 Fresh, EndsSafely, Durable, Settled, Safe
<1> QED
  BY <1>2, <1>3, <1>4 DEF IInv

-----------------------------------------------------------------------------
(* The service starts and dies, and the cleaner passes. *)
LEMMA LoadKeeps ==
  ASSUME IInv, NEW part \in SUBSET disk, Load(part), ~ running,
         UNCHANGED << file, remote, worker, saver, saves, saved, old, cleaner >>,
         \/ disk' = disk /\ ~ running'
         \/ part = disk /\ disk' = { j \in Keys : pending'[j] # NoTask }
  PROVE  IInv'
<1> DEFINE loaded == { j \in part : file[j] # Absent }
<1>1. /\ made' = [j \in Keys |-> IF j \in loaded THEN made[j] + 1 ELSE made[j]]
      /\ pending' = [j \in Keys |-> IF j \in loaded THEN made'[j] ELSE pending[j]]
      /\ dead' = dead \cup (part \ loaded)
  BY DEF Load
<1>2. Shape'
  BY <1>1, Contents0 DEF IInv, Shape
<1>3. \A j \in Keys : Image(j)'
  <2> SUFFICES ASSUME NEW j \in Keys PROVE Image(j)'
    OBVIOUS
  <2>1. Image(j)
    BY DEF IInv
  <2> QED
    BY <1>1, <2>1, Contents0 DEF IInv, Shape, Image, InOrder, InHand, Cleaned,
                                 LastIsThere, Settled, Uploading
<1>4. \A j \in Keys : Upkeep(j)'
  <2> SUFFICES ASSUME NEW j \in Keys PROVE Upkeep(j)'
    OBVIOUS
  <2>1. Image(j) /\ Upkeep(j)
    BY DEF IInv
  <2>2. made[j] \in Nat /\ (pending[j] # NoTask => pending'[j] # NoTask)
    BY <1>1, Contents0 DEF IInv, Shape
  <2>3. Settled(j)' = Settled(j) /\ (Safe(j) => Safe(j)')
    BY <1>1 DEF Settled, Safe
  <2>4. EndsSafely(j)'
    BY <2>1, <2>3 DEF Upkeep, EndsSafely
  <2>5. CASE disk' = disk /\ ~ running'
    <3>1. Fresh => Fresh'
      BY <2>5 DEF Fresh
    <3> QED
      BY <2>1, <2>2, <2>3, <2>4, <2>5, <3>1 DEF Upkeep, Durable
  <2>6. CASE part = disk /\ disk' = { i \in Keys : pending'[i] # NoTask }
    <3>1. j \in disk => j \in dead' \/ pending'[j] # NoTask
      BY <1>1, <2>2, <2>6, Contents0
    <3> QED
      BY <2>1, <2>3, <2>4, <2>6, <3>1 DEF Upkeep, Durable, Safe
  <2> QED
    BY <2>5, <2>6
<1> QED
  BY <1>2, <1>3, <1>4 DEF IInv

LEMMA StartKeeps ==
  ASSUME IInv, EnsureWorker
  PROVE  IInv'
<1>1. /\ ~ running
      /\ UNCHANGED << file, remote, worker, saver, saves, saved, old, cleaner >>
  BY DEF EnsureWorker, saverVars
<1>2. CASE Load(disk) /\ Persist
  BY <1>1, <1>2, LoadKeeps DEF Persist
<1>3. CASE ~ running' /\ UNCHANGED disk /\ \E part \in SUBSET disk : Load(part)
  BY <1>1, <1>3, LoadKeeps
<1> QED
  BY <1>1, <1>2, <1>3 DEF EnsureWorker, PersistRaises

LEMMA CrashKeeps ==
  ASSUME IInv, Crash
  PROVE  IInv'
<1>1. /\ worker'.at = "idle" /\ cleaner'.todo = {} /\ cleaner'.verified = {} /\ ~ running'
      /\ pending' = [j \in Keys |-> NoTask] /\ saver' = [j \in Keys |-> "idle"]
      /\ cleaner' = [todo |-> cleaner'.todo, verified |-> cleaner'.verified]
      /\ worker' = [ at |-> worker'.at, key |-> worker'.key,
                   n |-> worker'.n, content |-> worker'.content ]
      /\ UNCHANGED << file, remote, dead, disk, made, saves, saved, old >>
  <2>1. worker' = Idle /\ cleaner' = NoPass
    BY DEF Crash
  <2>2. /\ worker'.at = "idle"
        /\ worker' = [ at |-> worker'.at, key |-> worker'.key,
                       n |-> worker'.n, content |-> worker'.content ]
    BY <2>1 DEF Idle
  <2>3. /\ cleaner'.todo = {} /\ cleaner'.verified = {}
        /\ cleaner' = [todo |-> cleaner'.todo, verified |-> cleaner'.verified]
    BY <2>1 DEF NoPass
  <2> QED
    BY <2>2, <2>3 DEF Crash, files
<1>2. Shape'
  BY <1>1, Contents0 DEF IInv, Shape
<1>3. \A j \in Keys : Image(j)'
  <2> SUFFICES ASSUME NEW j \in Keys PROVE Image(j)'
    OBVIOUS
  <2>1. Image(j)
    BY DEF IInv
  <2> QED
    BY <1>1, <2>1, Contents0 DEF IInv, Shape, Image, InOrder, InHand, Cleaned,
                                 LastIsThere, Settled, Uploading
<1>4. \A j \in Keys : Upkeep(j)'
  <2> SUFFICES ASSUME NEW j \in Keys PROVE Upkeep(j)'
    OBVIOUS
  <2>1. Image(j) /\ Upkeep(j)
    BY DEF IInv
  <2> QED
    BY <1>1, <2>1, Contents0 DEF IInv, Shape, Image, InOrder, Upkeep, Uploading,
                                 Fresh, EndsSafely, Durable, Settled, Safe
<1> QED
  BY <1>2, <1>3, <1>4 DEF IInv

LEMMA DayKeeps ==
  ASSUME IInv, NEW k \in Keys, DayPasses(k)
  PROVE  IInv'
<1>1. /\ saver[k] = "idle" /\ old' = old \cup {k}
      /\ UNCHANGED << file, remote, dead, pending, made, disk, worker, running,
                      saver, saves, saved, cleaner >>
  BY DEF DayPasses, files, tasks, thread
<1>2. Shape'
  BY <1>1, Contents0 DEF IInv, Shape
<1>3. \A j \in Keys : Image(j)'
  <2> SUFFICES ASSUME NEW j \in Keys PROVE Image(j)'
    OBVIOUS
  <2>1. Image(j)
    BY DEF IInv
  <2> QED
    BY <1>1, <2>1, Contents0 DEF IInv, Shape, Image, InOrder, InHand, Cleaned,
                                 LastIsThere, Settled, Uploading
<1>4. \A j \in Keys : Upkeep(j)'
  <2> SUFFICES ASSUME NEW j \in Keys PROVE Upkeep(j)'
    OBVIOUS
  <2>1. Image(j) /\ Upkeep(j)
    BY DEF IInv
  <2> QED
    BY <1>1, <2>1, Contents0 DEF IInv, Shape, Image, InOrder, Upkeep, Uploading,
                                 Fresh, EndsSafely, Durable, Settled, Safe
<1> QED
  BY <1>2, <1>3, <1>4 DEF IInv

LEMMA PassKeeps ==
  ASSUME IInv, BeginPass
  PROVE  IInv'
<1>1. /\ cleaner'.todo \subseteq old /\ cleaner'.verified = {}
      /\ cleaner' = [todo |-> cleaner'.todo, verified |-> cleaner'.verified]
      /\ UNCHANGED << file, remote, dead, pending, made, disk, worker, running,
                      saver, saves, saved, old >>
  BY DEF BeginPass, NoPass, files, tasks, thread, saverVars
<1>2. Shape'
  BY <1>1, Contents0 DEF IInv, Shape
<1>3. \A j \in Keys : Image(j)'
  <2> SUFFICES ASSUME NEW j \in Keys PROVE Image(j)'
    OBVIOUS
  <2>1. Image(j)
    BY DEF IInv
  <2> QED
    BY <1>1, <2>1, Contents0 DEF IInv, Shape, Image, InOrder, InHand, Cleaned,
                                 LastIsThere, Settled, Uploading
<1>4. \A j \in Keys : Upkeep(j)'
  <2> SUFFICES ASSUME NEW j \in Keys PROVE Upkeep(j)'
    OBVIOUS
  <2>1. Image(j) /\ Upkeep(j)
    BY DEF IInv
  <2> QED
    BY <1>1, <2>1, Contents0 DEF IInv, Shape, Image, InOrder, Upkeep, Uploading,
                                 Fresh, EndsSafely, Durable, Settled, Safe
<1> QED
  BY <1>2, <1>3, <1>4 DEF IInv

LEMMA VerifyKeeps ==
  ASSUME IInv, NEW k \in Keys, Verify(k)
  PROVE  IInv'
<1>1. /\ k \in cleaner.todo /\ cleaner'.todo = cleaner.todo \ {k}
      /\ cleaner'.verified \subseteq {k}
      /\ k \in cleaner'.verified => file[k] \notin {Absent, Torn} /\ remote[k] = file[k]
      /\ cleaner' = [todo |-> cleaner'.todo, verified |-> cleaner'.verified]
      /\ UNCHANGED << file, remote, dead, pending, made, disk, worker, running,
                      saver, saves, saved, old >>
  BY DEF Verify, Removable, Verified, files, tasks, thread, saverVars
<1>2. Shape'
  BY <1>1, Contents0 DEF IInv, Shape
<1>3. \A j \in Keys : Image(j)'
  <2> SUFFICES ASSUME NEW j \in Keys PROVE Image(j)'
    OBVIOUS
  <2>1. Image(j)
    BY DEF IInv
  <2> QED
    BY <1>1, <2>1, Contents0 DEF IInv, Shape, Image, InOrder, InHand, Cleaned,
                                 LastIsThere, Settled, Uploading
<1>4. \A j \in Keys : Upkeep(j)'
  <2> SUFFICES ASSUME NEW j \in Keys PROVE Upkeep(j)'
    OBVIOUS
  <2>1. Image(j) /\ Upkeep(j)
    BY DEF IInv
  <2> QED
    BY <1>1, <2>1, Contents0 DEF IInv, Shape, Image, InOrder, Upkeep, Uploading,
                                 Fresh, EndsSafely, Durable, Settled, Safe
<1> QED
  BY <1>2, <1>3, <1>4 DEF IInv

LEMMA RemoveKeeps ==
  ASSUME IInv, NEW k \in Keys, Remove(k)
  PROVE  IInv'
<1>1. /\ k \in cleaner.verified /\ cleaner'.todo = cleaner.todo /\ cleaner'.verified = {}
      /\ file' = [file EXCEPT ![k] = Absent]
      /\ cleaner' = [todo |-> cleaner'.todo, verified |-> cleaner'.verified]
      /\ UNCHANGED << remote, dead, pending, made, disk, worker, running, saver,
                      saves, saved, old >>
  BY DEF Remove, IInv, Shape, tasks, thread, saverVars
<1>2. Shape'
  BY <1>1, Contents0 DEF IInv, Shape
<1>3. \A j \in Keys : Image(j)'
  <2> SUFFICES ASSUME NEW j \in Keys PROVE Image(j)'
    OBVIOUS
  <2>1. Image(j)
    BY DEF IInv
  <2> QED
    BY <1>1, <2>1, Contents0 DEF IInv, Shape, Image, InOrder, InHand, Cleaned,
                                 LastIsThere, Settled, Uploading
<1>4. \A j \in Keys : Upkeep(j)'
  <2> SUFFICES ASSUME NEW j \in Keys PROVE Upkeep(j)'
    OBVIOUS
  <2>1. Image(j) /\ Upkeep(j)
    BY DEF IInv
  <2> QED
    BY <1>1, <2>1, Contents0 DEF IInv, Shape, Image, InOrder, Upkeep, Uploading,
                                 Fresh, EndsSafely, Durable, Settled, Safe
<1> QED
  BY <1>2, <1>3, <1>4 DEF IInv

-----------------------------------------------------------------------------
LEMMA Invariance == Spec => []IInv
<1>1. IInv /\ [Next]_vars => IInv'
  <2> SUFFICES ASSUME IInv, [Next]_vars PROVE IInv'
    OBVIOUS
  <2>1. CASE \E k \in Keys : BeginSave(k) \/ EndSave(k) \/ Enqueue(k)
    BY <2>1, BeginSaveKeeps, EndSaveKeeps, EnqueueKeeps
  <2>2. CASE \E k \in Keys : BecomesDue(k) \/ DayPasses(k) \/ Verify(k) \/ Remove(k)
    BY <2>2, TurnKeeps, DayKeeps, VerifyKeeps, RemoveKeeps
  <2>3. CASE WorkerStep
    BY <2>3, TurnKeeps, ReadKeeps, UploadKeeps, MarkKeeps DEF WorkerStep
  <2>4. CASE EnsureWorker \/ Stop \/ Crash \/ BeginPass
    BY <2>4, TurnKeeps, StartKeeps, CrashKeeps, PassKeeps
  <2>5. CASE UNCHANGED vars
    BY <2>5, ThreadGoesOn DEF vars, files, tasks, thread, saverVars, IInv, Shape, Fresh
  <2> QED
    BY <2>1, <2>2, <2>3, <2>4, <2>5 DEF Next
<1> QED
  BY InitIInv, <1>1, PTL DEF Spec

(* The last image that was saved is in its file or in the store: what        *)
(* VerifiedMinioCacheCleaner removes the store has, and an upload of an      *)
(* earlier version that is on its way does not take its place.               *)
THEOREM LastImageSurvives == Spec => []ImageSurvives
<1>1. IInv => ImageSurvives
  BY DEF IInv, Image, LastIsThere, ImageSurvives
<1> QED
  BY Invariance, <1>1, PTL

(* A save that was reported has its task in upload_pending.jsonl until the   *)
(* store has an object of its name or the dead letters have the task.        *)
THEOREM SaveHasItsTask == Spec => []UploadIsDurable
<1>1. IInv => UploadIsDurable
  BY DEF IInv, Upkeep, Durable, Safe, UploadIsDurable
<1> QED
  BY Invariance, <1>1, PTL
=============================================================================
