# TLA+ models of the weighing meter service

The service watches a truck scale and two plate cameras, cuts the stream of
weights into weighing *sessions* (one for each vehicle), recognises plates from
the frames it captured, and publishes each weighing over MQTT. These modules
model the parts where order, failure and concurrency decide whether a weighing
is kept, sent once, and attributed to the right vehicle, from the bytes of the
scale to the files that remain of a day. TLC checks each on a small instance;
TLAPS proves the safety properties of the passing runs for every instance.

## 1. Inventory

### Components, their state and operations

| Component (source) | State | Operations | Correct when |
| --- | --- | --- | --- |
| Session lifecycle (`session_manager.py`) | active session and its owner (plate or scale), wait flags (stall, renewed rise, plate re-arm), `fatal_error`, a terminal snapshot | `on_frame`, `on_plate_presence`, `on_scale_reader_health`, `shutdown`, all under `_lifecycle_lock` | one session for each loaded cycle; none lost, none while the scale is held back |
| Weight motion (`weight_motion.py`) | filter, pending drop, armed reference, trough, pending rise | `observe_loaded`, `arm_reentry`, `observe_reentry`, `start_visit` | a departure or a rise is decided once, on enough readings for long enough, of the visit at hand |
| Frame spool (`session_frame_spool.py`) | `sessions/`, `active/`, `pending/`, `processing/`, `cleanup/`, `failed/`, `orphan/` on disk; a bounded notification queue in memory | begin, abort, end, claim, acknowledge, fail, sampler cleanup, recovery | an admitted session's frames survive any crash until its job is done; a job has one worker |
| Deferred worker and finalization (`deferred_lpr_worker.py`, `finalization_store.py`, `finalize_deferred_session`) | claimed job, retry counts in memory, terminal ledger in SQLite | claim, recognise, stage, record, activate, acknowledge, retry, dead-letter | a session is decided once; nothing is deleted before its event is durable |
| Publish outbox (`publish_outbox.py`, `dead_letter.py`, `mqtt_service.py`) | pending events (memory and JSONL file), queue, completion ledger, dead letters, the messages the MQTT client keeps | enqueue, activate, publish thread, expiry, delivery by the client, load at start | at least once, nothing handed to the client after the completion is recorded, never silently dropped |
| Inference lock (`inference_lock.py`) | `active`, two waiter counts, the live burst | live and deferred entry, release | exclusion, no starvation between the two classes |
| Weight selection (`weight_state.py`, start and end of sessions in `session_manager.py`) | window of stable readings, episode, retained plateau, sustained plateau, peaks of one session | record, close an episode, publish, observe, assign | the weight assigned was shown while the vehicle was on the scale, and no lower plateau replaces a higher one |
| Start admission (`session_manager.py`) | attempt without a stable weight, waits after its departure, re-arm guard, trend window | frames without a session, starts | what holds back a start is set and cleared together, and ends |
| Scale evidence and recovery (`scale/evidence.py`, `recover_missed_session.py`) | the scale's log; the event file, the copies and the audit that a script writes | plan, gate, copy, upload, stage, audit | a load is given to one session; the script and the service do not undo each other's writes |
| Scale reader (`d2008_scale_reader.py`) | serial state, parse buffer, stability history, last valid time | parse, reconnect, mark stalled, deliver frame, stop | every whole frame is found; a reading is called stable only if it was; an outage ends in a recovery or a failure that is told |
| Live detection and OCR (`detect_coordinator.py`, `plate_tracker.py`) | tracks per camera, OCR queue, presence revision, shared plate tracker | observe, expire, claim, OCR, presence callback | a plate read in one session is never counted in another |
| Image upload (`image_save_worker.py`, `VerifiedMinioCacheCleaner`) | pending tasks (memory and file), queue, thread flag, a cleaner's pass | save and enqueue, upload, retry, dead-letter, verify and remove | each saved image is uploaded or dead-lettered, and not removed before |
| Duplicate review (`duplicate_review.py`) | reviewed sessions and actions in SQLite | register, group, pick a survivor | a removal leaves a published survivor |
| Retention cleaners (`retention_cleaner.py`, `diagnostic_archive.py`) | dated directories, archives, logs and their copies | save evidence, archive a day, compress and expire logs | what is removed has a whole copy, and each day is cleared in the end |
| Recognition pipeline, result building, plate registry, camera light, configuration, the other scripts | none between calls, or one flag or file | | outside the scope of these models |

### How they interact

The scale reader thread calls `on_frame` and `on_scale_reader_health`; the
detection threads call `on_plate_presence`. All three take `_lifecycle_lock`.
A session that the scale owns has a spool open; when it ends, `end_session`
writes a manifest to `pending/`. A deferred worker thread claims it, runs
inference under the inference lock that it shares with the live threads of the
camera, calls `finalize_deferred_session`, which stages a held event in the
outbox, writes the terminal record, and activates the event; then it
acknowledges the job. The publish thread sends active events. The main loop
ends the process when `fatal_error` is set or the reader has failed; systemd
starts it again, and every store is loaded or recovered. Images are saved by the
threads of sessions and of the deferred workers and uploaded by a thread of their
own, beside which the cleaners run. An operator may run the recovery script, which
shares the outbox's file and the lock of the scale's databases with the service.

### Where it is hard

* **Crashes** between any two writes of: event file, terminal ledger, completion
  ledger, dead letter file, job manifest, active file, frame directory.
* **Interleaving** of workers, sampler, publish thread and session manager on
  files with no common lock.
* **Lost acknowledgements and retries**: broker acks, retried jobs whose second
  attempt reads another plate than the first, recovery repeated after a crash in
  recovery.
* **Order of inputs**: frames, plates, stalls and failures in any order, with
  dwell times between them.
* **State kept across sessions**, connections or passes that belongs to the one
  before.
* **Two writers of one file**, or a cleaner and a writer, with a look at the file
  and a later use of what was seen.
* **Two classes of waiters** with conditions on each other.

`PROJECT.json` lists each hazard at its line with the properties that cover it.

## 2. Modules

| Module | Models | Notes |
| --- | --- | --- |
| `PublishOutbox` | the outbox and its publish thread | state, operations and the restart's load; extended by the next |
| `DeferredPublication` | the workers, finalization and ledger, with the outbox | the composed pipeline, `Spec` and `FairSpec` |
| `WeighingDelivery` | what the pipeline promises | abstract specification, refined by `DeferredPublication` |
| `SessionFrameSpool` | the spool at the grain of file operations | finer view of the manifests that `DeferredPublication` has as `job` |
| `PriorityInferenceLock` | the monitor | one action for each critical section |
| `WeightMotion` | the detector | operators on a record; no state of its own |
| `SessionLifecycle` | the session manager, with the detector | one action for each path of a handler |
| `VisitWeight` | the weights of a session | operators on a record |
| `StartAdmission` | the session manager's frames as far as weights go, with `VisitWeight` | finer view of `RisingFrame` of `SessionLifecycle` |
| `ScaleStability` | the stability rule of the reader | operators on the record `feed`, extended by the next and by `VisitWeight` |
| `ScaleReader` | the reader thread, its parser, and `stop` | one action for each turn of a loop |
| `PlateDetection` | the threads that detect and read plates, and what the session manager takes from them | one action for each step of a thread between locks |
| `ImageUpload` | image saving, the upload thread, the cache cleaner | one action for each step between effects on memory or files |
| `RetentionCleaners` | evidence, its archive, and the logs | one action for each effect on the files |
| `ScaleEvidence` | the log of the scale and what it proves | operators on a log |
| `MissedSessionRecovery` | the recovery script beside a service that starts, stops and crashes, with `PublishOutbox` and `ScaleEvidence` | one action for each step of the script |
| `MC*` | instances for TLC | |
| `*Proofs` | theorems | |

`StartAdmission` extends `VisitWeight`, which extends `ScaleStability`;
`MissedSessionRecovery` extends `PublishOutbox`, so that the script meets the very
outbox of `DeferredPublication`. What two modules name differently, though each has one (`Init` and
`RecoveryInit`, `Spec` and `ReaderSpec`), is named so that one module of proofs can
extend both.

Definitions marked *mutant* are wrong on purpose. No action uses them; each is
a bug that one of the properties must notice when it takes the place of the
definition it varies.

### PublishOutbox and DeferredPublication

`pending`, `disk`, `queue`, `completed`, `deadLetters` are the outbox's memory,
file, queue and two ledgers; an event is `held` between `enqueue(activate=False)`
and `activate`. `sender` is the publish thread between its calls, so that a crash
or a worker may come between the send, the completion write and the removal.

`kept` counts the messages of each event that the MQTT client holds. The client is
external (paho-mqtt 2.1.0, `requirements.txt`), used with QoS 1 (`config.py:50`) and one
client object for the life of the process (`mqtt_service.py`). With QoS 1 its `publish()` keeps
the message until the broker acknowledges it, also when it returns `MQTT_ERR_NO_CONN`,
and sends what it keeps when there is a connection again; nothing takes a message back.
So the result that the service waits for says little of the message: `HandOver` gives it
to the client with a connection, and the wait ends with the acknowledgement (`Deliver`) or
after its 10 s (`TimeOut`); `SendRefused` is the return at once, without a message (no
client, no payload) or with one that stays with the client. The outbox tries again after
10 s in each case, with a new message. `Deliver` and `DeliverUnacked` are the client's own
thread: an older copy may arrive after the event was given up, and a copy may arrive twice
when the connection is lost before its acknowledgement. A crash or an exit loses what the
client kept. `unconfirmed` is a history: the calls that left a message with the client and
returned without its acknowledgement.

Calls of other threads are split by what the caller sees (`Activate`,
`ActivateRefused`, `ActivateRaises`). A worker is at one of the steps of
`_run`; `RetryOrFail` is the `except` clause. `Restart` is a crash and the start
after it: memory is lost, claimed jobs go back to pending, and the outbox loads
its file. Every failure is an occurrence of `Fault(kind)`, so that a run can say
which may happen and how often.

Abstractions: an event has its session's id (as MQTT is enabled, and the id is
derived from it); the text of a result is reduced to *plate*, *unknown* or
*no weight*; duplicate review and images are left out of the finalization;
expiry is the `aged` set.

### SessionFrameSpool

`activeFile`, `frames`, `manifest` and `names` are the directories. Each action
is one rename, write, unlink or directory removal, or a critical section on the
notification queue. A removal of a directory has a beginning and an end, because
a worker and the sampler may remove the same one; each may then stop at a file
that is gone. `boot` is the phase of recovery, and `Crash` is enabled in every
one of them. Left out: which frames were captured, corrupt files, the space
limits, and the manifest that stays in `cleanup/` when recovery queues its
session a second time (the model moves it).

### PriorityInferenceLock

A thread is `out`, `waiting` in `wait_for`, `woken`, or `in`. The condition that a
woken thread looks at is evaluated in the critical section in which it enters.
`livePassed` and `deferredPassed` count how often a waiting class was overtaken.
`BurstCap` caps the burst counter, whose value matters only as zero or not.

### WeightMotion and SessionLifecycle

`owner` stands for `session_active`, `scale_owned` and `_plate_owned`. Waits are
ages that `Tick` advances up to their dwell; a wait that has not begun has no
age, as the code's `None`. Each action on a frame is a path through
`_on_frame_locked` with everything it calls: `BlockedFrame`, `UnblockingFrame`
(the wait after a stall), `WaitingFrame`, `ReentryFrame` (the wait for a renewed
rise), `PlateLostFrame`, `TimeoutFrame`, `PromotionFails`, `SessionFrame`,
`EmptyFrame`, `DepartureFrame`, `IdleFrame`, `RisingFrame`. Their guards are the
early returns, in the code's order. `DepartureFrame` and `SessionFrame` include
the promotion of a plate session by the same frame.

A failing spool is a disjunct: `AdmissionFails` when a session cannot open it,
`EndFails` when it does not take the job. In the second case the session stays,
keeps its first end reason, and a stall or the shutdown tries again.

Choices: that a rise is confirmed by the trend window and by
`_can_start_session` is nondeterministic for every loaded idle frame
(`StartAdmission` has the rule); the peak a
start inherits from the window is any weight not below the frame's; the reference
of the detector is any weight up to the session's peak, as plateau, filtered peak
and raw peak are. Two branches are left out because promotion comes first: a
plate session continuing without its plate, and its end on a falling trend.
The retry of `_pending_rise_start` is left out because the failure that keeps it
is fatal and frames are not looked at afterwards.

Histories: `last`, `laden`, `ownRun`, `ended` and `cycle`, with `ages.quiet`.
`cycle` says what happened since the scale was last quiet for a dwell: nothing,
a loaded session, or a departure, and then whether the scale climbed by at least
the rise threshold. It forgets at a restart, as the process does.

### PlateDetection

Each camera has a detecting thread (`worker`) and a reading thread (`feeding`);
the loop thread expires tracks. `Observe` is a detection up to its critical
section on the tracks; its report is then on its way (`reports`) until `Deliver`,
the callback into the session manager. A revision number is represented by what
it is compared with: a report knows the older ones that were on their way when it
was numbered (`older`), and when it is applied these are `overtaken`. A session
context is represented in the same way: a job is `current` until a session starts
or ends. So neither counter needs a bound. After a fatal error the callback returns
before it looks at the revision (`Swallow`); the error stays, but for one that a failed ending
raised and a later ending takes back. `unheard` is a history of that: the newest report
came while the error was set.

`Recognise` and `Count` are two steps, because `_process_plate_detections` looks
at the context under the lifecycle lock and adds to the tracker after it. What a
frame shows is a choice: no plate, one where the track is, or only others. When a
plate may start a session is in `SessionLifecycle`; here it may or may not.
`Followed` restricts the reading threads that a run follows; the jobs of one
camera never meet those of another. The non-split path of `_run_detection`, which
`bootstrap` never configures, is left out.

### VisitWeight and StartAdmission

`VisitWeight` has what a session knows of weights as one record: the window of
stable readings with its most frequent and newest one, the episode within a band,
the plateau that is retained, the sustained plateau of medians, and the raw and
filtered peaks. `Assigned` is the choice that `_snapshot_session` makes among
them. `StartAdmission` runs each frame through the reader's rule and then through
`_on_frame_locked`: with a session it records, without one it follows the attempt
(`Attempted`, `Followed`, `Departed`), the wait for the departed weight to leave
(`BlockedTail`, `StillDeparting`), and the trend that starts a session
(`Trended`, `Rising`, `MayStart`). `refused` records a rise that the guard turns
away although its dwell is over. How long a row of medians lasted is a choice. A
session may end at any frame, and frames may pass by (the waits of
`SessionLifecycle`); the frame that ends the wait after a stall clears what holds back a
start and is then handled (`RearmingFrame`). An overload is a reading of all nines, as the parser makes it,
and is recorded like one: the code has no other treatment of it in a session.

### ScaleStability and ScaleReader

A frame is four bytes: start, a digit for its contents, a check that is the digit
again, and end; so a frame can be cut anywhere, and noise may look like a start or
an end. `Read` takes some of the bytes that are left of a frame, `Parse` is the
loop of `feed` over the buffer, and `Handled` judges the frames found, in turn. The thread is
`opening`, `reading`, `waiting` to reconnect or `ended`; each failure of the port
goes through `Leave`, which counts, tells, and waits or gives up. `overdue` stands
for the time-out of valid frames. `trail` is a history of the last readings with
the gaps between them, from which `StableWasShown` restates the rule without its
counters.

### ImageUpload

A task has the number it was made with, because the code compares the object it
uploaded with the one that is pending (`Current`), and two tasks that are made
within a second are equal by value (`MayEqual`). Saving is a beginning and an end
(`BeginSave`, `EndSave`), as files are written without a rename; `Read` and
`Upload` are two steps, so that the file may change in between. The thread refills
its queue from the pending tasks; `EnsureWorker` loads the file and restarts it, or fails
on the way with some of the tasks loaded. The cleaner takes a
list at the beginning of its pass, verifies one image against the store, and then
removes it. Its pass may be as old as it likes. `old` separates the days that are
still written from those that are cleaned.

### RetentionCleaners

Evidence of a session is an image and a record, saved in three steps; when it is
saved is left open, because a session may be finalized days after it began. The
archive cleaner lists days, packs one, names the archive, lists the directory,
removes its files one by one and then the directory, if it is empty by then. Logs
are copied to a temporary file, verified, named, and their source removed. A crash
may come at any step, and leaves what it leaves.

### ScaleEvidence and MissedSessionRecovery

A log has at most one row at a tick, with its weight, whether it was stable, and
its checksum. `Proves` is `_scale_evidence`: sound rows in the session and its
margins, one cycle only that meets the session, and an empty scale before and
after it (`Confirmed`). The script is a record of its step and of what it has seen
and read; its comparisons of hashes of payloads and images are left out: they can only end
a run early, as `Abandon` may at any step; `Gate` tries the lock of the databases once. The service is `off`, `up`,
or `closing`: `shutdown_service` stops the reader, with which the lock goes, before
the sessions, the workers and the outbox (`bootstrap.py:366-383`).

The safety of the file rests on an assumption, the constant `Attended`: the
operator does not start the service while the script is at work, nor run the script
before the last service has ended. `docs/operations.md:127-129` says the tool verifies
that no service runs; what it does is to try the lock once, at its beginning.
Without the assumption TLC finds `NothingIsLost` and `GateMeansStopped` violated
(set `Attended = FALSE`): a script is let in while the outbox of a stopping service
still has events to write, or is overtaken by a start after a crash. Nor is there a
lock between two scripts; the model has one at a time.

## 3. Runs

| Run | Shows | Bounds |
| --- | --- | --- |
| `publication_safety` | order of stage, record, activate, acknowledge under crashes, failed writes and an unreadable ledger; every copy has its call or its fault | 2 sessions, 1 worker, 2 attempts, 2 faults of any kind, 2 unconfirmed messages |
| `publication_liveness` | one owner for a job; every job leaves the spool; every acknowledged event is settled; refinement of `WeighingDelivery` | 2 sessions (one without weight), 2 workers, 2 faults, 2 unconfirmed messages |
| `lock` | exclusion, alternation, admission of deferred work | 3 live and 2 deferred threads |
| `spool` | frames outlive their work, nothing admitted is forgotten, pending jobs are claimed, `cleanup/` empties | 2 sessions, the 1 worker that is deployed, queue of 1, 3 faults |
| `session_lifecycle` | one session per cycle, no load lost, a spool while loaded, an empty scale settles | weights 0, 1, 10, 40; dwells of 1 or 2 ticks |
| `plate_detection` | the session manager knows what is tracked, few stale readings, a lost plate is reported | 2 cameras (the readings of one followed), 2 hits, 1 tick to expire, 1 between readings |
| `images` | an image that is owed is neither removed nor forgotten, and is uploaded or dead-lettered | 2 images, one saved twice, queue of 1, 2 faults |
| `retention` | evidence that came in time and logs survive every failure; days are cleared | 1 day, 2 sessions, 2 faults |
| `scale_reader` | whole frames are found; stability; no silent end; outages end | weights 0, 10, 40, tolerance 20, a window of 3 and 2 equal ones, 2 attempts to open, 2 faults |
| `weight` | no weight of another vehicle; plateaus do not sink; what holds back a start agrees | weights 0, 50, 300, 1000, 1010 and the overload, threshold 100, band and tolerance 20, windows of 2 and 3, 4 frames a session, its rise included |
| `recovery` | script and service do not undo each other; what was acknowledged is published no more; image first; one load, one session | 1 case and 1 session of the service, 9 ticks of log (those that prove the case, and an empty one), 2 runs, 1 fault, 2 unconfirmed messages |
| `v_rearm_guard` | the guard of starts does not disarm | finding |

Why the bounds suffice: two faults give every pair *failure, then crash* and a
crash during the recovery from a crash; three, in the spool, a failure before them.
Two sessions and a queue of one fill the notification queue, as two images and a
queue of one do that of uploads; an image that is saved again while its first
version is uploaded is the smallest overtaking. Two workers are the smallest number
that can contend (`publication_liveness`; the spool's run has the deployed number).
Three live threads allow one in, one waiting and one arriving. Weight 1 of the
lifecycle is above zero and below the threshold (a residue: the detector sees it,
the session takes it for empty); 10 and 40 are loaded, with a drop between them
beyond `DropMin` and a rise above 1 beyond `RiseMin`; a filter of three readings has
a median that differs from the last reading; a dwell of one or two ticks has a
before and an after. In `weight`, 1000 and 1010 are within a band and 300 is far
below, less than a departure above the empty scale; 50 is a residue below the
threshold, which a stable window may have but no session; four frames are an episode of
two, its end, and one of another weight. In `recovery` the nine ticks give the case
an empty scale before it or none, a load of two ticks that goes on or not, a dwell
after it that is whole, interrupted or corrupt, and a next vehicle early or late.
Two unconfirmed messages leave one with the client while another is waited for, or two of
them for an event that is given up; in `recovery` one fault suffices, as the service may also
stop and start again without one. Only `publication_safety` uses symmetry, of its two sessions,
which nothing distinguishes and which none of its properties names.

`CHECK_DEADLOCK FALSE` stands in the runs in which everything may be finished:
publication, spool, images, retention, the reader (which may have ended), the
weights (bounded in frames) and the recovery. The lock, the lifecycle and the
detection never stop.

Type invariants (`TypeOK`) are stated in the modules with several variables; those
of the publication pipeline, the lock, the detection and the cleaners are theorems. Of
the others the proofs use only the parts that their invariants name.

### Fairness

* Publication: worker and publish threads keep running (their loops never wait
  without a timeout), and time passes, so that an undelivered event ages. The
  broker, the connection and the client owe nothing: what the client kept may never arrive.
  Sessions need not end.
* Images: the upload thread goes on with its task, delays of retries end, and the
  service is started again after a stop or a crash (systemd), which starts the
  thread. A failure of the store is a fault, and so does not repeat for ever; where it
  did, the age of a task would end it in the dead letters (`DeadLetter`).
* Retention: both cleaners run their passes (`BackgroundWorker._run_loop` logs an
  exception and goes on). Evidence need not come.
* Reader: the thread goes on, and a scale whose port is open goes on sending; it may
  be unplugged for ever, and the port may be silent within the bound of faults.
* Spool: a job that was announced, recovery and the cleaning sampler go on. An
  `end_session` need not follow a `begin_session`.
* Lock: a thread notified by `notify_all` gets the monitor in the end, and
  inference ends. No thread is obliged to come.
* Detection: a thread goes on with the report, job or count it has begun, the loop
  expires tracks, and time passes. No camera owes a frame, and none need show a plate.
  After a fatal error the service ends, and `PlateLossIsReported` asks for nothing more.
* Lifecycle: frames keep coming, the clock goes on, and the main loop ends the
  service after a fatal error (`weighing_service.main` polls it). Plates, stalls
  and failures are never obliged, and may repeat for ever.

`publication_liveness` excludes failed moves of manifests: a move that fails at
`acknowledge` or `fail` leaves the job in `processing/` until the next start,
which no thread is obliged to bring about. It excludes a completion ledger that cannot be
read too, as `DeliverySpec` needs it: an event whose completion is not seen is sent once
more. `publication_safety` includes both.

## 4. Proofs

One module of proofs stands beside each component. Two extend a pair that shares state:
`PublicationProofs` the two programs that write the outbox, `WeightProofs` the reader and
the session manager that take the same readings.

`PublicationProofs` proves of `DeferredPublication`, for any sets of sessions, workers and fault
kinds, and any number of faults and attempts: the type invariant, `OneOwner`,
`NothingSentBeforeFinalized`, `CopiesAreAccountedFor`, `AcknowledgedIsDurable`,
`LedgerIsWriteOnce`; and, under the assumption `LedgerReadable` that the
completion ledger can be read, `CompletedNeverRepublished` and the refinement of
`WeighingDelivery`. The assumption is needed: `_load_pending` queues an event whose
completion it cannot read, and the publish thread does not look again.

The properties are not inductive. The invariant is
`IInv == TypeOK /\ OutboxInv /\ WorkInv`:

* `WorkInv`: each worker owns the job it claimed, alone, and has established
  what its step presumes (`StepInOrder`): no record before it stages and marks,
  the record before it activates, durability before it acknowledges.
* `OutboxInv`: only events of published sessions are ever active, queued or sent
  (`OnlyPublished`); the publish thread's step says what has been sent or
  dead-lettered (`SenderInOrder`); the file never keeps an active event that
  memory lost (`DiskFollows`); a completed event is out of memory or about to
  leave it (`CompletedLeaves`); each copy of an event, at the broker or with the client,
  has an unconfirmed call or a fault to account for it, but for one that is waited for or
  was acknowledged, which none will follow (`PaidFor`, `Acknowledging`).

Each action has a lemma; `NextIInv` collects them, and the theorems follow from
`Invariance`. For the refinement, `StepDelivers` maps each step of the pipeline
to a step of `WeighingDelivery` or a stutter. There what the client keeps is in transit:
it may arrive after the event was recorded as delivered or was given up, and a restart
loses it; but no new message is made of such an event.

`PriorityInferenceLockProofs` proves type correctness, exclusion, exact counters,
alternation in both directions (`LockAlternates`, `LiveAlternates`) and the absence of
lost wake-ups, for any finite sets of threads. The
invariant adds two facts: a class overtaken once has the burst on its side
(`OvertakenInv`), and, while the lock is free, a thread still asleep could not
enter (`SleepersBlocked`).

`PlateDetectionProofs` proves type correctness, `PresenceIsCurrent` and
`StaleIsInFlight` for any set of cameras and any waits. `PresenceIsCurrent` speaks
only of moments without a report on its way; its invariant says what holds between
them (`NewestIsCurrent`): the newest report is still on its way, not overtaken, and
tells what the tracks are, or it has arrived and every other one is overtaken, or it was
swallowed by a fatal error (`unheard`), where the property promises nothing.
`OlderFirst` keeps two reports from each overtaking the other.

Of `MissedSessionRecovery`, `PublicationProofs` proves `LoadsDiffer` (theorem
`NoLoadTwice`) for any logs, margins, dwell, sessions and cases: a plan of the script rests on a load that no other session
that does not overlap it can prove. That two sessions look at each other's ticks
through their margins makes this more than the disjointness of intervals. The
argument: of two such sessions one ends before the other begins (`LeastExists` and the
bounds of `Overlap`). Its load ends before its own end, and from its last row to that
end the scale was seen empty for the dwell (`ProvedLoad`). A cycle of the later
session that held one of its rows would have to reach from there into the later
session, across that empty stretch, and be parted by it (`CyclesHoldTogether`,
`LaterLoadDiffers`). The inductive part is small: a script that has planned rests on
a log that proves its case (`ScriptInv`), which `AsAudited` establishes and no step
changes.

The other three properties of the recovery are about the script beside the service.
`SentWithItsImage` needs no assumption: `ImagesAreThere` extends it to every place an
event passes on its way, from the step after the upload through the file that the script
has read and the memory of the service to the publish thread (`Underway`).
`RetryLeavesCompleted` (theorem `RecoveryRepublishesNothing`) is proved under
`LedgerReadable`, as above, from `CompletedIsGone`: a completed event is out of memory or
about to leave it (`RecoveredLeaves`), and the publish thread works only on what is in
memory (`InHand`), so that it gives the client no message of a completed event, however
often the script stages it and whatever a crash left in the file. `NothingIsLost` is proved under `Attended`, the assumption on the operator
that section 2 names, without which TLC refutes it. `FileInv` says that script and service
take turns (`InTurn`), that what the script has read is still what the file has
(`ReadIsCurrent`), that memory and file of a running service have the same events but for
delivered ones (`FileFollows`), and that these were settled before they left
(`SettledFirst`).

`RetentionProofs` proves type correctness, `EarlyEvidenceKept` and `LogSurvives` for any
days, evidence, failures and crashes. For the evidence the invariant `EvidenceInv` says
that a day that was taken up has only evidence that was reported or is late (`TakenUp`),
that the list tar packs has all early evidence of its day (`ListHolds`), that an archive
has it (`ArchivesHold`), and that rmtree works only on a day with an archive
(`CleanerInv`). A record that is written while the cleaner removes the image beside it
is of late evidence (`SaversHold`): that is where the property would fail without its
condition, and where `EvidenceIsKept` below does.

`SpoolProofs` proves `FramesOutliveWork`, `NothingForgotten` and `ClaimedIsHeld` for any
sessions, workers and queue, and any number of failures and crashes. None is inductive:
each depends on what the thread at work has already made sure of. `FramesKept` keeps
the frames whole while *anything* refers to the session, its active file and the
manager as well as a manifest; `RemovedIsSettled` says that a thread that removes files
works on a session that is processed or given up; `EndedHasManifest` that the active file
goes after the manifest was written; `ClaimedIsWorkedAt` that the worker of a claimed
job is one that claimed it, not one that only heard of it; `RecoveryInOrder` that no
thread runs before the recovery has ended, and that each phase of it leaves nothing to
the phases behind it. The types of names and of the queue are not needed: a
notification that is lost, dropped or repeated does not touch these properties.

`LifecycleProofs` proves `LoadIsNotLost` and `FramesWhileLoaded` for any weights,
thresholds and waits. Beside them the invariant has one part, `FailedEndings`: an ending
that failed is kept with a reason of the scale. Without it a retry of the ending, which
takes the kept reason and not the new one (`EndReason`), could name a plate as the
reason for ending a loaded session.

`CyclesHaveOneSession` is `OneSessionPerCycle`, for any weights, thresholds, dwells and
size of the median's window. It is the claim that a lorry leaving the scale, with its
weight swinging and a median that lags behind, never looks like the next one arriving.
`CycleInv` says:

* `WaitsAreQuiet`: no wait for an empty scale (a session's, a stall's, a renewed rise's)
  is older than the quiet of the scale, wherever its end starts something. With it every
  way back to the ordinary state finds the cycle open (`CycleIsOver`). A wait that a
  stall or a fatal error interrupts is not so bounded, and need not be: what ends the
  stall is itself a dwell of empty frames.
* `OneAtATime`: a session and a wait for a rise exclude each other, and a blocked scale
  has a session only after a fatal error.
* `Descent`: while a renewed rise is waited for, the window holds nothing below the
  lowest reading of the cycle, and as long as the scale did not climb a rise above that
  reading, the detector is not rising. The part that makes it inductive is `Settled`: the
  lowest median seen is (half) the sum of two values not below the lowest reading, and as
  many readings of the window as their ranks are less than a rise above them. A reading
  that is no climb replaces at worst one of these (`PushedBelow`), so the median stays
  less than a rise above the lowest one (`RankIsBelow`, `NoRiseWithoutClimb`). The median
  itself is a `CHOOSE`; that there is such a reading (`RankIsTaken`) is shown with the
  least bound that enough readings are under.
* `RisingIsTimed`: only a rise that is pending has an age. The detector decides a rise
  on its age, one reading late, so this needs a dwell greater than zero.

It assumes that the thresholds are natural numbers and that `RiseMin`, `RiseDwell`,
`DropReadings` and `FilterFrames` are not zero: they are constants of `config.py:96-103`,
which nothing sets otherwise. `LifecycleTypes` adds the type invariant, of which one part
is more than a type: the detector is armed exactly while a rise is waited for, so that
`observe_reentry` never raises for want of a reference.

`ImageProofs` proves `ImageSurvives` and `UploadIsDurable` for any images and queue, and
any number of saves, failures, stops and crashes. The cleaner removes a file it has
verified a while ago, and the upload thread may still be sending what it read of that
file earlier: `InHand` says that the thread holds what the file has or the store has
something else, so that an image found verified (`Cleaned`) stays so until it is removed.
`InOrder` numbers the saves and keeps a save in progress ahead of everything else, and
`LastIsThere` carries the property over the removal. For the tasks, `EndsSafely` says
that a task is struck off when the store has an object or the dead letters have the
task, and `Durable` that it is in the file until then; in memory it is too, but for the
moment after a crash before the file was loaded, when nobody persists (`Fresh`), and a
load that fails on the way adds tasks and strikes none off (`LoadKeeps`).

`WeightProofs` follows a reading from the bytes of the scale to the session that is
given its weight.

* `WholeFramesHandedOn` and `StableIsShown`, for any weights, any tolerance and counts,
  any sequence of reads, noise, torn frames and reconnections. The invariant `LineInv`
  has two parts. The bytes of a frame that are read so far are the end of the buffer
  (`Ends`), unless the connection tore it: what the parser drops is never part of them
  (`PartIsKept`), and when the frame is complete it is the last one found
  (`WholeIsFound`). And what is judged is the end of what was read (`EndOf`): the window
  of the rule is the last frames of the trail, without an interruption between them, and
  as many of the newest as were counted are equal. `Parse` and `Handled` are recursive
  functions, of which TLA+ says only that they are some function that satisfies the
  equation *if there is one*. So that there is one is proved too (`ParseFinds`,
  `HandledInTurn`, `RecordingsExist`): the functions on each shorter interval are shown to
  exist by looking at a least counterexample (`FromZero`, and downwards `FromTheEnd`),
  which needs no induction over an operator.
* `EndsAreTold`, with `Awake`: the loop goes on unless stop() was called, or it ended.
* `AssignedIsShown`, for any readings, windows, filters and attempts. `AdmissionInv` says
  that everything a visit keeps, in six places, was shown in it (`VisitOf`), and that the
  loaded readings of the reader's window, which outlives sessions, are counted as shown
  when a session begins with them. That needs that the most frequent reading and the
  median are readings (`ModeIsReading`, `MedianIsReading`): the latter only for a filter
  of odd length, which `FilterFrames % 2 = 1` assumes, as `weight_state.py` has 5; the
  median of an even number is the mean of two, and may never have been shown.
* `HoldsTogether`: what holds back a start is set and cleared together (`Holding`), for
  each of the idle handlers.
* `PlateausStay`: while a plateau is retained, what a frame publishes is no more than the
  band below it (`FramesKeepPlateau`).

Of the constants `WeightProofs` assumes what the modules do, above all that weights are
natural numbers: negative readings, which a scale shows below its zero, are left out of
the models.

Only model-checked: every liveness property, as fairness and `ENABLED` are out of the
prover's reach. `GuardDisarms` is refuted by its run and has nothing to prove.

## 5. Findings

The run `v_rearm_guard` must fail. After an attempt to weigh that was never stable,
the session manager keeps the departing weight and blocks starts on the same plateau
for a dwell. Once it is over `_can_start_session` compares the departing weight with
the last *stable* weight (`session_manager.py:934-948`) and not with the weight of the
rise: when that is still the one of an empty scale, and the departing weight was less
than a departure above it, every rise is refused; when none was kept, the comparison
with `None` raises out of `on_frame`. A test names what is meant
(`tests/test_weight_stability.py:2065`: "Once the weight departed and the delay elapsed
the guard disarms.").

Nine more statements of documents or comments are written beside the properties that
hold, and none is part of a run, because the code does not keep them. TLC refutes each
in a few seconds when it is put in the place of the invariants of the run named:

| Statement | Module, run | How it is broken |
| --- | --- | --- |
| `NeverTwice` (`docs/operations.md:135-136`, "so a retry can never publish twice"; `docs/architecture.md:62-63`, "cannot publish twice") | `DeferredPublication`, `publication_safety` | no fault is needed: a send without a connection is refused but stays with the client, the outbox tries again after 10 s with a new message, and both are delivered on reconnection (`mqtt_service.py:189-197`), perhaps after the event was dead-lettered |
| `FinalizedIsPersisted` (`publish_outbox.py:41`) | `DeferredPublication`, `publication_safety` with three attempts (`MaxRetries = 3`) | a failed write of the outbox file leaves the event in memory, the retry finds it there and does not write it, and a crash loses a finalized weighing |
| `PublishedNotDeadLettered` (`session_manager.py:1494-1496`) | same | the completion of a sent event is not recorded, a crash follows, and each further attempt of the job fails |
| `RecordMatchesEvent` (`docs/architecture.md:51-57`) | same, with two `Readings` | a retry reads other plates than the attempt whose event is staged |
| `DepartureIsOwn` (`weight_motion.py:84`) | `SessionLifecycle`, `session_lifecycle` | a drop that was pending when the scale became empty ends the next session |
| `NoForeignPlates` (`detect_coordinator.py:321-323`) | `PlateDetection`, `plate_detection` | a session begins between the look at its context and the count |
| `StoreHasTheImage` (`docs/storage.md:7`) | `ImageUpload`, `images` | `_mark_uploaded` strikes off the task of a file that was saved again during the upload of its first version (`image_save_worker.py:396`) |
| `EvidenceIsKept` (`docs/storage.md`) | `RetentionCleaners`, `retention` | evidence that comes after its day was packed makes the directory again, and the next pass takes it for a leftover (`retention_cleaner.py:450-452`) |
| `GateMeansStopped` (`docs/operations.md:127-129`) | `MissedSessionRecovery`, `recovery` with `Attended = FALSE` | the lock that is tried is released before the service has ended, and not held |

Met on the way, and not stated as properties:

* A completion that cannot be read at start sends an acknowledged event again.
* The sampler may delete a manifest before `acknowledge_job` reads it, and the worker
  counts a failed attempt of a finished job.
* A job finished before `end_session` removed its active file is queued again after a
  crash, and then finds its terminal record.
* `shutdown_service` clears three callbacks of the reader but not `on_health`: the port
  that `stop` closes makes the reader tell of a stall, and the session may end as a gap
  in the data (`bootstrap.py:366-368`).
* When `stop` gives up waiting for the reader thread, the next frame opens the day's
  database again without the lock (`d2008_scale_reader.py:242-251`).
* A failure in `_init_db` leaves a connection to a database without a table, which
  the rest of the day uses (`d2008_scale_reader.py:227-232`).
* An overload is handed on as the weight 999999 and may become the peak of a session
  (`d2008_scale_reader.py:600`, `session_manager.py:390`).
* The samples of a rise that was given up seed the session of a later one
  (`weight_motion.py:147-175`).
* An episode whose two readings lie between the band and twice the band above a
  plateau may replace it on one reading above it (`weight_state.py:232-242`;
  `docs/architecture.md:29-37` asks for two).
* A plateau that is raised by the end of an episode is published with the next stable
  reading only (`weight_state.py:219-222`).
* Two removals of frames that interleave leave `_bytes_written` of the spool too high
  until the next start.

## 6. Plan and what is not modelled

Done, in the order of the plan: the pipeline from an ended session to the broker, the
lock, the spool, the session lifecycle, live detection; the admission of starts and the
weights of a visit; the scale reader; image upload; the archive of days and logs; the
recovery of a missed session.

Worth adding next:

1. A composition of the lifecycle with the spool: an abstract session store that both
   implement.
2. Refinements of an abstract store for the images and for the days of the archive, as
   `WeighingDelivery` is for the publication.

Not modelled, and why:

* Duplicate review: switched off by default, and in this version its decisions end in
  a mock client that nothing reads.
* The cleaner under disk pressure: it works on directories whose files are never
  uploaded, and promises only that it stops when there is room.
* The shadow archive of peak candidates, snapshots of cameras, and the metrics: they
  observe and decide nothing.
* The recognition pipeline and image arithmetic (no state between calls), result
  formatting, the plate registry's text matching, the camera light, configuration.
* The scripts other than the recovery: they only read, or rewrite files that no service
  uses at the time.
* Dead code met on the way: the session manager keeps `save_images_fn`, which
  `bootstrap.py:291` gives it, and never calls it.
