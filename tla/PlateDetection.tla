---------------------------- MODULE PlateDetection ----------------------------
(***************************************************************************)
(* services/capture/detect_coordinator.py, with the plate tracker of the   *)
(* live session and what the session manager makes of it.  Each camera has *)
(* a thread that detects plates and one that reads them; the loop expires  *)
(* tracks.  The threads share the tracks (_track_lock), a slot for each    *)
(* camera's next reading (_ocr_jobs), and the session's plate tracker.     *)
(*                                                                         *)
(*   _presence_revision   an order: a report knows which ones are older    *)
(*   session_context()    whether a job is of the current context          *)
(*   _plate_presence_revision and the last valid_by_camera   overtaken,    *)
(*                                                           present       *)
(*                                                                         *)
(* A frame is what a detection finds in it.  A detection is one step, in   *)
(* which it reads its frame and changes its track: the slots of frames     *)
(* only choose which frame that is.  A reading is one step too, to the     *)
(* last look at the context: a job that is still current then could as     *)
(* well have been read at once, and any other is dropped.  Left out: the   *)
(* text that is read, and what the tracker scores.                         *)
(***************************************************************************)
EXTENDS Naturals

CONSTANTS
  Cameras,       \* the cameras, each standing for its detecting thread
  Loop,          \* the thread of _detect_loop
  ConfirmHits,   \* confirm_hits
  StaleTicks,    \* PLATE_TRACK_STALE_SECONDS
  OcrInterval,   \* LPR_LIVE_OCR_INTERVAL_SECONDS
  Followed       \* the cameras whose readings are followed: no camera's
                 \* jobs have to do with another's

ASSUME DetectionAssumption ==
  /\ Loop \notin Cameras /\ Followed \subseteq Cameras
  /\ {ConfirmHits, StaleTicks, OcrInterval} \subseteq Nat \ {0}

VARIABLES
  tracks,      \* _tracks
  worker,      \* a detecting thread: idle, or it has observed a frame
  reports,     \* presences on their way to the session manager
  overtaken,   \* the reports that a newer one has come before
  present,     \* the presence the session manager has applied last
  active,      \* whether there is a session
  fatal,       \* fatal_error: "none", or the failure of the spool it tells
  unheard,     \* history: the newest report came while fatal_error was set
  queued,      \* _ocr_jobs
  feeding,     \* the job whose plates a reading thread is about to count
  foreign,     \* history: the jobs of earlier contexts counted in this one
  running      \* _enabled and _running

ocrVars == << queued, feeding, foreign >>
sessionVars == << active, fatal >>
vars ==
  << tracks, worker, reports, overtaken, present, unheard, sessionVars, ocrVars, running >>

Threads == Cameras \cup {Loop}
Jobs == {"none", "current", "stale"}
NoReport == [any |-> FALSE, older |-> {}, flying |-> FALSE]
InFlight == { t \in Threads : reports[t].flying }

Least(a, b) == IF a <= b THEN a ELSE b

-----------------------------------------------------------------------------
(* Tracks.  Ages count the ticks since the last sight of the plate, and     *)
(* since its last reading was claimed; a new track has not been read.       *)
NoTrack == [hits |-> 0, valid |-> FALSE, unseen |-> 0, unread |-> OcrInterval]

(* Definitions marked "mutant" are wrong on purpose. No action uses them:   *)
(* they stand for bugs the properties are there to notice.                  *)

(* mutant: a frame without a plate counts as a sight of it. *)
MissRefreshes(t, seen) ==
  IF seen = "none" THEN [t EXCEPT !.unseen = 0]
  ELSE LET hits == IF seen = "same" THEN Least(t.hits + 1, ConfirmHits) ELSE 1
       IN  [hits |-> hits, valid |-> hits = ConfirmHits, unseen |-> 0,
            unread |-> IF seen = "same" THEN t.unread ELSE OcrInterval]

(* observe: a frame shows no plate, one where the track is, or only others.  *)
Observed(t, seen) ==
  IF seen = "none" THEN t
  ELSE LET hits == IF seen = "same" THEN Least(t.hits + 1, ConfirmHits) ELSE 1
       IN  [hits |-> hits, valid |-> hits = ConfirmHits, unseen |-> 0,
            unread |-> IF seen = "same" THEN t.unread ELSE OcrInterval]

Sights(t) == {"none", "other"} \cup (IF t.hits = 0 THEN {} ELSE {"same"})

(* expire: of valid tracks only.  The next plate is a new track. *)
Stale(t) == t.valid /\ t.unseen = StaleTicks

Expired(t) == IF Stale(t) THEN NoTrack ELSE t

(* claim_live_ocr: the claim is made even if this frame has nothing to read. *)
Claims(t) == t.valid /\ t.unread = OcrInterval
Claimed(t) == IF Claims(t) THEN [t EXCEPT !.unread = 0] ELSE t

AnyValid(ts) == \E c \in Cameras : ts[c].valid

(* The thread numbers a report of all tracks, under _track_lock. *)
Reported(t, ts) ==
  [reports EXCEPT ![t] = [any |-> AnyValid(ts), older |-> InFlight, flying |-> TRUE]]

-----------------------------------------------------------------------------
(* _run_detection, to its callback. *)
Observe(c, seen) ==
  LET t == Observed(tracks[c], seen)
      ts == [tracks EXCEPT ![c] = Claimed(t)]
  IN  /\ running /\ worker[c] = "idle" /\ seen \in Sights(tracks[c])
      /\ tracks' = ts /\ reports' = Reported(c, ts) /\ unheard' = FALSE
      /\ worker' = [worker EXCEPT ![c] =
           IF Claims(t) /\ seen # "none" THEN "claimed" ELSE "observed"]
      /\ UNCHANGED << overtaken, present, sessionVars, ocrVars, running >>

(* _expire_stale_tracks, which the loop calls while detection is enabled. *)
Expire ==
  LET ts == [ c \in Cameras |-> Expired(tracks[c]) ]
  IN  /\ running /\ ~reports[Loop].flying
      /\ \E c \in Cameras : Stale(tracks[c])
      /\ tracks' = ts /\ reports' = Reported(Loop, ts) /\ unheard' = FALSE
      /\ UNCHANGED << worker, overtaken, present, sessionVars, ocrVars, running >>

-----------------------------------------------------------------------------
(* The session manager.  A session that starts or ends changes the context:  *)
(* no job that was queued before is of the new one.                         *)
Outdated(jobs) == [ c \in Cameras |-> IF jobs[c] = "none" THEN "none" ELSE "stale" ]

ContextChanges ==
  /\ queued' = Outdated(queued) /\ feeding' = Outdated(feeding)
  /\ foreign' = [ c \in Cameras |-> 0 ]

(* _start_session also clears the plate tracker.  An ending that succeeds     *)
(* after one that failed takes the fatal error back.                         *)
SessionStarts ==
  /\ fatal = "none" /\ ~active /\ active' = TRUE /\ ContextChanges
  /\ UNCHANGED fatal
SessionEnds ==
  /\ active /\ active' = FALSE /\ ContextChanges
  /\ fatal' = IF fatal = "ending" THEN "none" ELSE fatal

(* The spool fails: when the scale starts a session (which has its id by     *)
(* then) or takes over one that a plate began, or when a session ends.       *)
AdmissionFails ==
  /\ fatal = "none" /\ fatal' = "admission" /\ UNCHANGED active
  /\ \/ ~active /\ ContextChanges
     \/ active /\ UNCHANGED ocrVars
EndingFails ==
  /\ active /\ fatal # "admission" /\ fatal' = "ending" /\ UNCHANGED << active, ocrVars >>

Delivered(t) ==
  [ s \in Threads |-> IF s = t THEN NoReport ELSE [reports[s] EXCEPT !.older = @ \ {t}] ]

WorkerReturns(t) ==
  worker' = [ c \in Cameras |-> IF c # t THEN worker[c]
                                ELSE IF worker[c] = "claimed" THEN "submitting" ELSE "idle" ]

(* on_plate_presence after a fatal error: nothing, not even the revision.    *)
Newest(t) == t \notin overtaken /\ \A s \in InFlight : t \notin reports[s].older

Swallow(t) ==
  /\ fatal # "none" /\ overtaken' = overtaken \ {t}
  /\ unheard' = (unheard \/ Newest(t))
  /\ UNCHANGED << present, sessionVars, ocrVars >>

(* A plate may start a session; SessionLifecycle says when.                  *)
Heed(t) ==
  /\ present' = reports[t].any
  /\ \/ UNCHANGED << sessionVars, ocrVars >>
     \/ reports[t].any /\ SessionStarts
  /\ UNCHANGED unheard

(* mutant: a report that was overtaken is applied. *)
ApplyLate(t) ==
  \/ Swallow(t)
  \/ fatal = "none" /\ overtaken' = (overtaken \ {t}) \cup reports[t].older /\ Heed(t)

(* Otherwise, a report that was overtaken does nothing.                      *)
Apply(t) ==
  \/ Swallow(t)
  \/ /\ fatal = "none" /\ t \in overtaken /\ overtaken' = overtaken \ {t}
     /\ UNCHANGED << present, unheard, sessionVars, ocrVars >>
  \/ /\ fatal = "none" /\ t \notin overtaken /\ overtaken' = overtaken \cup reports[t].older
     /\ Heed(t)

Deliver(t) ==
  /\ reports[t].flying
  /\ reports' = Delivered(t) /\ WorkerReturns(t) /\ Apply(t)
  /\ UNCHANGED << tracks, running >>

(* The scale, or the clock, starts and ends sessions.  None starts after a    *)
(* fatal error; a stall or the shutdown may still end one.                   *)
BetweenReports == UNCHANGED << tracks, worker, reports, overtaken, present, unheard, running >>
ScaleStarts == SessionStarts /\ BetweenReports
SessionIsOver == SessionEnds /\ BetweenReports
SpoolFails == (AdmissionFails \/ EndingFails) /\ BetweenReports

-----------------------------------------------------------------------------
(* _submit_ocr_job: a job takes the place of one that still waits. *)
SubmitOcr(c) ==
  /\ worker[c] = "submitting"
  /\ worker' = [worker EXCEPT ![c] = "idle"]
  /\ queued' = [queued EXCEPT ![c] = IF c \in Followed THEN "current" ELSE @]
  /\ UNCHANGED << tracks, reports, overtaken, present, unheard, sessionVars >>
  /\ UNCHANGED << feeding, foreign, running >>

(* mutant: the context is not looked at. *)
AnyContext(c) == running

(* The plates of a job count if detection is enabled and its context is the  *)
(* current one; the last look at both is in _process_plate_detections.       *)
MayCount(c) == running /\ queued[c] = "current"

(* _ocr_loop, from taking a job to the last look at its context.             *)
Recognise(c) ==
  /\ queued[c] # "none" /\ feeding[c] = "none"
  /\ queued' = [queued EXCEPT ![c] = "none"]
  /\ feeding' = [feeding EXCEPT ![c] = IF MayCount(c) THEN queued[c] ELSE "none"]
  /\ UNCHANGED << tracks, worker, reports, overtaken, present, unheard, sessionVars >>
  /\ UNCHANGED << foreign, running >>

(* The plates are added to the tracker, after the lock of the look was given *)
(* back.                                                                     *)
Count(c) ==
  /\ feeding[c] # "none"
  /\ feeding' = [feeding EXCEPT ![c] = "none"]
  /\ foreign' = [foreign EXCEPT ![c] = IF feeding[c] = "stale" THEN Least(@ + 1, 2) ELSE @]
  /\ UNCHANGED << tracks, worker, reports, overtaken, present, unheard, sessionVars >>
  /\ UNCHANGED << queued, running >>

-----------------------------------------------------------------------------
Tick ==
  /\ tracks' = [ c \in Cameras |->
       [tracks[c] EXCEPT !.unseen = IF tracks[c].valid THEN Least(@ + 1, StaleTicks) ELSE 0,
                         !.unread = Least(@ + 1, OcrInterval)] ]
  /\ UNCHANGED << worker, reports, overtaken, present, unheard, sessionVars, ocrVars, running >>

(* shutdown_service: set_enabled(False), and stop() at once.  A thread that   *)
(* has begun goes on to its end.                                             *)
Stop ==
  /\ running /\ running' = FALSE
  /\ queued' = [ c \in Cameras |-> "none" ]
  /\ UNCHANGED << tracks, worker, reports, overtaken, present, unheard, sessionVars >>
  /\ UNCHANGED << feeding, foreign >>

Init ==
  /\ tracks = [ c \in Cameras |-> NoTrack ]
  /\ worker = [ c \in Cameras |-> "idle" ]
  /\ reports = [ t \in Threads |-> NoReport ] /\ overtaken = {} /\ present = FALSE
  /\ active = FALSE /\ fatal = "none" /\ unheard = FALSE
  /\ queued = [ c \in Cameras |-> "none" ] /\ feeding = queued
  /\ foreign = [ c \in Cameras |-> 0 ]
  /\ running = TRUE

Next ==
  \/ \E c \in Cameras : \/ \E seen \in {"none", "same", "other"} : Observe(c, seen)
                        \/ SubmitOcr(c) \/ Recognise(c) \/ Count(c)
  \/ \E t \in Threads : Deliver(t)
  \/ Expire \/ ScaleStarts \/ SessionIsOver \/ SpoolFails \/ Tick \/ Stop

Spec == Init /\ [][Next]_vars

(* The threads go on with what they have begun, the loop with expiring, and  *)
(* the clock.  No camera need show anything.                                 *)
FairSpec ==
  /\ Spec
  /\ WF_vars(Tick) /\ WF_vars(Expire)
  /\ \A t \in Threads : WF_vars(Deliver(t))
  /\ \A c \in Cameras : /\ WF_vars(SubmitOcr(c)) /\ WF_vars(Count(c))

-----------------------------------------------------------------------------
TrackStates ==
  [ hits : 0 .. ConfirmHits, valid : BOOLEAN, unseen : 0 .. StaleTicks, unread : 0 .. OcrInterval ]

(* Every variable has its type, and a track is valid exactly with its hits.  *)
TypeOK ==
  /\ tracks \in [Cameras -> TrackStates]
  /\ \A c \in Cameras : tracks[c].valid = (tracks[c].hits = ConfirmHits)
  /\ worker \in [Cameras -> {"idle", "observed", "claimed", "submitting"}]
  /\ reports \in [Threads -> [any : BOOLEAN, older : SUBSET Threads, flying : BOOLEAN]]
  /\ overtaken \subseteq InFlight
  /\ {present, active, unheard} \subseteq BOOLEAN /\ fatal \in {"none", "admission", "ending"}
  /\ queued \in [Cameras -> Jobs] /\ feeding \in [Cameras -> Jobs]
  /\ foreign \in [Cameras -> 0 .. 2] /\ running \in BOOLEAN

(* When no report is on its way the session manager knows whether a plate is *)
(* tracked, in whatever order the threads of the cameras and the loop came   *)
(* (the revisions of _run_detection and _expire_stale_tracks); unless the    *)
(* newest came after a fatal error and none was sent since.                  *)
PresenceIsCurrent == InFlight = {} => unheard \/ present = AnyValid(tracks)

(* After a change of session each camera counts at most one job that was     *)
(* queued before it: the one whose thread had looked at the context already  *)
(* (_process_plate_detections).                                              *)
StaleIsInFlight == \A c \in Cameras : foreign[c] + (IF feeding[c] = "stale" THEN 1 ELSE 0) <= 1

(* When no camera shows a plate any more the session manager learns of it,   *)
(* whether frames go on without one or stop (observe and expire), or it has  *)
(* a fatal error, which ends the service.                                    *)
Sighting == \E c \in Cameras : Observe(c, "same") \/ Observe(c, "other")
PlateLossIsReported ==
  []<><<Sighting>>_vars \/ <>~running \/ <>(fatal # "none") \/ <>[](~present)

(* The comment in _process_plate_detections: plates of a job that was queued *)
(* before the session began are not attributed to it.                        *)
NoForeignPlates == active => \A c \in Cameras : foreign[c] = 0
=============================================================================
