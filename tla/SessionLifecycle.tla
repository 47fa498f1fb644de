--------------------------- MODULE SessionLifecycle ---------------------------
(***************************************************************************)
(* services/session/session_manager.py: when a weighing session starts,    *)
(* changes owner and ends.  Its inputs are scale frames (on_frame), plate  *)
(* tracks (on_plate_presence), the health of the scale reader              *)
(* (on_scale_reader_health), the clock, and stops of the service; each is  *)
(* handled whole, under _lifecycle_lock.                                   *)
(*                                                                         *)
(*   session_active, scale_owned, _plate_owned     owner                   *)
(*   _scale_recovery_blocked, _waiting_for_empty   blocked                 *)
(*   _awaiting_renewed_rise                        awaiting                *)
(*   spool_active                                  spool                   *)
(*   fatal_error                                   fatal                   *)
(*   _pending_terminal_snapshot                    snapshot                *)
(*   times since something began                   ages                    *)
(*                                                                         *)
(* Left out: the weight a session is given, peak candidates (they change   *)
(* nothing of a session), snapshots of cameras.  That six loaded frames    *)
(* confirm a rise, and that no earlier unstable attempt holds it back, is  *)
(* a choice.  Two branches are left out because promotion comes first: a   *)
(* plate session that goes on without its plate, and its end on a falling  *)
(* trend.                                                                  *)
(***************************************************************************)
EXTENDS WeightMotion

CONSTANTS
  Threshold,      \* WEIGHT_THRESHOLD
  EmptyDwell,     \* SESSION_END_EMPTY_DWELL_SECONDS, in ticks
  AbsentDwell,    \* the second without a plate track that ends a session
  PlateTimeout    \* SESSION_PLATE_ONLY_TIMEOUT_SECONDS

ASSUME LifecycleAssumption ==
  {Threshold, EmptyDwell, AbsentDwell, PlateTimeout} \subseteq Nat

VARIABLES
  owner,         \* "none", or who owns the session: "plate", "scale"
  motion,        \* the detector
  rawPeak,       \* _session_raw_peak
  ages,          \* of the session, the plate's absence and the empty waits
  blocked, awaiting, rearmBlocked,
  spool, fatal, snapshot,
  last,          \* history: the last frame's weight
  laden,         \* history: the session has had a loaded frame
  ownRun,        \* history: the pending drop began in this session
  ended,         \* history: how the last session ended, until the next starts
  cycle          \* history: what happened since the scale was last quiet

sessionVars == << owner, spool, rawPeak, fatal, snapshot, ended, laden, ownRun >>
vars == << sessionVars, motion, ages, blocked, awaiting, rearmBlocked, last, cycle >>

Loaded(w) == w > Threshold
Active == owner # "none"

(* How long each wait is; a wait that has not begun has no age.  The last   *)
(* one is a history: how long the scale has been empty.                     *)
Limits == [ session |-> PlateTimeout, absent |-> AbsentDwell, empty |-> EmptyDwell,
            wait |-> EmptyDwell, reentry |-> EmptyDwell, quiet |-> EmptyDwell ]
NoAges == [ k \in DOMAIN Limits |-> Unset ]
Over(k) == ages[k] = Limits[k]

(* A wait for an empty scale: a loaded frame ends it, an empty one begins it. *)
WaitFor(a, k, w) ==
  [a EXCEPT ![k] = IF Loaded(w) THEN Unset ELSE IF @ = Unset THEN 0 ELSE @]
Quiet(a, w) == WaitFor(a, "quiet", w)
WithoutSession(a) == [a EXCEPT !.session = Unset, !.absent = Unset, !.empty = Unset]

(* A cycle of the scale: nothing was weighed, a session was loaded, or it   *)
(* departed, and then how low the scale was and whether it climbed again.   *)
OpenCycle == [phase |-> "open", low |-> 0, climbed |-> FALSE]
LoadedCycle == [phase |-> "loaded", low |-> 0, climbed |-> FALSE]
DepartedCycle(w) == [phase |-> "departed", low |-> w, climbed |-> FALSE]

CycleSeen(w) ==
  IF ~Loaded(w) /\ Over("quiet") THEN OpenCycle
  ELSE IF cycle.phase # "departed" THEN cycle
  ELSE [cycle EXCEPT !.low = Least(@, w), !.climbed = @ \/ w >= cycle.low + RiseMin]

-----------------------------------------------------------------------------
(* Definitions marked "mutant" are wrong on purpose. No action uses them:   *)
(* they stand for bugs the properties are there to notice.                  *)

(* _end_session(reason).  A session the spool did not take stays active,    *)
(* keeps its first reason, and is the reason the service stops.             *)
EndReason(reason) == IF snapshot = Unset THEN reason ELSE snapshot

Ended(reason, load) ==
  /\ owner' = "none" /\ spool' = FALSE /\ snapshot' = Unset /\ rawPeak' = Unset
  /\ fatal' = IF fatal = "finalization" THEN "no" ELSE fatal
  /\ ended' = [reason |-> EndReason(reason), laden |-> load, own |-> ownRun]
  /\ laden' = FALSE /\ ownRun' = FALSE

EndFails(reason) ==
  /\ fatal' = "finalization" /\ snapshot' = EndReason(reason)
  /\ UNCHANGED << rawPeak, ended, ownRun >>

EndFailsAsIs(reason) ==
  /\ spool /\ EndFails(reason) /\ UNCHANGED << owner, spool, laden >>

(* _start_session, for a plate and for the scale. *)
StartedByPlate ==
  /\ owner' = "plate" /\ ended' = Unset
  /\ UNCHANGED << spool, rawPeak, fatal, snapshot, laden, ownRun >>

StartedByScale(peak) ==
  /\ owner' = "scale" /\ spool' = TRUE /\ rawPeak' = peak /\ laden' = TRUE
  /\ ended' = Unset
  /\ UNCHANGED << fatal, snapshot, ownRun >>

(* mutant: the session goes on without a spool. *)
AdmissionIsIgnored ==
  owner' = "scale" /\ UNCHANGED << fatal, spool, rawPeak, snapshot, ended, laden, ownRun >>

(* _start_session_spool fails, and has aborted what it began. *)
AdmissionFails ==
  fatal' = "admission" /\ UNCHANGED << owner, spool, rawPeak, snapshot, ended, laden, ownRun >>

-----------------------------------------------------------------------------
(* Frames.  What every frame does to the histories: *)
Seen(w) == last' = w /\ cycle' = CycleSeen(w)

(* After a fatal error frames are not looked at. *)
IgnoredFrame(w) ==
  /\ fatal # "no"
  /\ Seen(w) /\ ages' = Quiet(ages, w)
  /\ UNCHANGED << sessionVars, motion, blocked, awaiting, rearmBlocked >>

(* mutant: a vehicle on the scale does not start the wait again. *)
BlockedFrameGoesOn(w) ==
  /\ fatal = "no" /\ blocked /\ (Loaded(w) \/ ~Over("wait"))
  /\ Seen(w) /\ ages' = [Quiet(ages, w) EXCEPT !.wait = IF @ = Unset THEN 0 ELSE @]
  /\ UNCHANGED << sessionVars, motion, blocked, awaiting, rearmBlocked >>

(* After a stall of the reader the scale must be empty for a while. *)
BlockedFrame(w) ==
  /\ fatal = "no" /\ blocked /\ (Loaded(w) \/ ~Over("wait"))
  /\ Seen(w) /\ ages' = WaitFor(Quiet(ages, w), "wait", w)
  /\ UNCHANGED << sessionVars, motion, blocked, awaiting, rearmBlocked >>

(* _feed_reentry_locked of an empty frame: a dwell of them ends the wait.   *)
ReentryEmpty(w, a) ==
  IF Over("reentry")
    THEN /\ awaiting' = FALSE /\ motion' = Clean
         /\ ages' = [Quiet(a, w) EXCEPT !.reentry = Unset]
    ELSE /\ ages' = WaitFor(Quiet(a, w), "reentry", w)
         /\ UNCHANGED << awaiting, motion >>

(* The dwell after a stall is over; the frame goes on to a wait for a rise. *)
UnblockingFrame(w) ==
  /\ fatal = "no" /\ blocked /\ ~Loaded(w) /\ Over("wait")
  /\ blocked' = FALSE
  /\ LET a == [ages EXCEPT !.wait = Unset]
     IN  IF awaiting THEN ReentryEmpty(w, a)
         ELSE ages' = Quiet(a, w) /\ UNCHANGED << awaiting, motion >>
  /\ Seen(w)
  /\ UNCHANGED << sessionVars, rearmBlocked >>

WaitingFrame(w) ==
  /\ fatal = "no" /\ ~blocked /\ awaiting /\ ~Loaded(w)
  /\ ReentryEmpty(w, ages)
  /\ Seen(w)
  /\ UNCHANGED << sessionVars, blocked, rearmBlocked >>

(* A loaded frame while waiting: a confirmed rise starts the next session.  *)
ReentryFrame(w) ==
  /\ fatal = "no" /\ ~blocked /\ awaiting /\ Loaded(w)
  /\ LET m == ObserveReentry(motion, w)
         a == [Quiet(ages, w) EXCEPT !.reentry = Unset]
     IN  \/ /\ ~m.risen
            /\ motion' = m /\ ages' = a /\ Seen(w)
            /\ UNCHANGED << sessionVars, awaiting >>
         \/ /\ m.risen
            /\ \E peak \in Weights : peak >= w /\ StartedByScale(peak)
            /\ motion' = Clean /\ awaiting' = FALSE
            /\ ages' = [a EXCEPT !.session = 0]
            /\ last' = w /\ cycle' = LoadedCycle
         \/ /\ m.risen /\ AdmissionFails
            /\ motion' = m /\ ages' = a /\ Seen(w)
            /\ UNCHANGED awaiting
  /\ UNCHANGED << blocked, rearmBlocked >>

-----------------------------------------------------------------------------
(* Frames in the ordinary state. *)
Ordinary == fatal = "no" /\ ~blocked /\ ~awaiting

IdleFrame(w) ==
  /\ Ordinary /\ ~Active
  /\ Seen(w) /\ ages' = Quiet(ages, w)
  /\ UNCHANGED << sessionVars, motion, blocked, awaiting, rearmBlocked >>

(* _check_weight_trend confirms a rise, and _can_start_session agrees.      *)
RisingFrame(w) ==
  /\ Ordinary /\ ~Active /\ Loaded(w)
  /\ \/ /\ \E peak \in Weights : peak >= w /\ StartedByScale(peak)
        /\ ages' = [Quiet(ages, w) EXCEPT !.session = 0]
        /\ last' = w /\ cycle' = LoadedCycle
     \/ AdmissionFails /\ ages' = Quiet(ages, w) /\ Seen(w)
  /\ UNCHANGED << motion, blocked, awaiting, rearmBlocked >>

(* mutant: the loss of the plate is looked at before the weight. *)
PlateLostFirst(w) ==
  /\ Ordinary /\ owner = "plate" /\ Over("absent")
  /\ Ended("both_plate_tracks_lost", laden \/ Loaded(w))
  /\ ages' = Quiet(WithoutSession(ages), w)
  /\ Seen(w)
  /\ UNCHANGED << motion, blocked, awaiting, rearmBlocked >>

(* A plate session ends when its plate is gone for a second, or when there   *)
(* was no weight for long; a loaded frame is not one of these.               *)
(* _complete_plate_loss of a session without a load: with one it would be    *)
(* the scale's, as promotion comes first, and go on.                         *)
CompletePlateLoss == Ended("both_plate_tracks_lost", laden)

PlateLostFrame(w) ==
  /\ Ordinary /\ owner = "plate" /\ ~Loaded(w) /\ Over("absent")
  /\ CompletePlateLoss
  /\ ages' = Quiet(WithoutSession(ages), w)
  /\ Seen(w)
  /\ UNCHANGED << motion, blocked, awaiting, rearmBlocked >>

TimeoutFrame(w) ==
  /\ Ordinary /\ owner = "plate" /\ ~Loaded(w) /\ ~Over("absent") /\ Over("session")
  /\ Ended("plate_without_weight_timeout", laden)
  /\ rearmBlocked' = TRUE
  /\ ages' = Quiet(WithoutSession(ages), w)
  /\ Seen(w)
  /\ UNCHANGED << motion, blocked, awaiting >>

(* _motion_reference: the visit's plateau, or a peak; none without a peak.   *)
References == IF rawPeak = Unset THEN {Unset} ELSE { r \in Weights : 0 < r /\ r <= rawPeak }

(* The detector sees the frames above zero. *)
Watched(w) == IF w = 0 THEN {motion} ELSE { ObserveLoaded(motion, w, r) : r \in References }

PeakSeen(w) == IF w > 0 /\ (rawPeak = Unset \/ w > rawPeak) THEN w ELSE rawPeak
RunSeen(m) == m.readings > 0 /\ (ownRun \/ motion.readings = 0)

(* A frame of a session that goes on, loaded or not.  Its first loaded frame *)
(* promotes a plate session: its spool opens, and the frame goes on.         *)
Goes(w) == Ordinary /\ Active /\ (Loaded(w) \/ owner = "scale" \/ ~(Over("absent") \/ Over("session")))
Held(w) == IF Loaded(w) THEN "scale" ELSE owner
CycleHeld(w) == IF Loaded(w) THEN LoadedCycle ELSE CycleSeen(w)

PromotionFails(w) ==
  /\ Ordinary /\ owner = "plate" /\ Loaded(w)
  /\ AdmissionFails
  /\ Seen(w) /\ ages' = Quiet(ages, w)
  /\ UNCHANGED << motion, blocked, awaiting, rearmBlocked >>

(* _check_scale_empty: only a dwell of empty frames ends a scale session.    *)
EmptySeen(w) == ~Loaded(w) /\ owner = "scale" /\ Over("empty")
AgesHeld(w) ==
  LET a == IF Loaded(w) THEN [ages EXCEPT !.absent = Unset] ELSE ages
  IN  Quiet(IF owner = "plate" THEN [a EXCEPT !.empty = Unset] ELSE WaitFor(a, "empty", w), w)

SessionFrame(w) ==
  /\ Goes(w) /\ ~EmptySeen(w)
  /\ \E m \in Watched(w) :
       /\ m.departed = motion.departed
       /\ motion' = m /\ ownRun' = RunSeen(m)
  /\ owner' = Held(w) /\ spool' = (Held(w) = "scale")
  /\ rawPeak' = PeakSeen(w) /\ laden' = (laden \/ Loaded(w))
  /\ ages' = AgesHeld(w) /\ last' = w /\ cycle' = CycleHeld(w)
  /\ UNCHANGED << fatal, snapshot, ended, blocked, awaiting, rearmBlocked >>

EmptyFrame(w) ==
  /\ Goes(w) /\ EmptySeen(w)
  /\ \E m \in Watched(w) : m.departed = motion.departed /\ motion' = m
  /\ \/ Ended("scale_empty", laden) /\ ages' = Quiet(WithoutSession(ages), w)
     \/ EndFailsAsIs("scale_empty") /\ ages' = Quiet(ages, w)
  /\ Seen(w)
  /\ UNCHANGED << blocked, awaiting, rearmBlocked >>

(* A confirmed drop ends the session, and a renewed rise is waited for.      *)
DepartureFrame(w) ==
  /\ Goes(w)
  /\ \E m \in Watched(w) :
       /\ m.departed /\ ~motion.departed
       /\ \/ /\ Ended("weight_drop_confirmed", laden \/ Loaded(w))
             /\ motion' = Armed(m.reference) /\ awaiting' = TRUE
             /\ ages' = [Quiet(WithoutSession(ages), w) EXCEPT !.reentry = Unset]
             /\ cycle' = DepartedCycle(w)
          \/ /\ Held(w) = "scale" /\ EndFails("weight_drop_confirmed")
             /\ owner' = "scale" /\ spool' = TRUE /\ laden' = (laden \/ Loaded(w))
             /\ motion' = m /\ ages' = Quiet(ages, w)
             /\ cycle' = CycleHeld(w)
             /\ UNCHANGED awaiting
  /\ last' = w
  /\ UNCHANGED << blocked, rearmBlocked >>

OnFrame(w) ==
  \/ IgnoredFrame(w) \/ BlockedFrame(w) \/ UnblockingFrame(w)
  \/ WaitingFrame(w) \/ ReentryFrame(w) \/ IdleFrame(w) \/ RisingFrame(w)
  \/ PlateLostFrame(w) \/ TimeoutFrame(w) \/ PromotionFails(w)
  \/ SessionFrame(w) \/ EmptyFrame(w) \/ DepartureFrame(w)

-----------------------------------------------------------------------------
(* on_plate_presence: a plate is tracked, or none is.  Presences that come   *)
(* out of order are dropped before this.                                     *)
PlateSeen ==
  /\ fatal = "no" /\ ~blocked /\ ~awaiting
  /\ IF ~Active /\ ~rearmBlocked
       THEN StartedByPlate /\ ages' = [ages EXCEPT !.session = 0, !.absent = Unset]
       ELSE ages' = [ages EXCEPT !.absent = Unset] /\ UNCHANGED sessionVars
  /\ UNCHANGED << motion, blocked, awaiting, rearmBlocked, last, cycle >>

PlateGone ==
  /\ fatal = "no"
  /\ rearmBlocked' = FALSE
  /\ ages' = IF owner = "plate" /\ ages.absent = Unset THEN [ages EXCEPT !.absent = 0] ELSE ages
  /\ UNCHANGED << sessionVars, motion, blocked, awaiting, last, cycle >>

(* mutant: every report of the stall starts the wait again. *)
StallAgain ==
  /\ blocked' = TRUE
  /\ LET a == [ages EXCEPT !.wait = Unset]
     IN  \/ ~Active /\ ages' = a /\ UNCHANGED sessionVars
         \/ Active /\ Ended("scale_reader_stalled", laden) /\ ages' = WithoutSession(a)
         \/ Active /\ EndFailsAsIs("scale_reader_stalled") /\ ages' = a
  /\ UNCHANGED << motion, awaiting, rearmBlocked, last, cycle >>

(* on_scale_reader_health("stalled") *)
Stall ==
  /\ ~blocked /\ blocked' = TRUE
  /\ LET a == [ages EXCEPT !.wait = Unset]
     IN  \/ ~Active /\ ages' = a /\ UNCHANGED sessionVars
         \/ Active /\ Ended("scale_reader_stalled", laden) /\ ages' = WithoutSession(a)
         \/ Active /\ EndFailsAsIs("scale_reader_stalled") /\ ages' = a
  /\ UNCHANGED << motion, awaiting, rearmBlocked, last, cycle >>

Tick ==
  /\ ages' = [ k \in DOMAIN ages |->
                 IF ages[k] = Unset THEN Unset ELSE Least(ages[k] + 1, Limits[k]) ]
  /\ motion' = Aged(motion)
  /\ UNCHANGED << sessionVars, blocked, awaiting, rearmBlocked, last, cycle >>

(* shutdown(): a session that has not ended does.                            *)
Shutdown ==
  /\ Active
  /\ ended' = [reason |-> EndReason("shutdown"), laden |-> laden, own |-> ownRun]

(* The service stops, after a fatal error or when it is asked to, and starts *)
(* again: shutdown() ends the session, or the recovery of the spool will.    *)
Restart ==
  /\ owner' = "none" /\ spool' = FALSE /\ rawPeak' = Unset /\ fatal' = "no"
  /\ snapshot' = Unset /\ laden' = FALSE /\ ownRun' = FALSE
  /\ motion' = Clean /\ ages' = NoAges
  /\ blocked' = FALSE /\ awaiting' = FALSE /\ rearmBlocked' = FALSE
  /\ last' = 0 /\ cycle' = OpenCycle /\ (Shutdown \/ UNCHANGED ended)

Init ==
  /\ owner = "none" /\ spool = FALSE /\ rawPeak = Unset /\ fatal = "no"
  /\ snapshot = Unset /\ laden = FALSE /\ ownRun = FALSE /\ ended = Unset
  /\ motion = Clean /\ ages = NoAges
  /\ blocked = FALSE /\ awaiting = FALSE /\ rearmBlocked = FALSE
  /\ last = 0 /\ cycle = OpenCycle

Next ==
  \/ \E w \in Weights : OnFrame(w)
  \/ PlateSeen \/ PlateGone \/ Stall \/ Tick \/ Restart

Spec == Init /\ [][Next]_vars

(* Frames keep coming, the clock goes on, and the main loop of the service   *)
(* stops it after a fatal error.                                             *)
FairSpec ==
  /\ Spec
  /\ WF_vars(\E w \in Weights : OnFrame(w)) /\ WF_vars(Tick)
  /\ WF_vars(fatal # "no" /\ Restart)

-----------------------------------------------------------------------------
Reasons == {"both_plate_tracks_lost", "plate_without_weight_timeout", "scale_empty",
            "weight_drop_confirmed", "scale_reader_stalled", "shutdown"}
Endings == [ reason : Reasons, laden : BOOLEAN, own : BOOLEAN ]
Cycles == [ phase : {"open", "loaded", "departed"}, low : Weights \cup {0}, climbed : BOOLEAN ]

(* Every variable has its type, no wait outlives its limit, and the detector *)
(* is armed exactly while a rise is waited for (observe_reentry raises       *)
(* otherwise, and the wait would not end).                                   *)
TypeOK ==
  /\ owner \in {"none", "plate", "scale"} /\ fatal \in {"no", "admission", "finalization"}
  /\ motion \in Detectors /\ awaiting = (motion.armed # Unset)
  /\ rawPeak \in Weights \cup {Unset} /\ snapshot \in Reasons \cup {Unset}
  /\ \A k \in DOMAIN Limits : ages[k] \in (0 .. Limits[k]) \cup {Unset}
  /\ { blocked, awaiting, rearmBlocked, spool, laden, ownRun } \subseteq BOOLEAN
  /\ last \in Weights \cup {0} /\ ended \in Endings \cup {Unset} /\ cycle \in Cycles

(* One session for each loaded cycle: the scale owns a session only after it *)
(* was empty for a dwell, or departed and climbed again.                     *)
OneSessionPerCycle ==
  [][owner # "scale" /\ owner' = "scale" => cycle.phase = "open" \/ cycle.climbed]_vars

(* A session that has seen a loaded frame is not ended as one of a plate     *)
(* without weight (promotion comes before the plate's loss in on_frame).     *)
LoadIsNotLost ==
  ended # Unset /\ ended.laden
    => ended.reason \notin {"both_plate_tracks_lost", "plate_without_weight_timeout"}

(* A session of the scale, and no other, has its frames captured, and one of *)
(* a plate has never been loaded, but when its spool could not open.         *)
FramesWhileLoaded == spool = (owner = "scale") /\ (laden => spool)

(* A scale that stays empty comes back to where the next vehicle can start a *)
(* session, whatever was pending and however often the reader stalls.        *)
EmptyScaleSettles ==
  <>[](~Loaded(last)) => []<>(~Active /\ ~blocked /\ ~awaiting)

(* A departure ends the session in which the weight began to drop.           *)
DepartureIsOwn ==
  ended # Unset /\ ended.reason = "weight_drop_confirmed" => ended.own
=============================================================================
