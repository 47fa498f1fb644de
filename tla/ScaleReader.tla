----------------------------- MODULE ScaleReader -----------------------------
(***************************************************************************)
(* d2008_scale_reader.py: the thread that reads the serial port, finds the *)
(* frames in its bytes, judges their stability, hands them on, and         *)
(* reconnects after an outage; and stop(), which the main thread calls.    *)
(*                                                                         *)
(*   D2008Parser._buffer                       buffer                      *)
(*   _recent_weights, _same_weight(_count)     feed                        *)
(*   _open_failures, state, _running           failures, state, running    *)
(*   _outage_started_monotonic                 outage                      *)
(*   now - _last_valid_monotonic               overdue                     *)
(*   the position of _run in its loop          thread                      *)
(*                                                                         *)
(* A frame is cut down to four bytes, << STX, digit, check, ETX >>: the    *)
(* digit stands for the sign, the digits and the point, and its checksum   *)
(* is the digit itself.  Left out: how long a reconnect waits, callbacks   *)
(* for display, replay of a dump file, the change of the day's database.   *)
(* Handing frames on changes nothing here, whatever the callbacks do.      *)
(***************************************************************************)
EXTENDS ScaleStability

CONSTANTS
  MaxOpenAttempts,  \* max_open_attempts
  MaxFaults         \* noise, outages and errors (a bound, for TLC)

ASSUME ReaderAssumption ==
  MaxOpenAttempts \in Nat \ {0} /\ MaxFaults \in Nat

VARIABLES
  sent,      \* the frame that is partly read
  offset,    \* how much of it was read
  buffer,
  thread,    \* "opening", "reading", "waiting" or "ended"
  port,      \* can the port be opened
  running, failures, overdue, outage, state,
  stopped,   \* stop() was called
  told,      \* history: the last health event
  torn,      \* history: a part of that frame was read before the port was reopened
  trail,     \* history: what was read of late, and where it was interrupted
  missed,    \* history: a frame that was read whole was not handed on
  faults

lineVars == << sent, offset, torn >>
parsed == << buffer, feed, trail, missed >>
health == << overdue, outage, told >>
readerVars == << lineVars, parsed, thread, port, running, failures, health, state, stopped, faults >>

STX == -11
ETX == -12
Junk == -13
FrameSize == 4
Kinds == Weights \cup {Overload, Corrupt}
Digits == Weights \cup {Overload}
Bytes(f) == IF f = Corrupt THEN << STX, Overload, Junk, ETX >> ELSE << STX, f, f, ETX >>
Noise == {STX, ETX}
Interruption == -20

Fault == faults < MaxFaults /\ faults' = faults + 1

(* Definitions marked "mutant" are wrong on purpose; no action uses them.   *)

-----------------------------------------------------------------------------
(* _parse_frame: bytes that are no number, or have another sign, are nothing. *)
Decoded(raw) ==
  IF raw[2] \notin Digits THEN << >>
  ELSE << IF raw[3] = raw[2] THEN raw[2] ELSE Corrupt >>

(* The frames of the bytes b[i], b[i + 1] ..., and what is kept of them.     *)
Kept(b, i) == [frames |-> << >>, buffer |-> SubSeq(b, i, Len(b))]
Starts(b, i) == { j \in i .. Len(b) : b[j] = STX }

(* mutant: a frame that does not end in ETX is dropped whole.                *)
ParseDropping(b) ==
  LET from[i \in 1 .. Len(b) + 1] ==
        IF Len(b) - i + 1 < FrameSize THEN Kept(b, i)
        ELSE IF Starts(b, i) = {} THEN Kept(b, Len(b) + 1)
        ELSE IF b[i] # STX THEN from[Least(Starts(b, i))]
        ELSE IF b[i + FrameSize - 1] # ETX THEN from[i + FrameSize]
        ELSE [from[i + FrameSize] EXCEPT !.frames = Decoded(SubSeq(b, i, Len(b))) \o @]
  IN  from[1]

(* D2008Parser.feed: what stands before STX is dropped, then a frame that    *)
(* ends in ETX is taken, and of another only its STX is dropped.             *)
Parse(b) ==
  LET from[i \in 1 .. Len(b) + 1] ==
        IF Len(b) - i + 1 < FrameSize THEN Kept(b, i)
        ELSE IF Starts(b, i) = {} THEN Kept(b, Len(b) + 1)
        ELSE IF b[i] # STX THEN from[Least(Starts(b, i))]
        ELSE IF b[i + FrameSize - 1] # ETX THEN from[i + 1]
        ELSE [from[i + FrameSize] EXCEPT !.frames = Decoded(SubSeq(b, i, Len(b))) \o @]
  IN  from[1]

(* _handle_frame: a wrong checksum and an overload interrupt the history.    *)
Handle(s, f) ==
  IF f \in Weights
    THEN [feed |-> Weighed(s.feed, f), trail |-> Window(s.trail, f, StableCount)]
    ELSE [feed |-> NoFeed, trail |-> Window(s.trail, Interruption, StableCount)]

(* The frames that a read found, one after the other.                        *)
Handled(s, found) ==
  LET after[n \in 0 .. Len(found)] ==
        IF n = 0 THEN s ELSE Handle(after[n - 1], found[n])
  IN  after[Len(found)]

Valid(frames) == \E i \in DOMAIN frames : frames[i] # Corrupt

-----------------------------------------------------------------------------
(* Where the thread goes when it leaves the port, or its loop.               *)
Leave(found) ==
  IF running THEN thread' = "waiting" /\ state' = "reconnecting" /\ UNCHANGED running
  ELSE thread' = "ended" /\ state' = found /\ UNCHANGED running

(* _mark_stalled: an outage is told once.                                    *)
MarkStalled == outage' = TRUE /\ told' = IF outage THEN told ELSE "stalled"

(* mutant: the thread ends, and nothing is told.                             *)
FailQuietly ==
  /\ thread' = "ended" /\ state' = "stopped" /\ running' = FALSE
  /\ UNCHANGED << told, outage >>

Fail ==
  /\ thread' = "ended" /\ state' = "failed" /\ running' = FALSE
  /\ told' = "failed" /\ UNCHANGED outage

(* mutant: the samples from before the gap are kept.                         *)
OpenAndContinue ==
  /\ thread = "opening" /\ port
  /\ failures' = 0 /\ buffer' = << >> /\ overdue' = FALSE
  /\ trail' = Window(trail, Interruption, StableCount) /\ torn' = (offset > 0)
  /\ IF running THEN thread' = "reading" /\ state' = "running" /\ UNCHANGED running
     ELSE Leave("stopped")
  /\ UNCHANGED << sent, offset, feed, missed, port, outage, told, stopped, faults >>

Open ==
  /\ thread = "opening" /\ port
  /\ failures' = 0 /\ feed' = NoFeed /\ buffer' = << >> /\ overdue' = FALSE
  /\ trail' = Window(trail, Interruption, StableCount) /\ torn' = (offset > 0)
  /\ IF running THEN thread' = "reading" /\ state' = "running" /\ UNCHANGED running
     ELSE Leave("stopped")
  /\ UNCHANGED << sent, offset, missed, port, outage, told, stopped, faults >>

(* The port cannot be opened; after a few attempts the reader gives up.      *)
OpenFails ==
  /\ thread = "opening" /\ ~port
  /\ failures' = failures + 1
  /\ IF failures' >= MaxOpenAttempts THEN Fail ELSE MarkStalled /\ Leave("stopped")
  /\ UNCHANGED << lineVars, parsed, port, overdue, stopped, faults >>

(* The wait ends, or a stop ends it: the loop goes on, or is over.           *)
Retry ==
  /\ thread = "waiting"
  /\ IF running THEN thread' = "opening" /\ UNCHANGED state
     ELSE thread' = "ended" /\ state' = "stopped"
  /\ UNCHANGED << lineVars, parsed, port, running, failures, health, stopped, faults >>

-----------------------------------------------------------------------------
GoOn == IF running THEN UNCHANGED << thread, state >>
        ELSE thread' = "ended" /\ state' = "stopped"

(* mutant: a late frame does not end the outage.                             *)
ReceiveLate(frames) ==
  /\ UNCHANGED running
  /\ \/ /\ Valid(frames)
        /\ overdue' = FALSE /\ GoOn /\ UNCHANGED << outage, told >>
     \/ /\ ~Valid(frames) /\ overdue
        /\ MarkStalled /\ Leave("stopped") /\ UNCHANGED overdue
     \/ /\ ~Valid(frames) /\ ~overdue
        /\ GoOn /\ UNCHANGED health

(* After the frames of a read: a valid one ends an outage, and without one   *)
(* for too long the port is left.                                            *)
Receive(frames) ==
  \/ /\ Valid(frames)
     /\ overdue' = FALSE /\ outage' = FALSE
     /\ told' = (IF outage THEN "recovered" ELSE told)
     /\ GoOn /\ UNCHANGED running
  \/ /\ ~Valid(frames) /\ overdue
     /\ MarkStalled /\ Leave("stopped") /\ UNCHANGED overdue
  \/ /\ ~Valid(frames) /\ ~overdue
     /\ GoOn /\ UNCHANGED << health, running >>

(* What a read found is handled, frame after frame.  A frame that is due was *)
(* read whole, and is to be the last one of them.                            *)
Feed(bytes, due) ==
  \E found \in {Parse(buffer \o bytes)} :
  \E after \in {Handled([feed |-> feed, trail |-> trail], found.frames)} :
    /\ buffer' = found.buffer
    /\ feed' = after.feed /\ trail' = after.trail
    /\ missed' = (missed \/ \E f \in due : found.frames = << >> \/ Last(found.frames) # f)
    /\ Receive(found.frames)

(* A read takes bytes of the frame that is being sent, here up to its end:  *)
(* nothing is decided between two frames of one read.                        *)
Read(n, f) ==
  /\ thread = "reading" /\ port
  /\ sent = Unset \/ f = sent
  /\ offset + n \in 1 .. FrameSize
  /\ IF offset + n = FrameSize
       THEN sent' = Unset /\ offset' = 0 /\ torn' = FALSE
       ELSE sent' = f /\ offset' = offset + n /\ UNCHANGED torn
  /\ Feed(SubSeq(Bytes(f), offset + 1, offset + n),
          IF offset + n = FrameSize /\ ~torn THEN {f} ELSE {})
  /\ IF sent = Unset /\ f = Corrupt THEN Fault ELSE UNCHANGED faults
  /\ UNCHANGED << port, failures, stopped >>

(* Between two frames there may be bytes of none.                            *)
ReadNoise(byte) ==
  /\ thread = "reading" /\ port /\ offset = 0 /\ Fault
  /\ Feed(<< byte >>, {})
  /\ UNCHANGED << lineVars, port, failures, stopped >>

(* The read times out.                                                       *)
ReadNothing ==
  /\ thread = "reading" /\ port
  /\ Receive(<< >>)
  /\ UNCHANGED << lineVars, parsed, port, failures, stopped, faults >>

(* The port is gone, or stop() closed it: reading raises.                    *)
ReadFails ==
  /\ thread = "reading" /\ (~port \/ ~running)
  /\ failures' = 0 /\ MarkStalled /\ Leave("stopped")
  /\ UNCHANGED << lineVars, parsed, port, overdue, stopped, faults >>

(* Any other exception ends the thread.                                      *)
ReadBreaks ==
  /\ thread = "reading" /\ Fault /\ Fail
  /\ UNCHANGED << lineVars, parsed, port, failures, overdue, stopped >>

-----------------------------------------------------------------------------
(* The scale, the cable and the clock.                                       *)
(* The rest of a frame is lost.                                              *)
Truncate ==
  /\ offset > 0 /\ Fault
  /\ sent' = Unset /\ offset' = 0 /\ torn' = FALSE
  /\ UNCHANGED << parsed, thread, port, running, failures, health, state, stopped >>

Unplug ==
  /\ port /\ Fault /\ port' = FALSE
  /\ UNCHANGED << lineVars, parsed, thread, running, failures, health, state, stopped >>

Plug ==
  /\ ~port /\ port' = TRUE
  /\ UNCHANGED << lineVars, parsed, thread, running, failures, health, state, stopped, faults >>

(* No valid frame for SCALE_READER_STALL_SECONDS.                            *)
Silence ==
  /\ thread = "reading" /\ ~overdue /\ Fault /\ overdue' = TRUE
  /\ UNCHANGED << lineVars, parsed, thread, port, running, failures, outage, told, state,
                  stopped >>

-----------------------------------------------------------------------------
(* stop() makes the loop end; it closes the port, so that a read raises.     *)
Stop ==
  /\ ~stopped /\ stopped' = TRUE /\ running' = FALSE
  /\ UNCHANGED << lineVars, parsed, thread, port, failures, health, state, faults >>

-----------------------------------------------------------------------------
ReaderInit ==
  /\ sent = Unset /\ offset = 0 /\ torn = FALSE
  /\ buffer = << >> /\ feed = NoFeed /\ trail = << >> /\ missed = FALSE
  /\ thread = "opening" /\ port = TRUE /\ running = TRUE /\ failures = 0
  /\ overdue = FALSE /\ outage = FALSE /\ state = "starting"
  /\ stopped = FALSE
  /\ told = "nothing" /\ faults = 0

Reader ==
  \/ Open \/ OpenFails \/ Retry
  \/ \E n \in 1 .. FrameSize, f \in Kinds : Read(n, f)
  \/ ReadNothing \/ ReadFails

ReaderNext ==
  \/ Reader \/ ReadBreaks
  \/ \E byte \in Noise : ReadNoise(byte)
  \/ Truncate \/ Unplug \/ Plug \/ Silence
  \/ Stop

ReaderSpec == ReaderInit /\ [][ReaderNext]_readerVars

(* The thread runs, and a scale that is connected goes on sending.           *)
FairSpec ==
  /\ ReaderSpec /\ WF_readerVars(Open \/ OpenFails \/ Retry \/ ReadFails)
  /\ WF_readerVars(\E f \in (IF sent = Unset THEN Weights ELSE {sent}) : Read(FrameSize - offset, f))

-----------------------------------------------------------------------------
TypeOK ==
  /\ sent \in Kinds \cup {Unset}
  /\ offset \in 0 .. FrameSize - 1 /\ (offset > 0 <=> sent # Unset)
  /\ Len(buffer) < FrameSize
  /\ thread \in {"opening", "reading", "waiting", "ended"}
  /\ failures \in 0 .. MaxOpenAttempts
  /\ told \in {"nothing", "stalled", "recovered", "failed"}
  /\ Len(feed.recent) <= StableCount /\ feed.count <= ExactCount

(* A frame that the current connection read whole is handed on with the     *)
(* bytes that end it, whatever came before it on the line: remains of torn   *)
(* frames, noise, and frames cut by the edges of reads (feed).               *)
WholeFramesAreHandedOn == ~missed

(* A reading is called stable only if the scale showed it just now: the last *)
(* few readings are equal, or the last window of them is close together and  *)
(* has the stable weight, with no gap, overload or wrong checksum between.   *)
StableWasShown ==
  LET reading == StatusOf(feed)
      n == Len(trail)
  IN  trail # << >> /\ Last(trail) # Interruption /\ reading.status = "stable" =>
        \/ n >= ExactCount /\ \A i \in n - ExactCount + 1 .. n : trail[i] = reading.stable
        \/ /\ n = StableCount /\ Interruption \notin Range(trail)
           /\ Spread(trail) <= Tolerance /\ reading.stable \in Range(trail)

(* The reader never ends silently: a thread that ended was stopped, or its   *)
(* state, which the main loop looks at, and the last event are a failure.    *)
NoSilentEnd ==
  thread = "ended" /\ ~stopped => state = "failed" /\ told = "failed"

(* An outage ends: the scale is heard again, or the reader fails or stops.   *)
OutagesEnd == outage ~> (~outage \/ thread = "ended")
=============================================================================
