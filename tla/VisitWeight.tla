----------------------------- MODULE VisitWeight -----------------------------
(***************************************************************************)
(* services/session/weight_state.py and the peaks of session_manager.py:   *)
(* the weight a visit is given.                                            *)
(*                                                                         *)
(*   stable_weight, stable_weight_history     stable, history              *)
(*   _episode_counts, plateau_retained_weight episode, retained            *)
(*   SustainedPlateauTracker                  window, run, best            *)
(*   _session_weight_window, _session_raw_peak, _session_filtered_peak     *)
(*                                            recent, raw, filtered        *)
(*                                                                         *)
(* The counters of the code are kept with the queues they count; here they *)
(* are computed from them.  Times of observation and the place of the      *)
(* decimal point go with the weights and are left out.                     *)
(***************************************************************************)
EXTENDS ScaleStability

CONSTANTS
  Threshold,      \* WEIGHT_THRESHOLD
  Band,           \* PLATEAU_BAND_KG
  HistoryWindow,  \* SESSION_STABLE_WEIGHT_WINDOW
  FilterFrames,   \* SUSTAINED_PLATEAU_FILTER_FRAMES, PEAK_FILTER_FRAMES
  MinReadings     \* SUSTAINED_PLATEAU_MIN_READINGS

ASSUME VisitAssumption ==
  /\ {Threshold, Band} \subseteq Nat
  /\ {HistoryWindow, FilterFrames, MinReadings} \subseteq Nat \ {0}
  /\ FilterFrames % 2 = 1

NoVisit == [ stable |-> Unset, history |-> << >>, episode |-> << >>, retained |-> Unset,
             window |-> << >>, run |-> << >>, best |-> Unset,
             recent |-> << >>, raw |-> Unset, filtered |-> Unset ]

Loaded(w) == w > Threshold
Larger(a, b) == IF a > b THEN a ELSE b
Apart(a, b) == Larger(a - b, b - a) > Band

(* statistics.median, and the middle of the sorted deque: of an odd number   *)
(* of readings they are the same, the least that is not below most of them.  *)
Median(s) ==
  Least({ x \in ToSet(s) : Cardinality({ i \in DOMAIN s : s[i] <= x }) > Len(s) \div 2 })

(* Definitions marked "mutant" are wrong on purpose; nothing uses them.     *)

-----------------------------------------------------------------------------
(* An episode is a row of stable readings within the band.  When it ends,   *)
(* two readings make it a plateau, which is kept unless a plateau as high    *)
(* was kept before (_finalize_plateau_episode).                              *)
Outweighs(v) ==
  /\ Len(v.episode) >= 2
  /\ v.retained # Unset => ModeNewest(v.episode) > v.retained + Band

CloseEpisode(v) ==
  [v EXCEPT !.episode = << >>, !.retained = IF Outweighs(v) THEN ModeNewest(v.episode) ELSE @]

(* mutant: the newest of the frequent readings, whatever was kept.           *)
PublishMostFrequent(v) == [v EXCEPT !.stable = ModeNewest(v.history)]

(* _publish_selection: a plateau that is kept gives way only to one above    *)
(* it; otherwise the most frequent reading of the window counts, when it is  *)
(* near the plateau.                                                         *)
Publish(v) ==
  LET frequent == ModeNewest(v.history)
  IN  IF v.retained = Unset THEN [v EXCEPT !.stable = frequent]
      ELSE IF Outweighs(v)
        THEN [v EXCEPT !.retained = ModeNewest(v.episode), !.stable = ModeNewest(v.episode)]
      ELSE [v EXCEPT !.stable = IF Apart(frequent, v.retained) THEN v.retained ELSE frequent]

(* record_stable_weight, in a session; empty readings are no candidates.     *)
Record(v, w) ==
  LET u == IF v.episode # << >> /\ Spread(Append(v.episode, w)) > Band
             THEN CloseEpisode(v) ELSE v
  IN  IF ~Loaded(w) THEN v
      ELSE Publish([u EXCEPT !.history = Window(@, w, HistoryWindow),
                             !.episode = Append(@, w)])

-----------------------------------------------------------------------------
(* SustainedPlateauTracker.observe: a row of medians within the band.  That  *)
(* the row is long enough in time is given.                                  *)
Sustained(v, w, long) ==
  LET window == Window(v.window, w, FilterFrames)
      median == Median(window)
      run == IF v.run # << >> /\ Spread(Append(v.run, median)) > Band THEN << median >>
             ELSE Append(v.run, median)
      best == IF long /\ Len(run) >= MinReadings THEN Larger(v.best, ModeNewest(run)) ELSE v.best
  IN  IF ~Loaded(w) THEN [v EXCEPT !.window = << >>, !.run = << >>]
      ELSE IF Len(window) < FilterFrames THEN [v EXCEPT !.window = window]
      ELSE [v EXCEPT !.window = window, !.run = run, !.best = best]

(* The peaks of _on_frame_locked.                                            *)
Peaks(v, recent) ==
  [v EXCEPT !.recent = recent, !.raw = Larger(@, Greatest(ToSet(recent))),
            !.filtered = IF Len(recent) = FilterFrames THEN Larger(@, Median(recent)) ELSE @]

(* Every frame of a session above zero.                                      *)
Observe(v, w, long) ==
  IF w <= 0 THEN v ELSE Peaks(Sustained(v, w, long), Window(v.recent, w, FilterFrames))

-----------------------------------------------------------------------------
(* mutant: what was stable before the session stays.                         *)
StartOnRiseInheriting(v, rise) ==
  Peaks([NoVisit EXCEPT !.stable = v.stable],
        SubSeq(rise, Larger(1, Len(rise) - FilterFrames + 1), Len(rise)))

(* _start_session on a rise: the peaks begin with the readings of the rise.  *)
StartOnRise(v, rise) ==
  Peaks(NoVisit, SubSeq(rise, Larger(1, Len(rise) - FilterFrames + 1), Len(rise)))

(* _snapshot_session: the weight of the session, and where it comes from.    *)
Assigned(v) ==
  IF Loaded(v.stable) THEN [weight |-> v.stable, source |-> "stable"]
  ELSE IF v.best # Unset THEN [weight |-> v.best, source |-> "sustained_plateau"]
  ELSE IF v.filtered # Unset THEN [weight |-> v.filtered, source |-> "filtered_peak"]
  ELSE [weight |-> v.raw, source |-> IF v.raw > 0 THEN "raw_peak" ELSE "none"]
=============================================================================
