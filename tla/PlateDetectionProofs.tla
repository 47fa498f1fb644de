------------------------- MODULE PlateDetectionProofs -------------------------
(***************************************************************************)
(* The safety properties of PlateDetection, for any set of cameras and any *)
(* length of the waits.                                                    *)
(***************************************************************************)
EXTENDS PlateDetection, TLAPS

(* A camera's report is on its way between its observation and its return.  *)
WorkersReport ==
  \A c \in Cameras : reports[c].flying = (worker[c] \in {"observed", "claimed"})

(* Reports know older ones that are still on their way, and never each other. *)
OlderFirst ==
  \A t \in InFlight : /\ reports[t].older \subseteq InFlight \ {t}
                      /\ \A s \in reports[t].older : t \notin reports[s].older

(* Either the newest report is still on its way, and tells what the tracks   *)
(* are, or it has arrived and all others were overtaken, or it was swallowed. *)
NewestIsCurrent ==
  \/ unheard
  \/ InFlight \subseteq overtaken /\ present = AnyValid(tracks)
  \/ \E t \in InFlight \ overtaken :
       reports[t].older = InFlight \ {t} /\ reports[t].any = AnyValid(tracks)

PresenceInv == TypeOK /\ WorkersReport /\ OlderFirst /\ NewestIsCurrent
IInv == PresenceInv /\ StaleIsInFlight

-----------------------------------------------------------------------------
LEMMA LeastType ==
  ASSUME NEW a \in Nat, NEW b \in Nat
  PROVE  Least(a, b) \in 0 .. b
BY DEF Least

LEMMA WaitsAreNat ==
  /\ ConfirmHits \in Nat \ {0} /\ StaleTicks \in Nat \ {0} /\ OcrInterval \in Nat \ {0}
  /\ Loop \notin Cameras
BY DetectionAssumption

(* What is done to a track leaves it well-formed.                            *)
WellFormed(t) == t \in TrackStates /\ t.valid = (t.hits = ConfirmHits)

LEMMA NoTrackFits == WellFormed(NoTrack)
<1>1. NoTrack \in TrackStates
  BY WaitsAreNat DEF NoTrack, TrackStates
<1>2. NoTrack.valid = FALSE /\ NoTrack.hits # ConfirmHits
  BY WaitsAreNat DEF NoTrack
<1> QED
  BY <1>1, <1>2, Zenon DEF WellFormed

LEMMA ObservedFits ==
  ASSUME NEW t, WellFormed(t), NEW seen
  PROVE  WellFormed(Observed(t, seen))
<1>1. CASE seen = "none"
  BY <1>1 DEF Observed
<1>2. CASE seen # "none"
  <2> DEFINE hits == IF seen = "same" THEN Least(t.hits + 1, ConfirmHits) ELSE 1
  <2>1. hits \in 0 .. ConfirmHits
    <3>1. t.hits + 1 \in Nat
      BY WaitsAreNat DEF WellFormed, TrackStates
    <3>2. Least(t.hits + 1, ConfirmHits) \in 0 .. ConfirmHits
      BY <3>1, LeastType, WaitsAreNat
    <3>3. 1 \in 0 .. ConfirmHits
      BY WaitsAreNat
    <3> QED
      BY <3>2, <3>3
  <2>2. (IF seen = "same" THEN t.unread ELSE OcrInterval) \in 0 .. OcrInterval
    BY WaitsAreNat DEF WellFormed, TrackStates
  <2> HIDE DEF hits
  <2>3. Observed(t, seen) =
          [hits |-> hits, valid |-> hits = ConfirmHits, unseen |-> 0,
           unread |-> IF seen = "same" THEN t.unread ELSE OcrInterval]
    BY <1>2 DEF Observed, hits
  <2> QED
    BY <2>1, <2>2, <2>3, WaitsAreNat DEF WellFormed, TrackStates
<1> QED
  BY <1>1, <1>2

LEMMA ClaimedFits ==
  ASSUME NEW t, WellFormed(t)
  PROVE  WellFormed(Claimed(t)) /\ Claimed(t).valid = t.valid
BY WaitsAreNat DEF WellFormed, Claimed, Claims, TrackStates

LEMMA ExpiredFits ==
  ASSUME NEW t, WellFormed(t)
  PROVE  WellFormed(Expired(t))
BY NoTrackFits DEF Expired

(* A thread that reports all tracks, while no report of its own is on its    *)
(* way, sends the newest report.                                             *)
LEMMA ReportIsNewest ==
  ASSUME TypeOK, OlderFirst, NEW t \in Threads, ~reports[t].flying,
         reports' = Reported(t, tracks'), UNCHANGED << overtaken, present >>, unheard' = FALSE
  PROVE  /\ reports' \in [Threads -> [any : BOOLEAN, older : SUBSET Threads, flying : BOOLEAN]]
         /\ overtaken' \subseteq InFlight' /\ OlderFirst' /\ NewestIsCurrent'
         /\ \A s \in Threads \ {t} : reports'[s] = reports[s]
         /\ reports'[t].flying
<1> DEFINE r == [any |-> AnyValid(tracks'), older |-> InFlight, flying |-> TRUE]
<1>1. reports' = [reports EXCEPT ![t] = r]
  BY DEF Reported
<1>2. r \in [any : BOOLEAN, older : SUBSET Threads, flying : BOOLEAN]
  BY DEF InFlight, AnyValid
<1>3. reports' \in [Threads -> [any : BOOLEAN, older : SUBSET Threads, flying : BOOLEAN]]
  BY <1>1, <1>2 DEF TypeOK
<1>4. /\ reports'[t] = r
      /\ \A s \in Threads \ {t} : reports'[s] = reports[s]
  BY <1>1 DEF TypeOK
<1>5. InFlight' = InFlight \cup {t} /\ t \notin InFlight
  BY <1>4 DEF InFlight
<1>6. OlderFirst'
  BY <1>4, <1>5 DEF OlderFirst, InFlight
<1>7. t \in InFlight' \ overtaken'
  BY <1>5 DEF TypeOK
<1>8. reports'[t].older = InFlight' \ {t} /\ reports'[t].any = AnyValid(tracks')
  BY <1>4, <1>5
<1>9. NewestIsCurrent'
  BY <1>7, <1>8 DEF NewestIsCurrent, AnyValid
<1> QED
  BY <1>3, <1>4, <1>5, <1>6, <1>9 DEF TypeOK

(* Where no report is sent or delivered, and no track changes its validity,  *)
(* the order of the reports stands.                                          *)
LEMMA ReportsStand ==
  ASSUME OlderFirst, NewestIsCurrent, UNCHANGED << reports, overtaken, present, unheard >>,
         AnyValid(tracks') = AnyValid(tracks)
  PROVE  OlderFirst' /\ NewestIsCurrent'
<1>1. InFlight' = InFlight
  BY DEF InFlight
<1>2. OlderFirst'
  BY <1>1 DEF OlderFirst
<1>3. NewestIsCurrent'
  BY <1>1 DEF NewestIsCurrent, AnyValid
<1> QED
  BY <1>2, <1>3

-----------------------------------------------------------------------------
LEMMA InitIInv == Init => IInv
<1> SUFFICES ASSUME Init PROVE IInv
  OBVIOUS
<1>1. \A c \in Cameras : WellFormed(tracks[c]) /\ ~tracks[c].valid
  BY NoTrackFits DEF Init, NoTrack
<1>2. \A t \in Threads : reports[t] = NoReport
  BY DEF Init
<1>3. InFlight = {}
  BY <1>2 DEF InFlight, NoReport
<1>4. reports \in [Threads -> [any : BOOLEAN, older : SUBSET Threads, flying : BOOLEAN]]
  BY DEF Init, NoReport
<1>5. TypeOK
  <2>1. /\ tracks \in [Cameras -> TrackStates]
        /\ \A c \in Cameras : tracks[c].valid = (tracks[c].hits = ConfirmHits)
    BY <1>1 DEF Init, WellFormed
  <2>2. overtaken \subseteq InFlight /\ worker \in [Cameras -> {"idle", "observed", "claimed", "submitting"}]
    BY DEF Init
  <2>3. /\ queued \in [Cameras -> Jobs] /\ feeding \in [Cameras -> Jobs]
        /\ foreign \in [Cameras -> 0 .. 2]
    BY DEF Init, Jobs
  <2> QED
    BY <2>1, <2>2, <2>3, <1>4 DEF Init, TypeOK
<1>6. WorkersReport
  <2> SUFFICES ASSUME NEW c \in Cameras
               PROVE  reports[c].flying = (worker[c] \in {"observed", "claimed"})
    BY DEF WorkersReport
  <2>1. reports[c].flying = FALSE
    BY <1>2 DEF Threads, NoReport
  <2>2. (worker[c] \in {"observed", "claimed"}) = FALSE
    BY DEF Init
  <2> QED
    BY <2>1, <2>2
<1>7. OlderFirst /\ NewestIsCurrent
  BY <1>1, <1>3 DEF Init, OlderFirst, NewestIsCurrent, AnyValid
<1>8. StaleIsInFlight
  <2> SUFFICES ASSUME NEW c \in Cameras
               PROVE  foreign[c] + (IF feeding[c] = "stale" THEN 1 ELSE 0) <= 1
    BY DEF StaleIsInFlight
  <2>1. foreign[c] = 0 /\ feeding[c] = "none"
    BY DEF Init
  <2> QED
    BY <2>1
<1> QED
  BY <1>5, <1>6, <1>7, <1>8 DEF IInv, PresenceInv

(* An observation or an expiry sends the newest report.                      *)
LEMMA ObserveIInv ==
  ASSUME IInv, NEW c \in Cameras, NEW seen, Observe(c, seen)
  PROVE  IInv'
<1> DEFINE t == Claimed(Observed(tracks[c], seen))
<1>1. WellFormed(t)
  BY ObservedFits, ClaimedFits DEF IInv, PresenceInv, TypeOK, WellFormed
<1>2. tracks' = [tracks EXCEPT ![c] = t]
  BY DEF Observe
<1> HIDE DEF t
<1>3. /\ tracks' \in [Cameras -> TrackStates]
      /\ \A d \in Cameras : tracks'[d].valid = (tracks'[d].hits = ConfirmHits)
  BY <1>1, <1>2 DEF IInv, PresenceInv, TypeOK, WellFormed
<1>4. c \in Threads /\ ~reports[c].flying
  BY DEF Observe, IInv, PresenceInv, WorkersReport, Threads
<1>5. reports' = Reported(c, tracks') /\ UNCHANGED << overtaken, present >> /\ unheard' = FALSE
  BY DEF Observe
<1>6. /\ reports' \in [Threads -> [any : BOOLEAN, older : SUBSET Threads, flying : BOOLEAN]]
      /\ overtaken' \subseteq InFlight' /\ OlderFirst' /\ NewestIsCurrent'
      /\ \A s \in Threads \ {c} : reports'[s] = reports[s]
      /\ reports'[c].flying
  BY <1>4, <1>5, ReportIsNewest DEF IInv, PresenceInv
<1>7. /\ worker' \in [Cameras -> {"idle", "observed", "claimed", "submitting"}]
      /\ worker'[c] \in {"observed", "claimed"}
      /\ \A d \in Cameras \ {c} : worker'[d] = worker[d]
  BY DEF Observe, IInv, PresenceInv, TypeOK
<1>8. TypeOK'
  BY <1>3, <1>6, <1>7 DEF Observe, IInv, PresenceInv, TypeOK, ocrVars, sessionVars
<1>9. WorkersReport'
  BY <1>6, <1>7 DEF IInv, PresenceInv, WorkersReport, Threads
<1>10. StaleIsInFlight'
  BY DEF Observe, IInv, StaleIsInFlight, ocrVars
<1> QED
  BY <1>6, <1>8, <1>9, <1>10 DEF IInv, PresenceInv

LEMMA ExpireIInv ==
  ASSUME IInv, Expire
  PROVE  IInv'
<1>1. \A c \in Cameras : WellFormed(Expired(tracks[c]))
  BY ExpiredFits DEF IInv, PresenceInv, TypeOK, WellFormed
<1>2. tracks' = [ c \in Cameras |-> Expired(tracks[c]) ]
  BY DEF Expire
<1>3. /\ tracks' \in [Cameras -> TrackStates]
      /\ \A d \in Cameras : tracks'[d].valid = (tracks'[d].hits = ConfirmHits)
  BY <1>1, <1>2 DEF WellFormed
<1>4. Loop \in Threads /\ ~reports[Loop].flying
  BY DEF Expire, Threads
<1>5. reports' = Reported(Loop, tracks') /\ UNCHANGED << overtaken, present >> /\ unheard' = FALSE
  BY DEF Expire
<1>6. /\ reports' \in [Threads -> [any : BOOLEAN, older : SUBSET Threads, flying : BOOLEAN]]
      /\ overtaken' \subseteq InFlight' /\ OlderFirst' /\ NewestIsCurrent'
      /\ \A s \in Threads \ {Loop} : reports'[s] = reports[s]
  BY <1>4, <1>5, ReportIsNewest DEF IInv, PresenceInv
<1>7. TypeOK'
  BY <1>3, <1>6 DEF Expire, IInv, PresenceInv, TypeOK, ocrVars, sessionVars
<1>8. WorkersReport'
  BY <1>6, WaitsAreNat DEF Expire, IInv, PresenceInv, WorkersReport, Threads
<1>9. StaleIsInFlight'
  BY DEF Expire, IInv, StaleIsInFlight, ocrVars
<1> QED
  BY <1>6, <1>7, <1>8, <1>9 DEF IInv, PresenceInv

-----------------------------------------------------------------------------
(* A change of context leaves at most the job that is being fed.             *)
LEMMA OcrStands ==
  ASSUME IInv, UNCHANGED ocrVars \/ ContextChanges
  PROVE  /\ queued' \in [Cameras -> Jobs] /\ feeding' \in [Cameras -> Jobs]
         /\ foreign' \in [Cameras -> 0 .. 2] /\ StaleIsInFlight'
<1>1. CASE UNCHANGED ocrVars
  BY <1>1 DEF IInv, PresenceInv, TypeOK, ocrVars, StaleIsInFlight
<1>2. CASE ContextChanges
  BY <1>2 DEF ContextChanges, Outdated, Jobs, StaleIsInFlight
<1> QED
  BY <1>1, <1>2

LEMMA DeliverIInv ==
  ASSUME IInv, NEW t \in Threads, Deliver(t)
  PROVE  IInv'
<1>1. /\ \A s \in Threads \ {t} : /\ reports'[s].flying = reports[s].flying
                                  /\ reports'[s].any = reports[s].any
                                  /\ reports'[s].older = reports[s].older \ {t}
      /\ reports'[t] = NoReport
      /\ reports' \in [Threads -> [any : BOOLEAN, older : SUBSET Threads, flying : BOOLEAN]]
  BY DEF Deliver, Delivered, IInv, PresenceInv, TypeOK, NoReport
<1>2. t \in InFlight /\ InFlight' = InFlight \ {t}
  BY <1>1 DEF Deliver, InFlight, NoReport
<1>3. UNCHANGED ocrVars \/ ContextChanges
  BY DEF Deliver, Apply, Swallow, Heed, SessionStarts
<1>4. /\ worker' \in [Cameras -> {"idle", "observed", "claimed", "submitting"}]
      /\ \A c \in Cameras : IF c = t THEN worker'[c] \in {"idle", "submitting"}
                                     ELSE worker'[c] = worker[c]
  BY DEF Deliver, WorkerReturns, IInv, PresenceInv, TypeOK
<1>5. WorkersReport'
  BY <1>1, <1>4 DEF IInv, PresenceInv, WorkersReport, Threads, NoReport
<1>6. reports[t].older \subseteq InFlight \ {t}
  BY <1>2 DEF IInv, PresenceInv, OlderFirst
<1>7. \/ /\ overtaken' = overtaken \ {t} /\ present' = present
         /\ unheard' = (unheard \/ Newest(t))
      \/ /\ t \in overtaken /\ overtaken' = overtaken \ {t}
         /\ present' = present /\ unheard' = unheard
      \/ /\ t \notin overtaken /\ overtaken' = overtaken \cup reports[t].older
         /\ present' = reports[t].any /\ unheard' = unheard
  BY DEF Deliver, Apply, Swallow, Heed
<1>8. overtaken' \subseteq InFlight'
  BY <1>2, <1>6, <1>7 DEF IInv, PresenceInv, TypeOK
<1>9. /\ {present', unheard'} \subseteq BOOLEAN
      /\ active' \in BOOLEAN /\ fatal' \in {"none", "admission", "ending"}
  BY <1>2, <1>7 DEF Deliver, Apply, Swallow, Heed, SessionStarts, sessionVars, Newest, InFlight,
                   IInv, PresenceInv, TypeOK
<1>10. tracks' = tracks /\ running' = running
  BY DEF Deliver
<1>11. TypeOK'
  <2>1. /\ queued' \in [Cameras -> Jobs] /\ feeding' \in [Cameras -> Jobs]
        /\ foreign' \in [Cameras -> 0 .. 2]
    BY <1>3, OcrStands
  <2>2. /\ tracks' \in [Cameras -> TrackStates] /\ running' \in BOOLEAN
        /\ \A c \in Cameras : tracks'[c].valid = (tracks'[c].hits = ConfirmHits)
    BY <1>10 DEF IInv, PresenceInv, TypeOK
  <2> QED
    BY <1>1, <1>4, <1>8, <1>9, <2>1, <2>2 DEF TypeOK
<1>12. OlderFirst'
  BY <1>1, <1>2 DEF IInv, PresenceInv, OlderFirst, InFlight
<1>13. NewestIsCurrent'
  <2>1. CASE unheard
    BY <2>1, <1>7 DEF NewestIsCurrent
  <2>2. CASE InFlight \subseteq overtaken /\ present = AnyValid(tracks)
    <3>1. t \in overtaken /\ ~Newest(t)
      BY <2>2, <1>2 DEF Newest
    <3> QED
      BY <2>2, <3>1, <1>2, <1>7, <1>10 DEF NewestIsCurrent, AnyValid
  <2>3. CASE \E n \in InFlight \ overtaken :
               reports[n].older = InFlight \ {n} /\ reports[n].any = AnyValid(tracks)
    <3>1. PICK n \in InFlight \ overtaken :
            reports[n].older = InFlight \ {n} /\ reports[n].any = AnyValid(tracks)
      BY <2>3
    <3>2. CASE n = t
      <4>1. Newest(t)
        BY <3>1, <3>2 DEF Newest, IInv, PresenceInv, OlderFirst
      <4> QED
        BY <4>1, <3>1, <3>2, <1>2, <1>7, <1>10 DEF NewestIsCurrent, AnyValid
    <3>3. CASE n # t
      <4>1. n \notin reports[t].older
        BY <3>1, <3>3, <1>2 DEF IInv, PresenceInv, OlderFirst
      <4>2. n \in InFlight' \ overtaken'
        BY <3>1, <3>3, <4>1, <1>2, <1>7
      <4>3. reports'[n].older = InFlight' \ {n} /\ reports'[n].any = AnyValid(tracks')
        BY <3>1, <3>3, <1>1, <1>2, <1>10 DEF InFlight
      <4> QED
        BY <4>2, <4>3 DEF NewestIsCurrent, AnyValid
    <3> QED
      BY <3>2, <3>3
  <2> QED
    BY <2>1, <2>2, <2>3 DEF IInv, PresenceInv, NewestIsCurrent
<1> QED
  BY <1>3, <1>5, <1>11, <1>12, <1>13, OcrStands DEF IInv, PresenceInv

-----------------------------------------------------------------------------
(* The rest of the service's steps send and deliver nothing.                 *)
LEMMA SessionIInv ==
  ASSUME IInv, ScaleStarts \/ SessionIsOver \/ SpoolFails
  PROVE  IInv'
<1>1. /\ UNCHANGED ocrVars \/ ContextChanges
      /\ UNCHANGED << tracks, worker, reports, overtaken, present, unheard, running >>
      /\ active' \in BOOLEAN /\ fatal' \in {"none", "admission", "ending"}
  BY DEF ScaleStarts, SessionIsOver, SpoolFails, SessionStarts, SessionEnds, AdmissionFails,
         EndingFails, BetweenReports, ocrVars, IInv, PresenceInv, TypeOK
<1>2. OlderFirst' /\ NewestIsCurrent'
  BY <1>1, ReportsStand DEF IInv, PresenceInv
<1>3. TypeOK' /\ WorkersReport' /\ StaleIsInFlight'
  BY <1>1, OcrStands DEF IInv, PresenceInv, TypeOK, WorkersReport, InFlight
<1> QED
  BY <1>2, <1>3 DEF IInv, PresenceInv

LEMMA OcrIInv ==
  ASSUME IInv, NEW c \in Cameras, SubmitOcr(c) \/ Recognise(c) \/ Count(c)
  PROVE  IInv'
<1>1. UNCHANGED << tracks, reports, overtaken, present, unheard, active, fatal, running >>
  BY DEF SubmitOcr, Recognise, Count, sessionVars
<1>2. OlderFirst' /\ NewestIsCurrent'
  BY <1>1, ReportsStand DEF IInv, PresenceInv
<1>3. worker' \in [Cameras -> {"idle", "observed", "claimed", "submitting"}] /\ WorkersReport'
  BY <1>1 DEF SubmitOcr, Recognise, Count, IInv, PresenceInv, TypeOK, WorkersReport
<1>4. /\ queued' \in [Cameras -> Jobs] /\ feeding' \in [Cameras -> Jobs]
      /\ foreign' \in [Cameras -> 0 .. 2] /\ StaleIsInFlight'
  <2>1. CASE SubmitOcr(c)
    BY <2>1 DEF SubmitOcr, IInv, PresenceInv, TypeOK, Jobs, StaleIsInFlight
  <2>2. CASE Recognise(c)
    <3>1. feeding' = [feeding EXCEPT ![c] = IF MayCount(c) THEN "current" ELSE "none"]
      BY <2>2 DEF Recognise, MayCount
    <3> QED
      BY <2>2, <3>1 DEF Recognise, IInv, PresenceInv, TypeOK, Jobs, StaleIsInFlight
  <2>3. CASE Count(c)
    <3>1. foreign[c] \in Nat /\ Least(foreign[c] + 1, 2) \in 0 .. 2
          /\ (foreign[c] <= 1 => Least(foreign[c] + 1, 2) = foreign[c] + 1)
      BY DEF IInv, PresenceInv, TypeOK, Least
    <3>2. /\ feeding' = [feeding EXCEPT ![c] = "none"]
          /\ foreign' = [foreign EXCEPT ![c] = IF feeding[c] = "stale" THEN Least(foreign[c] + 1, 2)
                                                                        ELSE foreign[c]]
          /\ queued' = queued
      BY <2>3 DEF Count, IInv, PresenceInv, TypeOK
    <3> QED
      BY <3>1, <3>2 DEF IInv, PresenceInv, TypeOK, Jobs, StaleIsInFlight
  <2> QED
    BY <2>1, <2>2, <2>3
<1>5. TypeOK'
  BY <1>1, <1>3, <1>4 DEF IInv, PresenceInv, TypeOK, InFlight
<1> QED
  BY <1>2, <1>3, <1>4, <1>5 DEF IInv, PresenceInv

LEMMA TickIInv ==
  ASSUME IInv, Tick
  PROVE  IInv'
<1> DEFINE t(c) == [tracks[c] EXCEPT
              !.unseen = IF tracks[c].valid THEN Least(@ + 1, StaleTicks) ELSE 0,
              !.unread = Least(@ + 1, OcrInterval)]
<1>1. ASSUME NEW c \in Cameras
      PROVE  WellFormed(t(c)) /\ t(c).valid = tracks[c].valid
  <2>1. tracks[c] \in TrackStates /\ tracks[c].valid = (tracks[c].hits = ConfirmHits)
    BY DEF IInv, PresenceInv, TypeOK
  <2>2. tracks[c].unseen + 1 \in Nat /\ tracks[c].unread + 1 \in Nat
    BY <2>1, WaitsAreNat DEF TrackStates
  <2>3. /\ Least(tracks[c].unseen + 1, StaleTicks) \in 0 .. StaleTicks
        /\ Least(tracks[c].unread + 1, OcrInterval) \in 0 .. OcrInterval
        /\ 0 \in 0 .. StaleTicks
    <3>1. Least(tracks[c].unseen + 1, StaleTicks) \in 0 .. StaleTicks
      BY <2>2, LeastType, WaitsAreNat
    <3>2. Least(tracks[c].unread + 1, OcrInterval) \in 0 .. OcrInterval
      BY <2>2, LeastType, WaitsAreNat
    <3>3. 0 \in 0 .. StaleTicks
      BY WaitsAreNat
    <3> QED
      BY <3>1, <3>2, <3>3
  <2>4. t(c) \in TrackStates /\ t(c).valid = tracks[c].valid /\ t(c).hits = tracks[c].hits
    BY <2>1, <2>3 DEF TrackStates
  <2> QED
    BY <2>1, <2>4 DEF WellFormed
<1>2. tracks' = [ c \in Cameras |-> t(c) ]
  BY DEF Tick
<1> HIDE DEF t
<1>3. /\ tracks' \in [Cameras -> TrackStates]
      /\ \A d \in Cameras : tracks'[d].valid = (tracks'[d].hits = ConfirmHits)
  BY <1>1, <1>2 DEF WellFormed
<1>4. AnyValid(tracks') = AnyValid(tracks)
  BY <1>1, <1>2 DEF AnyValid
<1>5. OlderFirst' /\ NewestIsCurrent'
  BY <1>4, ReportsStand DEF Tick, IInv, PresenceInv
<1>6. TypeOK' /\ WorkersReport' /\ StaleIsInFlight'
  BY <1>3 DEF Tick, IInv, PresenceInv, TypeOK, WorkersReport, InFlight, ocrVars,
              sessionVars, StaleIsInFlight
<1> QED
  BY <1>5, <1>6 DEF IInv, PresenceInv

LEMMA StopIInv ==
  ASSUME IInv, Stop \/ UNCHANGED vars
  PROVE  IInv'
<1>1. /\ UNCHANGED << tracks, worker, reports, overtaken, present, unheard, active, fatal >>
      /\ UNCHANGED << feeding, foreign >>
      /\ queued' \in [Cameras -> Jobs] /\ running' \in BOOLEAN
  BY DEF Stop, vars, sessionVars, ocrVars, IInv, PresenceInv, TypeOK, Jobs
<1>2. OlderFirst' /\ NewestIsCurrent'
  BY <1>1, ReportsStand DEF IInv, PresenceInv
<1>3. TypeOK' /\ WorkersReport' /\ StaleIsInFlight'
  BY <1>1 DEF IInv, PresenceInv, TypeOK, WorkersReport, InFlight, StaleIsInFlight
<1> QED
  BY <1>2, <1>3 DEF IInv, PresenceInv

LEMMA NextIInv == IInv /\ [Next]_vars => IInv'
BY ObserveIInv, ExpireIInv, DeliverIInv, SessionIInv, OcrIInv, TickIInv, StopIInv DEF Next

LEMMA Invariance == Spec => []IInv
BY InitIInv, NextIInv, PTL DEF Spec

-----------------------------------------------------------------------------
(* The types, and that a track is valid exactly with its hits.               *)
THEOREM DetectionTypes == Spec => []TypeOK
<1>1. IInv => TypeOK
  BY DEF IInv, PresenceInv
<1> QED
  BY <1>1, Invariance, PTL

(* The session manager knows what is tracked whenever nothing is on its way  *)
(* and the newest report was not lost to a fatal error.                      *)
THEOREM PresenceArrives == Spec => []PresenceIsCurrent
<1>1. IInv => PresenceIsCurrent
  BY DEF IInv, PresenceInv, NewestIsCurrent, PresenceIsCurrent
<1> QED
  BY <1>1, Invariance, PTL

(* A camera counts at most one job of an earlier session.                    *)
THEOREM StaleJobsAreFew == Spec => []StaleIsInFlight
<1>1. IInv => StaleIsInFlight
  BY DEF IInv
<1> QED
  BY <1>1, Invariance, PTL
=============================================================================
