------------------------------ MODULE WeightProofs -----------------------------
(***************************************************************************)
(* What becomes of a reading, from the bytes of the scale to the session   *)
(* that is given its weight: theorems about ScaleReader and                *)
(* StartAdmission, which share the readings (ScaleStability).              *)
(*                                                                         *)
(*   AdmissionInv   every weight that a visit keeps was shown in it, and   *)
(*                  what holds back a start is set and cleared together    *)
(*   Awake          the loop of the reader runs on unless it was stopped   *)
(*   LineInv        what was read of a frame is the end of the buffer, and *)
(*                  what is judged is the end of what was read             *)
(*                                                                         *)
(* Of the constants the assumptions of the two modules are used: among     *)
(* them, that weights are natural numbers and that the filter has an odd   *)
(* number of readings.                                                     *)
(***************************************************************************)
EXTENDS StartAdmission, ScaleReader, WellFoundedInduction, FiniteSetTheorems,
        SequenceTheorems, TLAPS

-----------------------------------------------------------------------------
(* What the operators on readings return.                                    *)
LEMMA LeastNatural ==
  ASSUME NEW T \in SUBSET Nat, T # {}
  PROVE  Least(T) \in T /\ \A t \in T : Least(T) <= t
<1> DEFINE R == OpToRel(<, Nat)
<1>1. IsWellFoundedOn(R, Nat)
  BY NatLessThanWellFounded
<1> HIDE DEF R
<1>2. PICK b \in T : \A t \in T : << t, b >> \notin R
  BY <1>1, WFMin
<1>3. \A t \in T : ~(t < b)
  BY <1>2 DEF R, OpToRel
<1>4. \A t \in T : b <= t
  BY <1>3
<1> QED
  BY <1>4 DEF Least

LEMMA ReadingsOf ==
  ASSUME NEW S, NEW s \in Seq(S)
  PROVE  /\ DOMAIN s = 1 .. Len(s) /\ Len(s) \in Nat /\ ToSet(s) \in SUBSET S
         /\ \A i \in 1 .. Len(s) : s[i] \in S /\ s[i] \in ToSet(s)
         /\ s # << >> => Len(s) > 0
BY DEF ToSet

LEMMA GreatestNatural ==
  ASSUME NEW T \in SUBSET Nat, T # {}, NEW bound \in Nat, \A t \in T : t <= bound
  PROVE  Greatest(T) \in T /\ \A t \in T : Greatest(T) >= t
<1> DEFINE D == { bound - t : t \in T }
<1>1. D \in SUBSET Nat /\ D # {}
  <2>1. \A t \in T : bound - t \in Nat
    OBVIOUS
  <2> QED
    BY <2>1
<1>2. Least(D) \in D /\ \A d \in D : Least(D) <= d
  BY <1>1, LeastNatural
<1>3. PICK g \in T : Least(D) = bound - g
  BY <1>2
<1>4. \A t \in T : bound - t \in D
  OBVIOUS
<1>5. ASSUME NEW t \in T PROVE g >= t
  <2>1. bound - g <= bound - t
    BY <1>2, <1>3, <1>4
  <2>2. g \in Nat /\ t \in Nat
    OBVIOUS
  <2> QED
    BY <2>1, <2>2
<1>6. \E x \in T : \A y \in T : x >= y
  BY <1>5
<1> QED
  BY <1>6 DEF Greatest

(* One of finitely many numbers is the greatest.                             *)
LEMMA GreatestOfRow ==
  ASSUME NEW n \in Nat \ {0}, NEW f, \A i \in 1 .. n : f[i] \in Int
  PROVE  \E i \in 1 .. n : \A j \in 1 .. n : f[i] >= f[j]
<1> DEFINE Good(m) == \E i \in 1 .. m : \A j \in 1 .. m : f[i] >= f[j]
           Bad == { m \in 1 .. n : ~Good(m) }
<1> SUFFICES ASSUME ~Good(n) PROVE FALSE
  OBVIOUS
<1>1. Bad \in SUBSET Nat /\ Bad # {}
  <2>1. n \in Bad
    OBVIOUS
  <2>2. \A k \in Bad : k \in Nat
    OBVIOUS
  <2> QED
    BY <2>1, <2>2
<1>2. Least(Bad) \in Bad /\ \A k \in Bad : Least(Bad) <= k
  <2> HIDE DEF Bad
  <2> QED
    BY <1>1, LeastNatural
<1>3. PICK m \in 1 .. n : ~Good(m) /\ \A k \in 1 .. n : ~Good(k) => m <= k
  BY <1>2
<1>4. Good(1)
  OBVIOUS
<1>5. m \in Nat /\ m - 1 \in 1 .. n /\ ~(m <= m - 1)
  <2> HIDE DEF Good
  <2> QED
    BY <1>3, <1>4
<1>6. Good(m - 1)
  <2> HIDE DEF Good
  <2> QED
    BY <1>3, <1>5
<1>7. PICK i \in 1 .. m - 1 : \A j \in 1 .. m - 1 : f[i] >= f[j]
  BY <1>6
<1>8. f[i] \in Int /\ f[m] \in Int /\ i \in 1 .. m /\ m \in 1 .. m
  BY <1>3, <1>5, <1>7
<1>9. CASE f[i] >= f[m]
  <2>1. ASSUME NEW j \in 1 .. m PROVE f[i] >= f[j]
    <3>1. j = m \/ j \in 1 .. m - 1
      BY <1>5
    <3> QED
      BY <3>1, <1>7, <1>9
  <2> QED
    BY <2>1, <1>3, <1>8
<1>10. CASE f[m] > f[i]
  <2>1. ASSUME NEW j \in 1 .. m PROVE f[m] >= f[j]
    <3>1. j = m \/ j \in 1 .. m - 1
      BY <1>5
    <3>2. f[j] \in Int
      BY <1>3
    <3> QED
      BY <3>1, <3>2, <1>7, <1>8, <1>10
  <2> QED
    BY <2>1, <1>3, <1>8
<1> QED
  BY <1>8, <1>9, <1>10

LEMMA GreatestReading ==
  ASSUME NEW s \in Seq(Nat), s # << >>
  PROVE  /\ Greatest(ToSet(s)) \in ToSet(s)
         /\ \A i \in DOMAIN s : Greatest(ToSet(s)) >= s[i]
<1>1. Len(s) \in Nat \ {0} /\ \A i \in 1 .. Len(s) : s[i] \in Nat
  BY ReadingsOf
<1>2. PICK k \in 1 .. Len(s) : \A j \in 1 .. Len(s) : s[k] >= s[j]
  <2>1. \A i \in 1 .. Len(s) : s[i] \in Int
    BY <1>1
  <2> QED
    BY <1>1, <2>1, GreatestOfRow
<1>3. ToSet(s) \in SUBSET Nat /\ s[k] \in ToSet(s) /\ DOMAIN s = 1 .. Len(s)
  BY ReadingsOf
<1>4. \A t \in ToSet(s) : t <= s[k]
  BY <1>1, <1>2, <1>3 DEF ToSet
<1>5. /\ Greatest(ToSet(s)) \in ToSet(s)
      /\ \A t \in ToSet(s) : Greatest(ToSet(s)) >= t
  BY <1>1, <1>3, <1>4, GreatestNatural
<1> QED
  BY <1>3, <1>5, ReadingsOf

LEMMA ModeIsReading ==
  ASSUME NEW S, NEW s \in Seq(S), s # << >>
  PROVE  ModeNewest(s) \in ToSet(s)
<1> DEFINE often == [ i \in DOMAIN s |-> Occurrences(s, s[i]) ]
<1>1. DOMAIN s = 1 .. Len(s) /\ Len(s) \in Nat \ {0}
  OBVIOUS
<1>2. \A i \in DOMAIN s : Occurrences(s, s[i]) \in Nat
  <2> SUFFICES ASSUME NEW i \in DOMAIN s PROVE Occurrences(s, s[i]) \in Nat
    OBVIOUS
  <2>1. IsFiniteSet(1 .. Len(s))
    BY FS_Interval
  <2>2. { j \in DOMAIN s : s[j] = s[i] } \subseteq 1 .. Len(s)
    BY <1>1
  <2> QED
    BY <2>1, <2>2, FS_Subset, FS_CardinalityType DEF Occurrences
<1>3. PICK k \in 1 .. Len(s) : \A j \in 1 .. Len(s) : often[k] >= often[j]
  <2>1. \A i \in 1 .. Len(s) : often[i] \in Int
    BY <1>1, <1>2
  <2> HIDE DEF often
  <2> QED
    BY <1>1, <2>1, GreatestOfRow
<1>4. k \in Frequent(s)
  BY <1>1, <1>3 DEF Frequent
<1>5. Frequent(s) \in SUBSET Nat /\ \A i \in Frequent(s) : i <= Len(s)
  BY <1>1 DEF Frequent
<1>6. Greatest(Frequent(s)) \in DOMAIN s
  BY <1>1, <1>4, <1>5, GreatestNatural DEF Frequent
<1> QED
  BY <1>6 DEF ModeNewest, ToSet

LEMMA MedianIsReading ==
  ASSUME NEW s \in Seq(Nat), s # << >>
  PROVE  Median(s) \in ToSet(s)
<1> DEFINE top == Greatest(ToSet(s))
           M == { x \in ToSet(s) : Cardinality({ i \in DOMAIN s : s[i] <= x }) > Len(s) \div 2 }
<1>1. top \in ToSet(s) /\ \A i \in DOMAIN s : s[i] <= top
  <2>1. \A i \in DOMAIN s : s[i] \in Nat /\ top >= s[i]
    BY GreatestReading, ReadingsOf
  <2>2. top \in ToSet(s) /\ top \in Nat
    BY GreatestReading, ReadingsOf
  <2> QED
    BY <2>1, <2>2
<1>2. { i \in DOMAIN s : s[i] <= top } = 1 .. Len(s)
  BY <1>1
<1>3. Cardinality({ i \in DOMAIN s : s[i] <= top }) = Len(s)
  <2>1. Len(s) \in Nat /\ 1 \in Int
    BY ReadingsOf
  <2>2. Cardinality(1 .. Len(s)) = Len(s)
    BY <2>1, FS_Interval
  <2> QED
    BY <1>2, <2>2
<1>4. Len(s) \in Nat \ {0} /\ Len(s) > Len(s) \div 2
  OBVIOUS
<1>5. top \in M
  BY <1>1, <1>3, <1>4
<1>6. M \in SUBSET Nat
  BY DEF ToSet
<1>7. Least(M) \in M
  BY <1>5, <1>6, LeastNatural
<1> QED
  BY <1>7 DEF Median

(* A bounded deque keeps the newest elements.                                *)
LEMMA WindowSlides ==
  ASSUME NEW S, NEW s \in Seq(S), NEW e \in S, NEW n \in Nat \ {0}, Len(s) <= n
  PROVE  /\ Window(s, e, n) \in Seq(S) /\ Window(s, e, n) # << >>
         /\ Len(Window(s, e, n)) = IF Len(s) < n THEN Len(s) + 1 ELSE n
         /\ Window(s, e, n)[Len(Window(s, e, n))] = e
         /\ \A i \in 1 .. Len(Window(s, e, n)) - 1 :
              Window(s, e, n)[i] = s[Len(s) - Len(Window(s, e, n)) + 1 + i]
<1> DEFINE t == Append(s, e)
<1>1. t \in Seq(S) /\ Len(t) = Len(s) + 1 /\ t[Len(s) + 1] = e
      /\ \A i \in 1 .. Len(s) : t[i] = s[i]
  BY AppendProperties
<1>2. CASE Len(s) < n
  <2>1. Window(s, e, n) = t
    BY <1>2 DEF Window
  <2> QED
    BY <1>1, <1>2, <2>1
<1>3. CASE Len(s) = n
  <2>1. Window(s, e, n) = SubSeq(t, 2, n + 1)
    BY <1>1, <1>3 DEF Window, Slide
  <2>2. \A i \in 2 .. n + 1 : t[i] \in S
    BY <1>1, <1>3
  <2>3. /\ SubSeq(t, 2, n + 1) \in Seq(S) /\ Len(SubSeq(t, 2, n + 1)) = n
        /\ \A i \in 1 .. n : SubSeq(t, 2, n + 1)[i] = t[i + 1]
    BY <1>3, <2>2, SubSeqProperties
  <2> QED
    BY <1>1, <1>3, <2>1, <2>3
<1> QED
  BY <1>2, <1>3

LEMMA WindowReadings ==
  ASSUME NEW S, NEW s \in Seq(S), NEW e \in S, NEW n \in Nat \ {0}, Len(s) <= n
  PROVE  /\ ToSet(Window(s, e, n)) \subseteq ToSet(s) \cup {e}
         /\ Len(Window(s, e, n)) <= n
<1> DEFINE win == Window(s, e, n)
<1>1. /\ win \in Seq(S) /\ win # << >> /\ win[Len(win)] = e
      /\ Len(win) = IF Len(s) < n THEN Len(s) + 1 ELSE n
      /\ \A i \in 1 .. Len(win) - 1 : win[i] = s[Len(s) - Len(win) + 1 + i]
  BY WindowSlides
<1>2. Len(s) \in Nat
  OBVIOUS
<1> HIDE DEF win
<1>3. ASSUME NEW i \in 1 .. Len(win) PROVE win[i] \in ToSet(s) \cup {e}
  <2>1. CASE i = Len(win)
    BY <2>1, <1>1
  <2>2. CASE i \in 1 .. Len(win) - 1
    <3>1. Len(s) - Len(win) + 1 + i \in 1 .. Len(s)
      BY <2>2, <1>1, <1>2
    <3>2. win[i] = s[Len(s) - Len(win) + 1 + i]
      BY <2>2, <1>1
    <3> QED
      BY <3>1, <3>2, ReadingsOf
  <2>3. Len(win) \in Nat
    BY <1>1
  <2> QED
    BY <2>1, <2>2, <2>3
<1>4. DOMAIN win = 1 .. Len(win)
  BY <1>1
<1>5. ToSet(win) \subseteq ToSet(s) \cup {e} /\ Len(win) <= n
  BY <1>1, <1>2, <1>3, <1>4 DEF ToSet
<1> QED
  BY <1>5 DEF win

-----------------------------------------------------------------------------
(* The reader's window.  A stable weight is one of its readings.             *)
Readings == Weights \cup {OverloadReading}

Judged(f) ==
  /\ f.recent \in Seq(Readings) /\ Len(f.recent) <= StableCount /\ f.count \in Nat
  /\ f.count > 0 => f.recent # << >> /\ f.same = f.recent[Len(f.recent)]

LEMMA ConstantsAreNat ==
  /\ StableCount \in Nat \ {0} /\ ExactCount \in Nat \ {0} /\ Tolerance \in Nat
  /\ Threshold \in Nat /\ Band \in Nat
  /\ HistoryWindow \in Nat \ {0} /\ FilterFrames \in Nat \ {0}
  /\ TrendFrames \in Nat \ {0} /\ Dwell \in Nat \ {0}
  /\ Readings \in SUBSET Nat
BY StabilityAssumption, VisitAssumption, AdmissionAssumption DEF Readings

LEMMA ReceivedIsJudged ==
  ASSUME Judged(feed), NEW w \in Readings
  PROVE  /\ Judged(Received(w))
         /\ ToSet(Received(w).recent) \subseteq ToSet(feed.recent) \cup {w}
<1>1. CASE w = OverloadReading
  <2>1. Received(w) = NoFeed
    BY <1>1 DEF Received
  <2> QED
    BY <2>1, ConstantsAreNat DEF NoFeed, Judged, ToSet
<1>2. CASE w # OverloadReading
  <2> DEFINE q == feed.recent
             win == Window(q, w, StableCount)
  <2>1. Received(w).recent = win /\ Received(w).same = w
        /\ Received(w).count \in Nat
    BY <1>2, ConstantsAreNat DEF Received, Weighed, Judged
  <2>2. q \in Seq(Readings) /\ Len(q) <= StableCount /\ StableCount \in Nat \ {0}
    BY ConstantsAreNat DEF Judged
  <2> HIDE DEF q
  <2>3. win \in Seq(Readings) /\ win # << >> /\ win[Len(win)] = w
    BY <2>2, WindowSlides
  <2>4. Len(win) <= StableCount /\ ToSet(win) \subseteq ToSet(q) \cup {w}
    BY <2>2, WindowReadings
  <2>5. Judged(Received(w))
    BY <2>1, <2>3, <2>4 DEF Judged
  <2> QED
    BY <2>1, <2>4, <2>5 DEF q
<1> QED
  BY <1>1, <1>2

LEMMA StableIsReading ==
  ASSUME NEW f, Judged(f), StatusOf(f).status = "stable"
  PROVE  StatusOf(f).stable \in ToSet(f.recent)
<1>1. CASE f.count >= ExactCount
  <2>1. f.count > 0
    BY <1>1, ConstantsAreNat DEF Judged
  <2>2. StatusOf(f).stable = f.recent[Len(f.recent)] /\ f.recent # << >>
    BY <1>1, <2>1 DEF StatusOf, Judged
  <2>3. Len(f.recent) \in 1 .. Len(f.recent) /\ f.recent \in Seq(Readings)
    BY <2>2 DEF Judged
  <2> QED
    BY <2>2, <2>3, ReadingsOf
<1>2. CASE ~(f.count >= ExactCount)
  <2>1. Len(f.recent) = StableCount /\ StatusOf(f).stable = ModeNewest(f.recent)
    BY <1>2 DEF StatusOf
  <2>2. f.recent # << >> /\ f.recent \in Seq(Readings)
    BY <2>1, ConstantsAreNat DEF Judged
  <2> QED
    BY <2>1, <2>2, ModeIsReading
<1> QED
  BY <1>1, <1>2

-----------------------------------------------------------------------------
(* A visit whose weights are all of a set of readings.                       *)
Maybe(S) == S \cup {Unset}
Visits(S) ==
  [ stable : Maybe(S), history : Seq(S), episode : Seq(S), retained : Maybe(S),
    window : Seq(S), run : Seq(S), best : Maybe(S),
    recent : Seq(S), raw : Maybe(S), filtered : Maybe(S) ]

VisitOf(v, S) ==
  /\ v \in Visits(S)
  /\ Len(v.history) <= HistoryWindow
  /\ Len(v.window) <= FilterFrames /\ Len(v.recent) <= FilterFrames

LEMMA VisitFields ==
  ASSUME NEW S, NEW v, VisitOf(v, S)
  PROVE  /\ v \in Visits(S)
         /\ v.history \in Seq(S) /\ v.episode \in Seq(S) /\ v.window \in Seq(S)
         /\ v.run \in Seq(S) /\ v.recent \in Seq(S)
         /\ v.stable \in Maybe(S) /\ v.retained \in Maybe(S) /\ v.best \in Maybe(S)
         /\ v.raw \in Maybe(S) /\ v.filtered \in Maybe(S)
         /\ Len(v.history) <= HistoryWindow
         /\ Len(v.window) <= FilterFrames /\ Len(v.recent) <= FilterFrames
BY DEF VisitOf, Visits

LEMMA NoVisitFits ==
  ASSUME NEW S PROVE VisitOf(NoVisit, S)
<1>1. << >> \in Seq(S) /\ Len(<< >>) = 0
  BY EmptySeq
<1> QED
  BY <1>1, ConstantsAreNat DEF VisitOf, Visits, NoVisit, Maybe

LEMMA VisitsGrow ==
  ASSUME NEW T, NEW S \in SUBSET T, NEW v, VisitOf(v, S)
  PROVE  VisitOf(v, T)
<1>1. \A s \in Seq(S) : s \in Seq(T)
  BY SeqMonotonic
<1>2. \A x \in Maybe(S) : x \in Maybe(T)
  BY DEF Maybe
<1> QED
  BY <1>1, <1>2 DEF VisitOf, Visits

LEMMA CloseKeeps ==
  ASSUME NEW S, NEW v, VisitOf(v, S)
  PROVE  VisitOf(CloseEpisode(v), S)
<1>1. v.episode # << >> => ModeNewest(v.episode) \in S
  BY VisitFields, ModeIsReading, ReadingsOf
<1>2. Outweighs(v) => v.episode # << >>
  BY EmptySeq DEF Outweighs
<1>3. << >> \in Seq(S)
  BY EmptySeq
<1> QED
  BY <1>1, <1>2, <1>3 DEF VisitOf, Visits, CloseEpisode, Maybe

LEMMA PublishKeeps ==
  ASSUME NEW S, NEW v, VisitOf(v, S), v.history # << >>
  PROVE  VisitOf(Publish(v), S)
<1>1. v.episode # << >> => ModeNewest(v.episode) \in S
  BY VisitFields, ModeIsReading, ReadingsOf
<1>2. Outweighs(v) => v.episode # << >>
  BY EmptySeq DEF Outweighs
<1>3. ModeNewest(v.history) \in S
  BY VisitFields, ModeIsReading, ReadingsOf
<1> QED
  BY <1>1, <1>2, <1>3 DEF VisitOf, Visits, Publish, Maybe

LEMMA RecordKeeps ==
  ASSUME NEW S, NEW v, VisitOf(v, S), NEW w, Loaded(w) => w \in S
  PROVE  VisitOf(Record(v, w), S)
<1>1. CASE ~Loaded(w)
  BY <1>1 DEF Record
<1>2. CASE Loaded(w)
  <2> DEFINE u == IF v.episode # << >> /\ Spread(Append(v.episode, w)) > Band
                    THEN CloseEpisode(v) ELSE v
             h == Window(u.history, w, HistoryWindow)
             e == Append(u.episode, w)
             x == [u EXCEPT !.history = h, !.episode = e]
  <2>1. VisitOf(u, S)
    BY CloseKeeps
  <2> HIDE DEF u
  <2>2. u.history \in Seq(S) /\ Len(u.history) <= HistoryWindow /\ u.episode \in Seq(S)
    BY <2>1, VisitFields
  <2>3. h \in Seq(S) /\ h # << >>
        /\ Len(h) = IF Len(u.history) < HistoryWindow THEN Len(u.history) + 1 ELSE HistoryWindow
    BY <1>2, <2>2, ConstantsAreNat, WindowSlides
  <2>4. Len(h) <= HistoryWindow
    BY <2>2, <2>3, ConstantsAreNat
  <2>5. e \in Seq(S)
    BY <1>2, <2>2
  <2> HIDE DEF h, e
  <2>6. VisitOf(x, S) /\ x.history # << >>
    BY <2>1, <2>3, <2>4, <2>5 DEF VisitOf, Visits
  <2>7. Record(v, w) = Publish(x)
    BY <1>2 DEF Record, u, h, e
  <2> QED
    BY <2>6, <2>7, PublishKeeps
<1> QED
  BY <1>1, <1>2

LEMMA SustainedKeeps ==
  ASSUME NEW S \in SUBSET Nat, NEW v, VisitOf(v, S), NEW w \in S, NEW long
  PROVE  VisitOf(Sustained(v, w, long), S)
<1> DEFINE win == Window(v.window, w, FilterFrames)
           med == Median(win)
           run == IF v.run # << >> /\ Spread(Append(v.run, med)) > Band THEN << med >>
                  ELSE Append(v.run, med)
           best == IF long /\ Len(run) >= MinReadings
                     THEN Larger(v.best, ModeNewest(run)) ELSE v.best
<1>1. v.window \in Seq(S) /\ Len(v.window) <= FilterFrames /\ v.run \in Seq(S)
      /\ v.best \in Maybe(S)
  BY VisitFields
<1>2. win \in Seq(S) /\ win # << >> /\ Len(win) <= FilterFrames
  BY <1>1, ConstantsAreNat, WindowSlides, WindowReadings
<1> HIDE DEF win
<1>3. med \in S
  <2>1. win \in Seq(Nat)
    BY <1>2, SeqMonotonic
  <2> QED
    BY <1>2, <2>1, MedianIsReading, ReadingsOf
<1> HIDE DEF med
<1>4. run \in Seq(S) /\ run # << >>
  <2>1. << med >> \in Seq(S) /\ << med >> # << >>
    BY <1>3
  <2>2. Append(v.run, med) \in Seq(S) /\ Append(v.run, med) # << >>
    BY <1>1, <1>3, AppendProperties
  <2> QED
    BY <2>1, <2>2
<1> HIDE DEF run
<1>5. ModeNewest(run) \in S
  BY <1>4, ModeIsReading, ReadingsOf
<1>6. best \in Maybe(S)
  BY <1>1, <1>5 DEF Larger, Maybe
<1> HIDE DEF best
<1>7. Sustained(v, w, long) =
        IF ~Loaded(w) THEN [v EXCEPT !.window = << >>, !.run = << >>]
        ELSE IF Len(win) < FilterFrames THEN [v EXCEPT !.window = win]
        ELSE [v EXCEPT !.window = win, !.run = run, !.best = best]
  BY DEF Sustained, win, med, run, best
<1>8. << >> \in Seq(S) /\ Len(<< >>) <= FilterFrames
  BY EmptySeq, ConstantsAreNat
<1>9. CASE ~Loaded(w)
  BY <1>7, <1>8, <1>9 DEF VisitOf, Visits
<1>10. CASE Loaded(w) /\ Len(win) < FilterFrames
  BY <1>2, <1>7, <1>10 DEF VisitOf, Visits
<1>11. CASE Loaded(w) /\ ~(Len(win) < FilterFrames)
  BY <1>2, <1>4, <1>6, <1>7, <1>11 DEF VisitOf, Visits
<1> QED
  BY <1>9, <1>10, <1>11

LEMMA PeaksKeep ==
  ASSUME NEW S \in SUBSET Nat, NEW v, VisitOf(v, S),
         NEW recent \in Seq(S), recent # << >>, Len(recent) <= FilterFrames
  PROVE  VisitOf(Peaks(v, recent), S)
<1>1. recent \in Seq(Nat)
  BY SeqMonotonic
<1>2. Greatest(ToSet(recent)) \in S
  BY <1>1, GreatestReading, ReadingsOf
<1>3. Median(recent) \in S
  BY <1>1, MedianIsReading, ReadingsOf
<1>4. v.raw \in Maybe(S) /\ v.filtered \in Maybe(S)
  BY VisitFields
<1>5. Larger(v.raw, Greatest(ToSet(recent))) \in Maybe(S)
  BY <1>2, <1>4 DEF Larger, Maybe
<1>6. Larger(v.filtered, Median(recent)) \in Maybe(S)
  BY <1>3, <1>4 DEF Larger, Maybe
<1> QED
  BY <1>4, <1>5, <1>6 DEF Peaks, VisitOf, Visits

LEMMA ObserveKeeps ==
  ASSUME NEW S \in SUBSET Nat, NEW v, VisitOf(v, S),
         NEW w \in Nat, w > 0 => w \in S, NEW long
  PROVE  VisitOf(Observe(v, w, long), S)
<1>1. CASE w <= 0
  BY <1>1 DEF Observe
<1>2. CASE w > 0
  <2> DEFINE recent == Window(v.recent, w, FilterFrames)
  <2>1. v.recent \in Seq(S) /\ Len(v.recent) <= FilterFrames
    BY VisitFields
  <2>2. recent \in Seq(S) /\ recent # << >> /\ Len(recent) <= FilterFrames
    BY <1>2, <2>1, ConstantsAreNat, WindowSlides, WindowReadings
  <2> HIDE DEF recent
  <2>3. VisitOf(Sustained(v, w, long), S)
    BY <1>2, SustainedKeeps
  <2>4. VisitOf(Peaks(Sustained(v, w, long), recent), S)
    BY <2>2, <2>3, PeaksKeep
  <2> QED
    BY <1>2, <2>4 DEF Observe, recent
<1> QED
  BY <1>1, <1>2

LEMMA StartOnRiseKeeps ==
  ASSUME NEW S \in SUBSET Nat, NEW v, NEW rise \in Seq(S), rise # << >>
  PROVE  VisitOf(StartOnRise(v, rise), S)
<1> DEFINE from == Larger(1, Len(rise) - FilterFrames + 1)
           recent == SubSeq(rise, from, Len(rise))
<1>1. Len(rise) \in Nat \ {0} /\ \A i \in 1 .. Len(rise) : rise[i] \in S
  BY ReadingsOf
<1>2. from \in 1 .. Len(rise) /\ Len(rise) - from + 1 <= FilterFrames
  BY <1>1, ConstantsAreNat DEF Larger
<1> HIDE DEF from
<1>3. \A i \in from .. Len(rise) : rise[i] \in S
  BY <1>1, <1>2
<1>4. recent \in Seq(S) /\ Len(recent) = Len(rise) - from + 1
  BY <1>1, <1>2, <1>3, SubSeqProperties
<1>5. recent # << >> /\ Len(recent) <= FilterFrames
  <2>1. Len(recent) > 0 /\ Len(recent) <= FilterFrames
    BY <1>1, <1>2, <1>4
  <2>2. Len(<< >>) = 0
    BY EmptySeq
  <2> HIDE DEF recent
  <2> QED
    BY <2>1, <2>2
<1> HIDE DEF recent
<1>6. VisitOf(Peaks(NoVisit, recent), S)
  BY <1>4, <1>5, NoVisitFits, PeaksKeep
<1> QED
  BY <1>6 DEF StartOnRise, recent, from

LEMMA AssignedIsReading ==
  ASSUME NEW S, NEW v, VisitOf(v, S)
  PROVE  Assigned(v).weight \in Maybe(S)
BY VisitFields DEF Assigned

(* The samples of a rise are recorded one after the other: the sequence of   *)
(* visits that the definition speaks of is there, and each of them is of the *)
(* same readings.                                                            *)
LEMMA RecordingsExist ==
  ASSUME NEW v, NEW samples, Len(samples) \in Nat
  PROVE  \E f : f = [ n \in 0 .. Len(samples) |->
                        IF n = 0 THEN v ELSE Record(f[n - 1], samples[n]) ]
<1> DEFINE N == Len(samples)
           Upto(f, m) ==
             f = [ n \in 0 .. m |-> IF n = 0 THEN v ELSE Record(f[n - 1], samples[n]) ]
           Bad == { m \in Nat : ~ \E f : Upto(f, m) }
<1> SUFFICES ASSUME ~ \E f : Upto(f, N) PROVE FALSE
  OBVIOUS
<1>1. Bad \in SUBSET Nat /\ Bad # {}
  BY DEF Bad
<1>2. Least(Bad) \in Bad /\ \A k \in Bad : Least(Bad) <= k
  <2> HIDE DEF Bad
  <2> QED
    BY <1>1, LeastNatural
<1>3. PICK m \in Nat : ~(\E f : Upto(f, m)) /\ \A k \in Nat : k < m => \E f : Upto(f, k)
  <2>1. \A k \in Nat : k < Least(Bad) => k \notin Bad
    BY <1>2
  <2> QED
    BY <1>2, <2>1
<1>4. CASE m = 0
  <2>1. Upto([ n \in 0 .. 0 |-> v ], 0)
    OBVIOUS
  <2> QED
    BY <1>3, <1>4, <2>1
<1>5. CASE m > 0
  <2>1. PICK f : Upto(f, m - 1)
    <3>1. m - 1 \in Nat /\ m - 1 < m
      BY <1>5
    <3> HIDE DEF Upto
    <3> QED
      BY <1>3, <3>1
  <2> DEFINE g == [ n \in 0 .. m |-> IF n < m THEN f[n] ELSE Record(f[m - 1], samples[m]) ]
  <2>2. \A n \in 0 .. m : g[n] = IF n = 0 THEN v ELSE Record(g[n - 1], samples[n])
    <3> SUFFICES ASSUME NEW n \in 0 .. m
                 PROVE  g[n] = IF n = 0 THEN v ELSE Record(g[n - 1], samples[n])
      OBVIOUS
    <3>1. CASE n = 0
      BY <1>5, <2>1, <3>1
    <3>2. CASE n > 0 /\ n < m
      <4>1. n \in 0 .. m - 1 /\ g[n] = f[n] /\ g[n - 1] = f[n - 1]
        BY <3>2
      <4>2. f[n] = Record(f[n - 1], samples[n])
        BY <2>1, <3>2, <4>1
      <4> QED
        BY <3>2, <4>1, <4>2
    <3>3. CASE n = m
      <4>1. g[n] = Record(f[m - 1], samples[m]) /\ g[m - 1] = f[m - 1]
        BY <1>5, <3>3
      <4> QED
        BY <1>5, <3>3, <4>1
    <3> QED
      BY <3>1, <3>2, <3>3
  <2>3. g = [ n \in 0 .. m |-> g[n] ]
    OBVIOUS
  <2> HIDE DEF g
  <2>4. Upto(g, m)
    BY <2>2, <2>3
  <2> QED
    BY <1>3, <2>4
<1> QED
  BY <1>3, <1>4, <1>5

LEMMA RecordedAllKeeps ==
  ASSUME NEW S, NEW v, VisitOf(v, S), NEW samples \in Seq(S)
  PROVE  VisitOf(RecordedAll(v, samples), S)
<1> DEFINE N == Len(samples)
           Run(f) == f = [ n \in 0 .. N |-> IF n = 0 THEN v ELSE Record(f[n - 1], samples[n]) ]
           f == CHOOSE f : Run(f)
           Bad == { m \in 0 .. N : ~ VisitOf(f[m], S) }
<1>1. N \in Nat /\ \A n \in 1 .. N : samples[n] \in S
  BY ReadingsOf
<1>2. Run(f)
  BY <1>1, RecordingsExist
<1>3. RecordedAll(v, samples) = f[N]
  BY DEF RecordedAll
<1> HIDE DEF f
<1>4. f[0] = v /\ \A n \in 1 .. N : f[n] = Record(f[n - 1], samples[n])
  BY <1>1, <1>2
<1>5. SUFFICES ASSUME Bad # {} PROVE FALSE
  BY <1>1, <1>3
<1>6. Bad \in SUBSET Nat
  BY <1>1
<1>7. Least(Bad) \in Bad /\ \A k \in Bad : Least(Bad) <= k
  <2> HIDE DEF Bad
  <2> QED
    BY <1>5, <1>6, LeastNatural
<1>8. PICK m \in 0 .. N : ~ VisitOf(f[m], S) /\ m - 1 \notin Bad
  BY <1>1, <1>7
<1>9. m # 0
  BY <1>4, <1>8
<1>10. m \in 1 .. N /\ m - 1 \in 0 .. N
  BY <1>1, <1>8, <1>9
<1>11. VisitOf(f[m - 1], S)
  BY <1>8, <1>10
<1>12. VisitOf(f[m], S)
  BY <1>1, <1>4, <1>10, <1>11, RecordKeeps
<1> QED
  BY <1>8, <1>12

-----------------------------------------------------------------------------
(* What holds a start back: the weight of a departure is waited for only     *)
(* under its guard.                                                          *)
Ages == Nat \cup {Unset}
Holding(i) ==
  /\ i = [ attempt |-> i.attempt, rearmLow |-> i.rearmLow,
           waiting |-> i.waiting, guard |-> i.guard ]
  /\ i.waiting \in [reference : Int, low : Int]
  /\ i.guard \in [reference : Int, age : Ages]
  /\ i.waiting.reference # Unset => i.guard # NoGuard

NothingHeld == attempt = NoAttempt /\ waiting = NotWaiting /\ guard = NoGuard

AdmissionInv ==
  /\ Holding(Idle) /\ (active => NothingHeld)
  /\ Judged(feed)
  /\ trend \in Seq(Readings) /\ Len(trend) <= TrendFrames
  /\ active => /\ shown \in SUBSET Readings
               /\ LoadedIn(feed.recent) \subseteq shown
               /\ VisitOf(visit, shown)

LEMMA FollowedHolds ==
  ASSUME NEW i, Holding(i), NEW a, NEW w \in Nat
  PROVE  Holding(Followed(i, a, w))
<1>1. \A x : Holding([i EXCEPT !.attempt = x])
  BY DEF Holding
<1>2. Holding(Departed(i, w))
  <2> DEFINE d == Departed(i, w)
             moved == [i.waiting EXCEPT !.reference = w]
  <2>0. d = [i EXCEPT !.attempt = NoAttempt, !.rearmLow = w, !.waiting = moved,
                      !.guard = [reference |-> w, age |-> 0]]
    BY DEF Departed
  <2>4. moved \in [reference : Int, low : Int]
    BY DEF Holding
  <2> HIDE DEF moved
  <2>1. /\ d = [attempt |-> d.attempt, rearmLow |-> d.rearmLow,
                waiting |-> d.waiting, guard |-> d.guard]
        /\ d.waiting = moved /\ d.guard = [reference |-> w, age |-> 0]
    <3> HIDE DEF d
    <3> QED
      BY <2>0 DEF Holding
  <2>2. d.waiting \in [reference : Int, low : Int] /\ d.guard \in [reference : Int, age : Ages]
    BY <2>1, <2>4 DEF Ages
  <2>3. d.guard # NoGuard
    <3>1. d.guard.age # NoGuard.age
      BY <2>1 DEF NoGuard, Unset
    <3> QED
      BY <3>1
  <2> HIDE DEF d
  <2>5. Holding(d)
    BY <2>1, <2>2, <2>3 DEF Holding
  <2> QED
    BY <2>5 DEF d
<1> QED
  BY <1>1, <1>2 DEF Followed

LEMMA AttemptedHolds ==
  ASSUME NEW i, Holding(i), NEW w \in Nat, NEW chained
  PROVE  Holding(Attempted(i, w, chained))
<1>1. \A x : Holding([i EXCEPT !.rearmLow = x])
  BY DEF Holding
<1>2. \A a : Holding(Followed([i EXCEPT !.rearmLow = Unset], a, w))
  BY <1>1, FollowedHolds
<1> QED
  BY <1>1, <1>2 DEF Attempted

LEMMA AfterFrameHolds ==
  ASSUME Holding(Idle), NEW w \in Nat, NEW r
  PROVE  Holding(AfterFrame(w, r))
<1>1. Low(w) \in Int
  BY DEF Holding, Idle, Low, Lesser
<1>2. Holding([Idle EXCEPT !.waiting.low = Low(w)])
  BY <1>1 DEF Holding, Idle
<1>3. Holding([Idle EXCEPT !.waiting = IF waiting.reference = Unset THEN @ ELSE NotWaiting])
  BY DEF Holding, Idle, NotWaiting, Unset
<1> QED
  BY <1>2, <1>3, AttemptedHolds DEF AfterFrame

LEMMA StartsFree ==
  ASSUME NEW i, Holding(i), Started(i)
  PROVE  NothingHeld' /\ Holding(Idle)'
<1>1. attempt' = NoAttempt /\ waiting' = NotWaiting /\ guard' = NoGuard
  BY DEF Started, SetIdle, Holding
<1> QED
  BY <1>1 DEF NothingHeld, Holding, Idle, NotWaiting, NoGuard, Unset, Ages

LEMMA IdleIsSet ==
  ASSUME NEW i, Holding(i), SetIdle(i)
  PROVE  Holding(Idle)'
<1>1. Idle' = i
  BY DEF SetIdle, Idle, Holding
<1> QED
  BY <1>1 DEF Holding

LEMMA OldersHold ==
  ASSUME AdmissionInv, Tick
  PROVE  Holding(Idle)' /\ (active' => NothingHeld')
<1>1. /\ Older(Unset) = Unset
      /\ \A x \in Ages : Older(x) \in Ages /\ (Older(x) = Unset => x = Unset)
  BY DEF Older, Ages, Unset
<1>2. guard' = [guard EXCEPT !.age = Older(@)] /\ waiting' = waiting /\ active' = active
  BY DEF Tick
<1>3. guard \in [reference : Int, age : Ages] /\ waiting \in [reference : Int, low : Int]
      /\ (waiting.reference # Unset => guard # NoGuard)
  BY DEF AdmissionInv, Holding, Idle
<1>4. guard' \in [reference : Int, age : Ages]
  BY <1>1, <1>2, <1>3
<1>5. guard' = NoGuard => guard = NoGuard
  <2>1. ASSUME guard' = NoGuard PROVE guard = NoGuard
    <3>1. guard'.reference = guard.reference /\ guard'.age = Older(guard.age)
      BY <1>2, <1>3
    <3>2. guard.reference = Unset /\ guard.age = Unset
      BY <1>1, <1>3, <2>1, <3>1 DEF NoGuard
    <3> QED
      BY <1>3, <3>2 DEF NoGuard
  <2> QED
    BY <2>1
<1>6. Holding(Idle)'
  BY <1>2, <1>3, <1>4, <1>5 DEF Holding, Idle
<1>7. active => NothingHeld'
  <2>1. ASSUME active PROVE NothingHeld'
    <3>1. NothingHeld
      BY <2>1 DEF AdmissionInv
    <3> QED
      BY <1>1, <1>2, <3>1 DEF NothingHeld, Tick, NoAttempt, NoGuard
  <2> QED
    BY <2>1
<1> QED
  BY <1>2, <1>6, <1>7

-----------------------------------------------------------------------------
LEMMA SequencesOfTheirs ==
  ASSUME NEW S, NEW s \in Seq(S)
  PROVE  s \in Seq(ToSet(s))
<1>1. Len(s) \in Nat /\ \A i \in 1 .. Len(s) : s[i] \in ToSet(s)
  BY ReadingsOf
<1>2. SubSeq(s, 1, Len(s)) \in Seq(ToSet(s))
  BY <1>1, SubSeqProperties
<1> QED
  BY <1>2, SubSeqFull

LEMMA TrendIsShown ==
  ASSUME AdmissionInv, NEW w \in Readings
  PROVE  /\ Trended(w) \in Seq(Readings) /\ Len(Trended(w)) <= TrendFrames
         /\ Rising(Trended(w)) => Trended(w) # << >>
<1>1. trend \in Seq(Readings) /\ Len(trend) <= TrendFrames /\ TrendFrames \in Nat \ {0}
  BY ConstantsAreNat DEF AdmissionInv
<1>2. Window(trend, w, TrendFrames) \in Seq(Readings)
      /\ Len(Window(trend, w, TrendFrames)) <= TrendFrames
  BY <1>1, WindowSlides, WindowReadings
<1>3. << >> \in Seq(Readings) /\ Len(<< >>) = 0
  BY EmptySeq
<1> QED
  BY <1>1, <1>2, <1>3 DEF Trended, Rising

(* A session begins with the readings of its rise, and those in the window.  *)
LEMMA BeginShows ==
  ASSUME Judged(feed'), NEW rise \in Seq(Readings), NEW v, VisitOf(v, ToSet(rise)),
         NothingHeld', Holding(Idle)', Begin(rise, v)
  PROVE  AdmissionInv'
<1>1. /\ LoadedIn(feed'.recent) \subseteq ToSet(feed'.recent)
      /\ ToSet(feed'.recent) \subseteq Readings
  BY ReadingsOf DEF Judged, LoadedIn
<1>2. ToSet(rise) \subseteq Readings
  BY ReadingsOf
<1>3. shown' \in SUBSET Readings /\ LoadedIn(feed'.recent) \subseteq shown'
      /\ ToSet(rise) \subseteq shown'
  BY <1>1, <1>2 DEF Begin
<1>4. VisitOf(visit', shown')
  BY <1>3, VisitsGrow DEF Begin
<1>5. trend' \in Seq(Readings) /\ Len(trend') <= TrendFrames
  BY EmptySeq, ConstantsAreNat DEF Begin
<1>6. /\ VisitOf(visit, shown)'
      /\ Judged(feed)' /\ (LoadedIn(feed.recent))' = LoadedIn(feed'.recent)
  BY <1>4 DEF VisitOf, Visits, Maybe, Judged, LoadedIn
<1> QED
  BY <1>3, <1>5, <1>6 DEF AdmissionInv

LEMMA IdleFrameKeeps ==
  ASSUME AdmissionInv, ~active, NEW w \in Readings, NEW r, Judged(feed'), IdleFrame(w, r)
  PROVE  AdmissionInv'
<1> DEFINE next == AfterFrame(w, r)
           rise == Trended(w)
<1>1. Holding(next)
  BY AfterFrameHolds, ConstantsAreNat DEF AdmissionInv
<1>2. rise \in Seq(Readings) /\ Len(rise) <= TrendFrames /\ (Rising(rise) => rise # << >>)
  BY TrendIsShown
<1>3. \/ Rising(rise) /\ Started(next) /\ Begin(rise, StartOnRise(visit, rise))
      \/ SetIdle(next) /\ trend' \in {trend, rise} /\ UNCHANGED active
  BY DEF IdleFrame
<1> HIDE DEF next, rise
<1>4. CASE Rising(rise) /\ Started(next) /\ Begin(rise, StartOnRise(visit, rise))
  <2>1. ToSet(rise) \in SUBSET Nat /\ rise \in Seq(ToSet(rise)) /\ rise # << >>
    BY <1>2, <1>4, ReadingsOf, SequencesOfTheirs, ConstantsAreNat
  <2>2. VisitOf(StartOnRise(visit, rise), ToSet(rise))
    BY <2>1, StartOnRiseKeeps
  <2>3. NothingHeld' /\ Holding(Idle)'
    BY <1>1, <1>4, StartsFree
  <2> QED
    BY <1>2, <1>4, <2>2, <2>3, BeginShows
<1>5. CASE SetIdle(next) /\ trend' \in {trend, rise} /\ UNCHANGED active
  <2>1. Holding(Idle)'
    BY <1>1, <1>5, IdleIsSet
  <2>2. trend' \in Seq(Readings) /\ Len(trend') <= TrendFrames
    BY <1>2, <1>5 DEF AdmissionInv
  <2>3. Judged(feed)'
    BY DEF Judged
  <2> QED
    BY <1>5, <2>1, <2>2, <2>3 DEF AdmissionInv
<1> QED
  BY <1>3, <1>4, <1>5

(* A frame of a session: what it adds to the visit is shown by it.           *)
LEMMA SessionVisit ==
  ASSUME AdmissionInv, active, NEW w \in Readings, NEW long,
         feed' = Received(w), Judged(feed'), SessionFrame(w, StatusOf(feed'), long)
  PROVE  /\ shown' \in SUBSET Readings /\ LoadedIn(feed'.recent) \subseteq shown'
         /\ VisitOf(Observe(visit, w, long), shown')
         /\ VisitOf(visit', shown')
<1> DEFINE r == StatusOf(feed')
           seen == Observe(visit, w, long)
<1>1. w \in Nat /\ Threshold \in Nat
  BY ConstantsAreNat
<1>2. shown' = IF w > 0 THEN shown \cup {w} ELSE shown
  BY DEF SessionFrame
<1>3. /\ shown \in SUBSET Readings
      /\ LoadedIn(feed.recent) \subseteq shown /\ VisitOf(visit, shown)
      /\ Judged(feed)
  BY DEF AdmissionInv
<1>4. shown' \in SUBSET Readings /\ shown \subseteq shown' /\ (w > 0 => w \in shown')
  BY <1>2, <1>3
<1>5. LoadedIn(feed'.recent) \subseteq shown'
  <2>1. ToSet(feed'.recent) \subseteq ToSet(feed.recent) \cup {w}
    BY <1>3, ReceivedIsJudged
  <2>2. Loaded(w) => w > 0
    BY <1>1 DEF Loaded
  <2> QED
    BY <1>3, <1>4, <2>1, <2>2 DEF LoadedIn
<1>6. VisitOf(seen, shown')
  <2>1. shown' \in SUBSET Nat
    BY <1>4, ConstantsAreNat
  <2>2. VisitOf(visit, shown')
    BY <1>3, <1>4, VisitsGrow
  <2> QED
    BY <1>1, <1>4, <2>1, <2>2, ObserveKeeps
<1>7. CASE r.status = "stable"
  <2>1. r.stable \in ToSet(feed'.recent)
    BY <1>7, StableIsReading
  <2>2. Loaded(r.stable) => r.stable \in shown'
    BY <1>5, <2>1 DEF LoadedIn
  <2>3. visit' = Record(seen, r.stable)
    BY <1>7 DEF SessionFrame
  <2> HIDE DEF r, seen
  <2>4. VisitOf(Record(seen, r.stable), shown')
    BY <1>6, <2>2, RecordKeeps
  <2> QED
    BY <1>4, <1>5, <1>6, <2>3, <2>4 DEF seen
<1>8. CASE r.status # "stable"
  <2>1. visit' = CloseEpisode(seen)
    BY <1>8 DEF SessionFrame
  <2> HIDE DEF r, seen
  <2>2. VisitOf(CloseEpisode(seen), shown')
    BY <1>6, CloseKeeps
  <2> QED
    BY <1>4, <1>5, <1>6, <2>1, <2>2 DEF seen
<1> QED
  BY <1>7, <1>8

LEMMA SessionFrameShows ==
  ASSUME AdmissionInv, active, NEW w \in Readings, NEW long,
         feed' = Received(w), Judged(feed'), SessionFrame(w, StatusOf(feed'), long)
  PROVE  AdmissionInv'
<1>1. /\ shown' \in SUBSET Readings /\ LoadedIn(feed'.recent) \subseteq shown'
      /\ VisitOf(visit', shown')
  BY SessionVisit
<1>2. UNCHANGED << active, attempt, rearmLow, waiting, guard, trend >>
  BY DEF SessionFrame, idleVars
<1>3. /\ VisitOf(visit, shown)' /\ Judged(feed)'
      /\ (LoadedIn(feed.recent))' = LoadedIn(feed'.recent)
  BY <1>1 DEF VisitOf, Visits, Maybe, Judged, LoadedIn
<1>4. Holding(Idle)' /\ NothingHeld'
  BY <1>2 DEF AdmissionInv, Holding, Idle, NothingHeld
<1> QED
  BY <1>1, <1>2, <1>3, <1>4 DEF AdmissionInv

LEMMA PassingKeeps ==
  ASSUME AdmissionInv, ~active, Judged(feed'), active' = active, UNCHANGED << idleVars, trend >>
  PROVE  AdmissionInv'
<1>1. Judged(feed)' /\ Holding(Idle)'
  BY DEF AdmissionInv, Judged, Holding, Idle, idleVars
<1> QED
  BY <1>1 DEF AdmissionInv

LEMMA RearmingKeeps ==
  ASSUME AdmissionInv, NEW w \in Readings, RearmingFrame(w), Judged(feed')
  PROVE  AdmissionInv'
<1>1. Holding(Rearmed)
  <2>1. Rearmed = [attempt |-> attempt, rearmLow |-> rearmLow,
                   waiting |-> NotWaiting, guard |-> NoGuard]
    <3> DEFINE i == Idle
    <3>1. i = [attempt |-> attempt, rearmLow |-> rearmLow, waiting |-> waiting, guard |-> guard]
      BY DEF Idle
    <3>2. Rearmed = [i EXCEPT !.waiting = NotWaiting, !.guard = NoGuard]
      BY DEF Rearmed
    <3> HIDE DEF i
    <3> QED
      BY <3>1, <3>2
  <2> HIDE DEF Rearmed
  <2> QED
    BY <2>1 DEF Holding, NotWaiting, NoGuard, Unset, Ages
<1>2. Holding(Idle)'
  <2> QED
    BY <1>1, AttemptedHolds, IdleIsSet, ConstantsAreNat DEF RearmingFrame
<1>3. Judged(feed)' /\ trend' \in Seq(Readings) /\ Len(trend') <= TrendFrames
  BY EmptySeq, ConstantsAreNat DEF RearmingFrame, Judged
<1> QED
  BY <1>2, <1>3 DEF AdmissionInv, RearmingFrame

LEMMA SessionGoesOn ==
  ASSUME AdmissionInv, Judged(feed'), LoadedIn(feed'.recent) \subseteq LoadedIn(feed.recent),
         Holding(Idle)', active' => NothingHeld', UNCHANGED << active, visit, trend, shown >>
  PROVE  AdmissionInv'
<1>1. Judged(feed)' /\ (LoadedIn(feed.recent))' = LoadedIn(feed'.recent)
      /\ (VisitOf(visit, shown))' = VisitOf(visit, shown)
  BY DEF Judged, LoadedIn, VisitOf, Visits, Maybe
<1> QED
  BY <1>1 DEF AdmissionInv

LEMMA DepartureStarts ==
  ASSUME AdmissionInv, NEW samples \in Samples, StartAfterDeparture(samples)
  PROVE  AdmissionInv'
<1>1. PICK n \in 1 .. MaxSamples : samples \in [1 .. n -> { w \in Readings : Loaded(w) }]
  BY DEF Samples, Readings
<1>2. samples \in Seq(Readings) /\ samples # << >> /\ Len(samples) = n /\ n \in Nat \ {0}
  <2>1. n \in Nat \ {0} /\ samples \in [1 .. n -> Readings]
    BY <1>1, AdmissionAssumption
  <2>2. samples \in Seq(Readings) /\ Len(samples) = n
    BY <2>1
  <2> QED
    BY <2>1, <2>2, EmptySeq
<1>3. ToSet(samples) \in SUBSET Nat /\ samples \in Seq(ToSet(samples))
  BY <1>2, ReadingsOf, SequencesOfTheirs, ConstantsAreNat
<1>4. VisitOf(RecordedAll(StartOnRise(visit, samples), samples), ToSet(samples))
  BY <1>2, <1>3, StartOnRiseKeeps, RecordedAllKeeps
<1>5. Judged(feed')
  <2>1. samples[Len(samples)] \in Readings
    BY <1>2, ReadingsOf
  <2>2. feed' = Received(samples[Len(samples)])
    BY DEF StartAfterDeparture, Last
  <2> QED
    BY <2>1, <2>2, ReceivedIsJudged DEF AdmissionInv
<1>6. NothingHeld' /\ Holding(Idle)'
  BY StartsFree DEF StartAfterDeparture, AdmissionInv
<1> QED
  BY <1>2, <1>4, <1>5, <1>6, BeginShows DEF StartAfterDeparture

LEMMA PlateStarts ==
  ASSUME AdmissionInv, StartByPlate
  PROVE  AdmissionInv'
<1>1. NothingHeld' /\ Holding(Idle)'
  BY StartsFree DEF StartByPlate, AdmissionInv
<1>2. VisitOf(visit, shown)'
  <2>1. VisitOf(NoVisit, shown')
    BY NoVisitFits
  <2> QED
    BY <2>1 DEF StartByPlate, VisitOf, Visits, Maybe
<1>3. trend' \in Seq(Readings) /\ Len(trend') <= TrendFrames
  BY EmptySeq, ConstantsAreNat DEF StartByPlate
<1>4. shown' \in SUBSET Readings
  BY ReadingsOf DEF StartByPlate, AdmissionInv, Judged, LoadedIn
<1>5. Judged(feed)' /\ (LoadedIn(feed.recent))' \subseteq shown'
  BY DEF StartByPlate, AdmissionInv, Judged, LoadedIn
<1> QED
  BY <1>1, <1>2, <1>3, <1>4, <1>5 DEF AdmissionInv

LEMMA AdmissionStarts == Init => AdmissionInv
<1> SUFFICES ASSUME Init PROVE AdmissionInv
  OBVIOUS
<1>1. Holding(Idle)
  BY DEF Init, Holding, Idle, NotWaiting, NoGuard, Unset, Ages
<1>2. Judged(feed) /\ trend \in Seq(Readings) /\ Len(trend) <= TrendFrames
  BY EmptySeq, ConstantsAreNat DEF Init, Judged, NoFeed
<1> QED
  BY <1>1, <1>2 DEF Init, AdmissionInv

LEMMA AdmissionStep == AdmissionInv /\ [Next]_vars => AdmissionInv'
<1> SUFFICES ASSUME AdmissionInv, [Next]_vars PROVE AdmissionInv'
  OBVIOUS
<1>0. Judged(feed) /\ Judged(NoFeed) /\ LoadedIn(NoFeed.recent) = {}
  BY EmptySeq, ConstantsAreNat DEF AdmissionInv, Judged, NoFeed, LoadedIn, ToSet
<1>1. ASSUME NEW w \in Readings, Frame(w) PROVE AdmissionInv'
  <2>1. Judged(feed') /\ feed' = Received(w)
    BY <1>0, <1>1, ReceivedIsJudged DEF Frame
  <2>2. CASE ~active /\ IdleFrame(w, StatusOf(feed'))
    BY <2>1, <2>2, IdleFrameKeeps
  <2>3. CASE active /\ \E long \in BOOLEAN : SessionFrame(w, StatusOf(feed'), long)
    BY <2>1, <2>3, SessionFrameShows
  <2> QED
    BY <1>1, <2>2, <2>3 DEF Frame
<1>2. ASSUME NEW w \in Readings, PassingFrame(w) \/ RearmingFrame(w) PROVE AdmissionInv'
  <2>1. Judged(feed')
    BY <1>0, <1>2, ReceivedIsJudged DEF PassingFrame, RearmingFrame
  <2>2. CASE PassingFrame(w)
    BY <2>1, <2>2, PassingKeeps DEF PassingFrame
  <2>3. CASE RearmingFrame(w)
    BY <2>1, <2>3, RearmingKeeps
  <2> QED
    BY <1>2, <2>2, <2>3
<1>3. CASE \E samples \in Samples : StartAfterDeparture(samples)
  BY <1>3, DepartureStarts
<1>4. CASE StartByPlate
  BY <1>4, PlateStarts
<1>5. ASSUME NEW stable, End(stable) PROVE AdmissionInv'
  <2>1. trend' \in Seq(Readings) /\ Len(trend') <= TrendFrames
    BY <1>5, EmptySeq, ConstantsAreNat DEF End
  <2>2. Judged(feed)' /\ Holding(Idle)' /\ ~active'
    BY <1>5 DEF End, AdmissionInv, Judged, Holding, Idle, idleVars
  <2> QED
    BY <2>1, <2>2 DEF AdmissionInv
<1>6. CASE Gap
  <2>1. Judged(feed') /\ LoadedIn(feed'.recent) \subseteq LoadedIn(feed.recent)
    BY <1>0, <1>6 DEF Gap
  <2>2. UNCHANGED << active, visit, trend, shown, attempt, rearmLow, waiting, guard >>
    BY <1>6 DEF Gap, idleVars
  <2>3. Holding(Idle)' /\ (active' => NothingHeld')
    BY <2>2 DEF AdmissionInv, Holding, Idle, NothingHeld
  <2> QED
    BY <2>1, <2>2, <2>3, SessionGoesOn
<1>7. CASE Tick
  <2>1. UNCHANGED << feed, active, visit, trend, shown >>
    BY <1>7 DEF Tick
  <2> QED
    BY <1>0, <1>7, <2>1, OldersHold, SessionGoesOn
<1>8. CASE UNCHANGED vars
  <2>1. UNCHANGED << feed, active, visit, trend, shown, attempt, rearmLow, waiting, guard >>
    BY <1>8 DEF vars, idleVars
  <2>2. Holding(Idle)' /\ (active' => NothingHeld')
    BY <2>1 DEF AdmissionInv, Holding, Idle, NothingHeld
  <2> QED
    BY <1>0, <2>1, <2>2, SessionGoesOn
<1> QED
  BY <1>1, <1>2, <1>3, <1>4, <1>5, <1>6, <1>7, <1>8 DEF Next, Readings

LEMMA AdmissionInvariance == Spec => []AdmissionInv
BY AdmissionStarts, AdmissionStep, PTL DEF Spec

(* The weight a session would be given was shown by the scale in its visit:  *)
(* no weight is left of the vehicle before, whatever was recorded.           *)
THEOREM AssignedIsShown == Spec => []AssignedWasShown
<1>1. AdmissionInv => AssignedWasShown
  <2> SUFFICES ASSUME AdmissionInv, active PROVE Assigned(visit).weight \in shown \cup {Unset}
    BY DEF AssignedWasShown
  <2> QED
    BY AssignedIsReading DEF AdmissionInv, Maybe
<1> QED
  BY AdmissionInvariance, <1>1, PTL

(* What holds back a start is set and cleared together, in every attempt,    *)
(* departure and wait.                                                       *)
THEOREM HoldsTogether == Spec => []HoldsAgree
<1>1. AdmissionInv => HoldsAgree
  BY DEF AdmissionInv, HoldsAgree, NothingHeld, Holding, Idle
<1> QED
  BY AdmissionInvariance, <1>1, PTL

-----------------------------------------------------------------------------
(* What a visit records leaves the plateau it keeps, or a higher one.        *)
LEMMA ClosedKeepsPlateau ==
  ASSUME NEW S \in SUBSET Nat, NEW v, VisitOf(v, S), v.retained # Unset
  PROVE  /\ CloseEpisode(v).stable = v.stable
         /\ CloseEpisode(v).retained \in Nat /\ CloseEpisode(v).retained >= v.retained
<1>1. v.retained \in Nat /\ v \in Visits(S)
  BY VisitFields DEF Maybe
<1>2. v.episode # << >> => ModeNewest(v.episode) \in Nat
  BY VisitFields, ModeIsReading, ReadingsOf
<1>3. Outweighs(v) => ModeNewest(v.episode) \in Nat /\ ModeNewest(v.episode) > v.retained + Band
  BY <1>2, EmptySeq DEF Outweighs
<1> QED
  BY <1>1, <1>3, ConstantsAreNat DEF CloseEpisode, Visits

LEMMA PublishedNearPlateau ==
  ASSUME NEW S \in SUBSET Nat, NEW v, VisitOf(v, S), v.retained # Unset, v.history # << >>
  PROVE  Publish(v).stable \in Nat /\ Publish(v).stable >= v.retained - Band
<1> DEFINE often == ModeNewest(v.history)
           mode == ModeNewest(v.episode)
<1>1. v.retained \in Nat /\ v \in Visits(S) /\ Band \in Nat
  BY VisitFields, ConstantsAreNat DEF Maybe
<1>2. often \in Nat
  BY VisitFields, ModeIsReading, ReadingsOf
<1>3. Outweighs(v) => mode \in Nat /\ mode > v.retained + Band
  <2>1. v.episode # << >> => mode \in Nat
    BY VisitFields, ModeIsReading, ReadingsOf
  <2> QED
    BY <2>1, EmptySeq, <1>1 DEF Outweighs
<1>4. Publish(v).stable =
        IF Outweighs(v) THEN mode ELSE IF Apart(often, v.retained) THEN v.retained ELSE often
  BY <1>1 DEF Publish, Visits
<1> HIDE DEF often, mode
<1>5. ~Apart(often, v.retained) => often >= v.retained - Band
  BY <1>1, <1>2 DEF Apart, Larger
<1> QED
  BY <1>1, <1>2, <1>3, <1>4, <1>5

LEMMA RecordedNearPlateau ==
  ASSUME NEW S \in SUBSET Nat, NEW v, VisitOf(v, S), v.retained # Unset,
         NEW w, Loaded(w) => w \in S
  PROVE  Record(v, w).stable = v.stable \/ Record(v, w).stable >= v.retained - Band
<1>1. CASE ~Loaded(w)
  BY <1>1 DEF Record
<1>2. CASE Loaded(w)
  <2> DEFINE u == IF v.episode # << >> /\ Spread(Append(v.episode, w)) > Band
                    THEN CloseEpisode(v) ELSE v
             h == Window(u.history, w, HistoryWindow)
             e == Append(u.episode, w)
             x == [u EXCEPT !.history = h, !.episode = e]
  <2>1. v.retained \in Nat /\ Band \in Nat
    BY VisitFields, ConstantsAreNat DEF Maybe
  <2>2. VisitOf(u, S) /\ u.retained \in Nat /\ u.retained >= v.retained
    BY <2>1, CloseKeeps, ClosedKeepsPlateau
  <2> HIDE DEF u
  <2>3. u.history \in Seq(S) /\ Len(u.history) <= HistoryWindow /\ u.episode \in Seq(S)
    BY <2>2, VisitFields
  <2>4. h \in Seq(S) /\ h # << >> /\ Len(h) <= HistoryWindow
    BY <1>2, <2>3, ConstantsAreNat, WindowSlides, WindowReadings
  <2>5. e \in Seq(S)
    BY <1>2, <2>3
  <2> HIDE DEF h, e
  <2>6. VisitOf(x, S) /\ x.history # << >> /\ x.retained = u.retained
    BY <2>2, <2>4, <2>5 DEF VisitOf, Visits
  <2>7. Record(v, w) = Publish(x)
    BY <1>2 DEF Record, u, h, e
  <2> HIDE DEF x
  <2>8. x.retained # Unset
    BY <2>2, <2>6 DEF Unset
  <2>9. Publish(x).stable \in Nat /\ Publish(x).stable >= x.retained - Band
    BY <2>6, <2>8, PublishedNearPlateau
  <2> QED
    BY <2>1, <2>2, <2>6, <2>7, <2>9
<1> QED
  BY <1>1, <1>2

(* The peaks of a frame change nothing of what is recorded.                  *)
LEMMA ObservedAsRecorded ==
  ASSUME NEW S, NEW v, VisitOf(v, S), NEW w, NEW long
  PROVE  /\ Observe(v, w, long).stable = v.stable
         /\ Observe(v, w, long).retained = v.retained
<1>1. v \in Visits(S)
  BY VisitFields
<1>2. ASSUME NEW x, x.stable = v.stable, x.retained = v.retained,
             DOMAIN x = DOMAIN v, NEW recent
      PROVE  Peaks(x, recent).stable = v.stable /\ Peaks(x, recent).retained = v.retained
  BY <1>1, <1>2 DEF Peaks, Visits
<1>3. /\ Sustained(v, w, long).stable = v.stable
      /\ Sustained(v, w, long).retained = v.retained
      /\ DOMAIN Sustained(v, w, long) = DOMAIN v
  BY <1>1 DEF Sustained, Visits
<1> QED
  BY <1>2, <1>3 DEF Observe

LEMMA FramesKeepPlateau ==
  ASSUME AdmissionInv, active, visit.retained # Unset,
         NEW w \in Readings, NEW long, feed' = Received(w),
         SessionFrame(w, StatusOf(feed'), long)
  PROVE  visit'.stable = visit.stable \/ visit'.stable >= visit.retained - Band
<1> DEFINE r == StatusOf(feed')
           seen == Observe(visit, w, long)
<1>1. Judged(feed')
  BY ReceivedIsJudged DEF AdmissionInv
<1>2. shown' \in SUBSET Nat /\ LoadedIn(feed'.recent) \subseteq shown' /\ VisitOf(seen, shown')
  BY <1>1, SessionVisit, ConstantsAreNat
<1>3. seen.stable = visit.stable /\ seen.retained = visit.retained
  BY ObservedAsRecorded DEF AdmissionInv
<1>4. CASE r.status = "stable"
  <2>1. Loaded(r.stable) => r.stable \in shown'
    BY <1>1, <1>2, <1>4, StableIsReading DEF LoadedIn
  <2>2. visit' = Record(seen, r.stable)
    BY <1>4 DEF SessionFrame
  <2> HIDE DEF seen, r
  <2> QED
    BY <1>2, <1>3, <2>1, <2>2, RecordedNearPlateau
<1>5. CASE r.status # "stable"
  <2>1. visit' = CloseEpisode(seen)
    BY <1>5 DEF SessionFrame
  <2> HIDE DEF seen, r
  <2> QED
    BY <1>2, <1>3, <2>1, ClosedKeepsPlateau
<1> QED
  BY <1>4, <1>5

(* A lower plateau, however long, never takes the place of one that is kept: *)
(* the published weight goes nowhere below its band, for any readings.       *)
THEOREM PlateausStay == Spec => PlateauIsKept
<1> DEFINE Stays == active /\ active' /\ visit.retained # Unset =>
                     \/ visit'.stable = visit.stable
                     \/ visit'.stable >= visit.retained - Band
<1>1. AdmissionInv /\ [Next]_vars => [Stays]_vars
  <2> SUFFICES ASSUME AdmissionInv, Next, active, active', visit.retained # Unset
               PROVE  \/ visit'.stable = visit.stable
                      \/ visit'.stable >= visit.retained - Band
    OBVIOUS
  <2>1. CASE \E w \in Readings : Frame(w)
    BY <2>1, FramesKeepPlateau DEF Frame
  <2>2. CASE \E w \in Readings : PassingFrame(w) \/ RearmingFrame(w)
    BY <2>2 DEF PassingFrame, RearmingFrame
  <2>3. CASE \E samples \in Samples : StartAfterDeparture(samples)
    BY <2>3 DEF StartAfterDeparture
  <2>4. CASE StartByPlate \/ (\E stable : End(stable))
    BY <2>4 DEF StartByPlate, End
  <2>5. CASE Gap \/ Tick
    BY <2>5 DEF Gap, Tick
  <2> QED
    BY <2>1, <2>2, <2>3, <2>4, <2>5 DEF Next, Readings
<1> QED
  BY AdmissionInvariance, <1>1, PTL DEF Spec, PlateauIsKept

-----------------------------------------------------------------------------
(* The thread of the reader ends only on stop(), or with a failure it told.  *)
Awake ==
  /\ ~running => stopped \/ thread = "ended"
  /\ NoSilentEnd

LEMMA AwakeStarts == ReaderInit => Awake
BY DEF ReaderInit, Awake, NoSilentEnd

LEMMA LeaveAwake ==
  ASSUME Awake, thread # "ended", Leave("stopped"), UNCHANGED stopped
  PROVE  Awake'
BY DEF Awake, NoSilentEnd, Leave

LEMMA GoOnAwake ==
  ASSUME Awake, thread # "ended", GoOn, UNCHANGED << running, stopped >>
  PROVE  Awake'
BY DEF Awake, NoSilentEnd, GoOn

LEMMA FailAwake == ASSUME Fail PROVE Awake'
BY DEF Awake, NoSilentEnd, Fail

LEMMA SameAwake ==
  ASSUME Awake, UNCHANGED << thread, running, state, told, stopped >> PROVE Awake'
BY DEF Awake, NoSilentEnd

LEMMA ReceiveAwake ==
  ASSUME Awake, thread # "ended", NEW found, Receive(found), UNCHANGED stopped
  PROVE  Awake'
BY LeaveAwake, GoOnAwake DEF Receive

LEMMA AwakeStep == Awake /\ [ReaderNext]_readerVars => Awake'
<1> SUFFICES ASSUME Awake, [ReaderNext]_readerVars PROVE Awake'
  OBVIOUS
<1>1. CASE Open
  <2>1. CASE running
    BY <1>1, <2>1 DEF Open, Awake, NoSilentEnd
  <2>2. CASE ~running
    BY <1>1, <2>2, LeaveAwake DEF Open
  <2> QED
    BY <2>1, <2>2
<1>2. CASE OpenFails
  BY <1>2, FailAwake, LeaveAwake DEF OpenFails
<1>3. CASE Retry
  BY <1>3 DEF Retry, Awake, NoSilentEnd
<1>4. CASE \E n \in 1 .. FrameSize, f \in Kinds : Read(n, f)
  BY <1>4, ReceiveAwake DEF Read, Feed
<1>5. CASE ReadNothing
  BY <1>5, ReceiveAwake DEF ReadNothing
<1>6. CASE ReadFails
  BY <1>6, LeaveAwake DEF ReadFails
<1>7. CASE ReadBreaks
  BY <1>7, FailAwake DEF ReadBreaks
<1>8. CASE \E byte \in Noise : ReadNoise(byte)
  BY <1>8, ReceiveAwake DEF ReadNoise, Feed
<1>9. CASE Truncate \/ Unplug \/ Plug
  BY <1>9, SameAwake DEF Truncate, Unplug, Plug, health
<1>10. CASE Silence
  BY <1>10, SameAwake DEF Silence
<1>11. CASE Stop
  BY <1>11 DEF Stop, Awake, NoSilentEnd
<1>12. CASE UNCHANGED readerVars
  BY <1>12, SameAwake DEF readerVars, health
<1> QED
  BY <1>1, <1>2, <1>3, <1>4, <1>5, <1>6, <1>7, <1>8, <1>9, <1>10, <1>11, <1>12
     DEF ReaderNext, Reader

(* However the port fails, a thread that ended was stopped or has told the   *)
(* main loop of its failure.                                                 *)
THEOREM EndsAreTold == ReaderSpec => []NoSilentEnd
<1>1. Awake => NoSilentEnd
  BY DEF Awake
<1> QED
  BY AwakeStarts, AwakeStep, <1>1, PTL DEF ReaderSpec

-----------------------------------------------------------------------------
(* What the reader judges is the end of what it read: its window is the last *)
(* frames since an interruption, and as many of the newest as it counted are *)
(* equal.                                                                    *)
Trails == Weights \cup {Interruption}

EndOf(f, t) ==
  /\ t \in Seq(Trails) /\ Len(t) <= StableCount
  /\ f.recent \in Seq(Weights) /\ Len(f.recent) <= Len(t) /\ f.count \in Nat
  /\ \A i \in 1 .. Len(f.recent) : f.recent[i] = t[Len(t) - Len(f.recent) + i]
  /\ f.count <= Len(f.recent) \/ Len(f.recent) = StableCount
  /\ \A i \in 1 .. Len(f.recent) : i > Len(f.recent) - f.count => f.recent[i] = f.same

LEMMA GapEnds ==
  ASSUME NEW t \in Seq(Trails), Len(t) <= StableCount
  PROVE  EndOf(NoFeed, Window(t, Interruption, StableCount))
<1> DEFINE u == Window(t, Interruption, StableCount)
<1>1. u \in Seq(Trails) /\ Len(u) <= StableCount
  <2>1. Interruption \in Trails /\ StableCount \in Nat \ {0}
    BY ConstantsAreNat DEF Trails
  <2> QED
    BY <2>1, WindowSlides, WindowReadings
<1>2. << >> \in Seq(Weights) /\ Len(<< >>) = 0 /\ Len(u) \in Nat
  BY <1>1, EmptySeq
<1> HIDE DEF u
<1>3. EndOf(NoFeed, u)
  BY <1>1, <1>2 DEF EndOf, NoFeed
<1> QED
  BY <1>3 DEF u

LEMMA FrameEnds ==
  ASSUME NEW f, NEW t, EndOf(f, t), NEW w \in Weights
  PROVE  EndOf(Weighed(f, w), Window(t, w, StableCount))
<1> DEFINE q == f.recent
           c == f.count
           g == Weighed(f, w)
           r == Window(q, w, StableCount)
           u == Window(t, w, StableCount)
           d == g.count
<1>1. /\ t \in Seq(Trails) /\ Len(t) <= StableCount /\ Len(t) \in Nat
      /\ q \in Seq(Weights) /\ Len(q) <= Len(t) /\ c \in Nat /\ Len(q) \in Nat
      /\ \A i \in 1 .. Len(q) : q[i] = t[Len(t) - Len(q) + i]
      /\ c <= Len(q) \/ Len(q) = StableCount
      /\ \A i \in 1 .. Len(q) : i > Len(q) - c => q[i] = f.same
  <2>1. t \in Seq(Trails) /\ q \in Seq(Weights) /\ c \in Nat
    BY DEF EndOf
  <2>2. Len(t) \in Nat /\ Len(q) \in Nat
    BY <2>1
  <2> QED
    BY <2>1, <2>2 DEF EndOf
<1>2. StableCount \in Nat \ {0} /\ ExactCount \in Nat \ {0} /\ w \in Trails
      /\ Len(q) <= StableCount
  BY <1>1, ConstantsAreNat DEF Trails
<1>3. /\ g.recent = r /\ g.same = w
      /\ d = IF w # f.same THEN 1 ELSE IF c < ExactCount THEN c + 1 ELSE ExactCount
  BY DEF Weighed
<1> HIDE DEF q, c, g, d
<1>4. /\ r \in Seq(Weights) /\ r[Len(r)] = w
      /\ Len(r) = IF Len(q) < StableCount THEN Len(q) + 1 ELSE StableCount
      /\ \A i \in 1 .. Len(r) - 1 : r[i] = q[Len(q) - Len(r) + 1 + i]
  <2> HIDE DEF u
  <2>1. q \in Seq(Weights) /\ Len(q) <= StableCount /\ StableCount \in Nat \ {0}
    BY <1>1, <1>2
  <2> QED
    BY <2>1, WindowSlides
<1>5. /\ u \in Seq(Trails) /\ u[Len(u)] = w
      /\ Len(u) = IF Len(t) < StableCount THEN Len(t) + 1 ELSE StableCount
      /\ \A i \in 1 .. Len(u) - 1 : u[i] = t[Len(t) - Len(u) + 1 + i]
  <2> HIDE DEF r
  <2>1. /\ t \in Seq(Trails) /\ Len(t) <= StableCount /\ StableCount \in Nat \ {0}
        /\ w \in Trails
    BY <1>1, <1>2
  <2> QED
    BY <2>1, WindowSlides
<1> HIDE DEF r, u
<1>6. Len(r) \in Nat /\ Len(u) \in Nat /\ Len(u) <= StableCount /\ Len(r) <= Len(u)
  BY <1>1, <1>2, <1>4, <1>5
<1>7. ASSUME NEW i \in 1 .. Len(r) PROVE r[i] = u[Len(u) - Len(r) + i]
  <2>1. CASE i = Len(r)
    BY <1>4, <1>5, <1>6, <2>1
  <2>2. CASE i \in 1 .. Len(r) - 1
    <3> DEFINE k == Len(q) - Len(r) + 1 + i
               j == Len(u) - Len(r) + i
    <3>1. k \in 1 .. Len(q) /\ r[i] = q[k]
      <4>1. r[i] = q[Len(q) - Len(r) + 1 + i]
        BY <1>4, <2>2
      <4>2. Len(r) <= Len(q) + 1 /\ Len(q) \in Nat /\ Len(r) \in Nat
        BY <1>1, <1>2, <1>4, <1>6
      <4> QED
        BY <2>2, <4>1, <4>2
    <3>2. q[k] = t[Len(t) - Len(q) + k]
      BY <1>1, <3>1
    <3>3. j \in 1 .. Len(u) - 1 /\ Len(t) - Len(u) + 1 + j = Len(t) - Len(q) + k
      BY <1>1, <1>6, <2>2
    <3>4. u[j] = t[Len(t) - Len(q) + k]
      BY <1>5, <3>3
    <3> QED
      BY <3>1, <3>2, <3>4
  <2> QED
    BY <1>6, <2>1, <2>2
<1>8. d \in Nat /\ d <= c + 1 /\ (w # f.same => d = 1)
  BY <1>1, <1>2, <1>3
<1>9. d <= Len(r) \/ Len(r) = StableCount
  BY <1>1, <1>2, <1>4, <1>8
<1>10. ASSUME NEW i \in 1 .. Len(r), i > Len(r) - d PROVE r[i] = w
  <2>1. CASE i = Len(r)
    BY <1>4, <2>1
  <2>2. CASE i # Len(r)
    <3>1. d # 1 /\ w = f.same
      BY <1>6, <1>8, <1>10, <2>2
    <3>2. Len(q) - Len(r) + 1 + i \in 1 .. Len(q) /\ i \in 1 .. Len(r) - 1
      BY <1>1, <1>2, <1>4, <1>6, <2>2
    <3>3. Len(q) - Len(r) + 1 + i > Len(q) - c
      BY <1>1, <1>6, <1>8, <1>10
    <3> QED
      BY <1>1, <1>4, <3>1, <3>2, <3>3
  <2> QED
    BY <2>1, <2>2
<1>11. EndOf(g, u)
  BY <1>3, <1>4, <1>5, <1>6, <1>7, <1>8, <1>9, <1>10 DEF EndOf, d
<1> QED
  BY <1>11 DEF g, u

LEMMA HandleEnds ==
  ASSUME NEW s, EndOf(s.feed, s.trail), NEW f
  PROVE  EndOf(Handle(s, f).feed, Handle(s, f).trail)
<1>1. s.trail \in Seq(Trails) /\ Len(s.trail) <= StableCount
  BY DEF EndOf
<1>2. CASE f \in Weights
  BY <1>2, FrameEnds DEF Handle
<1>3. CASE f \notin Weights
  BY <1>1, <1>3, GapEnds DEF Handle
<1> QED
  BY <1>2, <1>3

(* A stable reading was shown.                                               *)
LEMMA EndIsShown ==
  ASSUME EndOf(feed, trail)
  PROVE  StableWasShown
<1> DEFINE q == feed.recent
           x == StatusOf(feed).stable
           n == Len(trail)
<1>1. /\ trail \in Seq(Trails) /\ n <= StableCount /\ n \in Nat
      /\ q \in Seq(Weights) /\ Len(q) <= n /\ feed.count \in Nat /\ Len(q) \in Nat
      /\ \A i \in 1 .. Len(q) : q[i] = trail[n - Len(q) + i]
      /\ feed.count <= Len(q) \/ Len(q) = StableCount
      /\ \A i \in 1 .. Len(q) : i > Len(q) - feed.count => q[i] = feed.same
      /\ StableCount \in Nat \ {0} /\ ExactCount \in Nat \ {0} /\ Tolerance \in Nat
  <2>1. trail \in Seq(Trails) /\ q \in Seq(Weights)
    BY DEF EndOf
  <2>2. n \in Nat /\ Len(q) \in Nat
    BY <2>1
  <2> QED
    BY <2>1, <2>2, ConstantsAreNat DEF EndOf
<1>2. SUFFICES ASSUME StatusOf(feed).status = "stable"
      PROVE  \/ n >= ExactCount /\ \A i \in n - ExactCount + 1 .. n : trail[i] = x
             \/ /\ n = StableCount /\ Interruption \notin Range(trail)
                /\ Spread(trail) <= Tolerance /\ x \in Range(trail)
  BY DEF StableWasShown
<1>3. Interruption \notin Weights
  BY StabilityAssumption DEF Interruption
<1>4. ASSUME Len(q) = StableCount
      PROVE  n = StableCount /\ trail = q /\ Interruption \notin Range(trail)
  <2>1. n = StableCount /\ \A i \in 1 .. n : q[i] = trail[i]
    BY <1>1, <1>4
  <2>2. q \in Seq(Trails)
    BY <1>1, SeqMonotonic DEF Trails
  <2>3. trail = q
    BY <1>1, <1>4, <2>1, <2>2, SeqEqual
  <2>4. Range(q) \subseteq Weights
    BY <1>1, ReadingsOf DEF Range, ToSet
  <2> QED
    BY <1>3, <2>1, <2>3, <2>4
<1>5. CASE feed.count >= ExactCount
  <2>1. x = feed.same
    BY <1>5 DEF StatusOf
  <2>2. CASE ExactCount <= Len(q)
    <3>1. ASSUME NEW i \in n - ExactCount + 1 .. n PROVE trail[i] = x
      <4>1. i - n + Len(q) \in 1 .. Len(q) /\ i - n + Len(q) > Len(q) - feed.count
            /\ n - Len(q) + (i - n + Len(q)) = i
        <5> HIDE DEF n, q
        <5>1. i \in Int /\ n \in Nat /\ Len(q) \in Nat /\ Len(q) <= n /\ feed.count \in Nat
              /\ ExactCount \in Nat /\ i <= n /\ i > n - ExactCount
              /\ feed.count >= ExactCount /\ ExactCount <= Len(q)
          BY <1>1, <1>5, <2>2
        <5> QED
          BY <5>1
      <4> QED
        BY <1>1, <2>1, <4>1
    <3> QED
      BY <1>1, <2>2, <3>1
  <2>3. CASE ~(ExactCount <= Len(q))
    <3>1. Len(q) = StableCount
      BY <1>1, <1>5, <2>3
    <3>2. \A i \in 1 .. Len(q) : q[i] = x
      BY <1>1, <1>5, <2>1, <2>3
    <3>3. ToSet(q) = {x} /\ x \in Int
      <4>1. DOMAIN q = 1 .. Len(q) /\ 1 \in 1 .. Len(q) /\ q[1] \in Weights
        BY <1>1, <3>1
      <4>2. ToSet(q) = { q[i] : i \in 1 .. Len(q) }
        BY <4>1 DEF ToSet
      <4>3. x \in Nat
        BY <3>2, <4>1, StabilityAssumption
      <4> HIDE DEF x, q
      <4> QED
        BY <3>2, <4>1, <4>2, <4>3
    <3>4. Spread(q) = 0
      <4>1. Greatest({x}) = x /\ Least({x}) = x
        BY <3>3 DEF Greatest, Least
      <4> QED
        BY <3>3, <4>1 DEF Spread
    <3>5. x \in Range(q)
      BY <3>3 DEF ToSet, Range
    <3> QED
      BY <1>1, <1>4, <3>1, <3>4, <3>5
  <2> QED
    BY <2>2, <2>3
<1>6. CASE ~(feed.count >= ExactCount)
  <2>1. Len(q) = StableCount /\ Spread(q) <= Tolerance /\ x = ModeNewest(q)
    BY <1>2, <1>6 DEF StatusOf
  <2>2. q # << >>
    BY <1>1, <2>1, EmptySeq
  <2>3. x \in Range(q)
    BY <1>1, <2>1, <2>2, ModeIsReading DEF ToSet, Range
  <2> QED
    BY <1>4, <2>1, <2>3
<1> QED
  BY <1>5, <1>6

-----------------------------------------------------------------------------
(* Induction over the numbers up to a bound, for a set of them.              *)
LEMMA FromZero ==
  ASSUME NEW n \in Nat, NEW G, 0 \in G, \A k \in 1 .. n : k - 1 \in G => k \in G
  PROVE  \A k \in 0 .. n : k \in G
<1> DEFINE Bad == { k \in 0 .. n : k \notin G }
<1>1. SUFFICES ASSUME Bad # {} PROVE FALSE
  OBVIOUS
<1>2. Bad \in SUBSET Nat
  OBVIOUS
<1>3. Least(Bad) \in Bad /\ \A k \in Bad : Least(Bad) <= k
  <2> HIDE DEF Bad
  <2> QED
    BY <1>1, <1>2, LeastNatural
<1>4. PICK m \in 0 .. n : m \notin G /\ \A k \in 0 .. n : k \notin G => m <= k
  BY <1>3
<1>5. m \in 1 .. n /\ m - 1 \in 0 .. n /\ ~(m <= m - 1)
  BY <1>4
<1> QED
  BY <1>4, <1>5

LEMMA FromTheEnd ==
  ASSUME NEW n \in Nat, NEW G,
         \A i \in 1 .. n : (\A j \in i + 1 .. n : j \in G) => i \in G
  PROVE  \A i \in 1 .. n : i \in G
<1> DEFINE Later(k) == \A j \in n - k + 1 .. n : j \in G
           H == { k \in 0 .. n : Later(k) }
<1>1. 0 \in H
  OBVIOUS
<1>2. ASSUME NEW k \in 1 .. n, k - 1 \in H PROVE k \in H
  <2>1. \A j \in n - (k - 1) + 1 .. n : j \in G
    BY <1>2
  <2>2. n - k + 1 \in 1 .. n /\ \A j \in (n - k + 1) + 1 .. n : j \in G
    BY <2>1
  <2>3. n - k + 1 \in G
    BY <2>2
  <2>4. \A j \in n - k + 1 .. n : j = n - k + 1 \/ j \in (n - k + 1) + 1 .. n
    OBVIOUS
  <2>5. Later(k)
    BY <2>2, <2>3, <2>4
  <2> HIDE DEF Later
  <2> QED
    BY <2>5
<1>3. n \in H
  <2> HIDE DEF H
  <2> QED
    BY <1>1, <1>2, FromZero
<1>4. \A j \in n - n + 1 .. n : j \in G
  BY <1>3
<1> QED
  BY <1>4

(* The frames of a read are handled one after the other.                     *)
LEMMA HandledInTurn ==
  ASSUME NEW s, NEW found, Len(found) \in Nat
  PROVE  \E f : /\ f[0] = s
                /\ \A n \in 1 .. Len(found) : f[n] = Handle(f[n - 1], found[n])
                /\ Handled(s, found) = f[Len(found)]
<1> DEFINE N == Len(found)
           Turn(f, n) == IF n = 0 THEN s ELSE Handle(f[n - 1], found[n])
           Right(f, m) == f = [n \in 0 .. N |-> f[n]] /\ \A n \in 0 .. m : f[n] = Turn(f, n)
           G == { m \in 0 .. N : \E f : Right(f, m) }
<1>1. 0 \in G
  <2>1. Right([n \in 0 .. N |-> s], 0)
    OBVIOUS
  <2> HIDE DEF Right
  <2> QED
    BY <2>1
<1>2. ASSUME NEW k \in 1 .. N, k - 1 \in G PROVE k \in G
  <2>1. PICK f : Right(f, k - 1)
    BY <1>2
  <2> DEFINE g == [n \in 0 .. N |-> IF n = k THEN Handle(f[k - 1], found[k]) ELSE f[n]]
  <2>2. \A n \in 0 .. k : g[n] = Turn(g, n)
    <3> SUFFICES ASSUME NEW n \in 0 .. k PROVE g[n] = Turn(g, n)
      OBVIOUS
    <3>1. CASE n = k
      <4>1. g[n] = Handle(f[k - 1], found[k]) /\ g[k - 1] = f[k - 1]
        BY <3>1
      <4> QED
        BY <3>1, <4>1
    <3>2. CASE n # k
      <4>1. n \in 0 .. k - 1 /\ g[n] = f[n] /\ (n # 0 => g[n - 1] = f[n - 1])
        BY <3>2
      <4>2. f[n] = Turn(f, n)
        BY <2>1, <4>1
      <4> QED
        BY <4>1, <4>2
    <3> QED
      BY <3>1, <3>2
  <2>3. g = [n \in 0 .. N |-> g[n]]
    OBVIOUS
  <2> HIDE DEF g
  <2>4. Right(g, k)
    BY <2>2, <2>3
  <2> HIDE DEF Right
  <2> QED
    BY <2>4
<1>3. N \in G
  <2>1. N \in Nat
    OBVIOUS
  <2> HIDE DEF G, N
  <2> QED
    BY <1>1, <1>2, <2>1, FromZero
<1>4. PICK f : Right(f, N)
  BY <1>3
<1>5. f = [n \in 0 .. N |-> IF n = 0 THEN s ELSE Handle(f[n - 1], found[n])]
  BY <1>4
<1> DEFINE h == CHOOSE h : h = [n \in 0 .. N |-> IF n = 0 THEN s
                                                 ELSE Handle(h[n - 1], found[n])]
<1>6. h = [n \in 0 .. N |-> IF n = 0 THEN s ELSE Handle(h[n - 1], found[n])]
  BY <1>5
<1>7. Handled(s, found) = h[N]
  BY DEF Handled
<1> HIDE DEF h
<1>8. h[0] = s /\ \A n \in 1 .. N : h[n] = Handle(h[n - 1], found[n])
  BY <1>6
<1> QED
  BY <1>7, <1>8

LEMMA HandledEnds ==
  ASSUME NEW s, EndOf(s.feed, s.trail), NEW found, Len(found) \in Nat
  PROVE  EndOf(Handled(s, found).feed, Handled(s, found).trail)
<1> DEFINE N == Len(found)
<1>1. PICK f : /\ f[0] = s
               /\ \A n \in 1 .. N : f[n] = Handle(f[n - 1], found[n])
               /\ Handled(s, found) = f[N]
  BY HandledInTurn
<1> DEFINE G == { n \in 0 .. N : EndOf(f[n].feed, f[n].trail) }
<1>2. 0 \in G
  BY <1>1
<1>3. ASSUME NEW n \in 1 .. N, n - 1 \in G PROVE n \in G
  <2>1. EndOf(f[n - 1].feed, f[n - 1].trail)
    BY <1>3
  <2>2. EndOf(f[n].feed, f[n].trail)
    BY <1>1, <2>1, HandleEnds
  <2> QED
    BY <2>2
<1>4. N \in G
  <2>1. N \in Nat
    OBVIOUS
  <2> HIDE DEF G, N
  <2>2. \A n \in 1 .. N : n - 1 \in G => n \in G
    BY <1>3
  <2>3. \A n \in 0 .. N : n \in G
    BY <1>2, <2>1, <2>2, FromZero
  <2> QED
    BY <2>1, <2>3
<1> QED
  BY <1>1, <1>4

-----------------------------------------------------------------------------
(* The frames in the bytes b[i], b[i + 1] ...: what stands at i follows from *)
(* what stands behind it.                                                    *)
Found(b, from, i) ==
  IF Len(b) - i + 1 < FrameSize THEN Kept(b, i)
  ELSE IF Starts(b, i) = {} THEN Kept(b, Len(b) + 1)
  ELSE IF b[i] # STX THEN from[Least(Starts(b, i))]
  ELSE IF b[i + FrameSize - 1] # ETX THEN from[i + 1]
  ELSE [from[i + FrameSize] EXCEPT
          !.frames = Decoded(SubSeq(b, i, Len(b))) \o @]

Founds(b, from) ==
  /\ from = [i \in 1 .. Len(b) + 1 |-> from[i]]
  /\ \A i \in 1 .. Len(b) + 1 : from[i] = Found(b, from, i)

LEMMA FirstStart ==
  ASSUME NEW b \in Seq(Int), NEW i \in 1 .. Len(b) + 1, Starts(b, i) # {}
  PROVE  LET s == Least(Starts(b, i)) IN
           /\ s \in i .. Len(b) /\ b[s] = STX
           /\ \A j \in i .. Len(b) : b[j] = STX => s <= j
<1> DEFINE T == Starts(b, i)
<1>1. T \in SUBSET Nat /\ T # {} /\ Least(T) = Least(T)
  <2>1. \A j \in T : j \in i .. Len(b) /\ b[j] = STX
    BY DEF Starts
  <2>2. \A j \in i .. Len(b) : j \in Nat
    OBVIOUS
  <2> QED
    BY <2>1, <2>2 DEF Least
<1>2. Least(T) \in T /\ \A t \in T : Least(T) <= t
  <2> HIDE DEF T
  <2> QED
    BY <1>1, LeastNatural
<1> QED
  BY <1>1, <1>2 DEF Starts

LEMMA FoundLooksAhead ==
  ASSUME NEW b \in Seq(Int), NEW i \in 1 .. Len(b) + 1, NEW f, NEW g,
         \A j \in i + 1 .. Len(b) + 1 : f[j] = g[j]
  PROVE  Found(b, f, i) = Found(b, g, i)
<1> DEFINE s == Least(Starts(b, i))
<1>1. Len(b) \in Nat
  OBVIOUS
<1>2. CASE Len(b) - i + 1 < FrameSize \/ Starts(b, i) = {}
  BY <1>2 DEF Found
<1>3. CASE ~(Len(b) - i + 1 < FrameSize) /\ Starts(b, i) # {}
  <2>1. i + 1 \in i + 1 .. Len(b) + 1 /\ i + 4 \in i + 1 .. Len(b) + 1
    BY <1>1, <1>3 DEF FrameSize
  <2>2. CASE b[i] # STX
    <3>1. s \in i + 1 .. Len(b) + 1
      <4>1. s \in i .. Len(b) /\ b[s] = STX
        BY <1>3, FirstStart
      <4> HIDE DEF s
      <4> QED
        BY <2>2, <4>1
    <3> QED
      BY <1>3, <2>2, <3>1 DEF Found
  <2>3. CASE b[i] = STX
    BY <1>3, <2>1, <2>3 DEF Found, FrameSize
  <2> QED
    BY <2>2, <2>3
<1> QED
  BY <1>2, <1>3

LEMMA ParseFinds ==
  ASSUME NEW b \in Seq(Int)
  PROVE  \E from : Founds(b, from) /\ Parse(b) = from[1]
<1> DEFINE L == Len(b) + 1
           Right(f, k) == /\ f = [i \in 1 .. L |-> f[i]]
                          /\ \A i \in L + 1 - k .. L : f[i] = Found(b, f, i)
           G == { k \in 0 .. L : \E f : Right(f, k) }
<1>1. L \in Nat
  OBVIOUS
<1>2. 0 \in G
  <2>1. Right([i \in 1 .. L |-> 0], 0)
    BY <1>1
  <2> HIDE DEF Right
  <2> QED
    BY <1>1, <2>1
<1>3. ASSUME NEW k \in 1 .. L, k - 1 \in G PROVE k \in G
  <2>1. PICK f : Right(f, k - 1)
    BY <1>3
  <2> DEFINE g == [i \in 1 .. L |-> IF i = L + 1 - k THEN Found(b, f, i) ELSE f[i]]
  <2>2. \A i \in L + 1 - k .. L : g[i] = Found(b, g, i)
    <3> SUFFICES ASSUME NEW i \in L + 1 - k .. L PROVE g[i] = Found(b, g, i)
      OBVIOUS
    <3>1. i \in 1 .. L /\ \A j \in i + 1 .. L : g[j] = f[j]
      BY <1>1
    <3>2. g[i] = Found(b, f, i)
      <4>1. CASE i = L + 1 - k
        BY <3>1, <4>1
      <4>2. CASE i # L + 1 - k
        <5>1. i \in L + 1 - (k - 1) .. L
          BY <1>1, <4>2
        <5>2. f[i] = Found(b, f, i)
          BY <2>1, <5>1
        <5> QED
          BY <3>1, <4>2, <5>2
      <4> QED
        BY <4>1, <4>2
    <3> HIDE DEF g
    <3>3. Found(b, g, i) = Found(b, f, i)
      BY <3>1, FoundLooksAhead
    <3> QED
      BY <3>2, <3>3
  <2>3. g = [i \in 1 .. L |-> g[i]]
    OBVIOUS
  <2> HIDE DEF g
  <2>4. Right(g, k)
    BY <2>2, <2>3
  <2> HIDE DEF Right
  <2> QED
    BY <2>4
<1>4. L \in G
  <2> HIDE DEF G, L
  <2>1. \A k \in 1 .. L : k - 1 \in G => k \in G
    BY <1>3
  <2>2. \A k \in 0 .. L : k \in G
    BY <1>1, <1>2, <2>1, FromZero
  <2> QED
    BY <1>1, <2>2
<1>5. PICK f : Right(f, L)
  BY <1>4
<1>6. f = [i \in 1 .. L |-> Found(b, f, i)]
  <2>1. \A i \in 1 .. L : f[i] = Found(b, f, i)
    BY <1>1, <1>5
  <2> QED
    BY <1>5, <2>1
<1> DEFINE h == CHOOSE h : h = [i \in 1 .. L |-> Found(b, h, i)]
<1>7. h = [i \in 1 .. L |-> Found(b, h, i)]
  <2> HIDE DEF L
  <2> QED
    BY <1>6
<1>8. Parse(b) = h[1]
  BY DEF Parse, Found
<1> HIDE DEF h
<1>9. Founds(b, h)
  BY <1>7 DEF Founds
<1> QED
  BY <1>8, <1>9

-----------------------------------------------------------------------------
(* Every frame that is found is one of the scale's, and what is kept is the  *)
(* end of the bytes.                                                         *)
KeptFrom(b, r, i) ==
  \E found \in Seq(Kinds), j \in i .. Len(b) + 1 :
    r = [frames |-> found, buffer |-> SubSeq(b, j, Len(b))]

LEMMA KeptIsKept ==
  ASSUME NEW b \in Seq(Int), NEW i \in 1 .. Len(b) + 1, NEW j \in i .. Len(b) + 1
  PROVE  KeptFrom(b, Kept(b, j), i) /\ Kept(b, j).frames = << >>
<1>1. << >> \in Seq(Kinds)
  BY EmptySeq
<1> QED
  BY <1>1 DEF KeptFrom, Kept

LEMMA DecodedIsKind ==
  ASSUME NEW raw
  PROVE  Decoded(raw) \in Seq(Kinds)
<1>1. CASE raw[2] \notin Digits
  BY <1>1, EmptySeq DEF Decoded
<1>2. CASE raw[2] \in Digits
  <2> DEFINE k == IF raw[3] = raw[2] THEN raw[2] ELSE Corrupt
  <2>1. k \in Kinds
    BY <1>2 DEF Kinds, Digits
  <2>2. Decoded(raw) = << k >>
    BY <1>2 DEF Decoded
  <2> HIDE DEF k
  <2> QED
    BY <2>1, <2>2
<1> QED
  BY <1>1, <1>2

(* A frame more in front.                                                    *)
Fronted(s, r) == [r EXCEPT !.frames = s \o @]

LEMMA FrontedKeeps ==
  ASSUME NEW b \in Seq(Int), NEW i \in 1 .. Len(b) + 1, NEW k \in i .. Len(b) + 1,
         NEW r, KeptFrom(b, r, k), NEW s \in Seq(Kinds)
  PROVE  KeptFrom(b, Fronted(s, r), i) /\ Fronted(s, r).frames = s \o r.frames
         /\ Fronted(s, r).buffer = r.buffer
<1>1. PICK found \in Seq(Kinds), j \in k .. Len(b) + 1 :
        r = [frames |-> found, buffer |-> SubSeq(b, j, Len(b))]
  BY DEF KeptFrom
<1> DEFINE all == s \o found
           kept == SubSeq(b, j, Len(b))
<1>2. all \in Seq(Kinds) /\ j \in i .. Len(b) + 1
  BY ConcatProperties
<1>3. r = [frames |-> found, buffer |-> kept] /\ s \o r.frames = all
  BY <1>1
<1> HIDE DEF all
<1>4. KeptFrom(b, [frames |-> all, buffer |-> kept], i)
  BY <1>2 DEF KeptFrom
<1> HIDE DEF kept
<1>5. Fronted(s, r) = [r EXCEPT !.frames = all]
  BY <1>3 DEF Fronted
<1>6. Fronted(s, r) = [frames |-> all, buffer |-> kept]
  BY <1>3, <1>5
<1>7. Fronted(s, r).frames = all /\ Fronted(s, r).buffer = r.buffer
  BY <1>3, <1>6
<1> QED
  BY <1>3, <1>4, <1>6, <1>7

LEMMA KeptEarlier ==
  ASSUME NEW b \in Seq(Int), NEW i \in 1 .. Len(b) + 1, NEW k \in i .. Len(b) + 1,
         NEW r, KeptFrom(b, r, k)
  PROVE  KeptFrom(b, r, i)
<1>1. k .. Len(b) + 1 \subseteq i .. Len(b) + 1
  OBVIOUS
<1> QED
  BY <1>1 DEF KeptFrom

(* The cases of a position.                                                  *)
LEMMA FoundCases ==
  ASSUME NEW b \in Seq(Int), NEW from, Founds(b, from), NEW i \in 1 .. Len(b) + 1
  PROVE  \/ Len(b) - i + 1 < 4 /\ from[i] = Kept(b, i)
         \/ /\ i + 3 <= Len(b) /\ \A j \in i .. Len(b) : b[j] # STX
            /\ from[i] = Kept(b, Len(b) + 1)
         \/ /\ i + 3 <= Len(b) /\ b[i] # STX
            /\ \E s \in i + 1 .. Len(b) :
                 /\ b[s] = STX /\ \A j \in i .. Len(b) : b[j] = STX => s <= j
                 /\ from[i] = from[s]
         \/ /\ i + 3 <= Len(b) /\ b[i] = STX /\ b[i + 3] # ETX
            /\ from[i] = from[i + 1]
         \/ /\ i + 3 <= Len(b) /\ b[i] = STX /\ b[i + 3] = ETX
            /\ from[i] = Fronted(Decoded(SubSeq(b, i, Len(b))), from[i + 4])
<1> DEFINE s == Least(Starts(b, i))
<1>1. from[i] = Found(b, from, i) /\ Len(b) \in Nat
  BY DEF Founds
<1>2. CASE Len(b) - i + 1 < 4
  BY <1>1, <1>2 DEF Found, FrameSize
<1>3. CASE i + 3 <= Len(b) /\ Starts(b, i) = {}
  <2>1. \A j \in i .. Len(b) : b[j] # STX
    BY <1>3 DEF Starts
  <2> QED
    BY <1>1, <1>3, <2>1 DEF Found, FrameSize
<1>4. CASE i + 3 <= Len(b) /\ Starts(b, i) # {} /\ b[i] # STX
  <2>1. s \in i .. Len(b) /\ b[s] = STX
        /\ \A j \in i .. Len(b) : b[j] = STX => s <= j
    BY <1>4, FirstStart
  <2>2. from[i] = from[s]
    BY <1>1, <1>4 DEF Found, FrameSize
  <2> HIDE DEF s
  <2>3. s \in i + 1 .. Len(b)
    BY <1>4, <2>1
  <2> QED
    BY <1>4, <2>1, <2>2, <2>3
<1>5. CASE i + 3 <= Len(b) /\ b[i] = STX
  <2>1. Starts(b, i) # {}
    BY <1>5 DEF Starts
  <2>2. ~(Len(b) - i + 1 < 4)
    BY <1>1, <1>5
  <2>3. from[i] = IF b[i + 4 - 1] # ETX THEN from[i + 1]
                  ELSE Fronted(Decoded(SubSeq(b, i, Len(b))), from[i + 4])
    BY <1>1, <1>5, <2>1, <2>2 DEF Found, FrameSize, Fronted
  <2> QED
    BY <1>5, <2>3
<1> QED
  BY <1>1, <1>2, <1>3, <1>4, <1>5

LEMMA FoundIsKept ==
  ASSUME NEW b \in Seq(Int), NEW from, Founds(b, from)
  PROVE  \A i \in 1 .. Len(b) + 1 : KeptFrom(b, from[i], i)
<1> DEFINE n == Len(b) + 1
           G == { i \in 1 .. n : KeptFrom(b, from[i], i) }
<1>1. ASSUME NEW i \in 1 .. n, \A j \in i + 1 .. n : j \in G PROVE i \in G
  <2>1. \A j \in i + 1 .. n : KeptFrom(b, from[j], j)
    BY <1>1
  <2>2. \A j \in i + 1 .. n : KeptFrom(b, from[j], i) /\ j \in i .. n
    BY <2>1, KeptEarlier
  <2>3. KeptFrom(b, Kept(b, i), i) /\ KeptFrom(b, Kept(b, n), i)
    BY KeptIsKept
  <2>4. i + 3 <= Len(b) => i + 4 \in i + 1 .. n /\ i + 1 \in i + 1 .. n
    OBVIOUS
  <2>5. i + 3 <= Len(b) =>
          KeptFrom(b, Fronted(Decoded(SubSeq(b, i, Len(b))), from[i + 4]), i)
    BY <2>1, <2>2, <2>4, DecodedIsKind, FrontedKeeps
  <2>6. \A j \in i + 1 .. Len(b) : j \in i + 1 .. n
    OBVIOUS
  <2>7. KeptFrom(b, from[i], i)
    BY <2>2, <2>3, <2>4, <2>5, <2>6, FoundCases
  <2> QED
    BY <2>7
<1>2. \A i \in 1 .. n : i \in G
  <2>1. n \in Nat
    OBVIOUS
  <2>2. \A i \in 1 .. n : (\A j \in i + 1 .. n : j \in G) => i \in G
    BY <1>1
  <2> HIDE DEF G, n
  <2> QED
    BY <2>1, <2>2, FromTheEnd
<1> QED
  BY <1>2

-----------------------------------------------------------------------------
(* The line: unless it is torn, the part of a frame that was read is the end *)
(* of the buffer.                                                            *)
Ends(s, n, f) ==
  Len(s) >= n /\ \A k \in 1 .. n : s[Len(s) - n + k] = Bytes(f)[k]

LineInv ==
  /\ buffer \in Seq(Int) /\ offset \in 0 .. 3
  /\ offset > 0 => sent \in Kinds
  /\ ~torn => Ends(buffer, offset, sent)
  /\ ~missed
  /\ EndOf(feed, trail)

LEMMA BytesOf ==
  ASSUME NEW f \in Kinds
  PROVE  LET s == Bytes(f) IN
           /\ s \in Seq(Int) /\ Len(s) = 4
           /\ s[1] = STX /\ s[4] = ETX
           /\ s[2] # ETX /\ s[3] # ETX
           /\ s[2] \in Digits
           /\ (IF s[3] = s[2] THEN s[2] ELSE Corrupt) = f
<1> DEFINE s == Bytes(f)
<1>1. \A w \in Weights : w \in Nat
  BY StabilityAssumption
<1>2. CASE f = Corrupt
  <2>1. s = << STX, Overload, Junk, ETX >>
    BY <1>2 DEF Bytes
  <2> QED
    BY <1>2, <2>1 DEF STX, ETX, Overload, Junk, Digits
<1>3. CASE f # Corrupt
  <2>1. s = << STX, f, f, ETX >>
    BY <1>3 DEF Bytes
  <2>2. f \in Digits /\ f \in Int /\ f # ETX
    BY <1>1, <1>3 DEF Kinds, Digits, ETX, Overload
  <2> QED
    BY <1>3, <2>1, <2>2 DEF STX, ETX
<1> QED
  BY <1>2, <1>3

LEMMA ReadExtends ==
  ASSUME NEW s \in Seq(Int), NEW o \in 0 .. 3, NEW n \in 1 .. 4, o + n <= 4,
         NEW f \in Kinds
  PROVE  LET b == s \o SubSeq(Bytes(f), o + 1, o + n) IN
           b \in Seq(Int) /\ (Ends(s, o, f) => Ends(b, o + n, f))
<1> DEFINE z == Bytes(f)
           t == SubSeq(z, o + 1, o + n)
           b == s \o t
<1>1. z \in Seq(Int) /\ Len(z) = 4
  BY BytesOf
<1> HIDE DEF z
<1>2. t \in Seq(Int) /\ Len(t) = n /\ \A k \in 1 .. n : t[k] = z[o + k]
  <2>1. \A i \in o + 1 .. o + n : z[i] \in Int
    <3>1. \A i \in 1 .. Len(z) : z[i] \in Int
      BY <1>1, ReadingsOf
    <3>2. o + 1 .. o + n \subseteq 1 .. 4
      OBVIOUS
    <3> QED
      BY <1>1, <3>1, <3>2
  <2>2. t \in Seq(Int)
    BY <1>1, <2>1, SubSeqProperties
  <2>3. Len(t) = n /\ \A k \in 1 .. n : t[k] = z[o + k]
    BY <1>1, <2>1, SubSeqProperties
  <2> QED
    BY <2>2, <2>3
<1> HIDE DEF t
<1>3. /\ b \in Seq(Int) /\ Len(b) = Len(s) + n
      /\ \A i \in 1 .. Len(s) : b[i] = s[i]
      /\ \A i \in 1 .. n : b[Len(s) + i] = t[i]
  BY <1>2, ConcatProperties
<1> HIDE DEF b
<1>4. ASSUME Ends(s, o, f), NEW k \in 1 .. o + n PROVE b[Len(b) - (o + n) + k] = z[k]
  <2>1. Len(s) \in Nat /\ Len(s) >= o /\ Len(b) - (o + n) + k = Len(s) - o + k
    <3>1. Len(s) \in Nat /\ Len(s) >= o
      BY <1>4 DEF Ends
    <3>2. Len(b) = Len(s) + n /\ o \in Int /\ n \in Int /\ k \in Int
      BY <1>3
    <3> QED
      BY <3>1, <3>2
  <2>2. CASE k <= o
    <3>1. k \in 1 .. o /\ Len(s) - o + k \in 1 .. Len(s)
      BY <2>1, <2>2
    <3>2. b[Len(s) - o + k] = s[Len(s) - o + k]
      BY <1>3, <3>1
    <3>3. s[Len(s) - o + k] = z[k]
      BY <1>4, <3>1 DEF Ends, z
    <3> QED
      BY <2>1, <3>2, <3>3
  <2>3. CASE k > o
    <3>1. k - o \in 1 .. n /\ Len(s) + (k - o) = Len(s) - o + k /\ o + (k - o) = k
      BY <2>1, <2>3
    <3>2. b[Len(s) + (k - o)] = t[k - o] /\ t[k - o] = z[o + (k - o)]
      BY <1>2, <1>3, <3>1
    <3> QED
      BY <2>1, <3>1, <3>2
  <2> QED
    BY <2>2, <2>3
<1>5. Ends(s, o, f) => Ends(b, o + n, f)
  BY <1>3, <1>4 DEF Ends, z
<1> QED
  BY <1>3, <1>5 DEF b, t, z

(* The part of a frame at the end of the bytes stays in the buffer.          *)
LEMMA PartIsKept ==
  ASSUME NEW b \in Seq(Int), NEW from, Founds(b, from), NEW f \in Kinds,
         NEW n \in 1 .. 3, Ends(b, n, f)
  PROVE  Ends(from[1].buffer, n, f)
<1> DEFINE L == Len(b)
           p == L - n + 1
           Good(i) == \E j \in 1 .. p : from[i].buffer = SubSeq(b, j, L)
           G == { i \in 1 .. p : Good(i) }
<1>1. L \in Nat /\ p \in 1 .. L /\ L - p + 1 < 4
  BY DEF Ends
<1>2. \A k \in 1 .. n : b[p - 1 + k] = Bytes(f)[k]
  BY <1>1 DEF Ends
<1>3. b[p] = STX
  BY <1>1, <1>2, BytesOf
<1>4. \A k \in p .. L : b[k] # ETX
  <2> SUFFICES ASSUME NEW k \in p .. L PROVE b[k] # ETX
    OBVIOUS
  <2>1. k - p + 1 \in 1 .. n /\ p - 1 + (k - p + 1) = k
    BY <1>1
  <2>2. k - p + 1 \in {1, 2, 3}
    BY <2>1
  <2>3. b[k] = Bytes(f)[k - p + 1]
    BY <1>2, <2>1
  <2>4. STX # ETX
    BY DEF STX, ETX
  <2> QED
    BY <2>2, <2>3, <2>4, BytesOf
<1> HIDE DEF p
<1>5. ASSUME NEW i \in 1 .. p, \A j \in i + 1 .. p : j \in G PROVE i \in G
  <2>1. \A j \in i + 1 .. p : Good(j)
    BY <1>5
  <2>2. CASE from[i] = Kept(b, i)
    BY <2>2 DEF Kept
  <2>3. CASE from[i] = from[i + 1] /\ i + 3 <= L
    <3>1. i + 1 \in i + 1 .. p
      BY <1>1, <2>3
    <3>2. Good(i + 1)
      BY <2>1, <3>1
    <3> QED
      BY <2>3, <3>2
  <2>4. ASSUME NEW s \in i + 1 .. L, \A j \in i .. L : b[j] = STX => s <= j,
               from[i] = from[s]
        PROVE  i \in G
    <3>1. p \in i .. L
      BY <1>1
    <3>2. s \in i + 1 .. p
      BY <1>1, <1>3, <2>4, <3>1
    <3>3. Good(s)
      BY <2>1, <3>2
    <3> QED
      BY <2>4, <3>3
  <2>5. CASE /\ i + 3 <= L /\ b[i + 3] = ETX
             /\ from[i] = Fronted(Decoded(SubSeq(b, i, L)), from[i + 4])
    <3>1. i + 4 \in i + 1 .. p
      BY <1>1, <1>4, <2>5
    <3>2. Good(i + 4)
      BY <2>1, <3>1
    <3>3. from[i].buffer = from[i + 4].buffer
      <4>1. KeptFrom(b, from[i + 4], i + 4) /\ i + 4 \in i .. L + 1 /\ i + 4 \in 1 .. L + 1
            /\ i \in 1 .. L + 1
        BY <1>1, <3>1, FoundIsKept
      <4>2. Decoded(SubSeq(b, i, L)) \in Seq(Kinds)
        BY DecodedIsKind
      <4> QED
        BY <2>5, <4>1, <4>2, FrontedKeeps
    <3> QED
      BY <3>2, <3>3
  <2>6. i \in 1 .. L + 1 /\ p \in i .. L
    BY <1>1
  <2> HIDE DEF G, Good
  <2> QED
    BY <1>3, <2>2, <2>3, <2>4, <2>5, <2>6, FoundCases
<1>6. Good(1)
  <2>1. p \in Nat /\ 1 \in 1 .. p
    BY <1>1
  <2>2. \A i \in 1 .. p : (\A j \in i + 1 .. p : j \in G) => i \in G
    BY <1>5
  <2>3. \A i \in 1 .. p : i \in G
    <3> HIDE DEF G
    <3> QED
      BY <2>1, <2>2, FromTheEnd
  <2> QED
    BY <2>1, <2>3
<1>7. PICK j \in 1 .. p : from[1].buffer = SubSeq(b, j, L)
  BY <1>6
<1> DEFINE s == SubSeq(b, j, L)
<1>8. /\ Len(s) = L - j + 1
      /\ \A i \in 1 .. L - j + 1 : s[i] = b[j + i - 1]
  <2>1. j \in 1 .. L + 1 /\ L \in j - 1 .. L
    BY <1>1
  <2> QED
    BY <2>1, SubSeqProperties
<1> HIDE DEF s
<1>9. Len(s) >= n /\ \A k \in 1 .. n : s[Len(s) - n + k] = b[p - 1 + k]
  <2>1. L - j + 1 >= n
    BY <1>1 DEF p
  <2>2. ASSUME NEW k \in 1 .. n PROVE s[Len(s) - n + k] = b[p - 1 + k]
    <3>1. L - j + 1 - n + k \in 1 .. L - j + 1 /\ j + (L - j + 1 - n + k) - 1 = p - 1 + k
      BY <1>1, <2>1 DEF p
    <3> QED
      BY <1>8, <3>1
  <2> QED
    BY <1>8, <2>1, <2>2
<1> QED
  BY <1>2, <1>7, <1>9 DEF Ends, s

(* A frame whose last bytes are the end of the bytes is the last one found.  *)
LEMMA WholeIsFound ==
  ASSUME NEW b \in Seq(Int), NEW from, Founds(b, from), NEW f \in Kinds, Ends(b, 4, f)
  PROVE  from[1].frames # << >> /\ Last(from[1].frames) = f
<1> DEFINE L == Len(b)
           p == L - 3
           Good(i) == Len(from[i].frames) > 0 /\ from[i].frames[Len(from[i].frames)] = f
           G == { i \in 1 .. p : Good(i) }
<1>1. L \in Nat /\ p \in 1 .. L /\ L = p + 3
  BY DEF Ends
<1>2. \A k \in 1 .. 4 : b[p - 1 + k] = Bytes(f)[k]
  <2>1. \A k \in 1 .. 4 : b[L - 4 + k] = Bytes(f)[k]
    BY DEF Ends
  <2>2. \A k \in 1 .. 4 : L - 4 + k = p - 1 + k
    BY <1>1
  <2> HIDE DEF p, L
  <2> QED
    BY <2>1, <2>2
<1>3. /\ b[p] = STX /\ b[p + 3] = ETX
      /\ b[p + 1] = Bytes(f)[2] /\ b[p + 2] = Bytes(f)[3]
  <2>1. b[p - 1 + 1] = Bytes(f)[1] /\ b[p - 1 + 2] = Bytes(f)[2]
        /\ b[p - 1 + 3] = Bytes(f)[3] /\ b[p - 1 + 4] = Bytes(f)[4]
    BY <1>2
  <2> QED
    BY <1>1, <2>1, BytesOf
<1>4. b[p] # ETX /\ b[p + 1] # ETX /\ b[p + 2] # ETX
  <2>1. STX # ETX
    BY DEF STX, ETX
  <2> QED
    BY <1>3, <2>1, BytesOf
<1>5. Decoded(SubSeq(b, p, L)) = << f >>
  <2> DEFINE raw == SubSeq(b, p, L)
  <2>1. \A i \in p .. L : b[i] \in Int
    BY <1>1
  <2>2. \A i \in 1 .. L - p + 1 : raw[i] = b[p + i - 1]
    BY <1>1, <2>1, SubSeqProperties
  <2>3. raw[2] = b[p + 1] /\ raw[3] = b[p + 2]
    BY <1>1, <2>2
  <2> HIDE DEF raw, p
  <2>4. raw[2] \in Digits /\ (IF raw[3] = raw[2] THEN raw[2] ELSE Corrupt) = f
    BY <1>3, <2>3, BytesOf
  <2> QED
    BY <2>4 DEF Decoded, raw
<1> HIDE DEF p
<1>6. ASSUME NEW i \in 1 .. p, NEW r, KeptFrom(b, r, i + 4),
             from[i] = Fronted(Decoded(SubSeq(b, i, L)), r), i + 3 <= L,
             \/ i = p /\ r.frames = << >>
             \/ Len(r.frames) > 0 /\ r.frames[Len(r.frames)] = f
      PROVE  Good(i)
  <2> DEFINE d == Decoded(SubSeq(b, i, L))
  <2>1. d \in Seq(Kinds) /\ r.frames \in Seq(Kinds)
    BY <1>6, DecodedIsKind DEF KeptFrom
  <2>2. i + 4 \in i .. L + 1 /\ i \in 1 .. L + 1
    BY <1>1, <1>6
  <2>3. from[i].frames = d \o r.frames
    <3> HIDE DEF d
    <3> QED
      BY <1>6, <2>1, <2>2, FrontedKeeps DEF d
  <2>4. CASE i = p /\ r.frames = << >>
    <3>1. d = << f >>
      BY <1>5, <2>4
    <3>2. << f >> \in Seq(Kinds) /\ << f >> \o << >> = << f >>
      BY <2>1, <3>1, ConcatEmptySeq
    <3>3. from[i].frames = << f >>
      BY <2>3, <2>4, <3>1, <3>2
    <3> QED
      BY <3>3
  <2>5. CASE Len(r.frames) > 0 /\ r.frames[Len(r.frames)] = f
    <3> DEFINE q == r.frames
    <3>1. q \in Seq(Kinds) /\ Len(q) > 0 /\ q[Len(q)] = f
      BY <2>1, <2>5
    <3> HIDE DEF q, d
    <3>2. /\ Len(d \o q) = Len(d) + Len(q) /\ Len(d) \in Nat /\ Len(q) \in Nat
          /\ \A k \in 1 .. Len(d) + Len(q) :
               (d \o q)[k] = IF k <= Len(d) THEN d[k] ELSE q[k - Len(d)]
      BY <2>1, <3>1, ConcatProperties
    <3>3. (d \o q)[Len(d) + Len(q)] = f /\ Len(d \o q) > 0
      BY <3>1, <3>2
    <3>4. from[i].frames = d \o q
      BY <2>3 DEF q
    <3> QED
      BY <3>2, <3>3, <3>4
  <2> QED
    BY <1>6, <2>4, <2>5
<1>7. ASSUME NEW i \in 1 .. p, \A j \in i + 1 .. p : j \in G PROVE i \in G
  <2>1. \A j \in i + 1 .. p : Good(j)
    BY <1>7
  <2>2. i \in 1 .. L + 1 /\ p \in i .. L /\ ~(L - i + 1 < 4)
    BY <1>1
  <2>3. CASE from[i] = from[i + 1] /\ b[i + 3] # ETX
    <3>1. i + 1 \in i + 1 .. p
      BY <1>1, <1>3, <2>3
    <3>2. Good(i + 1)
      BY <2>1, <3>1
    <3> QED
      BY <2>3, <3>2
  <2>4. ASSUME NEW s \in i + 1 .. L, \A j \in i .. L : b[j] = STX => s <= j,
               from[i] = from[s]
        PROVE  i \in G
    <3>1. s \in i + 1 .. p
      BY <1>1, <1>3, <2>2, <2>4
    <3>2. Good(s)
      BY <2>1, <3>1
    <3> QED
      BY <2>4, <3>2
  <2>5. CASE /\ i + 3 <= L /\ b[i + 3] = ETX
             /\ from[i] = Fronted(Decoded(SubSeq(b, i, L)), from[i + 4])
    <3>1. i + 4 \in 1 .. L + 1
      BY <1>1, <2>5
    <3>2. KeptFrom(b, from[i + 4], i + 4)
      BY <3>1, FoundIsKept
    <3>3. CASE i = p
      <4>1. L - (i + 4) + 1 = 0 /\ i + 4 = L + 1
        BY <1>1, <3>3
      <4>2. from[i + 4] = Kept(b, i + 4)
        BY <3>1, <4>1, FoundCases
      <4>3. from[i + 4].frames = << >>
        BY <4>2 DEF Kept
      <4>4. Good(i)
        <5> HIDE DEF Good
        <5> QED
          BY <1>6, <2>5, <3>2, <3>3, <4>3
      <4> QED
        BY <4>4
    <3>4. CASE i # p
      <4>1. ~(i + 3 \in p .. p + 2)
        <5>1. i + 3 # p /\ i + 3 # p + 1 /\ i + 3 # p + 2
          BY <1>4, <2>5
        <5> QED
          BY <1>1, <5>1
      <4>2. i + 4 \in i + 1 .. p
        BY <1>1, <3>4, <4>1
      <4>3. Good(i + 4)
        BY <2>1, <4>2
      <4>4. Good(i)
        BY <1>6, <2>5, <3>2, <4>3
      <4> QED
        BY <4>4
    <3> QED
      BY <3>3, <3>4
  <2> HIDE DEF G, Good
  <2> QED
    BY <1>3, <2>2, <2>3, <2>4, <2>5, FoundCases
<1>8. Good(1)
  <2>1. p \in Nat /\ 1 \in 1 .. p
    BY <1>1
  <2>2. \A i \in 1 .. p : (\A j \in i + 1 .. p : j \in G) => i \in G
    BY <1>7
  <2>3. \A i \in 1 .. p : i \in G
    <3> HIDE DEF G
    <3> QED
      BY <2>1, <2>2, FromTheEnd
  <2> QED
    BY <2>1, <2>3
<1> QED
  BY <1>8, EmptySeq DEF Last

(* What the bytes of a read do.                                              *)
LEMMA FeedEnds ==
  ASSUME LineInv, NEW bytes, NEW due, Feed(bytes, due), buffer \o bytes \in Seq(Int)
  PROVE  /\ buffer' \in Seq(Int) /\ EndOf(feed', trail')
         /\ \A f \in Kinds, n \in 1 .. 3 :
              Ends(buffer \o bytes, n, f) => Ends(buffer', n, f)
         /\ (\A f \in due : f \in Kinds /\ Ends(buffer \o bytes, 4, f)) => ~missed'
<1> DEFINE b == buffer \o bytes
           found == Parse(b)
           after == Handled([feed |-> feed, trail |-> trail], found.frames)
<1>1. /\ buffer' = found.buffer /\ feed' = after.feed /\ trail' = after.trail
      /\ missed' = (missed \/ \E f \in due : \/ found.frames = << >>
                                            \/ Last(found.frames) # f)
  BY DEF Feed
<1>2. PICK from : Founds(b, from) /\ found = from[1]
  <2> HIDE DEF b
  <2> QED
    BY ParseFinds DEF b
<1> HIDE DEF b, found
<1>3. b \in Seq(Int) /\ 1 \in 1 .. Len(b) + 1
  BY DEF b
<1>4. KeptFrom(b, found, 1)
  BY <1>2, <1>3, FoundIsKept
<1>5. PICK handed \in Seq(Kinds), j \in 1 .. Len(b) + 1 :
        found = [frames |-> handed, buffer |-> SubSeq(b, j, Len(b))]
  BY <1>4 DEF KeptFrom
<1>6. buffer' \in Seq(Int)
  <2>1. \A i \in j .. Len(b) : b[i] \in Int
    BY <1>3
  <2>2. Len(b) \in Int /\ j \in Int
    BY <1>3
  <2>3. SubSeq(b, j, Len(b)) \in Seq(Int)
    BY <2>1, <2>2, SubSeqProperties
  <2> QED
    BY <1>1, <1>5, <2>3
<1>7. EndOf(feed', trail')
  <2>1. Len(found.frames) \in Nat
    BY <1>5
  <2> DEFINE s == [feed |-> feed, trail |-> trail]
  <2>2. EndOf(s.feed, s.trail)
    BY DEF LineInv
  <2> HIDE DEF s
  <2>3. EndOf(Handled(s, found.frames).feed, Handled(s, found.frames).trail)
    BY <2>1, <2>2, HandledEnds
  <2> QED
    BY <1>1, <2>3 DEF s
<1>8. ASSUME NEW f \in Kinds, NEW n \in 1 .. 3, Ends(b, n, f) PROVE Ends(buffer', n, f)
  BY <1>1, <1>2, <1>3, <1>8, PartIsKept
<1>9. ASSUME \A f \in due : f \in Kinds /\ Ends(b, 4, f) PROVE ~missed'
  <2>1. \A f \in due : found.frames # << >> /\ Last(found.frames) = f
    BY <1>2, <1>3, <1>9, WholeIsFound
  <2> HIDE DEF after
  <2> QED
    BY <1>1, <2>1 DEF LineInv
<1> QED
  BY <1>6, <1>7, <1>8, <1>9 DEF b

LEMMA LineStarts == ReaderInit => LineInv
<1> SUFFICES ASSUME ReaderInit PROVE LineInv
  OBVIOUS
<1>1. buffer = << >> /\ offset = 0 /\ feed = NoFeed /\ trail = << >> /\ missed = FALSE
  BY DEF ReaderInit
<1>2. << >> \in Seq(Int) /\ << >> \in Seq(Trails) /\ << >> \in Seq(Weights) /\ Len(<< >>) = 0
  BY EmptySeq
<1>3. EndOf(feed, trail)
  BY <1>1, <1>2, ConstantsAreNat DEF EndOf, NoFeed
<1>4. Ends(buffer, offset, sent)
  BY <1>1, <1>2 DEF Ends
<1> QED
  BY <1>1, <1>2, <1>3, <1>4 DEF LineInv

LEMMA ReadKeepsLine ==
  ASSUME LineInv, NEW n \in 1 .. 4, NEW f \in Kinds, Read(n, f)
  PROVE  LineInv'
<1> DEFINE part == SubSeq(Bytes(f), offset + 1, offset + n)
           due == IF offset + n = 4 /\ ~torn THEN {f} ELSE {}
           b == buffer \o part
<1>1. /\ sent = Unset \/ f = sent
      /\ offset \in 0 .. 3 /\ offset + n \in 1 .. 4 /\ buffer \in Seq(Int)
      /\ IF offset + n = 4
           THEN sent' = Unset /\ offset' = 0 /\ torn' = FALSE
           ELSE sent' = f /\ offset' = offset + n /\ torn' = torn
  BY DEF Read, FrameSize, LineInv
<1>2. Feed(part, due)
  BY DEF Read, FrameSize
<1>3. ~torn => Ends(buffer, offset, f)
  <2>1. Unset \notin Kinds
    BY StabilityAssumption DEF Unset, Kinds, Overload, Corrupt
  <2>2. offset > 0 => f = sent
    BY <1>1, <2>1 DEF LineInv
  <2>3. CASE offset > 0
    BY <2>2, <2>3 DEF LineInv
  <2>4. CASE offset = 0
    BY <1>1, <2>4 DEF Ends
  <2> QED
    BY <1>1, <2>3, <2>4
<1>4. b \in Seq(Int) /\ (~torn => Ends(b, offset + n, f))
  BY <1>1, <1>3, ReadExtends
<1> HIDE DEF part, due
<1>5. /\ buffer' \in Seq(Int) /\ EndOf(feed', trail')
      /\ \A k \in 1 .. 3 : Ends(b, k, f) => Ends(buffer', k, f)
      /\ (\A x \in due : x \in Kinds /\ Ends(b, 4, x)) => ~missed'
  BY <1>2, <1>4, FeedEnds
<1>6. ~missed'
  <2>1. \A x \in due : x \in Kinds /\ Ends(b, 4, x)
    BY <1>1, <1>4 DEF due
  <2> QED
    BY <1>5, <2>1
<1> HIDE DEF b
<1>7. CASE offset + n = 4
  <2>1. offset' = 0
    BY <1>1, <1>7
  <2>2. Ends(buffer', offset', sent')
    BY <1>5, <2>1 DEF Ends
  <2> QED
    BY <1>5, <1>6, <2>1, <2>2 DEF LineInv
<1>8. CASE offset + n # 4
  <2>1. sent' = f /\ offset' = offset + n /\ torn' = torn /\ offset + n \in 1 .. 3
    BY <1>1, <1>8
  <2>2. ~torn' => Ends(buffer', offset', sent')
    BY <1>4, <1>5, <2>1
  <2> QED
    BY <1>5, <1>6, <2>1, <2>2 DEF LineInv
<1> QED
  BY <1>7, <1>8

LEMMA SameLine ==
  ASSUME LineInv,
         UNCHANGED << sent, offset, torn, buffer, feed, trail, missed >>
  PROVE  LineInv'
BY DEF LineInv, EndOf, Ends

LEMMA LineStep == LineInv /\ [ReaderNext]_readerVars => LineInv'
<1> SUFFICES ASSUME LineInv, [ReaderNext]_readerVars PROVE LineInv'
  OBVIOUS
<1>1. CASE Open
  <2>1. /\ feed' = NoFeed /\ buffer' = << >> /\ trail' = Window(trail, Interruption, StableCount)
        /\ torn' = (offset > 0) /\ UNCHANGED << sent, offset, missed >>
    BY <1>1 DEF Open
  <2>2. << >> \in Seq(Int) /\ Len(<< >>) = 0
    BY EmptySeq
  <2>3. EndOf(feed', trail')
    BY <2>1, GapEnds DEF LineInv, EndOf
  <2>4. ~torn' => Ends(buffer', offset', sent')
    <3>1. CASE offset = 0
      BY <2>1, <2>2, <3>1 DEF Ends
    <3>2. CASE offset # 0
      <4>1. offset > 0
        BY <3>2 DEF LineInv
      <4> QED
        BY <2>1, <4>1
    <3> QED
      BY <3>1, <3>2
  <2> QED
    BY <2>1, <2>2, <2>3, <2>4 DEF LineInv
<1>2. CASE \E n \in 1 .. FrameSize, f \in Kinds : Read(n, f)
  <2>1. PICK n \in 1 .. 4, f \in Kinds : Read(n, f)
    BY <1>2 DEF FrameSize
  <2> QED
    BY <2>1, ReadKeepsLine
<1>3. CASE \E byte \in Noise : ReadNoise(byte)
  <2>1. PICK byte \in Noise : ReadNoise(byte)
    BY <1>3
  <2>2. byte \in Int /\ << byte >> \in Seq(Int)
    BY DEF Noise, STX, ETX
  <2>3. buffer \o << byte >> \in Seq(Int)
    BY <2>2, ConcatProperties DEF LineInv
  <2>4. Feed(<< byte >>, {}) /\ offset = 0 /\ UNCHANGED << sent, offset, torn >>
    BY <2>1 DEF ReadNoise, lineVars
  <2>5. buffer' \in Seq(Int) /\ EndOf(feed', trail') /\ ~missed'
    <3> DEFINE due == {}
    <3>1. \A f \in due : f \in Kinds /\ Ends(buffer \o << byte >>, 4, f)
      OBVIOUS
    <3>2. Feed(<< byte >>, due)
      BY <2>4
    <3> HIDE DEF due
    <3> QED
      BY <2>3, <3>1, <3>2, FeedEnds
  <2>6. Ends(buffer', offset', sent')
    BY <2>4, <2>5 DEF Ends
  <2> QED
    BY <2>4, <2>5, <2>6 DEF LineInv
<1>4. CASE Truncate
  <2>1. offset' = 0 /\ UNCHANGED << buffer, feed, trail, missed >>
    BY <1>4 DEF Truncate, parsed
  <2>2. buffer' \in Seq(Int)
    BY <2>1 DEF LineInv
  <2>3. Ends(buffer', offset', sent')
    BY <2>1, <2>2 DEF Ends
  <2> QED
    BY <2>1, <2>3 DEF LineInv
<1>5. CASE OpenFails \/ Retry \/ ReadNothing \/ ReadFails
           \/ ReadBreaks \/ Unplug \/ Plug \/ Silence \/ Stop
           \/ UNCHANGED readerVars
  <2>1. UNCHANGED << sent, offset, torn, buffer, feed, trail, missed >>
    BY <1>5 DEF OpenFails, Retry, ReadNothing, ReadFails,
                ReadBreaks, Unplug, Plug, Silence, Stop,
                readerVars, lineVars, parsed
  <2> QED
    BY <2>1, SameLine
<1> QED
  BY <1>1, <1>2, <1>3, <1>4, <1>5 DEF ReaderNext, Reader

LEMMA LineInvariance == ReaderSpec => []LineInv
BY LineStarts, LineStep, PTL DEF ReaderSpec

(* A frame that the connection read whole is handed on with its last bytes,  *)
(* whatever stood in the buffer: noise, torn frames, or the edges of reads.  *)
THEOREM WholeFramesHandedOn == ReaderSpec => []WholeFramesAreHandedOn
<1>1. LineInv => WholeFramesAreHandedOn
  BY DEF LineInv, WholeFramesAreHandedOn
<1> QED
  BY LineInvariance, <1>1, PTL

(* A weight is called stable only if the last readings were equal to it, or  *)
(* the window of them is close together and has it, with no interruption.    *)
THEOREM StableIsShown == ReaderSpec => []StableWasShown
<1>1. LineInv => StableWasShown
  BY EndIsShown DEF LineInv
<1> QED
  BY LineInvariance, <1>1, PTL
=============================================================================
