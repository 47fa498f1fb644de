---------------------------- MODULE RetentionProofs ----------------------------
(***************************************************************************)
(* What RetentionCleaners keeps, for any days, any evidence, and any       *)
(* number of failures and crashes.                                         *)
(***************************************************************************)
EXTENDS RetentionCleaners, TLAPS

(* Evidence that the property speaks of.                                     *)
Early(i) == i \in (reported \ late) \ expired

(* The cleaner works on a day: one without an archive while it packs, whose  *)
(* early evidence is in the list, and one with an archive when it removes.   *)
CleanerInv ==
  /\ cleaner.at \in {"packing", "packed", "removing"} => cleaner.day \in Days
  /\ cleaner.at = "packing" => cleaner.day \notin archives
  /\ cleaner.at \in {"packed", "removing"} => cleaner.day \in archives
ListHolds ==
  cleaner.at = "packing" =>
    \A i \in Items : Early(i) /\ DayOf[i] = cleaner.day => FilesOf(i) \subseteq cleaner.files

(* The days that were taken up: the evidence of one is reported or late.     *)
Taken(d) == d \in archives \/ (cleaner.at = "packing" /\ cleaner.day = d)
TakenUp == \A i \in Items : Taken(DayOf[i]) => i \in reported \cup late

(* An archive has all early evidence of its day.                             *)
ArchivesHold ==
  \A i \in Items : Early(i) /\ DayOf[i] \in archives => FilesOf(i) \subseteq packed[DayOf[i]]

(* An image is there while its record is written, or the evidence is late.   *)
SaversHold ==
  \A i \in Items : saver[i] = "imaged" => i \in late \/ << i, "image" >> \in held[DayOf[i]]
ReportedAreDone == \A i \in reported : saver[i] = "done"

EvidenceInv ==
  /\ CleanerInv /\ ListHolds /\ TakenUp /\ ArchivesHold /\ SaversHold /\ ReportedAreDone
  /\ EarlyEvidenceKept

(* The maintenance thread has a day, and removes the source of a copy.       *)
LogInv ==
  /\ maintainer.at \in {"writing", "named"} => maintainer.day \in Days
  /\ maintainer.at = "named" => maintainer.day \in zips
  /\ LogSurvives

-----------------------------------------------------------------------------
LEMMA DaysOfItems ==
  /\ NoDay \notin Days /\ MaxFaults \in Nat
  /\ \A i \in Items : DayOf[i] \in Days
BY RetentionAssumption

LEMMA InitHolds == Init => TypeOK /\ EvidenceInv /\ LogInv
<1> SUFFICES ASSUME Init PROVE TypeOK /\ EvidenceInv /\ LogInv
  OBVIOUS
<1>1. TypeOK
  BY DaysOfItems DEF Init, TypeOK, Ages, CleanerIdle, MaintainerIdle
<1>2. EvidenceInv
  BY DEF Init, EvidenceInv, CleanerInv, ListHolds, TakenUp, Taken, ArchivesHold, SaversHold,
         ReportedAreDone, EarlyEvidenceKept, Early, CleanerIdle
<1>3. LogInv
  BY DEF Init, LogInv, LogSurvives, MaintainerIdle
<1> QED
  BY <1>1, <1>2, <1>3

-----------------------------------------------------------------------------
SaverStep == \E i \in Items : MakeDirectory(i) \/ SaveImage(i) \/ SaveRecord(i)
Passing == \E d \in Days : DayPasses(d)

LEMMA SaverTypes == TypeOK /\ SaverStep => TypeOK'
<1> SUFFICES ASSUME TypeOK, NEW i \in Items, MakeDirectory(i) \/ SaveImage(i) \/ SaveRecord(i)
             PROVE  TypeOK'
  BY DEF SaverStep
<1>1. DayOf[i] \in Days /\ << i, "image" >> \in Files /\ << i, "record" >> \in Files
  BY DaysOfItems DEF Files, Parts
<1>2. CASE MakeDirectory(i)
  BY <1>1, <1>2 DEF MakeDirectory, TypeOK, logs, history
<1>3. CASE SaveImage(i)
  BY <1>1, <1>3 DEF SaveImage, TypeOK, logs, history
<1>4. CASE SaveRecord(i)
  BY <1>1, <1>4 DEF SaveRecord, TypeOK, logs
<1> QED
  BY <1>2, <1>3, <1>4

LEMMA WalkingType ==
  ASSUME NEW T \in SUBSET (Days \X {"directory", "archive"})
  PROVE  Walking(T) \in [ at : {"idle", "walking", "packing", "packed", "removing"},
                          day : Days \cup {NoDay}, files : SUBSET Files,
                          todo : SUBSET (Days \X {"directory", "archive"}) ]
BY DEF Walking, CleanerIdle

LEMMA OnwardType ==
  ASSUME NEW D \in SUBSET Days
  PROVE  Onward(D) \in [ at : {"idle", "walking", "writing", "named"},
                         day : Days \cup {NoDay}, todo : SUBSET Days ]
BY DEF Onward, MaintainerIdle

LEMMA OnwardAt == \A D : Onward(D).at \in {"idle", "walking"}
<1> TAKE D
<1>1. CASE D = {}
  BY <1>1 DEF Onward, MaintainerIdle
<1>2. CASE D # {}
  BY <1>2 DEF Onward, MaintainerIdle
<1> QED
  BY <1>1, <1>2

LEMMA WalkingAt == \A T : Walking(T).at \in {"idle", "walking"}
<1> TAKE T
<1>1. CASE T = {}
  BY <1>1 DEF Walking, CleanerIdle
<1>2. CASE T # {}
  BY <1>2 DEF Walking, CleanerIdle
<1> QED
  BY <1>1, <1>2

LEMMA CleanerTypes == TypeOK /\ CleanerInv /\ CleanerStep => TypeOK'
<1> SUFFICES ASSUME TypeOK, CleanerInv, CleanerStep PROVE TypeOK'
  OBVIOUS
<1>1. CASE \E d \in Days : StartDay(d)
  BY <1>1 DEF StartDay, Working, TypeOK, Take, evidence, logs
<1>2. CASE \E d \in Days : RemoveArchive(d)
  BY <1>2, WalkingType DEF RemoveArchive, TypeOK, Take, logs
<1>3. CASE \E f \in Files : RemoveFile(f)
  BY <1>3 DEF RemoveFile, TypeOK, logs, history, CleanerInv
<1>4. CASE BeginPass
  <2> DEFINE listed == { << d, "directory" >> : d \in { e \in dirs : age[e] # "current" } }
                       \cup { << d, "archive" >> : d \in { e \in archives : age[e] = "expired" } }
  <2>1. cleaner' = [at |-> "walking", day |-> NoDay, files |-> {}, todo |-> listed]
    BY <1>4 DEF BeginPass, CleanerIdle
  <2>2. listed \in SUBSET (Days \X {"directory", "archive"})
    BY DEF TypeOK
  <2> HIDE DEF listed
  <2>3. cleaner' \in [ at : {"idle", "walking", "packing", "packed", "removing"},
                       day : Days \cup {NoDay}, files : SUBSET Files,
                       todo : SUBSET (Days \X {"directory", "archive"}) ]
    BY <2>1, <2>2
  <2>4. UNCHANGED << age, dirs, held, archives, packed, saver, sources, zips, temps,
                     maintainer, reported, late, expired, faults >>
    BY <1>4 DEF BeginPass, evidence, logs, history
  <2> QED
    BY <2>3, <2>4 DEF TypeOK
<1>5. CASE PackingFails
  BY <1>5, WalkingType, DaysOfItems DEF PackingFails, Fault, TypeOK, evidence, logs, history
<1>6. CASE Packed
  BY <1>6 DEF Packed, TypeOK, logs, history, CleanerInv
<1>7. CASE ListDirectory
  BY <1>7 DEF ListDirectory, TypeOK, evidence, logs, history, CleanerInv
<1>8. CASE RemoveDirectory
  BY <1>8, WalkingType DEF RemoveDirectory, TypeOK, logs, history, CleanerInv
<1> QED
  BY <1>1, <1>2, <1>3, <1>4, <1>5, <1>6, <1>7, <1>8 DEF CleanerStep

LEMMA MaintainerTypes == TypeOK /\ LogInv /\ MaintainerStep => TypeOK'
<1> SUFFICES ASSUME TypeOK, LogInv, MaintainerStep PROVE TypeOK'
  OBVIOUS
<1>1. CASE \E d \in Days : CompressLog(d)
  BY <1>1, OnwardType DEF CompressLog, Refused, TypeOK, evidence, history
<1>2. CASE Maintain
  BY <1>2, OnwardType DEF Maintain, TypeOK, evidence, history
<1>3. CASE CompressionFails
  BY <1>3, OnwardType, DaysOfItems DEF CompressionFails, Fault, TypeOK, evidence, history
<1>4. CASE NameCopy
  BY <1>4 DEF NameCopy, CopyNamed, TypeOK, evidence, history, LogInv
<1>5. CASE RemoveSource
  BY <1>5, OnwardType DEF RemoveSource, TypeOK, evidence, history, LogInv
<1> QED
  BY <1>1, <1>2, <1>3, <1>4, <1>5 DEF MaintainerStep

LEMMA OtherTypes == TypeOK /\ (Crash \/ Passing) => TypeOK'
<1> SUFFICES ASSUME TypeOK, Crash \/ Passing PROVE TypeOK'
  OBVIOUS
<1>1. CASE Crash
  BY <1>1, DaysOfItems
     DEF Crash, Fault, TypeOK, CleanerIdle, MaintainerIdle, evidence, logs, history
<1>2. CASE Passing
  BY <1>2 DEF Passing, DayPasses, TypeOK, Ages, evidence, logs, history
<1> QED
  BY <1>1, <1>2

LEMMA TypeStep == TypeOK /\ CleanerInv /\ LogInv /\ [Next]_vars => TypeOK'
<1> SUFFICES ASSUME TypeOK, CleanerInv, LogInv, [Next]_vars PROVE TypeOK'
  OBVIOUS
<1>1. CASE Next
  BY <1>1, SaverTypes, CleanerTypes, MaintainerTypes, OtherTypes DEF Next, SaverStep, Passing
<1>2. CASE UNCHANGED vars
  BY <1>2 DEF vars, evidence, logs, history, TypeOK
<1> QED
  BY <1>1, <1>2
-----------------------------------------------------------------------------
LEMMA LogMaintained == TypeOK /\ LogInv /\ MaintainerStep => LogInv'
<1> SUFFICES ASSUME TypeOK, LogInv, MaintainerStep PROVE LogInv'
  OBVIOUS
<1>1. CASE \E d \in Days : CompressLog(d)
  <2>1. /\ zips' = zips /\ age' = age
        /\ \A d \in sources : d \in sources' \/ d \in zips
    BY <1>1 DEF CompressLog, Refused
  <2>2. maintainer'.at # "named" /\ (maintainer'.at = "writing" => maintainer'.day \in Days)
    BY <1>1, OnwardAt DEF CompressLog
  <2> QED
    BY <2>1, <2>2 DEF LogInv, LogSurvives
<1>2. CASE Maintain
  BY <1>2 DEF Maintain, Onward, MaintainerIdle, LogInv, LogSurvives, TypeOK
<1>3. CASE CompressionFails
  BY <1>3 DEF CompressionFails, Fault, Onward, MaintainerIdle, LogInv, LogSurvives, TypeOK
<1>4. CASE NameCopy
  BY <1>4 DEF NameCopy, CopyNamed, LogInv, LogSurvives, TypeOK
<1>5. CASE RemoveSource
  BY <1>5 DEF RemoveSource, Onward, MaintainerIdle, LogInv, LogSurvives, TypeOK
<1> QED
  BY <1>1, <1>2, <1>3, <1>4, <1>5 DEF MaintainerStep

LEMMA LogElsewhere ==
  TypeOK /\ LogInv /\ (SaverStep \/ CleanerStep \/ Crash \/ Passing \/ UNCHANGED vars) => LogInv'
<1> SUFFICES ASSUME TypeOK, LogInv,
                    SaverStep \/ CleanerStep \/ Crash \/ Passing \/ UNCHANGED vars
             PROVE  LogInv'
  OBVIOUS
<1>1. ASSUME UNCHANGED << age, logs, maintainer >> PROVE LogInv'
  BY <1>1 DEF logs, LogInv, LogSurvives
<1>2. CASE SaverStep
  BY <1>1, <1>2 DEF SaverStep, MakeDirectory, SaveImage, SaveRecord
<1>3. CASE CleanerStep
  BY <1>1, <1>3 DEF CleanerStep, StartDay, RemoveArchive, RemoveFile, BeginPass, PackingFails,
                    Packed, ListDirectory, RemoveDirectory
<1>4. CASE Crash
  BY <1>4 DEF Crash, MaintainerIdle, logs, LogInv, LogSurvives
<1>5. CASE Passing
  BY <1>5 DEF Passing, DayPasses, logs, LogInv, LogSurvives, TypeOK
<1>6. CASE UNCHANGED vars
  BY <1>1, <1>6 DEF vars
<1> QED
  BY <1>2, <1>3, <1>4, <1>5, <1>6

LEMMA LogStep == TypeOK /\ LogInv /\ [Next]_vars => LogInv'
BY LogMaintained, LogElsewhere DEF Next, SaverStep, Passing
-----------------------------------------------------------------------------
(* A step that leaves the evidence and what is known of it alone, and in     *)
(* which the cleaner does not begin to pack.                                 *)
LEMMA EvidenceAlone ==
  ASSUME TypeOK, EvidenceInv, UNCHANGED << held, archives, packed, saver, history >>,
         cleaner' = cleaner \/ cleaner'.at \in {"idle", "walking"}
  PROVE  EvidenceInv'
<1>1. CASE cleaner' = cleaner
  BY <1>1 DEF EvidenceInv, CleanerInv, ListHolds, TakenUp, Taken, ArchivesHold, SaversHold,
              ReportedAreDone, EarlyEvidenceKept, Kept, Early, history
<1>2. CASE cleaner'.at \in {"idle", "walking"}
  BY <1>2 DEF EvidenceInv, CleanerInv, ListHolds, TakenUp, Taken, ArchivesHold, SaversHold,
              ReportedAreDone, EarlyEvidenceKept, Kept, Early, history
<1> QED
  BY <1>1, <1>2

LEMMA EvidenceElsewhere ==
  TypeOK /\ EvidenceInv /\ (MaintainerStep \/ Passing \/ UNCHANGED vars) => EvidenceInv'
<1> SUFFICES ASSUME TypeOK, EvidenceInv, MaintainerStep \/ Passing \/ UNCHANGED vars
             PROVE  EvidenceInv'
  OBVIOUS
<1>1. UNCHANGED << held, archives, packed, saver, history, cleaner >>
  BY DEF MaintainerStep, CompressLog, Maintain, CompressionFails, NameCopy, RemoveSource,
         Passing, DayPasses, vars, evidence
<1> QED
  BY <1>1, EvidenceAlone

LEMMA EvidenceCrash == TypeOK /\ EvidenceInv /\ Crash => EvidenceInv'
<1> SUFFICES ASSUME TypeOK, EvidenceInv, Crash PROVE EvidenceInv'
  OBVIOUS
<1>1. cleaner'.at = "idle" /\ UNCHANGED << held, archives, packed, history >>
  BY DEF Crash, CleanerIdle, evidence
<1>2. SaversHold'
  BY DEF Crash, SaversHold
<1>3. ReportedAreDone'
  BY DEF Crash, history, TypeOK, EvidenceInv, ReportedAreDone
<1> QED
  BY <1>1, <1>2, <1>3 DEF EvidenceInv, CleanerInv, ListHolds, TakenUp, Taken, ArchivesHold,
                          EarlyEvidenceKept, Kept, Early, history

-----------------------------------------------------------------------------
LEMMA SaverKeeps == TypeOK /\ EvidenceInv /\ SaverStep => EvidenceInv'
<1> SUFFICES ASSUME TypeOK, EvidenceInv,
                    NEW i \in Items, MakeDirectory(i) \/ SaveImage(i) \/ SaveRecord(i)
             PROVE  EvidenceInv'
  BY DEF SaverStep
<1>1. DayOf[i] \in Days /\ \A j \in Items : DayOf[j] \in Days
  BY DaysOfItems
<1>2. UNCHANGED << archives, packed, cleaner, late, expired >>
  BY DEF MakeDirectory, SaveImage, SaveRecord, history
<1>3. \A d \in Days : held[d] \subseteq held'[d]
  BY <1>1 DEF MakeDirectory, SaveImage, SaveRecord, TypeOK
<1>4. \A j \in Items : saver[j] = "done" => saver'[j] = "done"
  BY DEF MakeDirectory, SaveImage, SaveRecord, TypeOK
<1>5. \A j \in reported' : \/ j \in reported
                            \/ /\ j = i /\ saver[i] = "imaged" /\ saver'[i] = "done"
                               /\ << i, "record" >> \in held'[DayOf[i]]
  BY <1>1 DEF MakeDirectory, SaveImage, SaveRecord, TypeOK, history
<1>6. reported \subseteq reported' /\ reported' \subseteq Items /\ reported \subseteq Items
  BY DEF MakeDirectory, SaveImage, SaveRecord, TypeOK, history
<1>7. saver[i] = "imaged" => i \notin reported
  BY DEF EvidenceInv, ReportedAreDone
<1>8. \A j \in Items : Early(j)' =>
                        Early(j) \/ (j = i /\ saver[i] = "imaged" /\ i \notin late)
  BY <1>2, <1>5 DEF Early
<1>9. saver[i] = "imaged" /\ i \notin late => ~ Taken(DayOf[i])
  BY <1>7 DEF EvidenceInv, TakenUp
<1>10. CleanerInv'
  BY <1>2 DEF EvidenceInv, CleanerInv
<1>11. ListHolds'
  BY <1>2, <1>8, <1>9 DEF EvidenceInv, ListHolds, Taken
<1>12. TakenUp'
  BY <1>2, <1>6 DEF EvidenceInv, TakenUp, Taken
<1>13. ArchivesHold'
  BY <1>2, <1>8, <1>9 DEF EvidenceInv, ArchivesHold, Taken
<1>14. SaversHold'
  <2> SUFFICES ASSUME NEW j \in Items, saver'[j] = "imaged"
               PROVE  j \in late \/ << j, "image" >> \in held'[DayOf[j]]
    BY <1>2 DEF SaversHold
  <2>1. saver[j] = "imaged" \/ << j, "image" >> \in held'[DayOf[j]]
    BY <1>1 DEF MakeDirectory, SaveImage, SaveRecord, TypeOK
  <2> QED
    BY <1>1, <1>3, <2>1 DEF EvidenceInv, SaversHold
<1>15. ReportedAreDone'
  BY <1>4, <1>5, <1>6 DEF EvidenceInv, ReportedAreDone
<1>16. EarlyEvidenceKept'
  <2> SUFFICES ASSUME NEW j \in reported', j \notin late PROVE Kept(j)' \/ j \in expired
    BY <1>2 DEF EarlyEvidenceKept
  <2>1. j \in Items
    BY <1>6
  <2>2. CASE j \in reported
    BY <1>1, <1>2, <1>3, <2>1, <2>2 DEF EvidenceInv, EarlyEvidenceKept, Kept
  <2>3. CASE j \notin reported
    <3>1. /\ j = i /\ saver[i] = "imaged" /\ << i, "record" >> \in held'[DayOf[i]]
      BY <1>5, <2>3
    <3>2. << i, "image" >> \in held'[DayOf[i]]
      BY <1>1, <1>3, <3>1 DEF EvidenceInv, SaversHold
    <3> QED
      BY <3>1, <3>2 DEF Kept, FilesOf, Parts
  <2> QED
    BY <2>2, <2>3
<1> QED
  BY <1>10, <1>11, <1>12, <1>13, <1>14, <1>15, <1>16 DEF EvidenceInv
-----------------------------------------------------------------------------
LEMMA StartKeeps == ASSUME TypeOK, EvidenceInv, NEW d \in Days, StartDay(d) PROVE EvidenceInv'
<1>1. /\ cleaner'.at \in {"packing", "removing"}
      /\ cleaner'.day = d /\ cleaner'.files = held[d]
      /\ (cleaner'.at = "packing") <=> (d \notin archives)
  BY DEF StartDay, Working
<1>2. /\ UNCHANGED << held, archives, packed, saver, reported, expired >>
      /\ late \subseteq late' /\ \A j \in Items : DayOf[j] = d => j \in reported \cup late'
  BY DEF StartDay, evidence
<1>3. \A j : Early(j)' => Early(j)
  BY <1>2 DEF Early
<1>4. CleanerInv'
  BY <1>1, <1>2 DEF CleanerInv
<1>5. ListHolds'
  <2> SUFFICES ASSUME cleaner'.at = "packing", NEW j \in Items, Early(j), DayOf[j] = d
               PROVE  FilesOf(j) \subseteq cleaner'.files
    BY <1>1, <1>3 DEF ListHolds
  <2>1. packed[d] = {}
    BY <1>1 DEF TypeOK
  <2>2. Kept(j)
    BY DEF EvidenceInv, EarlyEvidenceKept, Early
  <2> QED
    BY <1>1, <2>1, <2>2 DEF Kept
<1>6. TakenUp'
  BY <1>1, <1>2 DEF EvidenceInv, TakenUp, Taken
<1>7. ArchivesHold'
  BY <1>2, <1>3 DEF EvidenceInv, ArchivesHold
<1>8. SaversHold' /\ ReportedAreDone'
  BY <1>2 DEF EvidenceInv, SaversHold, ReportedAreDone
<1>9. EarlyEvidenceKept'
  BY <1>2 DEF EvidenceInv, EarlyEvidenceKept, Kept
<1> QED
  BY <1>4, <1>5, <1>6, <1>7, <1>8, <1>9 DEF EvidenceInv

LEMMA PackedKeeps == TypeOK /\ EvidenceInv /\ Packed => EvidenceInv'
<1> SUFFICES ASSUME TypeOK, EvidenceInv, Packed PROVE EvidenceInv'
  OBVIOUS
<1>1. /\ cleaner.at = "packing" /\ cleaner.day \in Days /\ cleaner.day \notin archives
      /\ cleaner'.at = "packed" /\ cleaner'.day = cleaner.day
  BY DEF Packed, EvidenceInv, CleanerInv, TypeOK
<1>2. /\ UNCHANGED << held, saver, reported, late, expired >>
      /\ archives' = archives \cup {cleaner.day}
      /\ packed' = [packed EXCEPT ![cleaner.day] = cleaner.files]
  BY DEF Packed, history
<1>3. \A j : Early(j)' <=> Early(j)
  BY <1>2 DEF Early
<1>4. CleanerInv' /\ ListHolds'
  BY <1>1, <1>2 DEF CleanerInv, ListHolds
<1>5. TakenUp'
  BY <1>1, <1>2 DEF EvidenceInv, TakenUp, Taken
<1>6. ArchivesHold'
  <2> SUFFICES ASSUME NEW j \in Items, Early(j), DayOf[j] \in archives'
               PROVE  FilesOf(j) \subseteq packed'[DayOf[j]]
    BY <1>3 DEF ArchivesHold
  <2>1. DayOf[j] \in Days
    BY DaysOfItems
  <2>2. CASE DayOf[j] = cleaner.day
    BY <1>1, <1>2, <2>1, <2>2 DEF EvidenceInv, ListHolds, TypeOK
  <2>3. CASE DayOf[j] # cleaner.day
    BY <1>2, <2>1, <2>3 DEF EvidenceInv, ArchivesHold, TypeOK
  <2> QED
    BY <2>2, <2>3
<1>7. SaversHold' /\ ReportedAreDone'
  BY <1>2 DEF EvidenceInv, SaversHold, ReportedAreDone
<1>8. EarlyEvidenceKept'
  <2> SUFFICES ASSUME NEW j \in reported, j \notin late, j \notin expired PROVE Kept(j)'
    BY <1>2 DEF EarlyEvidenceKept
  <2>1. j \in Items /\ DayOf[j] \in Days /\ Early(j) /\ Kept(j)
    BY DaysOfItems DEF TypeOK, Early, EvidenceInv, EarlyEvidenceKept
  <2>2. CASE DayOf[j] = cleaner.day
    BY <1>2, <1>3, <1>6, <2>1, <2>2 DEF ArchivesHold, Kept
  <2>3. CASE DayOf[j] # cleaner.day
    BY <1>2, <2>1, <2>3 DEF Kept, TypeOK
  <2> QED
    BY <2>2, <2>3
<1> QED
  BY <1>4, <1>5, <1>6, <1>7, <1>8 DEF EvidenceInv

LEMMA RemoveFileKeeps ==
  ASSUME TypeOK, EvidenceInv, NEW f \in Files, RemoveFile(f) PROVE EvidenceInv'
<1>1. /\ cleaner.at = "removing" /\ cleaner'.at = "removing" /\ cleaner'.day = cleaner.day
      /\ cleaner.day \in Days /\ cleaner.day \in archives
  BY DEF RemoveFile, EvidenceInv, CleanerInv, TypeOK
<1>2. /\ UNCHANGED << archives, packed, saver, reported, late, expired >>
      /\ \A e \in Days : e # cleaner.day => held'[e] = held[e]
  BY <1>1 DEF RemoveFile, history, TypeOK
<1>3. \A j : Early(j)' <=> Early(j)
  BY <1>2 DEF Early
<1>4. CleanerInv' /\ ListHolds'
  BY <1>1, <1>2 DEF CleanerInv, ListHolds
<1>5. TakenUp'
  BY <1>1, <1>2 DEF EvidenceInv, TakenUp, Taken
<1>6. ArchivesHold'
  BY <1>2, <1>3 DEF EvidenceInv, ArchivesHold
<1>7. SaversHold'
  <2> SUFFICES ASSUME NEW j \in Items, saver[j] = "imaged", j \notin late
               PROVE  << j, "image" >> \in held'[DayOf[j]]
    BY <1>2 DEF SaversHold
  <2>1. j \notin reported
    BY DEF EvidenceInv, ReportedAreDone
  <2>2. DayOf[j] # cleaner.day
    BY <1>1, <2>1 DEF EvidenceInv, TakenUp, Taken
  <2> QED
    BY <1>2, <2>2, DaysOfItems DEF EvidenceInv, SaversHold
<1>8. ReportedAreDone'
  BY <1>2 DEF EvidenceInv, ReportedAreDone
<1>9. EarlyEvidenceKept'
  <2> SUFFICES ASSUME NEW j \in reported, j \notin late, j \notin expired PROVE Kept(j)'
    BY <1>2 DEF EarlyEvidenceKept
  <2>1. j \in Items /\ DayOf[j] \in Days /\ Early(j) /\ Kept(j)
    BY DaysOfItems DEF TypeOK, Early, EvidenceInv, EarlyEvidenceKept
  <2>2. CASE DayOf[j] = cleaner.day
    BY <1>1, <1>2, <1>3, <1>6, <2>1, <2>2 DEF ArchivesHold, Kept
  <2>3. CASE DayOf[j] # cleaner.day
    BY <1>2, <2>1, <2>3 DEF Kept
  <2> QED
    BY <2>2, <2>3
<1> QED
  BY <1>4, <1>5, <1>6, <1>7, <1>8, <1>9 DEF EvidenceInv

LEMMA RemoveArchiveKeeps ==
  ASSUME TypeOK, EvidenceInv, NEW d \in Days, RemoveArchive(d) PROVE EvidenceInv'
<1>1. cleaner'.at \in {"idle", "walking"}
  BY WalkingAt DEF RemoveArchive
<1>2. /\ UNCHANGED << held, saver, reported, late >>
      /\ archives' = archives \ {d} /\ packed' = [packed EXCEPT ![d] = {}]
      /\ expired' = expired \cup { i \in reported : DayOf[i] = d }
  BY DEF RemoveArchive
<1>3. \A j : Early(j)' => Early(j)
  BY <1>2 DEF Early
<1>4. CleanerInv' /\ ListHolds'
  BY <1>1 DEF CleanerInv, ListHolds
<1>5. TakenUp'
  BY <1>1, <1>2 DEF EvidenceInv, TakenUp, Taken
<1>6. ArchivesHold'
  BY <1>2, <1>3, DaysOfItems DEF EvidenceInv, ArchivesHold, TypeOK
<1>7. SaversHold' /\ ReportedAreDone'
  BY <1>2 DEF EvidenceInv, SaversHold, ReportedAreDone
<1>8. EarlyEvidenceKept'
  <2> SUFFICES ASSUME NEW j \in reported, j \notin late, j \notin expired' PROVE Kept(j)'
    BY <1>2 DEF EarlyEvidenceKept
  <2>1. j \in Items /\ DayOf[j] \in Days /\ DayOf[j] # d /\ Kept(j)
    BY <1>2, DaysOfItems DEF TypeOK, EvidenceInv, EarlyEvidenceKept
  <2> QED
    BY <1>2, <2>1 DEF Kept, TypeOK
<1> QED
  BY <1>4, <1>5, <1>6, <1>7, <1>8 DEF EvidenceInv

LEMMA CleanerKeeps == TypeOK /\ EvidenceInv /\ CleanerStep => EvidenceInv'
<1> SUFFICES ASSUME TypeOK, EvidenceInv, CleanerStep PROVE EvidenceInv'
  OBVIOUS
<1>1. CASE \E d \in Days : StartDay(d) \/ RemoveArchive(d)
  BY <1>1, StartKeeps, RemoveArchiveKeeps
<1>2. CASE \E f \in Files : RemoveFile(f)
  BY <1>2, RemoveFileKeeps
<1>3. CASE BeginPass \/ PackingFails \/ RemoveDirectory
  <2>1. cleaner'.at \in {"idle", "walking"}
    BY <1>3, WalkingAt DEF BeginPass, CleanerIdle, PackingFails, RemoveDirectory
  <2>2. UNCHANGED << held, archives, packed, saver, history >>
    BY <1>3 DEF BeginPass, PackingFails, RemoveDirectory, evidence
  <2> QED
    BY <2>1, <2>2, EvidenceAlone
<1>4. CASE Packed
  BY <1>4, PackedKeeps
<1>5. CASE ListDirectory
  <2>1. /\ cleaner.at = "packed" /\ cleaner'.at = "removing" /\ cleaner'.day = cleaner.day
        /\ UNCHANGED << held, archives, packed, saver, history >>
    BY <1>5 DEF ListDirectory, evidence, TypeOK
  <2> QED
    BY <2>1 DEF EvidenceInv, CleanerInv, ListHolds, TakenUp, Taken, ArchivesHold, SaversHold,
                ReportedAreDone, EarlyEvidenceKept, Kept, Early, history
<1> QED
  BY <1>1, <1>2, <1>3, <1>4, <1>5 DEF CleanerStep

LEMMA EvidenceStep == TypeOK /\ EvidenceInv /\ [Next]_vars => EvidenceInv'
BY SaverKeeps, CleanerKeeps, EvidenceCrash, EvidenceElsewhere DEF Next, SaverStep, Passing

-----------------------------------------------------------------------------
LEMMA AllInvariant == Spec => [](TypeOK /\ EvidenceInv /\ LogInv)
<1>1. TypeOK /\ EvidenceInv /\ LogInv /\ [Next]_vars => (TypeOK /\ EvidenceInv /\ LogInv)'
  BY TypeStep, EvidenceStep, LogStep DEF EvidenceInv
<1> QED
  BY InitHolds, <1>1, PTL DEF Spec

(* Every variable keeps its type, and files are in directories and archives  *)
(* that exist, whatever the savers, the two threads and crashes do.          *)
THEOREM TypeCorrect == Spec => []TypeOK
BY AllInvariant, PTL

(* What save_frames reported saved before _archive_day took up its day is    *)
(* never lost: it is in the directory, or in the archive that replaced it,   *)
(* until the retention of that archive is over.                              *)
THEOREM ArchivingLosesNothing == Spec => []EarlyEvidenceKept
<1>1. EvidenceInv => EarlyEvidenceKept
  BY DEF EvidenceInv
<1> QED
  BY AllInvariant, <1>1, PTL

(* The source of a log goes only once its compressed copy has its name, so   *)
(* one of them is there until the day has expired.                           *)
THEOREM CompressingLosesNothing == Spec => []LogSurvives
<1>1. LogInv => LogSurvives
  BY DEF LogInv
<1> QED
  BY AllInvariant, <1>1, PTL
=============================================================================
