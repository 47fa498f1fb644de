-------------------------- MODULE RetentionCleaners --------------------------
(***************************************************************************)
(* services/storage/retention_cleaner.py: two threads that put a           *)
(* compressed copy in the place of what a day left.                        *)
(*                                                                         *)
(*   DiagnosticArchiveCleaner  YYYY/MM/DD/ -> YYYY/MM/DD.tar.zst           *)
(*   StorageMaintenance        <log> -> <log>.gz                           *)
(*                                                                         *)
(* Evidence is put into the directories by save_frames                     *)
(* (services/session/diagnostic_archive.py) under the day its session      *)
(* began, at once or, for a session that is finalized late, days after.    *)
(* The process may die between any two effects on the files.  The archive  *)
(* that tar is writing is not seen by anyone: tar -cf begins it anew.      *)
(***************************************************************************)
EXTENDS Naturals, FiniteSets

CONSTANTS
  Days,
  NoDay,       \* no day
  Items,       \* sessions with evidence
  DayOf,       \* the day each of them began
  MaxFaults    \* failed operations and crashes (a bound, for TLC)

ASSUME RetentionAssumption == NoDay \notin Days /\ DayOf \in [Items -> Days] /\ MaxFaults \in Nat

VARIABLES
  age,         \* each day: the current one, complete, or past its retention
  dirs,        \* the days with a directory
  held,        \* the files in it
  archives,    \* the days with an archive
  packed,      \* the files in it
  saver,       \* what save_frames is doing with each item
  cleaner,     \* the archive cleaner: its step, its day, its files, what is left
  sources,     \* the days with a log file
  zips,        \* the days with a compressed log
  temps,       \* the days with a temporary file of one
  maintainer,  \* the maintenance thread: its step, its day, what is left
  reported,    \* history: items whose saving was reported as done
  late,        \* history: items whose day was taken up before that
  expired,     \* history: items whose archive was past its retention
  faults

evidence == << dirs, held, archives, packed >>
logs == << sources, zips, temps >>
history == << reported, late, expired >>
vars == << age, evidence, saver, cleaner, logs, maintainer, history, faults >>

Ages == {"current", "complete", "expired"}
Parts == {"image", "record"}
FilesOf(i) == { << i, part >> : part \in Parts }
Files == Items \X Parts
CleanerIdle == [at |-> "idle", day |-> NoDay, files |-> {}, todo |-> {}]
MaintainerIdle == [at |-> "idle", day |-> NoDay, todo |-> {}]

Fault == faults < MaxFaults /\ faults' = faults + 1

(* Definitions marked "mutant" are wrong on purpose; no action uses them.   *)

-----------------------------------------------------------------------------
(* save_frames makes the directory, saves the images, which makes it again   *)
(* if it is gone, and then writes the record.                                *)
MakeDirectory(i) ==
  /\ saver[i] = "idle" /\ saver' = [saver EXCEPT ![i] = "made"]
  /\ dirs' = dirs \cup {DayOf[i]}
  /\ UNCHANGED << age, held, archives, packed, cleaner, logs, maintainer, history, faults >>

SaveImage(i) ==
  /\ saver[i] = "made" /\ saver' = [saver EXCEPT ![i] = "imaged"]
  /\ dirs' = dirs \cup {DayOf[i]}
  /\ held' = [held EXCEPT ![DayOf[i]] = @ \cup {<< i, "image" >>}]
  /\ UNCHANGED << age, archives, packed, cleaner, logs, maintainer, history, faults >>

SaveRecord(i) ==
  /\ saver[i] = "imaged" /\ saver' = [saver EXCEPT ![i] = "done"]
  /\ IF DayOf[i] \in dirs
     THEN /\ held' = [held EXCEPT ![DayOf[i]] = @ \cup {<< i, "record" >>}]
          /\ reported' = reported \cup {i}
     ELSE UNCHANGED << held, reported >>
  /\ UNCHANGED << age, dirs, archives, packed, cleaner, logs, maintainer, late, expired,
                  faults >>

-----------------------------------------------------------------------------
(* run_once lists the directories of complete days and the archives past     *)
(* their retention.                                                          *)
BeginPass ==
  /\ cleaner.at = "idle"
  /\ LET listed == { << d, "directory" >> : d \in { e \in dirs : age[e] # "current" } }
                   \cup { << d, "archive" >> : d \in { e \in archives : age[e] = "expired" } }
     IN  listed # {} /\ cleaner' = [CleanerIdle EXCEPT !.at = "walking", !.todo = listed]
  /\ UNCHANGED << age, evidence, saver, logs, maintainer, history, faults >>

Walking(entries) == IF entries = {} THEN CleanerIdle
                    ELSE [CleanerIdle EXCEPT !.at = "walking", !.todo = entries]
Take(entry) == cleaner.at = "walking" /\ entry \in cleaner.todo
Working(step, d, files) ==
  [at |-> step, day |-> d, files |-> files, todo |-> cleaner.todo \ {<< d, "directory" >>}]

(* mutant: a day with an archive is passed over.                             *)
StartNewDay(d) ==
  /\ Take(<< d, "directory" >>)
  /\ cleaner' = IF d \in archives THEN Walking(cleaner.todo \ {<< d, "directory" >>})
                ELSE Working("packing", d, held[d])
  /\ late' = late \cup { i \in Items \ reported : DayOf[i] = d }
  /\ UNCHANGED << age, evidence, saver, logs, maintainer, reported, expired, faults >>

(* _archive_day: tar reads the directory; where there is an archive the      *)
(* directory counts as a leftover of an earlier pass and is removed.         *)
StartDay(d) ==
  /\ Take(<< d, "directory" >>)
  /\ cleaner' = Working(IF d \in archives THEN "removing" ELSE "packing", d, held[d])
  /\ late' = late \cup { i \in Items \ reported : DayOf[i] = d }
  /\ UNCHANGED << age, evidence, saver, logs, maintainer, reported, expired, faults >>

(* tar fails, its archive cannot be read back, or a stop ends it.            *)
PackingFails ==
  /\ cleaner.at = "packing" /\ Fault /\ cleaner' = Walking(cleaner.todo)
  /\ UNCHANGED << age, evidence, saver, logs, maintainer, history >>

(* mutant: the directory is removed, and the archive has no name yet.        *)
PackedUnnamed ==
  /\ cleaner.at = "packing" /\ cleaner' = [cleaner EXCEPT !.at = "packed", !.files = {}]
  /\ UNCHANGED << age, evidence, saver, logs, maintainer, history, faults >>

(* The verified archive gets its name.                                       *)
Packed ==
  /\ cleaner.at = "packing" /\ cleaner' = [cleaner EXCEPT !.at = "packed", !.files = {}]
  /\ archives' = archives \cup {cleaner.day}
  /\ packed' = [packed EXCEPT ![cleaner.day] = cleaner.files]
  /\ UNCHANGED << age, dirs, held, saver, logs, maintainer, history, faults >>

(* rmtree lists the directory, removes what it listed, and the directory if  *)
(* it is empty then.                                                         *)
ListDirectory ==
  /\ cleaner.at = "packed"
  /\ cleaner' = [cleaner EXCEPT !.at = "removing", !.files = held[cleaner.day]]
  /\ UNCHANGED << age, evidence, saver, logs, maintainer, history, faults >>

RemoveFile(f) ==
  /\ cleaner.at = "removing" /\ f \in cleaner.files
  /\ held' = [held EXCEPT ![cleaner.day] = @ \ {f}]
  /\ cleaner' = [cleaner EXCEPT !.files = @ \ {f}]
  /\ UNCHANGED << age, dirs, archives, packed, saver, logs, maintainer, history, faults >>

RemoveDirectory ==
  /\ cleaner.at = "removing" /\ cleaner.files = {}
  /\ dirs' = IF held[cleaner.day] = {} THEN dirs \ {cleaner.day} ELSE dirs
  /\ cleaner' = Walking(cleaner.todo)
  /\ UNCHANGED << age, held, archives, packed, saver, logs, maintainer, history, faults >>

RemoveArchive(d) ==
  /\ Take(<< d, "archive" >>) /\ cleaner' = Walking(cleaner.todo \ {<< d, "archive" >>})
  /\ archives' = archives \ {d} /\ packed' = [packed EXCEPT ![d] = {}]
  /\ expired' = expired \cup { i \in reported : DayOf[i] = d }
  /\ UNCHANGED << age, dirs, held, saver, logs, maintainer, reported, late, faults >>

-----------------------------------------------------------------------------
Onward(days) == IF days = {} THEN MaintainerIdle
                ELSE [MaintainerIdle EXCEPT !.at = "walking", !.todo = days]

(* run_once of the maintenance: expired logs are removed, and then those of  *)
(* complete days compressed.  The log of the current day is open.            *)
Maintain ==
  /\ maintainer.at = "idle"
  /\ LET gone == { d \in Days : age[d] = "expired" }
     IN  /\ sources' = sources \ gone /\ zips' = zips \ gone
         /\ maintainer' = Onward({ d \in sources' : age[d] # "current" })
  /\ (sources' # sources \/ zips' # zips \/ maintainer' # maintainer)
  /\ UNCHANGED << age, evidence, saver, cleaner, temps, history, faults >>

(* _compress_log opens its temporary file for exclusive creation.  One that  *)
(* a crash left makes this fail, and is removed on the way out; where the    *)
(* compressed log is there it is compared, and only the source removed.      *)
Refused(d) == temps' = temps \ {d}

CompressLog(d) ==
  /\ maintainer.at = "walking" /\ d \in maintainer.todo
  /\ \/ /\ d \in zips \cup temps
        /\ maintainer' = Onward(maintainer.todo \ {d})
        /\ IF d \in zips THEN sources' = sources \ {d} /\ UNCHANGED temps
           ELSE Refused(d) /\ UNCHANGED sources
     \/ /\ d \notin zips \cup temps
        /\ maintainer' = [at |-> "writing", day |-> d, todo |-> maintainer.todo \ {d}]
        /\ temps' = temps \cup {d} /\ UNCHANGED sources
  /\ UNCHANGED << age, evidence, saver, cleaner, zips, history, faults >>

CompressionFails ==
  /\ maintainer.at = "writing" /\ Fault
  /\ temps' = temps \ {maintainer.day} /\ maintainer' = Onward(maintainer.todo)
  /\ UNCHANGED << age, evidence, saver, cleaner, sources, zips, history >>

(* The copy that was verified against its source gets its name.              *)
(* mutant: the temporary file is removed instead.                            *)
CopyDropped == temps' = temps \ {maintainer.day} /\ UNCHANGED zips
CopyNamed == temps' = temps \ {maintainer.day} /\ zips' = zips \cup {maintainer.day}

NameCopy ==
  /\ maintainer.at = "writing" /\ CopyNamed
  /\ maintainer' = [maintainer EXCEPT !.at = "named"]
  /\ UNCHANGED << age, evidence, saver, cleaner, sources, history, faults >>

RemoveSource ==
  /\ maintainer.at = "named" /\ sources' = sources \ {maintainer.day}
  /\ maintainer' = Onward(maintainer.todo)
  /\ UNCHANGED << age, evidence, saver, cleaner, zips, temps, history, faults >>

-----------------------------------------------------------------------------
DayPasses(d) ==
  /\ age[d] # "expired"
  /\ age' = [age EXCEPT ![d] = IF @ = "current" THEN "complete" ELSE "expired"]
  /\ UNCHANGED << evidence, saver, cleaner, logs, maintainer, history, faults >>

(* Evidence that was being saved is saved again when its session is taken up *)
(* again.                                                                    *)
Crash ==
  /\ Fault /\ cleaner' = CleanerIdle /\ maintainer' = MaintainerIdle
  /\ saver' = [i \in Items |-> IF saver[i] = "done" THEN "done" ELSE "idle"]
  /\ UNCHANGED << age, evidence, logs, history >>

Init ==
  /\ age = [d \in Days |-> "current"]
  /\ dirs = {} /\ held = [d \in Days |-> {}] /\ archives = {} /\ packed = held
  /\ saver = [i \in Items |-> "idle"] /\ cleaner = CleanerIdle
  /\ sources = Days /\ zips = {} /\ temps = {} /\ maintainer = MaintainerIdle
  /\ reported = {} /\ late = {} /\ expired = {} /\ faults = 0

CleanerStep ==
  \/ \E d \in Days : StartDay(d) \/ RemoveArchive(d)
  \/ \E f \in Files : RemoveFile(f)
  \/ BeginPass \/ PackingFails \/ Packed \/ ListDirectory \/ RemoveDirectory

MaintainerStep ==
  \/ \E d \in Days : CompressLog(d)
  \/ Maintain \/ CompressionFails \/ NameCopy \/ RemoveSource

Next ==
  \/ \E i \in Items : MakeDirectory(i) \/ SaveImage(i) \/ SaveRecord(i)
  \/ CleanerStep \/ MaintainerStep \/ Crash
  \/ \E d \in Days : DayPasses(d)

Spec == Init /\ [][Next]_vars

(* Both threads run their passes.  No evidence need be saved, and a failure  *)
(* is not forced.                                                            *)
FairSpec == Spec /\ WF_vars(CleanerStep) /\ WF_vars(MaintainerStep)

-----------------------------------------------------------------------------
(* Every variable has its type; files are in directories that exist.         *)
TypeOK ==
  /\ age \in [Days -> Ages] /\ dirs \subseteq Days /\ archives \subseteq Days
  /\ held \in [Days -> SUBSET Files] /\ packed \in [Days -> SUBSET Files]
  /\ \A d \in Days : (held[d] # {} => d \in dirs) /\ (packed[d] # {} => d \in archives)
  /\ saver \in [Items -> {"idle", "made", "imaged", "done"}]
  /\ cleaner \in [ at : {"idle", "walking", "packing", "packed", "removing"},
                   day : Days \cup {NoDay}, files : SUBSET Files,
                   todo : SUBSET (Days \X {"directory", "archive"}) ]
  /\ sources \subseteq Days /\ zips \subseteq Days /\ temps \subseteq Days
  /\ maintainer \in [ at : {"idle", "walking", "writing", "named"},
                      day : Days \cup {NoDay}, todo : SUBSET Days ]
  /\ reported \subseteq Items /\ late \subseteq Items /\ expired \subseteq reported
  /\ faults \in 0 .. MaxFaults

Kept(i) == FilesOf(i) \subseteq held[DayOf[i]] \cup packed[DayOf[i]]

(* Evidence that was saved before its day was taken up is in the directory   *)
(* or in the archive until that has expired, wherever a pass fails or the    *)
(* process dies.                                                             *)
EarlyEvidenceKept == \A i \in reported \ late : Kept(i) \/ i \in expired

(* The log of a day is there, as it was or compressed, until it has expired. *)
LogSurvives == \A d \in Days : d \in sources \cup zips \/ age[d] = "expired"

(* What a failure or a crash left does not stop later passes: the directory  *)
(* and the log of a complete day make way for their copies.                  *)
DaysAreCleared ==
  \A d \in Days : age[d] # "current" ~> d \notin dirs /\ d \notin sources

(* docs/storage.md: the directories hold the sole copy, and each complete    *)
(* day is archived.                                                          *)
EvidenceIsKept == \A i \in reported : Kept(i) \/ i \in expired
=============================================================================
