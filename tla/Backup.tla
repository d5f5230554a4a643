------------------------------- MODULE Backup -------------------------------
(***************************************************************************)
(* Backups of the production database on Koofr, and the downsync of one    *)
(* other stage, which replaces its database by the newest of them          *)
(* (app/services/backup_service.py, backup_jobs.py, downsync_jobs.py, the  *)
(* triggers in router_includes/scheduler.py, job_run_service.py).          *)
(*                                                                         *)
(* Backups and restores are sequences of calls to other programs, each of  *)
(* which may fail; nothing keeps two of them apart.  Koofr and PostgreSQL  *)
(* are external, modelled as these calls meet them.                        *)
(***************************************************************************)
EXTENDS Integers, FiniteSets

CONSTANTS
  Retention,    \* koofr_backup_retention_days
  MaxDays,      \* bound on the clock
  MaxBackups,   \* bound on the backups begun
  MaxExtras,    \* bound on backups and downsyncs triggered by hand and runs
                \* of other jobs together
  MaxFailures   \* bound on the calls that fail

ASSUME BoundsAssumption == {MaxDays, MaxBackups, MaxExtras, MaxFailures} \subseteq Nat
ASSUME RetentionAssumption == Retention \in Nat \ {0}

VARIABLES
  day,       \* the wall clock
  koofr,     \* the files, of every stage
  backup,    \* the scheduled and the triggered backup: [step, day, nr, expired]
  db,        \* the stage's database: [state, from]
  job_runs,  \* its run history: [table, rows, last, foreign]
  restore,   \* the scheduled and the triggered downsync
  begun,     \* what the bounds count
  settled,   \* rows of job_runs written while no downsync ran
  overlap    \* two downsyncs have run at once

vars == <<day, koofr, backup, db, job_runs, restore, begun, settled, overlap>>

Callers == {"cron", "manual"}

\* What a name and a dump say: the stamp is a day and a place in the order of
\* all stamps, which go by the second.
Files == [day : 0..MaxDays, nr : 0..MaxBackups, stage : {"production", "test"},
          whole : BOOLEAN, history : BOOLEAN]

\* An empty schema; tables without rows; some of the rows; one dump.
States == {"wiped", "bare", "broken", "whole"}

NoTable == [table |-> FALSE, rows |-> {}, last |-> "none", foreign |-> FALSE]

Histories == {NoTable} \cup [table : {TRUE}, rows : SUBSET (0..MaxExtras),
                             last : {"none", "success", "failure"}, foreign : BOOLEAN]

Steps == {"idle", "download", "preserve", "wipe", "load", "loading", "verify",
          "reinsert", "record"}

NoBackup == [step |-> "idle", day |-> 0, nr |-> 0, expired |-> {}]

Resting == [step |-> "idle", file |-> {}, kept |-> NoTable, status |-> "none"]

TypeOK ==
  /\ day \in 0..MaxDays
  /\ koofr \subseteq Files
  /\ backup \in [Callers -> [step : {"idle", "upload", "list", "delete"}, day : 0..MaxDays,
                             nr : 0..MaxBackups, expired : SUBSET Files]]
  /\ db \in [state : States, from : {"production", "test"}]
  /\ job_runs \in Histories
  /\ restore \in [Callers -> [step : Steps, file : SUBSET Files, kept : Histories,
                              status : {"none", "success", "failure"}]]
  /\ begun \in [backups : 0..MaxBackups, triggers : 0..MaxExtras, runs : 0..MaxExtras,
                failures : 0..MaxFailures]
  /\ settled \subseteq 0..MaxExtras
  /\ overlap \in BOOLEAN

\* A backup of another stage is there from the time before backups were
\* production's alone.
Init ==
  /\ day = 0
  /\ koofr = [day : {0}, nr : {0}, stage : {"test"}, whole : {TRUE}, history : {FALSE}]
  /\ backup = [c \in Callers |-> NoBackup]
  /\ db = [state |-> "whole", from |-> "production"]
  /\ job_runs = [NoTable EXCEPT !.table = TRUE, !.rows = {0}]
  /\ restore = [c \in Callers |-> Resting]
  /\ begun = [backups |-> 0, triggers |-> 0, runs |-> 0, failures |-> 0]
  /\ settled = {0}
  /\ overlap = FALSE

Fails ==
  /\ begun.failures < MaxFailures
  /\ begun' = [begun EXCEPT !.failures = @ + 1]

\* The schedule begins at any time, an administrator so often.
Triggered(c) == IF c = "manual" THEN 1 ELSE 0

MayBegin(c) == begun.triggers + begun.runs + Triggered(c) <= MaxExtras

-----------------------------------------------------------------------------
(* Production: run_backup, and cleanup_old_backups in the scheduled job.   *)

OnStage == <<db, job_runs, restore, settled, overlap>>

\* Days begin at the scheduled hour; a backup takes far less than a day.
TimePasses ==
  /\ day < MaxDays
  /\ \A c \in Callers : backup[c].step = "idle"
  /\ day' = day + 1
  /\ UNCHANGED <<koofr, backup, begun, OnStage>>

\* The name is taken from the clock before the dump.
StartBackup(c) ==
  /\ backup[c].step = "idle" /\ begun.backups < MaxBackups /\ MayBegin(c)
  /\ begun' = [begun EXCEPT !.backups = @ + 1, !.triggers = @ + Triggered(c)]
  /\ backup' = [backup EXCEPT ![c].step = "upload", ![c].day = day, ![c].nr = begun'.backups]
  /\ UNCHANGED <<day, koofr, OnStage>>

\* pg_dump leaves out the rows of job_runs.
Dump(c) ==
  [day |-> backup[c].day, nr |-> backup[c].nr, stage |-> "production", whole |-> TRUE,
   history |-> FALSE]

Upload(c) ==
  /\ backup[c].step = "upload"
  /\ koofr' = koofr \cup {Dump(c)}
  /\ backup' = [backup EXCEPT ![c] = IF c = "cron" THEN [@ EXCEPT !.step = "list"] ELSE NoBackup]
  /\ UNCHANGED <<day, begun, OnStage>>

\* Mutant: the job cleans up whether or not the backup succeeded.
BackupFailsAndCleans(c) ==
  /\ backup[c].step = "upload" /\ Fails
  /\ \E stored \in SUBSET {Dump(c)} : \E whole \in BOOLEAN :
       koofr' = koofr \cup {[f EXCEPT !.whole = whole] : f \in stored}
  /\ backup' = [backup EXCEPT ![c] = IF c = "cron" THEN [@ EXCEPT !.step = "list"] ELSE NoBackup]
  /\ UNCHANGED <<day, OnStage>>

\* pg_dump or the upload fails; an upload may be stored, in whole or in
\* part, and its answer lost.  No cleaning up after a failure.
BackupFails(c) ==
  /\ backup[c].step = "upload" /\ Fails
  /\ \E stored \in SUBSET {Dump(c)} : \E whole \in BOOLEAN :
       koofr' = koofr \cup {[f EXCEPT !.whole = whole] : f \in stored}
  /\ backup' = [backup EXCEPT ![c] = NoBackup]
  /\ UNCHANGED <<day, OnStage>>

\* A file Retention days old to the day has expired or not, by the second.
ListExpired ==
  /\ backup["cron"].step = "list"
  /\ \E now \in SUBSET {f \in koofr : f.day = day - Retention} :
       backup' = [backup EXCEPT !["cron"].step = "delete",
                                !["cron"].expired = {f \in koofr : f.day < day - Retention} \cup now]
  /\ UNCHANGED <<day, koofr, begun, OnStage>>

DeleteExpired ==
  /\ backup["cron"].step = "delete"
  /\ \E f \in backup["cron"].expired :
       /\ koofr' = koofr \ {f}
       /\ backup' = [backup EXCEPT !["cron"].expired = @ \ {f}]
  /\ UNCHANGED <<day, begun, OnStage>>

EndCleanup ==
  /\ backup["cron"].step \in {"list", "delete"}
  /\ \/ backup["cron"].step = "delete" /\ backup["cron"].expired = {} /\ UNCHANGED begun
     \/ Fails
  /\ backup' = [backup EXCEPT !["cron"] = NoBackup]
  /\ UNCHANGED <<day, koofr, OnStage>>

-----------------------------------------------------------------------------
(* The stage: job_downsync, trigger_downsync, and run_restore in both.     *)

InProduction == <<day, koofr, backup>>

Goes(c, next) == restore' = [restore EXCEPT ![c].step = next]

\* Only the scheduled job records how it ended.
Ended(c, status) ==
  IF c = "cron" THEN [Resting EXCEPT !.step = "record", !.status = status] ELSE Resting

Ends(c, status) == restore' = [restore EXCEPT ![c] = Ended(c, status)]

\* The loads of other downsyncs that are under way.
Loading(c) == {o \in Callers \ {c} : restore[o].step = "loading"}

ProductionBackups == {f \in koofr : f.stage = "production"}

Latest == {f \in ProductionBackups : \A g \in ProductionBackups : g.nr <= f.nr}

\* list_backups; without a backup there is nothing to do.
StartDownsync(c) ==
  /\ restore[c].step = "idle" /\ MayBegin(c)
  /\ begun' = [begun EXCEPT !.triggers = @ + Triggered(c)]
  /\ \/ /\ Latest = {}
        /\ Ends(c, "success")
        /\ UNCHANGED overlap
     \/ \E f \in Latest :
          /\ restore' = [restore EXCEPT ![c].step = "download", ![c].file = {f}]
          /\ overlap' = (overlap \/ \E o \in Callers \ {c} : restore[o].step # "idle")
  /\ UNCHANGED <<InProduction, db, job_runs, settled>>

\* Mutant: the schema is dropped before the dump is there.
DownloadAfterWipe(c) ==
  /\ restore[c].step = "download"
  /\ db' = [db EXCEPT !.state = "wiped"]
  /\ job_runs' = NoTable
  /\ IF restore[c].file \subseteq koofr THEN Goes(c, "preserve") ELSE Ends(c, "failure")
  /\ UNCHANGED <<InProduction, begun, settled, overlap>>

\* The file may have expired since.
Download(c) ==
  /\ restore[c].step = "download"
  /\ IF restore[c].file \subseteq koofr THEN Goes(c, "preserve") ELSE Ends(c, "failure")
  /\ UNCHANGED <<InProduction, db, job_runs, begun, settled, overlap>>

\* _preserve_job_runs_before_wipe, best effort.
Preserve(c) ==
  /\ restore[c].step = "preserve"
  /\ \/ UNCHANGED begun /\ restore' = [restore EXCEPT ![c].step = "wipe", ![c].kept = job_runs]
     \/ Fails /\ Goes(c, "wipe")
  /\ UNCHANGED <<InProduction, db, job_runs, settled, overlap>>

\* Mutant: no wipe, as with pg_restore --clean whose DROPs fail.
WipeNothing(c) ==
  /\ restore[c].step = "wipe"
  /\ Goes(c, "load")
  /\ UNCHANGED <<InProduction, db, job_runs, begun, settled, overlap>>

\* _wipe_public_schema ends every other session: a load under way fails.
Wipe(c) ==
  /\ restore[c].step = "wipe"
  /\ db' = [db EXCEPT !.state = "wiped"]
  /\ job_runs' = NoTable
  /\ restore' = [o \in Callers |-> IF o = c THEN [restore[c] EXCEPT !.step = "load"]
                                   ELSE IF o \in Loading(c) THEN Ended(o, "failure")
                                   ELSE restore[o]]
  /\ UNCHANGED <<InProduction, begun, settled, overlap>>

\* pg_restore creates the tables, job_runs without rows of its own stage.
\* Where tables are already, it mixes two dumps and fails in the end, and so
\* may the other load.
StartLoad(c) ==
  /\ restore[c].step = "load"
  /\ \E f \in restore[c].file :
       /\ db' = [state |-> "broken", from |-> f.stage]
       /\ job_runs' = [job_runs EXCEPT !.table = TRUE, !.foreign = @ \/ f.history]
  /\ \/ db.state = "wiped" /\ Goes(c, "loading")
     \/ /\ db.state # "wiped"
        /\ \E hit \in SUBSET Loading(c) :
             restore' = [o \in Callers |-> IF o \in hit \cup {c} THEN Ended(o, "failure")
                                          ELSE restore[o]]
  /\ UNCHANGED <<InProduction, begun, settled, overlap>>

\* Every row, or exit code 0 without a row.
EndLoad(c) ==
  /\ restore[c].step = "loading"
  /\ \A f \in restore[c].file : f.whole
  /\ \/ db' = [db EXCEPT !.state = "whole"] /\ UNCHANGED begun
     \/ db' = [db EXCEPT !.state = "bare"] /\ Fails
  /\ restore' = [restore EXCEPT ![c].step = "verify", ![c].file = {}]
  /\ UNCHANGED <<InProduction, job_runs, settled, overlap>>

\* A truncated dump.
LoadFails(c) ==
  /\ restore[c].step = "loading"
  /\ \E f \in restore[c].file : ~f.whole
  /\ Ends(c, "failure")
  /\ UNCHANGED <<InProduction, db, job_runs, begun, settled, overlap>>

\* Mutant: the rows of job_runs are counted, too.
VerifyAfterReinsert(c) ==
  /\ restore[c].step = "verify"
  /\ \/ db.state = "wiped" /\ Ends(c, "failure")
     \/ db.state # "wiped" /\ Goes(c, "reinsert")
  /\ UNCHANGED <<InProduction, db, job_runs, begun, settled, overlap>>

\* _verify_restore_populated: some row in some table.
Verify(c) ==
  /\ restore[c].step = "verify"
  /\ \/ db.state \in {"wiped", "bare", "broken"} /\ Ends(c, "failure")
     \/ db.state \in {"broken", "whole"} /\ Goes(c, "reinsert")
  /\ UNCHANGED <<InProduction, db, job_runs, begun, settled, overlap>>

\* _restore_preserved_job_runs, best effort; a row that is there already
\* makes it fail.  The preserved file is gone afterwards, as after any failure.
Reinsert(c) ==
  LET kept == restore[c].kept
      fits == job_runs.table /\ kept.table /\ kept.rows \cap job_runs.rows = {}
  IN  /\ restore[c].step = "reinsert"
      /\ \/ /\ fits
            /\ job_runs' = [job_runs EXCEPT
                              !.rows = @ \cup kept.rows,
                              !.last = IF @ = "none" THEN kept.last ELSE @,
                              !.foreign = @ \/ kept.foreign]
            /\ UNCHANGED begun
         \/ ~fits /\ UNCHANGED <<job_runs, begun>>
         \/ Fails /\ UNCHANGED job_runs
      /\ Ends(c, "success")
      /\ UNCHANGED <<InProduction, db, settled, overlap>>

\* record_job_run swallows the error when there is no table.
Record(c) ==
  /\ restore[c].step = "record"
  /\ job_runs' = IF job_runs.table THEN [job_runs EXCEPT !.last = restore[c].status] ELSE job_runs
  /\ restore' = [restore EXCEPT ![c] = Resting]
  /\ UNCHANGED <<InProduction, db, begun, settled, overlap>>

\* A call outside the best-effort ones fails, or the process dies: before the
\* wipe nothing has happened, in a load something has.
RestoreFails(c) ==
  /\ restore[c].step \in {"download", "wipe", "load", "loading", "verify"}
  /\ Fails
  /\ Ends(c, "failure")
  /\ UNCHANGED <<InProduction, db, job_runs, settled, overlap>>

Dies(c) ==
  /\ restore[c].step # "idle"
  /\ Fails
  /\ restore' = [restore EXCEPT ![c] = Resting]
  /\ UNCHANGED <<InProduction, db, job_runs, settled, overlap>>

\* _run_and_record of another job, the hourly one on every stage.  Without a
\* table record_job_run only logs.
OtherRun ==
  /\ begun.triggers + begun.runs < MaxExtras /\ job_runs.table
  /\ begun' = [begun EXCEPT !.runs = @ + 1]
  /\ job_runs' = [job_runs EXCEPT !.rows = @ \cup {begun'.runs}]
  /\ settled' = IF \A c \in Callers : restore[c].step = "idle"
                THEN settled \cup {begun'.runs} ELSE settled
  /\ UNCHANGED <<InProduction, db, restore, overlap>>

-----------------------------------------------------------------------------
Restoring(c) ==
  \/ StartDownsync(c) \/ Download(c) \/ Preserve(c) \/ Wipe(c) \/ StartLoad(c) \/ EndLoad(c)
  \/ LoadFails(c) \/ Verify(c) \/ Reinsert(c) \/ Record(c)

Next ==
  \/ TimePasses
  \/ \E c \in Callers : StartBackup(c) \/ Upload(c) \/ BackupFails(c)
  \/ ListExpired \/ DeleteExpired \/ EndCleanup
  \/ \E c \in Callers : Restoring(c) \/ RestoreFails(c) \/ Dies(c)
  \/ OtherRun

\* The downsync is due every night, and a started call returns.
Fairness ==
  /\ WF_vars(Restoring("cron"))
  /\ WF_vars(restore["manual"].step # "idle" /\ Restoring("manual"))

Spec == Init /\ [][Next]_vars /\ Fairness

-----------------------------------------------------------------------------
AtRest == \A c \in Callers : restore[c].step = "idle"

\* The stage's database is lost only to a failing call or to two downsyncs at
\* once: a backup that expires while it is being fetched costs nothing.
WholeWithoutFailure ==
  AtRest /\ ~overlap /\ begun.failures = 0 => db.state = "whole"

\* Then, too, the stage keeps the run history it had when a downsync began.
HistorySurvives ==
  AtRest /\ ~overlap /\ begun.failures = 0 => settled \subseteq job_runs.rows

\* A downsync nothing goes wrong in leaves a whole database and the history.
UndisturbedIsWhole == TypeOK /\ WholeWithoutFailure /\ HistorySurvives

\* "success" as the last outcome of the downsync means a database restored
\* in whole, whatever failed before or after, unless two ran at once.
ShownIsTrue ==
  AtRest /\ ~overlap /\ job_runs.last = "success" => db.state = "whole"

\* The stage never gets another stage's rows, nor production's run history.
OnlyProductionData == db.from = "production" /\ ~job_runs.foreign

\* What a downsync shows of itself, and what it brings, is true.
ShownAndBroughtIsTrue == ShownIsTrue /\ OnlyProductionData

\* Cleaning up leaves a whole backup of production, however many days of
\* failures went before.
BackupStays ==
  [][(\E f \in ProductionBackups : f.whole) => \E f \in ProductionBackups' : f.whole]_vars

\* Once the newest backup stays whole, the stage is restored again and again.
StageRecovers ==
  <>[](Latest # {} /\ \A f \in Latest : f.whole) => []<>(db.state = "whole")

\* "explicitly preserved across a restore": no run is lost while nothing fails.
RunsPreserved ==
  AtRest /\ ~overlap /\ begun.failures = 0 => job_runs.rows = 0..begun.runs
=============================================================================
