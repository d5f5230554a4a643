---------------------------- MODULE Backup_proofs ----------------------------
(***************************************************************************)
(* Proofs about Backup, for any retention, any number of days, backups and *)
(* runs, and any number of failing calls.                                  *)
(***************************************************************************)
EXTENDS Backup, WellFoundedInduction, TLAPS

Active(c) == restore[c].step \notin {"idle", "record"}

-----------------------------------------------------------------------------
(* The invariant.                                                          *)

\* Backups: a cleaning-up has its own dump behind it, and only older files
\* before it.
BackupsInv ==
  /\ \A f \in koofr : ~f.history
  /\ \A c \in Callers : backup[c].step # "idle" => backup[c].day = day
  /\ backup["manual"].step \in {"idle", "upload"}
  /\ backup["cron"].step \in {"list", "delete"} => Dump("cron") \in koofr
  /\ backup["cron"].step = "delete" => \A f \in backup["cron"].expired : f.day < day

\* Restores: a downsync under way has had a backup of production to begin
\* with, of which there is always one from then on.
RestoresInv ==
  /\ restore["manual"].step # "record"
  /\ \A c \in Callers : \A f \in restore[c].file : f.stage = "production" /\ ~f.history
  /\ ProductionBackups = {} => db.state = "whole" /\ \A c \in Callers : ~Active(c)
  /\ ~overlap => \A c, o \in Callers : c = o \/ restore[c].step = "idle" \/ restore[o].step = "idle"
  /\ db.from = "production" /\ ~job_runs.foreign
  /\ \A c \in Callers : ~restore[c].kept.foreign

\* Without failures and overlaps: where the database and its run history are
\* while a downsync goes on.
KeptInv ==
  /\ job_runs.rows \subseteq 0..begun.runs
  /\ \A c \in Callers : restore[c].kept.rows \subseteq 0..begun.runs

Safe(c) ==
  CASE restore[c].step \in {"idle", "download", "preserve", "record"} ->
         db.state = "whole" /\ job_runs.table /\ settled \subseteq job_runs.rows
    [] restore[c].step = "wipe" ->
         /\ db.state = "whole" /\ job_runs.table /\ settled \subseteq job_runs.rows
         /\ restore[c].kept.table /\ settled \subseteq restore[c].kept.rows
    [] restore[c].step = "load" ->
         /\ db.state = "wiped" /\ job_runs = NoTable
         /\ restore[c].kept.table /\ settled \subseteq restore[c].kept.rows
    [] OTHER ->
         /\ db.state = IF restore[c].step = "loading" THEN "broken" ELSE "whole"
         /\ job_runs.table /\ job_runs.rows \cap restore[c].kept.rows = {}
         /\ restore[c].kept.table /\ settled \subseteq restore[c].kept.rows

UndisturbedInv ==
  begun.failures = 0 =>
    /\ \A f \in ProductionBackups : f.whole
    /\ \A c \in Callers : \A f \in restore[c].file : f.whole
    /\ ~overlap => /\ \A c \in Callers : restore[c].step # "idle" => Safe(c)
                   /\ AtRest => \A c \in Callers : Safe(c)

\* Without overlaps, whatever fails: what job_runs says, or will say.
Shown(c) ==
  CASE restore[c].step \in {"idle", "download", "preserve", "wipe"} ->
         job_runs.last = "success" => db.state = "whole"
    [] restore[c].step \in {"load", "loading", "verify"} ->
         /\ job_runs.last = "none"
         /\ restore[c].step = "verify" => db.state \in {"bare", "whole"}
    [] restore[c].step = "reinsert" -> db.state = "whole"
    [] OTHER -> /\ restore[c].status = "success" => db.state = "whole"
                /\ job_runs.last = "success" => db.state = "whole"

ShownInv ==
  ~overlap => /\ \A c \in Callers : restore[c].step # "idle" => Shown(c)
              /\ AtRest => \A c \in Callers : Shown(c)

IInv == TypeOK /\ BackupsInv /\ RestoresInv /\ KeptInv /\ UndisturbedInv /\ ShownInv

-----------------------------------------------------------------------------
(* The newest of some backups.                                             *)

LEMMA Least ==
  ASSUME NEW T \in SUBSET Nat, T # {}
  PROVE  \E n \in T : \A m \in T : n <= m
<1>1. OpToRel(<, Nat) = {p \in Nat \X Nat : p[1] < p[2]}
  BY Zenon DEF OpToRel
<1>2. PICK n \in T : \A m \in T : <<m, n>> \notin OpToRel(<, Nat)
  BY WFMin, NatLessThanWellFounded, Zenon
<1>3. ASSUME NEW m \in T, m < n PROVE FALSE
  <2>1. <<m, n>> \in Nat \X Nat /\ <<m, n>>[1] < <<m, n>>[2]
    BY <1>3
  <2>2. <<m, n>> \in OpToRel(<, Nat)
    BY <1>1, <2>1, Zenon
  <2>. QED
    BY <1>2, <2>2
<1>4. \A m \in T : n <= m
  BY <1>3
<1>. QED
  BY <1>4

LEMMA Greatest ==
  ASSUME NEW N \in Nat, NEW S \in SUBSET (0..N), S # {}
  PROVE  \E n \in S : \A m \in S : m <= n
<1>. DEFINE T == {n \in 0..N : N - n \in S}
<1>1. \A m \in S : N - m \in T
  OBVIOUS
<1>2. T \in SUBSET Nat /\ T # {}
  <2>1. PICK m \in S : TRUE
    OBVIOUS
  <2>2. N - m \in T
    BY <1>1, <2>1
  <2>3. T \subseteq Nat
    OBVIOUS
  <2>. HIDE DEF T
  <2>. QED
    BY <2>2, <2>3
<1>3. PICK n \in T : \A m \in T : n <= m
  BY <1>2, Least
<1>4. n \in 0..N /\ N - n \in S
  OBVIOUS
<1>5. ASSUME NEW m \in S PROVE m <= N - n
  <2>1. n <= N - m /\ m \in 0..N
    BY <1>1, <1>3
  <2>. QED
    BY <1>4, <2>1
<1>. QED
  BY <1>4, <1>5

\* Some backup of production is the newest, when there is one.
LEMMA SomeLatest ==
  ASSUME TypeOK, ProductionBackups # {}
  PROVE  Latest # {}
<1>. DEFINE S == {f.nr : f \in ProductionBackups}
<1>1. \A f \in ProductionBackups : f.nr \in S /\ f.nr \in 0..MaxBackups
  BY DEF TypeOK, Files, ProductionBackups
<1>2. S \in SUBSET (0..MaxBackups) /\ S # {} /\ MaxBackups \in Nat
  BY <1>1, BoundsAssumption
<1>3. PICK n \in S : \A m \in S : m <= n
  BY <1>2, Greatest
<1>4. PICK f \in ProductionBackups : f.nr = n
  OBVIOUS
<1>5. \A g \in ProductionBackups : g.nr <= f.nr
  BY <1>1, <1>3, <1>4
<1>. QED
  BY <1>4, <1>5 DEF Latest

-----------------------------------------------------------------------------
(* Types.                                                                  *)

Counts == [backups : 0..MaxBackups, triggers : 0..MaxExtras, runs : 0..MaxExtras,
           failures : 0..MaxFailures]

Runs == [table : BOOLEAN, rows : SUBSET (0..MaxExtras), last : {"none", "success", "failure"},
         foreign : BOOLEAN]

LEMMA HistoriesTyped ==
  /\ Histories \subseteq Runs
  /\ \A h \in Runs : h.table => h \in Histories
  /\ NoTable \in Histories
<1>1. NoTable \in Runs /\ NoTable \in Histories
  BY DEF Histories, NoTable, Runs
<1>2. Histories \subseteq Runs
  BY <1>1 DEF Histories, Runs
<1>3. ASSUME NEW h \in Runs, h.table PROVE h \in Histories
  <2>1. h.table \in {TRUE}
    BY <1>3 DEF Runs
  <2>2. h \in [table : {TRUE}, rows : SUBSET (0..MaxExtras),
               last : {"none", "success", "failure"}, foreign : BOOLEAN]
    BY <2>1 DEF Runs
  <2>. QED
    BY <2>2 DEF Histories
<1>. QED
  BY <1>1, <1>2, <1>3

Restore == [step : Steps, file : SUBSET Files, kept : Histories,
            status : {"none", "success", "failure"}]

\* One downsync is where these say, the others are where they were.
Moved(c, step, file, kept, status) ==
  /\ restore' \in [Callers -> Restore]
  /\ restore'[c].step = step /\ restore'[c].file = file
  /\ restore'[c].kept = kept /\ restore'[c].status = status
  /\ \A o \in Callers \ {c} : restore'[o] = restore[o]

LEMMA BecomesMoved ==
  ASSUME TypeOK, NEW c \in Callers, NEW next \in Restore, restore' = [restore EXCEPT ![c] = next]
  PROVE  Moved(c, next.step, next.file, next.kept, next.status)
BY DEF TypeOK, Moved, Restore

LEMMA GoesMoved ==
  ASSUME TypeOK, NEW c \in Callers, NEW step \in Steps, Goes(c, step)
  PROVE  Moved(c, step, restore[c].file, restore[c].kept, restore[c].status)
<1>. DEFINE next == [restore[c] EXCEPT !.step = step]
<1>1. restore[c] \in Restore
  BY DEF TypeOK, Restore
<1>2. /\ next \in Restore /\ next.step = step /\ next.file = restore[c].file
      /\ next.kept = restore[c].kept /\ next.status = restore[c].status
  BY <1>1 DEF Restore
<1>3. restore' = [restore EXCEPT ![c] = next]
  BY DEF Goes
<1>. HIDE DEF next
<1>. QED
  BY <1>2, <1>3, BecomesMoved

LEMMA RestingTyped ==
  /\ Resting \in Restore
  /\ Resting.step = "idle" /\ Resting.file = {} /\ Resting.kept = NoTable /\ Resting.status = "none"
BY HistoriesTyped DEF Restore, Resting, Steps

LEMMA EndedTyped ==
  ASSUME NEW c \in Callers, NEW status \in {"none", "success", "failure"}
  PROVE  /\ Ended(c, status) \in Restore
         /\ Ended(c, status).step = (IF c = "cron" THEN "record" ELSE "idle")
         /\ Ended(c, status).file = {} /\ Ended(c, status).kept = NoTable
         /\ Ended(c, status).status = (IF c = "cron" THEN status ELSE "none")
<1>. DEFINE next == [Resting EXCEPT !.step = "record", !.status = status]
<1>1. /\ next \in Restore /\ next.step = "record" /\ next.file = {}
      /\ next.kept = NoTable /\ next.status = status
  BY RestingTyped DEF Restore, Steps
<1>2. Ended(c, status) = IF c = "cron" THEN next ELSE Resting
  BY DEF Ended
<1>. HIDE DEF next
<1>. QED
  BY <1>1, <1>2, RestingTyped

\* How a downsync ends: the scheduled one has its outcome to record.
Over(c, status) ==
  Moved(c, IF c = "cron" THEN "record" ELSE "idle", {}, NoTable,
        IF c = "cron" THEN status ELSE "none")

LEMMA EndsMoved ==
  ASSUME TypeOK, NEW c \in Callers, NEW status \in {"none", "success", "failure"}, Ends(c, status)
  PROVE  Over(c, status)
<1>1. restore' = [restore EXCEPT ![c] = Ended(c, status)]
  BY DEF Ends
<1>. QED
  BY <1>1, EndedTyped, BecomesMoved DEF Over

LEMMA DumpTyped ==
  ASSUME TypeOK, NEW c \in Callers
  PROVE  Dump(c) \in Files
BY DEF TypeOK, Dump, Files

LEMMA FailsTyped ==
  ASSUME TypeOK, Fails
  PROVE  /\ begun' \in Counts
         /\ begun'.failures # 0 /\ begun'.runs = begun.runs
BY BoundsAssumption DEF TypeOK, Fails, Counts

LEMMA PartOfDump ==
  ASSUME NEW f \in Files, NEW whole \in BOOLEAN
  PROVE  LET g == [f EXCEPT !.whole = whole]
         IN  /\ g \in Files /\ g.whole = whole /\ g.day = f.day /\ g.nr = f.nr
             /\ g.stage = f.stage /\ g.history = f.history
BY DEF Files

Backups == [step : {"idle", "upload", "list", "delete"}, day : 0..MaxDays,
            nr : 0..MaxBackups, expired : SUBSET Files]

\* One backup is where these say, the other is where it was.
Backed(c, step, on, nr, expired) ==
  /\ backup' \in [Callers -> Backups]
  /\ backup'[c].step = step /\ backup'[c].day = on
  /\ backup'[c].nr = nr /\ backup'[c].expired = expired
  /\ \A o \in Callers \ {c} : backup'[o] = backup[o]

LEMMA BecomesBacked ==
  ASSUME TypeOK, NEW c \in Callers, NEW next \in Backups, backup' = [backup EXCEPT ![c] = next]
  PROVE  Backed(c, next.step, next.day, next.nr, next.expired)
BY DEF TypeOK, Backed, Backups

LEMMA NoBackupTyped ==
  NoBackup \in Backups /\ NoBackup.step = "idle" /\ NoBackup.day = 0 /\ NoBackup.nr = 0 /\ NoBackup.expired = {}
BY BoundsAssumption DEF NoBackup, Backups

LEMMA StartsBacked ==
  ASSUME TypeOK, NEW c \in Callers, StartBackup(c)
  PROVE  /\ Backed(c, "upload", day, begun'.backups, backup[c].expired)
         /\ begun' \in Counts
         /\ begun'.runs = begun.runs /\ begun'.failures = begun.failures
<1>1. /\ begun' \in Counts
      /\ begun'.runs = begun.runs /\ begun'.failures = begun.failures
  <2>1. /\ begun \in Counts
        /\ begun' = [begun EXCEPT !.backups = @ + 1, !.triggers = @ + Triggered(c)]
    BY DEF TypeOK, StartBackup, Counts
  <2>2. /\ begun.backups + 1 \in 0..MaxBackups
        /\ begun.triggers + Triggered(c) \in 0..MaxExtras
    BY <2>1, BoundsAssumption DEF StartBackup, MayBegin, Triggered, Counts
  <2>. QED
    BY <2>1, <2>2 DEF Counts
<1>. DEFINE next == [backup[c] EXCEPT !.step = "upload", !.day = day, !.nr = begun'.backups]
<1>2. backup[c] \in Backups /\ day \in 0..MaxDays /\ begun'.backups \in 0..MaxBackups
  BY <1>1 DEF TypeOK, Backups, Counts
<1>3. /\ next \in Backups /\ next.step = "upload" /\ next.day = day
      /\ next.nr = begun'.backups /\ next.expired = backup[c].expired
  BY <1>2 DEF Backups
<1>4. backup' = [backup EXCEPT ![c] = next]
  BY <1>2 DEF StartBackup, TypeOK
<1>. HIDE DEF next
<1>. QED
  BY <1>1, <1>3, <1>4, BecomesBacked

LEMMA UploadsBacked ==
  ASSUME TypeOK, NEW c \in Callers, Upload(c)
  PROVE  \/ c = "cron" /\ Backed(c, "list", backup[c].day, backup[c].nr, backup[c].expired)
         \/ c = "manual" /\ Backed(c, "idle", 0, 0, {})
<1>. DEFINE next == [backup[c] EXCEPT !.step = "list"]
<1>1. backup[c] \in Backups
  BY DEF TypeOK, Backups
<1>2. /\ next \in Backups /\ next.step = "list" /\ next.day = backup[c].day
      /\ next.nr = backup[c].nr /\ next.expired = backup[c].expired
  BY <1>1 DEF Backups
<1>3. backup' = [backup EXCEPT ![c] = IF c = "cron" THEN next ELSE NoBackup]
  BY DEF Upload
<1>. HIDE DEF next
<1>. QED
  BY <1>2, <1>3, NoBackupTyped, BecomesBacked DEF Callers

LEMMA EndsBacked ==
  ASSUME TypeOK, NEW c \in Callers, backup' = [backup EXCEPT ![c] = NoBackup]
  PROVE  Backed(c, "idle", 0, 0, {})
BY NoBackupTyped, BecomesBacked

LEMMA ListsBacked ==
  ASSUME TypeOK, ListExpired
  PROVE  \E expired \in SUBSET {f \in koofr : f.day <= day - Retention} :
           Backed("cron", "delete", backup["cron"].day, backup["cron"].nr, expired)
<1>1. PICK now \in SUBSET {f \in koofr : f.day = day - Retention} :
        backup' = [backup EXCEPT !["cron"].step = "delete",
                     !["cron"].expired = {f \in koofr : f.day < day - Retention} \cup now]
  BY DEF ListExpired
<1>. DEFINE expired == {f \in koofr : f.day < day - Retention} \cup now
<1>2. expired \in SUBSET {f \in koofr : f.day <= day - Retention} /\ expired \in SUBSET Files
  BY <1>1, RetentionAssumption DEF TypeOK, Files
<1>. HIDE DEF expired
<1>. DEFINE next == [backup["cron"] EXCEPT !.step = "delete", !.expired = expired]
<1>3. backup["cron"] \in Backups
  BY DEF TypeOK, Backups, Callers
<1>4. /\ next \in Backups /\ next.step = "delete" /\ next.day = backup["cron"].day
      /\ next.nr = backup["cron"].nr /\ next.expired = expired
  BY <1>2, <1>3 DEF Backups
<1>5. backup' = [backup EXCEPT !["cron"] = next]
  BY <1>1 DEF expired
<1>. HIDE DEF next
<1>. QED
  BY <1>2, <1>4, <1>5, BecomesBacked DEF Callers

LEMMA DeletesBacked ==
  ASSUME TypeOK, DeleteExpired
  PROVE  \E f \in backup["cron"].expired :
           /\ koofr' = koofr \ {f}
           /\ Backed("cron", "delete", backup["cron"].day, backup["cron"].nr,
                     backup["cron"].expired \ {f})
<1>1. PICK f \in backup["cron"].expired :
        /\ koofr' = koofr \ {f}
        /\ backup' = [backup EXCEPT !["cron"].expired = @ \ {f}]
  BY DEF DeleteExpired
<1>. DEFINE next == [backup["cron"] EXCEPT !.expired = @ \ {f}]
<1>2. backup["cron"] \in Backups /\ backup["cron"].step = "delete"
  BY DEF TypeOK, Backups, Callers, DeleteExpired
<1>3. /\ next \in Backups /\ next.step = "delete" /\ next.day = backup["cron"].day
      /\ next.nr = backup["cron"].nr /\ next.expired = backup["cron"].expired \ {f}
  BY <1>2 DEF Backups
<1>4. backup' = [backup EXCEPT !["cron"] = next]
  BY <1>1
<1>. HIDE DEF next
<1>. QED
  BY <1>1, <1>3, <1>4, BecomesBacked DEF Callers

LEMMA BackupTypes ==
  ASSUME TypeOK, NEW c \in Callers,
         \/ TimePasses \/ StartBackup(c) \/ Upload(c) \/ BackupFails(c)
         \/ ListExpired \/ DeleteExpired \/ EndCleanup
  PROVE  TypeOK'
<1>. USE DEF OnStage
<1>1. CASE TimePasses
  BY <1>1, BoundsAssumption DEF TypeOK, TimePasses
<1>2. CASE StartBackup(c)
  <2>1. /\ Backed(c, "upload", day, begun'.backups, backup[c].expired)
        /\ begun' \in Counts
    BY <1>2, StartsBacked
  <2>2. UNCHANGED <<day, koofr, OnStage>>
    BY <1>2 DEF StartBackup
  <2>. QED
    BY <2>1, <2>2 DEF TypeOK, Backed, Backups, Counts
<1>3. CASE Upload(c)
  <2>1. backup' \in [Callers -> Backups]
    BY <1>3, UploadsBacked DEF Backed
  <2>2. koofr' \subseteq Files /\ UNCHANGED <<day, begun, OnStage>>
    BY <1>3, DumpTyped DEF TypeOK, Upload
  <2>. QED
    BY <2>1, <2>2 DEF TypeOK, Backups
<1>4. CASE BackupFails(c)
  <2>1. koofr' \subseteq Files
    <3>1. PICK stored \in SUBSET {Dump(c)} : \E whole \in BOOLEAN :
            koofr' = koofr \cup {[f EXCEPT !.whole = whole] : f \in stored}
      BY <1>4 DEF BackupFails
    <3>2. PICK whole \in BOOLEAN : koofr' = koofr \cup {[f EXCEPT !.whole = whole] : f \in stored}
      BY <3>1
    <3>. QED
      BY <3>2, DumpTyped, PartOfDump DEF TypeOK
  <2>. QED
    BY <1>4, <2>1, FailsTyped, EndsBacked DEF TypeOK, BackupFails, Backed, Backups, Counts
<1>5. CASE ListExpired
  BY <1>5, ListsBacked DEF TypeOK, ListExpired, Backed, Backups
<1>6. CASE DeleteExpired
  BY <1>6, DeletesBacked DEF TypeOK, DeleteExpired, Backed, Backups
<1>7. CASE EndCleanup
  <2>1. Backed("cron", "idle", 0, 0, {})
    BY <1>7, EndsBacked DEF EndCleanup, Callers
  <2>2. begun' \in Counts
    BY <1>7, FailsTyped DEF TypeOK, EndCleanup, Counts
  <2>3. UNCHANGED <<day, koofr, OnStage>>
    BY <1>7 DEF EndCleanup
  <2>. QED
    BY <2>1, <2>2, <2>3 DEF TypeOK, Backed, Backups, Counts
<1>. QED
  BY <1>1, <1>2, <1>3, <1>4, <1>5, <1>6, <1>7

-----------------------------------------------------------------------------
(* What the steps of a downsync do.                                        *)

Kept == <<day, koofr, backup, settled>>

LEMMA Starts ==
  ASSUME TypeOK, NEW c \in Callers, StartDownsync(c)
  PROVE  /\ restore[c].step = "idle"
         /\ begun' \in Counts /\ begun'.runs = begun.runs /\ begun'.failures = begun.failures
         /\ \/ ProductionBackups = {} /\ Over(c, "success") /\ UNCHANGED overlap
            \/ /\ \E f \in Latest :
                    Moved(c, "download", {f}, restore[c].kept, restore[c].status)
               /\ overlap' = (overlap \/ \E o \in Callers \ {c} : restore[o].step # "idle")
         /\ UNCHANGED <<Kept, db, job_runs>>
<1>1. begun' \in Counts /\ begun'.runs = begun.runs /\ begun'.failures = begun.failures
  <2>1. begun \in Counts /\ begun' = [begun EXCEPT !.triggers = @ + Triggered(c)]
    BY DEF TypeOK, StartDownsync, Counts
  <2>2. begun.triggers + Triggered(c) \in 0..MaxExtras
    BY <2>1, BoundsAssumption DEF StartDownsync, MayBegin, Triggered, Counts
  <2>. QED
    BY <2>1, <2>2 DEF Counts
<1>2. CASE Latest = {} /\ Ends(c, "success") /\ UNCHANGED overlap
  BY <1>1, <1>2, SomeLatest, EndsMoved DEF StartDownsync, Kept, InProduction
<1>3. ASSUME NEW f \in Latest,
             restore' = [restore EXCEPT ![c].step = "download", ![c].file = {f}],
             overlap' = (overlap \/ \E o \in Callers \ {c} : restore[o].step # "idle")
      PROVE  Moved(c, "download", {f}, restore[c].kept, restore[c].status)
  <2>. DEFINE next == [restore[c] EXCEPT !.step = "download", !.file = {f}]
  <2>1. restore[c] \in Restore /\ {f} \subseteq Files
    BY DEF TypeOK, Restore, Latest, ProductionBackups
  <2>2. /\ next \in Restore /\ next.step = "download" /\ next.file = {f}
        /\ next.kept = restore[c].kept /\ next.status = restore[c].status
    BY <2>1 DEF Restore, Steps
  <2>3. restore' = [restore EXCEPT ![c] = next]
    BY <1>3 DEF TypeOK
  <2>. HIDE DEF next
  <2>. QED
    BY <2>2, <2>3, BecomesMoved
<1>. QED
  BY <1>1, <1>2, <1>3 DEF StartDownsync, Kept, InProduction

LEMMA Preserves ==
  ASSUME TypeOK, NEW c \in Callers, Preserve(c)
  PROVE  /\ restore[c].step = "preserve"
         /\ \/ UNCHANGED begun /\ Moved(c, "wipe", restore[c].file, job_runs, restore[c].status)
            \/ Fails /\ Moved(c, "wipe", restore[c].file, restore[c].kept, restore[c].status)
         /\ UNCHANGED <<Kept, db, job_runs, overlap>>
<1>1. ASSUME restore' = [restore EXCEPT ![c].step = "wipe", ![c].kept = job_runs]
      PROVE  Moved(c, "wipe", restore[c].file, job_runs, restore[c].status)
  <2>. DEFINE next == [restore[c] EXCEPT !.step = "wipe", !.kept = job_runs]
  <2>1. restore[c] \in Restore /\ job_runs \in Histories
    BY DEF TypeOK, Restore
  <2>2. /\ next \in Restore /\ next.step = "wipe" /\ next.file = restore[c].file
        /\ next.kept = job_runs /\ next.status = restore[c].status
    BY <2>1 DEF Restore, Steps
  <2>3. restore' = [restore EXCEPT ![c] = next]
    BY <1>1 DEF TypeOK
  <2>. HIDE DEF next
  <2>. QED
    BY <2>2, <2>3, BecomesMoved
<1>2. ASSUME Goes(c, "wipe")
      PROVE  Moved(c, "wipe", restore[c].file, restore[c].kept, restore[c].status)
  BY <1>2, GoesMoved DEF Steps
<1>. QED
  BY <1>1, <1>2 DEF Preserve, Kept, InProduction

\* The other downsync is where it was, or its load has failed.
Struck(c) ==
  \A o \in Callers \ {c} :
    \/ restore'[o] = restore[o]
    \/ /\ restore[o].step = "loading"
       /\ restore'[o].step = (IF o = "cron" THEN "record" ELSE "idle")
       /\ restore'[o].file = {} /\ restore'[o].kept = NoTable
       /\ restore'[o].status \in {"failure", "none"}

LEMMA Wipes ==
  ASSUME TypeOK, NEW c \in Callers, Wipe(c)
  PROVE  /\ restore[c].step = "wipe"
         /\ restore' \in [Callers -> Restore]
         /\ restore'[c].step = "load" /\ restore'[c].file = restore[c].file
         /\ restore'[c].kept = restore[c].kept /\ restore'[c].status = restore[c].status
         /\ Struck(c)
         /\ db' \in [state : States, from : {"production", "test"}]
         /\ db'.state = "wiped" /\ db'.from = db.from
         /\ job_runs' = NoTable
         /\ UNCHANGED <<Kept, begun, overlap>>
<1>. DEFINE next == [restore[c] EXCEPT !.step = "load"]
<1>1. restore \in [Callers -> Restore]
  BY DEF TypeOK, Restore
<1>2. /\ next \in Restore /\ next.step = "load" /\ next.file = restore[c].file
      /\ next.kept = restore[c].kept /\ next.status = restore[c].status
  BY <1>1 DEF Restore, Steps
<1>3. restore' = [o \in Callers |-> IF o = c THEN next
                                    ELSE IF o \in Loading(c) THEN Ended(o, "failure")
                                    ELSE restore[o]]
  BY DEF Wipe
<1>. HIDE DEF next
<1>4. restore' \in [Callers -> Restore] /\ restore'[c] = next
  BY <1>1, <1>2, <1>3, EndedTyped
<1>5. Struck(c)
  BY <1>3, EndedTyped DEF Struck, Loading
<1>6. /\ db' \in [state : States, from : {"production", "test"}]
      /\ db'.state = "wiped" /\ db'.from = db.from
  BY DEF Wipe, TypeOK, States
<1>. QED
  BY <1>2, <1>4, <1>5, <1>6 DEF Wipe, Kept, InProduction

LEMMA StartsLoad ==
  ASSUME TypeOK, NEW c \in Callers, StartLoad(c)
  PROVE  /\ restore[c].step = "load"
         /\ db' \in [state : States, from : {"production", "test"}] /\ db'.state = "broken"
         /\ job_runs' \in Histories /\ job_runs'.table
         /\ job_runs'.rows = job_runs.rows /\ job_runs'.last = job_runs.last
         /\ \E f \in restore[c].file : /\ db'.from = f.stage
                                       /\ job_runs'.foreign = (job_runs.foreign \/ f.history)
         /\ \/ /\ db.state = "wiped"
               /\ Moved(c, "loading", restore[c].file, restore[c].kept, restore[c].status)
            \/ /\ db.state # "wiped"
               /\ restore' \in [Callers -> Restore]
               /\ restore'[c].step = (IF c = "cron" THEN "record" ELSE "idle")
               /\ restore'[c].file = {} /\ restore'[c].kept = NoTable
               /\ restore'[c].status \in {"failure", "none"}
               /\ Struck(c)
         /\ UNCHANGED <<Kept, begun, overlap>>
<1>1. PICK f \in restore[c].file :
        /\ db' = [state |-> "broken", from |-> f.stage]
        /\ job_runs' = [job_runs EXCEPT !.table = TRUE, !.foreign = @ \/ f.history]
  BY DEF StartLoad
<1>2. f \in Files /\ job_runs \in Histories
  BY DEF TypeOK
<1>3. /\ db' \in [state : States, from : {"production", "test"}]
      /\ db'.state = "broken" /\ db'.from = f.stage
  BY <1>1, <1>2 DEF Files, States
<1>4. /\ job_runs' \in Histories /\ job_runs'.table
      /\ job_runs'.rows = job_runs.rows /\ job_runs'.last = job_runs.last
      /\ job_runs'.foreign = (job_runs.foreign \/ f.history)
  <2>1. /\ job_runs.rows \in SUBSET (0..MaxExtras) /\ job_runs.foreign \in BOOLEAN
        /\ job_runs.last \in {"none", "success", "failure"} /\ f.history \in BOOLEAN
    BY <1>2, HistoriesTyped DEF Runs, Files
  <2>. DEFINE foreign == job_runs.foreign \/ f.history
  <2>2. foreign \in BOOLEAN
    BY <2>1
  <2>3. job_runs' = [job_runs EXCEPT !.table = TRUE, !.foreign = foreign]
    BY <1>1
  <2>4. foreign = (job_runs.foreign \/ f.history)
    OBVIOUS
  <2>. HIDE DEF foreign
  <2>5. /\ job_runs' \in Histories /\ job_runs'.table
        /\ job_runs'.rows = job_runs.rows /\ job_runs'.last = job_runs.last
        /\ job_runs'.foreign = foreign
    BY <1>2, <2>2, <2>3, HistoriesTyped DEF Runs
  <2>. QED
    BY <2>4, <2>5
<1>5. CASE db.state = "wiped" /\ Goes(c, "loading")
  <2>1. Moved(c, "loading", restore[c].file, restore[c].kept, restore[c].status)
    BY <1>5, GoesMoved DEF Steps
  <2>. QED
    BY <1>3, <1>4, <1>5, <2>1 DEF StartLoad, Kept, InProduction
<1>6. ASSUME db.state # "wiped", NEW hit \in SUBSET Loading(c),
             restore' = [o \in Callers |-> IF o \in hit \cup {c} THEN Ended(o, "failure")
                                           ELSE restore[o]]
      PROVE  /\ restore' \in [Callers -> Restore]
             /\ restore'[c].step = (IF c = "cron" THEN "record" ELSE "idle")
             /\ restore'[c].file = {} /\ restore'[c].kept = NoTable
             /\ restore'[c].status \in {"failure", "none"}
             /\ Struck(c)
  <2>1. restore \in [Callers -> Restore]
    BY DEF TypeOK, Restore
  <2>2. restore' \in [Callers -> Restore] /\ restore'[c] = Ended(c, "failure")
    BY <1>6, <2>1, EndedTyped
  <2>3. Struck(c)
    BY <1>6, EndedTyped DEF Struck, Loading
  <2>. QED
    BY <2>2, <2>3, EndedTyped
<1>. QED
  BY <1>3, <1>4, <1>5, <1>6 DEF StartLoad, Kept, InProduction

LEMMA EndsLoad ==
  ASSUME TypeOK, NEW c \in Callers, EndLoad(c)
  PROVE  /\ restore[c].step = "loading" /\ \A f \in restore[c].file : f.whole
         /\ db' \in [state : States, from : {"production", "test"}] /\ db'.from = db.from
         /\ \/ db'.state = "whole" /\ UNCHANGED begun
            \/ db'.state = "bare" /\ Fails
         /\ Moved(c, "verify", {}, restore[c].kept, restore[c].status)
         /\ UNCHANGED <<Kept, job_runs, overlap>>
<1>1. Moved(c, "verify", {}, restore[c].kept, restore[c].status)
  <2>. DEFINE next == [restore[c] EXCEPT !.step = "verify", !.file = {}]
  <2>1. restore[c] \in Restore
    BY DEF TypeOK, Restore
  <2>2. /\ next \in Restore /\ next.step = "verify" /\ next.file = {}
        /\ next.kept = restore[c].kept /\ next.status = restore[c].status
    BY <2>1 DEF Restore, Steps
  <2>3. restore' = [restore EXCEPT ![c] = next]
    BY DEF TypeOK, EndLoad
  <2>. HIDE DEF next
  <2>. QED
    BY <2>2, <2>3, BecomesMoved
<1>2. /\ db' \in [state : States, from : {"production", "test"}] /\ db'.from = db.from
      /\ \/ db'.state = "whole" /\ UNCHANGED begun
         \/ db'.state = "bare" /\ Fails
  BY DEF TypeOK, EndLoad, States
<1>. QED
  BY <1>1, <1>2 DEF EndLoad, Kept, InProduction

LEMMA Verifies ==
  ASSUME TypeOK, NEW c \in Callers, Verify(c)
  PROVE  /\ restore[c].step = "verify"
         /\ \/ db.state \in {"wiped", "bare", "broken"} /\ Over(c, "failure")
            \/ /\ db.state \in {"broken", "whole"}
               /\ Moved(c, "reinsert", restore[c].file, restore[c].kept, restore[c].status)
         /\ UNCHANGED <<Kept, db, job_runs, begun, overlap>>
<1>1. Ends(c, "failure") => Over(c, "failure")
  BY EndsMoved
<1>2. Goes(c, "reinsert") =>
        Moved(c, "reinsert", restore[c].file, restore[c].kept, restore[c].status)
  BY GoesMoved DEF Steps
<1>. QED
  BY <1>1, <1>2 DEF Verify, Kept, InProduction

LEMMA Reinserts ==
  ASSUME TypeOK, NEW c \in Callers, Reinsert(c)
  PROVE  /\ restore[c].step = "reinsert" /\ Over(c, "success")
         /\ \/ /\ job_runs.table /\ restore[c].kept.table
               /\ restore[c].kept.rows \cap job_runs.rows = {}
               /\ job_runs' \in Histories /\ job_runs'.table
               /\ job_runs'.rows = job_runs.rows \cup restore[c].kept.rows
               /\ job_runs'.foreign = (job_runs.foreign \/ restore[c].kept.foreign)
               /\ UNCHANGED begun
            \/ /\ ~ (/\ job_runs.table /\ restore[c].kept.table
                     /\ restore[c].kept.rows \cap job_runs.rows = {})
               /\ UNCHANGED <<job_runs, begun>>
            \/ Fails /\ UNCHANGED job_runs
         /\ UNCHANGED <<Kept, db, overlap>>
<1>1. Over(c, "success")
  BY EndsMoved DEF Reinsert
<1>2. ASSUME job_runs.table,
             job_runs' = [job_runs EXCEPT !.rows = @ \cup restore[c].kept.rows,
                            !.last = IF @ = "none" THEN restore[c].kept.last ELSE @,
                            !.foreign = @ \/ restore[c].kept.foreign]
      PROVE  /\ job_runs' \in Histories /\ job_runs'.table
             /\ job_runs'.rows = job_runs.rows \cup restore[c].kept.rows
             /\ job_runs'.foreign = (job_runs.foreign \/ restore[c].kept.foreign)
  <2>. DEFINE rows == job_runs.rows \cup restore[c].kept.rows
              last == IF job_runs.last = "none" THEN restore[c].kept.last ELSE job_runs.last
              foreign == job_runs.foreign \/ restore[c].kept.foreign
  <2>1. job_runs \in Runs /\ restore[c].kept \in Runs
    BY HistoriesTyped DEF TypeOK
  <2>2. /\ rows \in SUBSET (0..MaxExtras) /\ last \in {"none", "success", "failure"}
        /\ foreign \in BOOLEAN
    BY <2>1 DEF Runs
  <2>3. job_runs' = [job_runs EXCEPT !.rows = rows, !.last = last, !.foreign = foreign]
    BY <1>2
  <2>4. rows = job_runs.rows \cup restore[c].kept.rows
        /\ foreign = (job_runs.foreign \/ restore[c].kept.foreign)
    OBVIOUS
  <2>. HIDE DEF rows, last, foreign
  <2>5. /\ job_runs' \in Histories /\ job_runs'.table
        /\ job_runs'.rows = rows /\ job_runs'.foreign = foreign
    BY <1>2, <2>1, <2>2, <2>3, HistoriesTyped DEF Runs
  <2>. QED
    BY <2>4, <2>5
<1>. QED
  BY <1>1, <1>2 DEF Reinsert, Kept, InProduction

LEMMA Records ==
  ASSUME TypeOK, NEW c \in Callers, Record(c)
  PROVE  /\ restore[c].step = "record"
         /\ \/ /\ job_runs.table
               /\ job_runs' \in Histories /\ job_runs'.table
               /\ job_runs'.rows = job_runs.rows /\ job_runs'.foreign = job_runs.foreign
               /\ job_runs'.last = restore[c].status
            \/ ~job_runs.table /\ UNCHANGED job_runs
         /\ Moved(c, "idle", {}, NoTable, "none")
         /\ UNCHANGED <<Kept, db, begun, overlap>>
<1>1. Moved(c, "idle", {}, NoTable, "none")
  BY RestingTyped, BecomesMoved DEF Record
<1>2. ASSUME job_runs.table, job_runs' = [job_runs EXCEPT !.last = restore[c].status]
      PROVE  /\ job_runs' \in Histories /\ job_runs'.table
             /\ job_runs'.rows = job_runs.rows /\ job_runs'.foreign = job_runs.foreign
             /\ job_runs'.last = restore[c].status
  <2>1. job_runs \in Runs /\ restore[c].status \in {"none", "success", "failure"}
    BY HistoriesTyped DEF TypeOK
  <2>. QED
    BY <1>2, <2>1, HistoriesTyped DEF Runs
<1>. QED
  BY <1>1, <1>2 DEF Record, Kept, InProduction

\* The steps that change nothing but where a downsync is.
LEMMA MovesOn ==
  ASSUME TypeOK, NEW c \in Callers
  PROVE  /\ Download(c) =>
              /\ restore[c].step = "download"
              /\ \/ Over(c, "failure")
                 \/ Moved(c, "preserve", restore[c].file, restore[c].kept, restore[c].status)
              /\ UNCHANGED <<Kept, db, job_runs, begun, overlap>>
         /\ LoadFails(c) =>
              /\ restore[c].step = "loading" /\ \E f \in restore[c].file : ~f.whole
              /\ Over(c, "failure")
              /\ UNCHANGED <<Kept, db, job_runs, begun, overlap>>
         /\ RestoreFails(c) =>
              /\ restore[c].step \in {"download", "wipe", "load", "loading", "verify"}
              /\ Fails /\ Over(c, "failure")
              /\ UNCHANGED <<Kept, db, job_runs, overlap>>
         /\ Dies(c) =>
              /\ restore[c].step # "idle"
              /\ Fails /\ Moved(c, "idle", {}, NoTable, "none")
              /\ UNCHANGED <<Kept, db, job_runs, overlap>>
<1>1. Ends(c, "failure") => Over(c, "failure")
  BY EndsMoved
<1>2. Goes(c, "preserve") =>
        Moved(c, "preserve", restore[c].file, restore[c].kept, restore[c].status)
  BY GoesMoved DEF Steps
<1>3. Dies(c) => Moved(c, "idle", {}, NoTable, "none")
  BY RestingTyped, BecomesMoved DEF Dies
<1>. QED
  BY <1>1, <1>2, <1>3 DEF Download, LoadFails, RestoreFails, Dies, Kept, InProduction

LEMMA OtherRuns ==
  ASSUME TypeOK, OtherRun
  PROVE  /\ begun' \in Counts
         /\ begun'.runs = begun.runs + 1 /\ begun'.failures = begun.failures
         /\ job_runs.table /\ job_runs' \in Histories /\ job_runs'.table
         /\ job_runs'.rows = job_runs.rows \cup {begun'.runs}
         /\ job_runs'.last = job_runs.last /\ job_runs'.foreign = job_runs.foreign
         /\ settled' \subseteq 0..MaxExtras
         /\ settled' = IF \A c \in Callers : restore[c].step = "idle"
                       THEN settled \cup {begun'.runs} ELSE settled
         /\ UNCHANGED <<day, koofr, backup, db, restore, overlap>>
<1>1. /\ begun' \in Counts /\ begun'.runs = begun.runs + 1
      /\ begun'.failures = begun.failures /\ begun'.runs \in 0..MaxExtras
  <2>1. begun \in Counts /\ begun' = [begun EXCEPT !.runs = @ + 1]
    BY DEF TypeOK, OtherRun, Counts
  <2>2. begun.runs + 1 \in 0..MaxExtras
    BY <2>1, BoundsAssumption DEF OtherRun, Counts
  <2>. QED
    BY <2>1, <2>2 DEF Counts
<1>2. /\ job_runs.table /\ job_runs' \in Histories /\ job_runs'.table
      /\ job_runs'.rows = job_runs.rows \cup {begun'.runs}
      /\ job_runs'.last = job_runs.last /\ job_runs'.foreign = job_runs.foreign
  <2>. DEFINE rows == job_runs.rows \cup {begun'.runs}
  <2>1. job_runs \in Runs /\ job_runs.table
    BY HistoriesTyped DEF TypeOK, OtherRun
  <2>2. rows \in SUBSET (0..MaxExtras)
    BY <1>1, <2>1 DEF Runs
  <2>3. job_runs' = [job_runs EXCEPT !.rows = rows] /\ rows = job_runs.rows \cup {begun'.runs}
    BY DEF OtherRun
  <2>. HIDE DEF rows
  <2>4. /\ job_runs' \in Histories /\ job_runs'.table /\ job_runs'.rows = rows
        /\ job_runs'.last = job_runs.last /\ job_runs'.foreign = job_runs.foreign
    BY <2>1, <2>2, <2>3, HistoriesTyped DEF Runs
  <2>. QED
    BY <2>1, <2>3, <2>4
<1>. QED
  BY <1>1, <1>2 DEF TypeOK, OtherRun, InProduction

LEMMA RestoreTypes ==
  ASSUME TypeOK, NEW c \in Callers,
         Restoring(c) \/ RestoreFails(c) \/ Dies(c) \/ OtherRun
  PROVE  TypeOK'
<1>1. ASSUME restore' \in [Callers -> Restore], begun' \in Counts, job_runs' \in Histories,
             db' \in [state : States, from : {"production", "test"}],
             settled' \subseteq 0..MaxExtras, overlap' \in BOOLEAN, UNCHANGED <<day, koofr, backup>>
      PROVE  TypeOK'
  BY <1>1 DEF TypeOK, Restore, Counts
<1>2. /\ restore \in [Callers -> Restore] /\ begun \in Counts /\ job_runs \in Histories
      /\ db \in [state : States, from : {"production", "test"}]
      /\ settled \subseteq 0..MaxExtras /\ overlap \in BOOLEAN
  BY DEF TypeOK, Restore, Counts
<1>3. CASE StartDownsync(c)
  BY <1>1, <1>2, <1>3, Starts DEF Over, Moved, Kept
<1>4. CASE Preserve(c)
  BY <1>1, <1>2, <1>4, Preserves, FailsTyped DEF Moved, Kept
<1>5. CASE Wipe(c)
  BY <1>1, <1>2, <1>5, Wipes, HistoriesTyped DEF Kept
<1>6. CASE StartLoad(c)
  BY <1>1, <1>2, <1>6, StartsLoad DEF Moved, Kept
<1>7. CASE EndLoad(c)
  BY <1>1, <1>2, <1>7, EndsLoad, FailsTyped DEF Moved, Kept
<1>8. CASE Verify(c)
  BY <1>1, <1>2, <1>8, Verifies DEF Over, Moved, Kept
<1>9. CASE Reinsert(c)
  BY <1>1, <1>2, <1>9, Reinserts, FailsTyped DEF Over, Moved, Kept
<1>10. CASE Record(c)
  BY <1>1, <1>2, <1>10, Records DEF Moved, Kept
<1>11. CASE Download(c) \/ LoadFails(c) \/ RestoreFails(c) \/ Dies(c)
  BY <1>1, <1>2, <1>11, MovesOn, FailsTyped DEF Over, Moved, Kept
<1>12. CASE OtherRun
  BY <1>1, <1>2, <1>12, OtherRuns
<1>. QED
  BY <1>3, <1>4, <1>5, <1>6, <1>7, <1>8, <1>9, <1>10, <1>11, <1>12 DEF Restoring

LEMMA Types ==
  ASSUME TypeOK, [Next]_vars
  PROVE  TypeOK'
<1>1. CASE Next
  BY <1>1, BackupTypes, RestoreTypes DEF Next, Callers
<1>2. CASE UNCHANGED vars
  BY <1>2 DEF vars, TypeOK
<1>. QED
  BY <1>1, <1>2

-----------------------------------------------------------------------------
(* The steps of backups.                                                   *)

LEMMA BackupSteps ==
  ASSUME TypeOK, BackupsInv, NEW c \in Callers,
         \/ TimePasses \/ StartBackup(c) \/ Upload(c) \/ BackupFails(c)
         \/ ListExpired \/ DeleteExpired \/ EndCleanup
  PROVE  /\ UNCHANGED OnStage
         /\ begun'.runs = begun.runs
         /\ begun'.failures = 0 => begun.failures = 0
         /\ begun'.failures = 0 => \A f \in ProductionBackups' : f \in ProductionBackups \/ f.whole
         /\ ProductionBackups # {} => ProductionBackups' # {}
         /\ BackupsInv'
<1>. USE DEF OnStage, ProductionBackups
<1>1. CASE TimePasses
  BY <1>1 DEF TimePasses, BackupsInv, Callers
<1>2. CASE StartBackup(c)
  <2>1. /\ Backed(c, "upload", day, begun'.backups, backup[c].expired)
        /\ begun'.runs = begun.runs /\ begun'.failures = begun.failures
    BY <1>2, StartsBacked
  <2>2. backup[c].step = "idle" /\ UNCHANGED <<day, koofr, OnStage>>
    BY <1>2 DEF StartBackup
  <2>3. BackupsInv'
    BY <2>1, <2>2 DEF BackupsInv, Backed, Dump, Callers
  <2>. QED
    BY <2>1, <2>2, <2>3
<1>3. CASE Upload(c)
  <2>1. koofr' = koofr \cup {Dump(c)} /\ backup[c].step = "upload" /\ UNCHANGED <<day, begun, OnStage>>
    BY <1>3 DEF Upload
  <2>2. Dump(c).stage = "production" /\ Dump(c).whole /\ ~Dump(c).history
    BY DEF Dump
  <2>3. BackupsInv'
    <3>1. CASE c = "cron" /\ Backed(c, "list", backup[c].day, backup[c].nr, backup[c].expired)
      BY <2>1, <2>2, <3>1 DEF BackupsInv, Backed, Dump, Callers
    <3>2. CASE c = "manual" /\ Backed(c, "idle", 0, 0, {})
      BY <2>1, <2>2, <3>2 DEF BackupsInv, Backed, Dump, Callers
    <3>. QED
      BY <1>3, <3>1, <3>2, UploadsBacked
  <2>. QED
    BY <2>1, <2>2, <2>3
<1>4. CASE BackupFails(c)
  <2>1. /\ Backed(c, "idle", 0, 0, {}) /\ backup[c].step = "upload"
        /\ Fails /\ UNCHANGED <<day, OnStage>>
    BY <1>4, EndsBacked DEF BackupFails
  <2>2. koofr \subseteq koofr' /\ \A f \in koofr' : f \in koofr \/ ~f.history
    <3>1. PICK stored \in SUBSET {Dump(c)} : \E whole \in BOOLEAN :
            koofr' = koofr \cup {[f EXCEPT !.whole = whole] : f \in stored}
      BY <1>4 DEF BackupFails
    <3>2. PICK whole \in BOOLEAN : koofr' = koofr \cup {[f EXCEPT !.whole = whole] : f \in stored}
      BY <3>1
    <3>3. \A f \in stored : ~[f EXCEPT !.whole = whole].history
      BY <3>1, DumpTyped, PartOfDump DEF Dump
    <3>. QED
      BY <3>2, <3>3
  <2>3. BackupsInv'
    BY <2>1, <2>2 DEF BackupsInv, Backed, Dump, Callers
  <2>. QED
    BY <2>1, <2>2, <2>3, FailsTyped
<1>5. CASE ListExpired
  <2>1. PICK expired \in SUBSET {f \in koofr : f.day <= day - Retention} :
          Backed("cron", "delete", backup["cron"].day, backup["cron"].nr, expired)
    BY <1>5, ListsBacked
  <2>2. backup["cron"].step = "list" /\ UNCHANGED <<day, koofr, begun, OnStage>>
    BY <1>5 DEF ListExpired
  <2>3. \A f \in expired : f.day < day
    BY RetentionAssumption DEF TypeOK, Files
  <2>4. BackupsInv'
    BY <2>1, <2>2, <2>3 DEF BackupsInv, Backed, Dump, Callers
  <2>. QED
    BY <2>2, <2>4
<1>6. CASE DeleteExpired
  <2>1. PICK f \in backup["cron"].expired :
          /\ koofr' = koofr \ {f}
          /\ Backed("cron", "delete", backup["cron"].day, backup["cron"].nr,
                    backup["cron"].expired \ {f})
    BY <1>6, DeletesBacked
  <2>2. backup["cron"].step = "delete" /\ UNCHANGED <<day, begun, OnStage>>
    BY <1>6 DEF DeleteExpired
  <2>3. /\ Dump("cron") \in koofr /\ Dump("cron").day = day /\ f.day < day
        /\ Dump("cron").stage = "production" /\ Dump("cron").whole
    BY <2>2 DEF BackupsInv, Dump, Callers
  <2>4. f # Dump("cron")
    BY <2>3 DEF TypeOK
  <2>5. BackupsInv'
    BY <2>1, <2>2, <2>3, <2>4 DEF BackupsInv, Backed, Dump, Callers
  <2>. QED
    BY <2>1, <2>2, <2>3, <2>4, <2>5
<1>7. CASE EndCleanup
  <2>1. Backed("cron", "idle", 0, 0, {})
    BY <1>7, EndsBacked DEF EndCleanup, Callers
  <2>2. UNCHANGED <<day, koofr, OnStage>> /\ (UNCHANGED begun \/ Fails)
    BY <1>7 DEF EndCleanup
  <2>3. BackupsInv'
    BY <2>1, <2>2 DEF BackupsInv, Backed, Dump, Callers
  <2>. QED
    BY <2>2, <2>3, FailsTyped
<1>. QED
  BY <1>1, <1>2, <1>3, <1>4, <1>5, <1>6, <1>7

\* What backups do leaves the rest of the invariant as it was.
LEMMA BackupsApart ==
  ASSUME TypeOK, RestoresInv, KeptInv, UndisturbedInv, ShownInv,
         UNCHANGED OnStage, begun'.runs = begun.runs,
         begun'.failures = 0 => begun.failures = 0,
         begun'.failures = 0 => \A f \in ProductionBackups' : f \in ProductionBackups \/ f.whole,
         ProductionBackups # {} => ProductionBackups' # {}
  PROVE  RestoresInv' /\ KeptInv' /\ UndisturbedInv' /\ ShownInv'
<1>. USE DEF OnStage
<1>1. RestoresInv'
  BY DEF RestoresInv, Active
<1>2. KeptInv'
  BY DEF KeptInv
<1>3. UndisturbedInv'
  BY DEF UndisturbedInv, Safe, AtRest
<1>4. ShownInv'
  BY DEF ShownInv, Shown, AtRest
<1>. QED
  BY <1>1, <1>2, <1>3, <1>4

-----------------------------------------------------------------------------
(* The steps of downsyncs.                                                 *)

LEMMA BackupsKept ==
  ASSUME IInv, NEW c \in Callers, Restoring(c) \/ RestoreFails(c) \/ Dies(c) \/ OtherRun
  PROVE  BackupsInv'
<1>1. UNCHANGED <<day, koofr, backup>>
  BY DEF InProduction, Restoring, StartDownsync, Download, Preserve, Wipe, StartLoad, EndLoad,
     LoadFails, Verify, Reinsert, Record, RestoreFails, Dies, OtherRun
<1>. QED
  BY <1>1 DEF IInv, BackupsInv, Dump

\* The runs a step knows of: those it knew, or the one just written.
LEMMA KeptStep ==
  ASSUME IInv, NEW c \in Callers, Restoring(c) \/ RestoreFails(c) \/ Dies(c) \/ OtherRun
  PROVE  KeptInv'
<1>. DEFINE Small == /\ begun'.runs = begun.runs
                     /\ job_runs'.rows \subseteq job_runs.rows \cup restore[c].kept.rows
                     /\ \A o \in Callers : restore'[o].kept \in {restore[o].kept, job_runs, NoTable}
<1>1. NoTable.rows = {}
  BY DEF NoTable
<1>2. Small => KeptInv'
  BY <1>1 DEF IInv, KeptInv
<1>3. ASSUME Fails PROVE begun'.runs = begun.runs
  BY <1>3, FailsTyped DEF IInv
<1>4. TypeOK
  BY DEF IInv
<1>5. CASE StartDownsync(c)
  BY <1>2, <1>4, <1>5, Starts DEF Moved, Over, Kept
<1>6. CASE Preserve(c)
  BY <1>2, <1>3, <1>4, <1>6, Preserves DEF Moved, Kept
<1>7. CASE Wipe(c)
  BY <1>1, <1>2, <1>4, <1>7, Wipes DEF Struck, Kept
<1>8. CASE StartLoad(c)
  <2>1. job_runs'.rows = job_runs.rows /\ begun'.runs = begun.runs
    BY <1>4, <1>8, StartsLoad
  <2>2. \A o \in Callers : restore'[o].kept \in {restore[o].kept, NoTable}
    BY <1>4, <1>8, StartsLoad DEF Moved, Struck
  <2>. QED
    BY <1>2, <2>1, <2>2
<1>9. CASE EndLoad(c)
  BY <1>2, <1>3, <1>4, <1>9, EndsLoad DEF Moved, Kept
<1>10. CASE Verify(c)
  <2>1. job_runs'.rows = job_runs.rows /\ begun'.runs = begun.runs
    BY <1>4, <1>10, Verifies
  <2>2. \A o \in Callers : restore'[o].kept \in {restore[o].kept, NoTable}
    BY <1>4, <1>10, Verifies DEF Moved, Over
  <2>. QED
    BY <1>2, <2>1, <2>2
<1>11. CASE Reinsert(c)
  <2>1. job_runs'.rows \subseteq job_runs.rows \cup restore[c].kept.rows /\ begun'.runs = begun.runs
    BY <1>3, <1>4, <1>11, Reinserts
  <2>2. \A o \in Callers : restore'[o].kept \in {restore[o].kept, NoTable}
    BY <1>4, <1>11, Reinserts DEF Moved, Over
  <2>. QED
    BY <1>2, <2>1, <2>2
<1>12. CASE Record(c)
  <2>1. job_runs'.rows = job_runs.rows /\ begun'.runs = begun.runs
    BY <1>4, <1>12, Records
  <2>2. \A o \in Callers : restore'[o].kept \in {restore[o].kept, NoTable}
    BY <1>4, <1>12, Records DEF Moved
  <2>. QED
    BY <1>2, <2>1, <2>2
<1>13. CASE Download(c) \/ LoadFails(c) \/ RestoreFails(c) \/ Dies(c)
  BY <1>2, <1>3, <1>4, <1>13, MovesOn DEF Moved, Over, Kept
<1>14. CASE OtherRun
  BY <1>4, <1>14, OtherRuns DEF IInv, KeptInv, TypeOK
<1>. QED
  BY <1>5, <1>6, <1>7, <1>8, <1>9, <1>10, <1>11, <1>12, <1>13, <1>14 DEF Restoring

LEMMA RestoresStep ==
  ASSUME IInv, NEW c \in Callers, Restoring(c) \/ RestoreFails(c) \/ Dies(c) \/ OtherRun
  PROVE  RestoresInv'
<1>. USE DEF IInv
<1>1. CASE StartDownsync(c)
  <2>1. /\ restore[c].step = "idle"
        /\ UNCHANGED <<koofr, db, job_runs>>
        /\ \/ ProductionBackups = {} /\ Over(c, "success") /\ UNCHANGED overlap
           \/ /\ \E f \in Latest :
                   Moved(c, "download", {f}, restore[c].kept, restore[c].status)
              /\ overlap' = (overlap \/ \E o \in Callers \ {c} : restore[o].step # "idle")
    BY <1>1, Starts DEF Kept
  <2>2. CASE ProductionBackups = {} /\ Over(c, "success") /\ UNCHANGED overlap
    BY <2>1, <2>2 DEF RestoresInv, Active, NoTable, Over, Moved, ProductionBackups, Callers
  <2>3. ASSUME NEW f \in Latest, Moved(c, "download", {f}, restore[c].kept, restore[c].status),
               overlap' = (overlap \/ \E o \in Callers \ {c} : restore[o].step # "idle")
        PROVE  RestoresInv'
    <3>1. f.stage = "production" /\ ~f.history /\ ProductionBackups # {} /\ UNCHANGED ProductionBackups
      BY <2>1 DEF Latest, ProductionBackups, BackupsInv
    <3>2. /\ restore'["manual"].step # "record"
          /\ \A o \in Callers : \A g \in restore'[o].file : g.stage = "production" /\ ~g.history
          /\ \A o \in Callers : ~restore'[o].kept.foreign
      <4>1. restore'[c].step = "download" /\ restore'[c].file = {f} /\ restore'[c].kept = restore[c].kept
        BY <2>3 DEF Moved
      <4>2. \A o \in Callers : o = c \/ restore'[o] = restore[o]
        BY <2>3 DEF Moved
      <4>. QED
        BY <3>1, <4>1, <4>2 DEF RestoresInv, Callers
    <3>3. ~overlap' => \A o, p \in Callers : o = p \/ restore'[o].step = "idle" \/ restore'[p].step = "idle"
      <4>1. restore'[c].step = "download" /\ \A o \in Callers : o = c \/ restore'[o] = restore[o]
        BY <2>3 DEF Moved
      <4>2. ~overlap' => ~overlap /\ \A o \in Callers \ {c} : restore[o].step = "idle"
        BY <2>3, Zenon
      <4>3. ASSUME ~overlap', NEW o \in Callers, NEW p \in Callers, o # p
            PROVE  restore'[o].step = "idle" \/ restore'[p].step = "idle"
        BY <4>1, <4>2, <4>3
      <4>. QED
        BY <4>3
    <3>. QED
      BY <2>1, <3>1, <3>2, <3>3 DEF RestoresInv
  <2>. QED
    BY <2>1, <2>2, <2>3
<1>4. CASE StartLoad(c)
  <2>1. /\ restore[c].step = "load" /\ UNCHANGED <<koofr, overlap>>
        /\ db'.from = "production" /\ ~job_runs'.foreign
    BY <1>4, StartsLoad DEF RestoresInv, Kept
  <2>2. ProductionBackups # {} /\ UNCHANGED ProductionBackups
    BY <2>1 DEF RestoresInv, Active, ProductionBackups
  <2>3. CASE Moved(c, "loading", restore[c].file, restore[c].kept, restore[c].status)
    <3>1. /\ restore'[c].step = "loading" /\ restore'[c].file = restore[c].file
          /\ restore'[c].kept = restore[c].kept
          /\ \A o \in Callers : o = c \/ restore'[o] = restore[o]
      BY <2>3 DEF Moved
    <3>. QED
      BY <2>1, <2>2, <3>1 DEF RestoresInv, Callers
  <2>4. CASE /\ restore'[c].step = (IF c = "cron" THEN "record" ELSE "idle")
             /\ restore'[c].file = {} /\ restore'[c].kept = NoTable
             /\ Struck(c)
    BY <2>1, <2>2, <2>4 DEF RestoresInv, Struck, NoTable, Callers
  <2>. QED
    BY <1>4, <2>3, <2>4, StartsLoad
<1>7. CASE Reinsert(c)
  <2>1. /\ restore[c].step = "reinsert" /\ Over(c, "success") /\ UNCHANGED <<koofr, db, overlap>>
        /\ ~job_runs'.foreign
    BY <1>7, Reinserts DEF RestoresInv, Kept
  <2>2. ProductionBackups # {} /\ UNCHANGED ProductionBackups
    BY <2>1 DEF RestoresInv, Active, ProductionBackups
  <2>. QED
    BY <2>1, <2>2 DEF RestoresInv, Over, Moved, NoTable, Callers
<1>2. CASE Preserve(c)
  BY <1>2, Preserves DEF RestoresInv, Active, NoTable, ProductionBackups, Struck, Over, Moved, Kept, Callers
<1>3. CASE Wipe(c)
  BY <1>3, Wipes DEF RestoresInv, Active, NoTable, ProductionBackups, Struck, Over, Moved, Kept, Callers
<1>5. CASE EndLoad(c)
  BY <1>5, EndsLoad DEF RestoresInv, Active, NoTable, ProductionBackups, Struck, Over, Moved, Kept, Callers
<1>6. CASE Verify(c)
  BY <1>6, Verifies DEF RestoresInv, Active, NoTable, ProductionBackups, Struck, Over, Moved, Kept, Callers
<1>8. CASE Record(c)
  BY <1>8, Records DEF RestoresInv, Active, NoTable, ProductionBackups, Struck, Over, Moved, Kept, Callers
<1>9. CASE Download(c) \/ LoadFails(c)
  BY <1>9, MovesOn DEF RestoresInv, Active, NoTable, ProductionBackups, Struck, Over, Moved, Kept, Callers
<1>10. CASE RestoreFails(c) \/ Dies(c)
  BY <1>10, MovesOn DEF RestoresInv, Active, NoTable, ProductionBackups, Struck, Over, Moved, Kept, Callers
<1>11. CASE OtherRun
  BY <1>11, OtherRuns DEF RestoresInv, Active, NoTable, ProductionBackups, Struck, Over, Moved, Kept, Callers
<1>. QED
  BY <1>1, <1>2, <1>3, <1>4, <1>5, <1>6, <1>7, <1>8, <1>9, <1>10, <1>11 DEF Restoring

\* Without an overlap, one downsync goes on at a time.
LEMMA Alone ==
  ASSUME IInv, ~overlap, NEW c \in Callers, restore[c].step # "idle"
  PROVE  \A o \in Callers : o = c \/ restore[o].step = "idle"
BY DEF IInv, RestoresInv

LEMMA OneDecides ==
  ASSUME NEW c \in Callers, \A o \in Callers : o = c \/ restore[o].step = "idle"
  PROVE  /\ Safe(c) => /\ \A o \in Callers : restore[o].step # "idle" => Safe(o)
                       /\ AtRest => \A o \in Callers : Safe(o)
         /\ Shown(c) => /\ \A o \in Callers : restore[o].step # "idle" => Shown(o)
                        /\ AtRest => \A o \in Callers : Shown(o)
BY DEF Safe, Shown, AtRest

\* The step of a downsync that has the stage for itself.
LEMMA AloneStep ==
  ASSUME IInv, NEW c \in Callers, ~overlap, restore[c].step # "idle",
         Restoring(c) \/ RestoreFails(c) \/ Dies(c)
  PROVE  \A o \in Callers : o = c \/ restore'[o].step = "idle"
<1>1. \A o \in Callers : o = c \/ restore[o].step = "idle"
  BY Alone
<1>2. TypeOK
  BY DEF IInv
<1>3. (\A o \in Callers : o = c \/ restore'[o] = restore[o]) \/ Struck(c)
  <2>1. CASE Preserve(c)
    BY <1>2, <2>1, Preserves DEF Moved
  <2>2. CASE Wipe(c)
    BY <1>2, <2>2, Wipes
  <2>3. CASE StartLoad(c)
    BY <1>2, <2>3, StartsLoad DEF Moved
  <2>4. CASE EndLoad(c)
    BY <1>2, <2>4, EndsLoad DEF Moved
  <2>5. CASE Verify(c)
    BY <1>2, <2>5, Verifies DEF Moved, Over
  <2>6. CASE Reinsert(c)
    BY <1>2, <2>6, Reinserts DEF Moved, Over
  <2>7. CASE Record(c)
    BY <1>2, <2>7, Records DEF Moved
  <2>8. CASE Download(c) \/ LoadFails(c) \/ RestoreFails(c) \/ Dies(c)
    BY <1>2, <2>8, MovesOn DEF Moved, Over
  <2>9. ~StartDownsync(c)
    BY DEF StartDownsync
  <2>. QED
    BY <2>1, <2>2, <2>3, <2>4, <2>5, <2>6, <2>7, <2>8, <2>9 DEF Restoring
<1>. QED
  BY <1>1, <1>3 DEF Struck

LEMMA SafeStep ==
  ASSUME IInv, NEW c \in Callers, ~overlap, restore[c].step # "idle", Safe(c),
         begun.failures = 0, begun'.failures = 0,
         \A f \in restore[c].file : f.whole,
         Restoring(c) \/ RestoreFails(c) \/ Dies(c)
  PROVE  Safe(c)'
<1>1. TypeOK
  BY DEF IInv
<1>2. ~Fails
  BY <1>1, FailsTyped
<1>3. CASE Preserve(c)
  BY <1>1, <1>2, <1>3, Preserves DEF Moved, Safe, Kept
<1>4. CASE Wipe(c)
  BY <1>1, <1>4, Wipes DEF Safe, Kept
<1>5. CASE StartLoad(c)
  <2>1. db.state = "wiped" /\ job_runs.rows = {}
    BY <1>1, <1>5, StartsLoad DEF Safe, NoTable
  <2>. QED
    BY <1>1, <1>5, <2>1, StartsLoad DEF Safe, Moved, Kept
<1>6. CASE EndLoad(c)
  BY <1>1, <1>2, <1>6, EndsLoad DEF Moved, Safe, Kept
<1>7. CASE Verify(c)
  BY <1>1, <1>7, Verifies DEF Moved, Safe, Kept
<1>8. CASE Reinsert(c)
  <2>1. /\ db.state = "whole" /\ job_runs.table /\ restore[c].kept.table
        /\ restore[c].kept.rows \cap job_runs.rows = {} /\ settled \subseteq restore[c].kept.rows
    BY <1>1, <1>8, Reinserts DEF Safe
  <2>2. /\ job_runs'.table /\ job_runs'.rows = job_runs.rows \cup restore[c].kept.rows
        /\ UNCHANGED <<db, settled>>
        /\ restore'[c].step \in {"record", "idle"}
    BY <1>1, <1>2, <1>8, <2>1, Reinserts DEF Moved, Over, Kept
  <2>. QED
    BY <2>1, <2>2 DEF Safe
<1>9. CASE Record(c)
  BY <1>1, <1>9, Records DEF Moved, Safe, Kept
<1>10. CASE Download(c)
  BY <1>1, <1>10, MovesOn DEF Moved, Over, Safe, Kept
<1>11. ~LoadFails(c) /\ ~RestoreFails(c) /\ ~Dies(c) /\ ~StartDownsync(c)
  BY <1>1, <1>2, MovesOn DEF StartDownsync
<1>. QED
  BY <1>3, <1>4, <1>5, <1>6, <1>7, <1>8, <1>9, <1>10, <1>11 DEF Restoring

LEMMA ShownStep ==
  ASSUME IInv, NEW c \in Callers, restore[c].step # "idle", Shown(c),
         Restoring(c) \/ RestoreFails(c) \/ Dies(c)
  PROVE  Shown(c)'
<1>1. TypeOK
  BY DEF IInv
<1>3. CASE Preserve(c)
  BY <1>1, <1>3, Preserves DEF Moved, Shown, Kept
<1>4. CASE Wipe(c)
  BY <1>1, <1>4, Wipes DEF Shown, NoTable
<1>5. CASE StartLoad(c)
  BY <1>1, <1>5, StartsLoad DEF Shown, Moved
<1>6. CASE EndLoad(c)
  BY <1>1, <1>6, EndsLoad DEF Moved, Shown
<1>7. CASE Verify(c)
  BY <1>1, <1>7, Verifies DEF Moved, Over, Shown
<1>8. CASE Reinsert(c)
  <2>1. db.state = "whole" /\ UNCHANGED db /\ restore'[c].step \in {"record", "idle"}
    BY <1>1, <1>8, Reinserts DEF Shown, Moved, Over
  <2>. QED
    BY <2>1 DEF Shown
<1>9. CASE Record(c)
  BY <1>1, <1>9, Records DEF Moved, Shown
<1>10. CASE Download(c) \/ LoadFails(c)
  BY <1>1, <1>10, MovesOn DEF Moved, Over, Shown
<1>11. CASE RestoreFails(c)
  BY <1>1, <1>11, MovesOn DEF Moved, Over, Shown
<1>12. CASE Dies(c)
  BY <1>1, <1>12, MovesOn DEF Moved, Shown, TypeOK, Steps
<1>13. ~StartDownsync(c)
  BY DEF StartDownsync
<1>. QED
  BY <1>3, <1>4, <1>5, <1>6, <1>7, <1>8, <1>9, <1>10, <1>11, <1>12, <1>13 DEF Restoring

\* A downsync begins: with nothing to fetch, or with the stage to itself.
LEMMA StartStep ==
  ASSUME IInv, NEW c \in Callers, StartDownsync(c)
  PROVE  UndisturbedInv' /\ ShownInv'
<1>1. TypeOK
  BY DEF IInv
<1>2. /\ restore[c].step = "idle"
      /\ begun'.failures = begun.failures
      /\ UNCHANGED <<koofr, db, job_runs, settled>>
  BY <1>1, Starts DEF Kept
<1>3. begun'.failures = 0 => \A f \in ProductionBackups' : f.whole
  BY <1>2 DEF ProductionBackups, IInv, UndisturbedInv
<1>4. CASE ProductionBackups = {} /\ Over(c, "success") /\ UNCHANGED overlap
  <2>1. db.state = "whole" /\ \A o \in Callers : restore[o].step \in {"idle", "record"}
    BY <1>4 DEF IInv, RestoresInv, Active
  <2>2. /\ \A o \in Callers : restore'[o].step \in {"idle", "record"}
        /\ \A o \in Callers : o = c \/ restore'[o] = restore[o]
        /\ restore'[c].file = {}
    BY <1>4, <2>1 DEF Over, Moved
  <2>3. \A o \in Callers : Shown(o)'
    BY <1>2, <2>1, <2>2 DEF Shown
  <2>4. begun.failures = 0 /\ ~overlap => \A o \in Callers : Safe(o)'
    <3>1. begun.failures = 0 /\ ~overlap => job_runs.table /\ settled \subseteq job_runs.rows
      BY <2>1 DEF IInv, UndisturbedInv, Safe, AtRest
    <3>. QED
      BY <1>2, <2>1, <2>2, <3>1 DEF Safe
  <2>. QED
    BY <1>2, <1>3, <1>4, <2>2, <2>3, <2>4 DEF IInv, UndisturbedInv, ShownInv
<1>5. ASSUME NEW f \in Latest,
             Moved(c, "download", {f}, restore[c].kept, restore[c].status),
             overlap' = (overlap \/ \E o \in Callers \ {c} : restore[o].step # "idle")
      PROVE  UndisturbedInv' /\ ShownInv'
  <2>1. /\ restore'[c].step = "download" /\ restore'[c].file = {f}
        /\ \A o \in Callers : o = c \/ restore'[o] = restore[o]
    BY <1>5 DEF Moved
  <2>2. ~overlap' => ~overlap /\ \A o \in Callers \ {c} : restore[o].step = "idle"
    BY <1>5, Zenon
  <2>3. ~overlap' => AtRest /\ \A o \in Callers : o = c \/ restore'[o].step = "idle"
    BY <1>2, <2>1, <2>2 DEF AtRest
  <2>4. ~overlap' => Shown(c)'
    BY <1>2, <2>1, <2>2, <2>3 DEF Shown, IInv, ShownInv
  <2>5. ~overlap' /\ begun'.failures = 0 => Safe(c)'
    BY <1>2, <2>1, <2>2, <2>3 DEF Safe, IInv, UndisturbedInv
  <2>6. begun'.failures = 0 => \A o \in Callers : \A g \in restore'[o].file : g.whole
    <3>1. begun'.failures = 0 => f.whole
      BY <1>2 DEF Latest, IInv, UndisturbedInv
    <3>. QED
      BY <1>2, <2>1, <3>1 DEF IInv, UndisturbedInv
  <2>7. ~overlap' /\ begun'.failures = 0 =>
          /\ \A o \in Callers : restore'[o].step # "idle" => Safe(o)'
          /\ AtRest' => \A o \in Callers : Safe(o)'
    BY <2>1, <2>3, <2>5 DEF AtRest
  <2>8. ~overlap' => /\ \A o \in Callers : restore'[o].step # "idle" => Shown(o)'
                     /\ AtRest' => \A o \in Callers : Shown(o)'
    BY <2>1, <2>3, <2>4 DEF AtRest
  <2>9. begun'.failures = 0 => \A g \in ProductionBackups' : g.whole
    BY <1>3
  <2>. QED
    BY <2>6, <2>7, <2>8, <2>9 DEF UndisturbedInv, ShownInv
<1>. QED
  BY <1>1, <1>4, <1>5, Starts

LEMMA OtherRunStep ==
  ASSUME IInv, OtherRun
  PROVE  UndisturbedInv' /\ ShownInv'
<1>1. TypeOK
  BY DEF IInv
<1>2. /\ begun'.runs = begun.runs + 1 /\ begun'.failures = begun.failures
      /\ job_runs.table /\ job_runs'.table /\ job_runs'.rows = job_runs.rows \cup {begun'.runs}
      /\ job_runs'.last = job_runs.last
      /\ settled' = IF \A c \in Callers : restore[c].step = "idle"
                    THEN settled \cup {begun'.runs} ELSE settled
      /\ UNCHANGED <<koofr, db, restore, overlap>>
  BY <1>1, OtherRuns
<1>3. ShownInv'
  BY <1>2 DEF IInv, ShownInv, Shown, AtRest
<1>4. UNCHANGED ProductionBackups
  BY <1>2 DEF ProductionBackups
<1>5. \A c \in Callers : begun'.runs \notin restore[c].kept.rows
  <2>1. begun.runs \in Nat /\ \A c \in Callers : restore[c].kept.rows \subseteq 0..begun.runs
    BY <1>1 DEF IInv, KeptInv, TypeOK
  <2>. QED
    BY <1>2, <2>1
<1>6. ASSUME NEW c \in Callers, restore[c].step # "idle", Safe(c) PROVE Safe(c)'
  <2>1. settled' = settled
    BY <1>2, <1>6
  <2>2. restore[c].step # "load"
    BY <1>2, <1>6 DEF Safe, NoTable
  <2>. QED
    BY <1>2, <1>5, <1>6, <2>1, <2>2 DEF Safe
<1>7. ASSUME AtRest, NEW c \in Callers, Safe(c) PROVE Safe(c)'
  BY <1>2, <1>7 DEF AtRest, Safe
<1>8. UNCHANGED AtRest
  BY <1>2 DEF AtRest
<1>. QED
  BY <1>2, <1>3, <1>4, <1>6, <1>7, <1>8 DEF IInv, UndisturbedInv

\* Every other step of a downsync.
LEMMA DownsyncStep ==
  ASSUME IInv, NEW c \in Callers, restore[c].step # "idle",
         Restoring(c) \/ RestoreFails(c) \/ Dies(c)
  PROVE  UndisturbedInv' /\ ShownInv'
<1>1. TypeOK
  BY DEF IInv
<1>2. UNCHANGED <<koofr, overlap>> /\ (begun'.failures = 0 => begun.failures = 0)
  <2>1. Fails => begun'.failures # 0
    BY <1>1, FailsTyped
  <2>. QED
    BY <2>1 DEF InProduction, Restoring, StartDownsync, Download, Preserve, Wipe, StartLoad, EndLoad,
       LoadFails, Verify, Reinsert, Record, RestoreFails, Dies
<1>3. \A o \in Callers : restore'[o].file \subseteq restore[o].file
  <2>1. CASE Preserve(c)
    BY <1>1, <2>1, Preserves DEF Moved
  <2>2. CASE Wipe(c)
    BY <1>1, <2>2, Wipes DEF Struck
  <2>3. CASE StartLoad(c)
    BY <1>1, <2>3, StartsLoad DEF Moved, Struck
  <2>4. CASE EndLoad(c)
    BY <1>1, <2>4, EndsLoad DEF Moved
  <2>5. CASE Verify(c)
    BY <1>1, <2>5, Verifies DEF Moved, Over
  <2>6. CASE Reinsert(c)
    BY <1>1, <2>6, Reinserts DEF Moved, Over
  <2>7. CASE Record(c)
    BY <1>1, <2>7, Records DEF Moved
  <2>8. CASE Download(c) \/ LoadFails(c) \/ RestoreFails(c) \/ Dies(c)
    BY <1>1, <2>8, MovesOn DEF Moved, Over
  <2>9. ~StartDownsync(c)
    BY DEF StartDownsync
  <2>. QED
    BY <2>1, <2>2, <2>3, <2>4, <2>5, <2>6, <2>7, <2>8, <2>9 DEF Restoring
<1>4. begun'.failures = 0 => /\ \A f \in ProductionBackups' : f.whole
                             /\ \A o \in Callers : \A f \in restore'[o].file : f.whole
  BY <1>2, <1>3 DEF IInv, UndisturbedInv, ProductionBackups
<1>5. ~overlap' => \A o \in Callers : o = c \/ restore'[o].step = "idle"
  BY <1>2, AloneStep
<1>6. ~overlap' => Shown(c)'
  BY <1>2, ShownStep DEF IInv, ShownInv
<1>7. ~overlap' /\ begun'.failures = 0 => Safe(c)'
  BY <1>2, SafeStep DEF IInv, UndisturbedInv
<1>8. ShownInv'
  <2>1. ASSUME ~overlap'
        PROVE  /\ \A o \in Callers : restore'[o].step # "idle" => Shown(o)'
               /\ AtRest' => \A o \in Callers : Shown(o)'
    BY <1>5, <1>6, <2>1 DEF Shown, AtRest
  <2>. QED
    BY <2>1 DEF ShownInv
<1>9. UndisturbedInv'
  <2>1. ASSUME ~overlap', begun'.failures = 0
        PROVE  /\ \A o \in Callers : restore'[o].step # "idle" => Safe(o)'
               /\ AtRest' => \A o \in Callers : Safe(o)'
    BY <1>5, <1>7, <2>1 DEF Safe, AtRest
  <2>. QED
    BY <1>4, <2>1 DEF UndisturbedInv
<1>. QED
  BY <1>8, <1>9

LEMMA InitIInv ==
  ASSUME Init
  PROVE  IInv
<1>0. 0 \in 0..MaxDays /\ 0 \in 0..MaxBackups /\ 0 \in 0..MaxExtras /\ 0 \in 0..MaxFailures
  BY BoundsAssumption
<1>1. [NoTable EXCEPT !.table = TRUE, !.rows = {0}] \in Histories
  <2>. DEFINE h == [NoTable EXCEPT !.table = TRUE, !.rows = {0}]
  <2>1. NoTable \in Runs
    BY HistoriesTyped
  <2>2. h \in Runs /\ h.table
    BY <1>0, <2>1 DEF Runs
  <2>. HIDE DEF h
  <2>3. h \in Histories
    BY <2>2, HistoriesTyped
  <2>. QED
    BY <2>3 DEF h
<1>2. TypeOK
  <2>1. koofr \subseteq Files
    BY <1>0 DEF Init, Files
  <2>2. restore \in [Callers -> Restore] /\ backup \in [Callers -> Backups]
    BY RestingTyped, NoBackupTyped DEF Init
  <2>3. /\ day \in 0..MaxDays /\ db \in [state : States, from : {"production", "test"}]
        /\ job_runs \in Histories /\ settled \subseteq 0..MaxExtras /\ overlap \in BOOLEAN
        /\ begun \in Counts
    BY <1>0, <1>1 DEF Init, States, Counts
  <2>. QED
    BY <2>1, <2>2, <2>3 DEF TypeOK, Restore, Backups, Counts
<1>3. /\ job_runs.rows = {0} /\ job_runs.table /\ ~job_runs.foreign /\ job_runs.last = "none"
      /\ NoTable.rows = {} /\ ~NoTable.foreign
  BY DEF Init, NoTable
<1>4. \A c \in Callers : restore[c] = Resting /\ backup[c] = NoBackup
  BY DEF Init
<1>5. BackupsInv
  BY <1>4, NoBackupTyped DEF Init, BackupsInv, Callers
<1>6. ProductionBackups = {}
  BY DEF Init, ProductionBackups
<1>7. RestoresInv
  BY <1>3, <1>4, <1>6, RestingTyped DEF Init, RestoresInv, Active, Callers
<1>8. KeptInv
  BY <1>3, <1>4, RestingTyped DEF Init, KeptInv
<1>9. UndisturbedInv
  BY <1>3, <1>4, <1>6, RestingTyped DEF Init, UndisturbedInv, Safe
<1>10. ShownInv
  BY <1>3, <1>4, RestingTyped DEF Init, ShownInv, Shown
<1>. QED
  BY <1>2, <1>5, <1>7, <1>8, <1>9, <1>10 DEF IInv

LEMMA NextIInv ==
  ASSUME IInv, [Next]_vars
  PROVE  IInv'
<1>1. TypeOK'
  BY Types DEF IInv
<1>2. ASSUME NEW c \in Callers,
             \/ TimePasses \/ StartBackup(c) \/ Upload(c) \/ BackupFails(c)
             \/ ListExpired \/ DeleteExpired \/ EndCleanup
      PROVE  IInv'
  BY <1>1, <1>2, BackupSteps, BackupsApart DEF IInv
<1>3. ASSUME NEW c \in Callers, Restoring(c) \/ RestoreFails(c) \/ Dies(c) \/ OtherRun
      PROVE  IInv'
  <2>1. BackupsInv' /\ RestoresInv' /\ KeptInv'
    BY <1>3, BackupsKept, RestoresStep, KeptStep
  <2>2. UndisturbedInv' /\ ShownInv'
    <3>1. CASE OtherRun
      BY <3>1, OtherRunStep
    <3>2. CASE StartDownsync(c)
      BY <3>2, StartStep
    <3>3. CASE ~StartDownsync(c) /\ ~OtherRun
      <4>1. restore[c].step # "idle"
        BY <1>3, <3>3 DEF Restoring, Download, Preserve, Wipe, StartLoad, EndLoad, LoadFails,
           Verify, Reinsert, Record, RestoreFails, Dies
      <4>. QED
        BY <1>3, <3>3, <4>1, DownsyncStep
    <3>. QED
      BY <3>1, <3>2, <3>3
  <2>. QED
    BY <1>1, <2>1, <2>2 DEF IInv
<1>4. CASE UNCHANGED vars
  <2>1. UNCHANGED <<day, koofr, backup, OnStage, begun>>
    BY <1>4 DEF vars, OnStage
  <2>2. BackupsInv'
    BY <2>1 DEF IInv, BackupsInv, Dump
  <2>3. UNCHANGED ProductionBackups
    BY <2>1 DEF ProductionBackups
  <2>. QED
    BY <1>1, <2>1, <2>2, <2>3, BackupsApart DEF IInv
<1>. QED
  BY <1>2, <1>3, <1>4 DEF Next, Callers

-----------------------------------------------------------------------------
THEOREM Invariance == Spec => []IInv
<1>1. Init => IInv
  BY InitIInv
<1>2. IInv /\ [Next]_vars => IInv'
  BY NextIInv
<1>. QED
  BY <1>1, <1>2, PTL DEF Spec

\* A downsync nothing goes wrong in leaves a whole database and the run
\* history it found: run_restore preserves, wipes, loads, verifies and
\* reinserts in an order that loses neither.
THEOREM Undisturbed == Spec => []UndisturbedIsWhole
<1>1. IInv => UndisturbedIsWhole
  BY DEF IInv, UndisturbedInv, UndisturbedIsWhole, WholeWithoutFailure, HistorySurvives, Safe,
     AtRest, Callers
<1>. QED
  BY <1>1, Invariance, PTL

\* What job_downsync records of itself is true as long as no two downsyncs
\* overlap, and it only ever brings production's rows.
THEOREM ShownAndBrought == Spec => []ShownAndBroughtIsTrue
<1>1. IInv => ShownAndBroughtIsTrue
  BY DEF IInv, RestoresInv, ShownInv, ShownAndBroughtIsTrue, ShownIsTrue, OnlyProductionData,
     Shown, AtRest, Callers
<1>. QED
  BY <1>1, Invariance, PTL

\* cleanup_old_backups never deletes the last whole backup of production: it
\* has just been preceded by one that is younger than what it deletes.
THEOREM BackupRemains == Spec => BackupStays
<1>1. IInv /\ [Next]_vars =>
        [(\E f \in ProductionBackups : f.whole) => \E f \in ProductionBackups' : f.whole]_vars
  <2>1. ASSUME IInv, DeleteExpired PROVE \E f \in ProductionBackups' : f.whole
    <3>1. PICK f \in backup["cron"].expired : koofr' = koofr \ {f}
      BY <2>1 DEF DeleteExpired
    <3>2. /\ Dump("cron") \in koofr /\ Dump("cron").day = day /\ f.day < day
          /\ Dump("cron").stage = "production" /\ Dump("cron").whole
      BY <2>1 DEF DeleteExpired, IInv, BackupsInv, Dump, Callers
    <3>3. f # Dump("cron")
      BY <2>1, <3>2 DEF IInv, TypeOK
    <3>. QED
      BY <3>1, <3>2, <3>3 DEF ProductionBackups
  <2>2. ASSUME IInv, Next, ~DeleteExpired PROVE koofr \subseteq koofr'
    BY <2>2 DEF Next, InProduction, TimePasses, StartBackup, Upload, BackupFails, ListExpired,
       EndCleanup, Restoring, StartDownsync, Download, Preserve, Wipe, StartLoad, EndLoad,
       LoadFails, Verify, Reinsert, Record, RestoreFails, Dies, OtherRun
  <2>. QED
    BY <2>1, <2>2 DEF ProductionBackups
<1>. QED
  BY <1>1, Invariance, PTL DEF Spec, BackupStays
=============================================================================
