------------------------------ MODULE CronJobs ------------------------------
(***************************************************************************)
(* The scheduled jobs.  When one is due, the worker puts it in the queue   *)
(* under a fixed id, which arq refuses while a job of that id is there.    *)
(* The body runs in a thread, which a coroutine waits for; at the timeout  *)
(* arq cancels the coroutine and takes the job for failed, and the thread  *)
(* goes on.  The bodies of backup_koofr and downsync record their run      *)
(* themselves, those of the others are recorded by the coroutine.          *)
(*                                                                         *)
(* A behaviour follows one job.                                            *)
(***************************************************************************)
EXTENDS Worker

VARIABLES
  stage,        \* [production, backup_enabled]
  job,          \* the job followed
  run,          \* its runs: [queued, tries, attended, step]
  stale,        \* there is something for it to purge, send, save or replace
  unrecorded,   \* runs that came to their end and left no row in job_runs
  late          \* runs that outlived their timeout

cronVars == <<stage, job, run, stale, unrecorded, late>>

\* build_cron_catalog: the jobs registered on a stage.
Catalog(on) ==
  {"purge_stale_booking_requests"}
    \cup (IF on.production
            THEN {"notify_upcoming_booking_status", "purge_expired_password_reset_tokens",
                  "purge_old_request_logs"}
            ELSE {"downsync"})
    \cup (IF on.production /\ on.backup_enabled THEN {"backup_koofr"} ELSE {})

RecordsItself == job \in {"backup_koofr", "downsync"}

\* Bound: one run that arq knows of and one that it has given up.
Numbers == 1..2

NoRun == [queued |-> FALSE, tries |-> 0, attended |-> FALSE, step |-> "none"]

Attended == {n \in Numbers : run[n].attended}

CronInit ==
  /\ stage \in [production : BOOLEAN, backup_enabled : BOOLEAN]
  /\ job \in Catalog(stage)
  /\ run = [n \in Numbers |-> NoRun]
  /\ stale = FALSE
  /\ unrecorded = 0 /\ late = 0

Becomes(n, next) == run' = [run EXCEPT ![n] = next]

KeepsHistory == UNCHANGED <<stage, job, unrecorded, late>>

-----------------------------------------------------------------------------
\* Time passes: rows get old, casts change.
GetStale ==
  /\ stale' = TRUE
  /\ KeepsHistory /\ UNCHANGED <<run, workerVars>>

\* Mutant: each due time has an id of its own.
DueAnyway ==
  /\ up
  /\ \E n \in Numbers : run[n] = NoRun /\ Becomes(n, [NoRun EXCEPT !.queued = TRUE])
  /\ KeepsHistory /\ UNCHANGED <<stale, workerVars>>

\* While the last run is in the queue, or when the worker is down, the run
\* that is due does not take place.
Due ==
  /\ up /\ \A n \in Numbers : ~run[n].queued
  /\ \E n \in Numbers : run[n] = NoRun /\ Becomes(n, [NoRun EXCEPT !.queued = TRUE])
  /\ KeepsHistory /\ UNCHANGED <<stale, workerVars>>

StartJob(n) ==
  /\ up /\ Cardinality(Attended) < parallel
  /\ run[n].queued /\ ~run[n].attended
  /\ Becomes(n, IF run[n].tries = MAX_TRIES THEN NoRun
                ELSE [run[n] EXCEPT !.tries = @ + 1, !.attended = TRUE, !.step = "body"])
  /\ KeepsHistory /\ UNCHANGED <<stale, workerVars>>

\* The body commits what it did, or raises and leaves everything as it was.
Body(n) ==
  /\ run[n].step = "body"
  /\ Becomes(n, [run[n] EXCEPT !.step = "done"])
  /\ stale' = FALSE
  /\ KeepsHistory /\ UNCHANGED workerVars

BodyFails(n) ==
  /\ run[n].step = "body"
  /\ Becomes(n, [run[n] EXCEPT !.step = "done"])
  /\ Trouble /\ KeepsHistory /\ UNCHANGED stale /\ Stays

\* backup_koofr and downsync record what they expect to fail, and nothing else.
BodyRaises(n) ==
  /\ RecordsItself /\ run[n].step = "body"
  /\ Becomes(n, NoRun)
  /\ unrecorded' = unrecorded + 1
  /\ Trouble /\ UNCHANGED <<stage, job, stale, late>> /\ Stays

\* The thread of a run that arq has given up ends unseen.
Record(n) ==
  /\ run[n].step = "done"
  /\ Becomes(n, NoRun)
  /\ unrecorded' = IF run[n].attended \/ RecordsItself THEN unrecorded ELSE unrecorded + 1
  /\ UNCHANGED <<stage, job, stale, late, workerVars>>

\* A row that cannot be written is logged and forgotten.
RecordFails(n) ==
  /\ run[n].step = "done"
  /\ Becomes(n, NoRun)
  /\ unrecorded' = unrecorded + 1
  /\ Trouble /\ UNCHANGED <<stage, job, stale, late>> /\ Stays

\* Mutant: the job keeps its place.
TimeoutKept(n) ==
  /\ run[n].attended /\ run[n].step = "body"
  /\ Becomes(n, [run[n] EXCEPT !.step = "none"])
  /\ late' = late + 1
  /\ Trouble /\ UNCHANGED <<stage, job, stale, unrecorded>> /\ Stays

Timeout(n) ==
  /\ run[n].attended /\ run[n].step = "body"
  /\ Becomes(n, [NoRun EXCEPT !.step = "body"])
  /\ late' = late + 1
  /\ Trouble /\ UNCHANGED <<stage, job, stale, unrecorded>> /\ Stays

\* The threads end with the process.  Nobody records what they did.
JobWorkerDown ==
  /\ GoesDown
  /\ run' = [n \in Numbers |-> IF run[n].queued
                                 THEN [NoRun EXCEPT !.queued = TRUE, !.tries = run[n].tries]
                                 ELSE NoRun]
  /\ unrecorded' = unrecorded + Cardinality({n \in Numbers : run[n].step = "done"})
  /\ UNCHANGED <<stage, job, stale, late>>

JobWorkerRestart == Restarts /\ UNCHANGED cronVars

\* A job that nobody has taken for a day is forgotten.
ForgetJob(n) ==
  /\ ~up /\ run[n].queued
  /\ Becomes(n, NoRun)
  /\ KeepsHistory /\ UNCHANGED <<stale, workerVars>>

CronNext ==
  \/ GetStale \/ Due
  \/ \E n \in Numbers : \/ StartJob(n) \/ Body(n) \/ BodyFails(n) \/ BodyRaises(n)
                        \/ Record(n) \/ RecordFails(n) \/ Timeout(n) \/ ForgetJob(n)
  \/ JobWorkerDown \/ JobWorkerRestart

-----------------------------------------------------------------------------
CronOK ==
  /\ job \in Catalog(stage)
  /\ \A n \in Numbers : run[n] \in [queued : BOOLEAN, tries : 0..MAX_TRIES, attended : BOOLEAN,
                                    step : {"none", "body", "done"}]
  /\ stale \in BOOLEAN
  /\ unrecorded \in Nat /\ late \in 0..troubles

\* A job never runs twice at once, however late, slow or interrupted its runs
\* are, unless one of them outlived its timeout.
RunsDisjoint ==
  late = 0 => Cardinality({n \in Numbers : run[n].step = "body"}) <= 1

\* Every run that comes to its end leaves a row, unless something went wrong;
\* backup and downsync leave theirs even after their timeout.
RunsRecorded == unrecorded > 0 => troubles > (IF RecordsItself THEN late ELSE 0)

\* Runs of a job neither overlap nor vanish.
RunsSafe == CronOK /\ RunsDisjoint /\ RunsRecorded

\* What a missed, refused, failed or interrupted run leaves undone, a later
\* one does.
LaterRunsMakeUp == stale ~> ~stale
=============================================================================
