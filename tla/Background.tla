----------------------------- MODULE Background -----------------------------
(***************************************************************************)
(* What the program does outside the requests' handlers: the mails and the *)
(* scheduled jobs of the worker, and the request log, which is written     *)
(* between a handler's commit and its answer.  A behaviour follows one     *)
(* topic: the jobs of the worker share arq, the worker's life and the      *)
(* places for jobs that run, and nothing else.                             *)
(***************************************************************************)
EXTENDS Mails, CronJobs, RequestLogs

VARIABLE topic

vars == <<topic, workerVars, mailVars, cronVars, logVars>>

Init ==
  /\ topic \in {"mails", "cron", "logs"}
  /\ WorkerInit /\ MailsInit /\ CronInit /\ LogsInit
  /\ topic # "cron" => job = "purge_stale_booking_requests" /\ stage.production
                         /\ ~stage.backup_enabled
  /\ topic = "logs" => parallel = 1

OnMails(step) == topic = "mails" /\ step /\ UNCHANGED <<topic, cronVars, logVars>>

OnCron(step) == topic = "cron" /\ step /\ UNCHANGED <<topic, mailVars, logVars>>

OnLogs(step) == topic = "logs" /\ step /\ UNCHANGED <<topic, workerVars, mailVars, cronVars>>

Next == OnMails(MailsNext) \/ OnCron(CronNext) \/ OnLogs(LogsNext)

\* The container of the worker is restarted; the worker takes the job that
\* has waited longest, and goes on with those it has started; time passes.
MailsFairness ==
  /\ WF_vars(OnMails(MailWorkerRestart)) /\ WF_vars(OnMails(Day))
  /\ \A m \in Mails : WF_vars(OnMails(WorkOn(m))) /\ SF_vars(OnMails(StartMail(m)))

CronFairness ==
  /\ WF_vars(OnCron(JobWorkerRestart)) /\ WF_vars(OnCron(Due))
  /\ \A n \in Numbers :
       WF_vars(OnCron(StartJob(n))) /\ WF_vars(OnCron(Body(n))) /\ WF_vars(OnCron(Record(n)))

Spec == Init /\ [][Next]_vars /\ MailsFairness /\ CronFairness

=============================================================================
