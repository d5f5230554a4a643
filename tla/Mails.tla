-------------------------------- MODULE Mails --------------------------------
(***************************************************************************)
(* Mails that requests have sent: the handler commits and answers, a       *)
(* background task puts the job in the queue, the worker asks the kill     *)
(* switch, sends, and logs the mail in sent_emails, which the kill switch  *)
(* counts.  Each of these is a step of its own; nothing ties them together.*)
(*                                                                         *)
(* A place that a mail has left is taken by another: there is no end of    *)
(* mails.  What went wrong is said by the exceptions' handlers only.       *)
(***************************************************************************)
EXTENDS Worker

CONSTANTS
  Mails,                        \* bound: mails under way at a time
  MaxRecipients,                \* of one mail
  MAIL_KILL_SWITCH_THRESHOLD,
  MAIL_KILL_SWITCH_PERIOD       \* in days

ASSUME MailsAssumption ==
  /\ MaxRecipients \in Nat \ {0}
  /\ MAIL_KILL_SWITCH_THRESHOLD \in Nat
  /\ MAIL_KILL_SWITCH_PERIOD \in Nat \ {0}

VARIABLES
  mail,          \* [mail -> where it is and what became of it]
  sent_emails,   \* [days left in the period -> recipients of the rows]
  reached        \* [days left in the period -> recipients mails were sent to]

mailVars == <<mail, sent_emails, reached>>

Days == 1..MAIL_KILL_SWITCH_PERIOD
Today == MAIL_KILL_SWITCH_PERIOD

NoMail == [step |-> "none", size |-> 0, tries |-> 0, delivered |-> 0, cut |-> 0]

MailsInit ==
  /\ mail = [m \in Mails |-> NoMail]
  /\ sent_emails = [d \in Days |-> 0]
  /\ reached = [d \in Days |-> 0]

Running == {m \in Mails : mail[m].step \in {"check", "send", "log"}}

\* The addresses of rows or mails, one by one.
Recipients(sizes) == UNION {{x} \X (1..sizes[x]) : x \in DOMAIN sizes}

Total(sizes) == Cardinality(Recipients(sizes))

Active == Total(sent_emails) >= MAIL_KILL_SWITCH_THRESHOLD

Step(m, from, to) == mail[m].step = from /\ mail' = [mail EXCEPT ![m].step = to]

Leave(m, from) == mail[m].step = from /\ mail' = [mail EXCEPT ![m] = NoMail]

KeepsCounts == UNCHANGED <<sent_emails, reached>>

-----------------------------------------------------------------------------
(* The web process.                                                        *)

Answered(m) ==
  /\ mail[m].step = "none"
  /\ \E n \in 1..MaxRecipients : mail' = [mail EXCEPT ![m] = [NoMail EXCEPT !.step = "answered",
                                                                            !.size = n]]
  /\ KeepsCounts /\ Stays /\ Smoothly

Enqueue(m) == Step(m, "answered", "queued") /\ KeepsCounts /\ Stays /\ Smoothly

\* A Redis error is logged; or the process ends, or the request log fails,
\* before the task has run.
LoseJob(m) == Leave(m, "answered") /\ KeepsCounts /\ Stays /\ Smoothly

-----------------------------------------------------------------------------
(* The worker.                                                             *)

StartMail(m) ==
  /\ up /\ Cardinality(Running) < parallel
  /\ IF mail[m].tries = MAX_TRIES THEN Leave(m, "queued")
     ELSE /\ mail[m].step = "queued"
          /\ mail' = [mail EXCEPT ![m].step = "check", ![m].tries = @ + 1]
  /\ KeepsCounts /\ Stays /\ Smoothly

\* Mutant: suppressed mails wait in the queue.
SuppressLater(m) ==
  /\ Active /\ mail[m].step = "check"
  /\ mail' = [mail EXCEPT ![m].step = "queued", ![m].tries = @ - 1]
  /\ KeepsCounts /\ Stays /\ Smoothly

\* Suppressed mails leave no row; where the count fails, mails are suppressed.
Suppress(m) ==
  /\ Leave(m, "check")
  /\ (Active /\ Smoothly) \/ Trouble
  /\ KeepsCounts /\ Stays

Pass(m) ==
  /\ ~Active /\ Step(m, "check", "send")
  /\ KeepsCounts /\ Stays /\ Smoothly

Send(m) ==
  /\ mail[m].step = "send"
  /\ mail' = [mail EXCEPT ![m].step = "log", ![m].delivered = @ + 1]
  /\ reached' = [reached EXCEPT ![Today] = @ + mail[m].size]
  /\ Stays /\ Smoothly /\ UNCHANGED sent_emails

\* The exception ends the job.
SendFails(m) == Leave(m, "send") /\ KeepsCounts /\ Stays /\ Smoothly

LogSentEmail(m) ==
  /\ Leave(m, "log")
  /\ sent_emails' = [sent_emails EXCEPT ![Today] = @ + mail[m].size]
  /\ Stays /\ Smoothly /\ UNCHANGED reached

\* Mutant: the job is tried again.
LogFailsAgain(m) == Step(m, "log", "send") /\ KeepsCounts /\ Stays /\ Trouble

\* A mail that was sent is not sent again because its row could not be written.
LogFails(m) == Leave(m, "log") /\ KeepsCounts /\ Stays /\ Trouble

MailWorkerDown ==
  /\ GoesDown
  /\ mail' = [m \in Mails |-> IF m \in Running
                                THEN [mail[m] EXCEPT !.step = "queued", !.cut = @ + 1]
                                ELSE mail[m]]
  /\ KeepsCounts

MailWorkerRestart == Restarts /\ UNCHANGED mailVars

\* A job that nobody has taken for a day is forgotten.
Expire(m) == ~up /\ Leave(m, "queued") /\ KeepsCounts /\ Stays /\ Smoothly

\* Mutant: rows stay in the count.
LaterForever(recipients) ==
  [d \in Days |-> IF d = 1 THEN recipients[1] + recipients[2] ELSE IF d = Today THEN 0
                  ELSE recipients[d + 1]]

Later(recipients) == [d \in Days |-> IF d = Today THEN 0 ELSE recipients[d + 1]]

Day ==
  /\ Total(sent_emails) + Total(reached) > 0
  /\ sent_emails' = Later(sent_emails)
  /\ reached' = Later(reached)
  /\ Stays /\ Smoothly /\ UNCHANGED mail

WorkOn(m) == StartMail(m) \/ Suppress(m) \/ Pass(m) \/ Send(m) \/ LogSentEmail(m)

MailsNext ==
  \/ \E m \in Mails : \/ Answered(m) \/ Enqueue(m) \/ LoseJob(m)
                      \/ WorkOn(m) \/ SendFails(m) \/ LogFails(m) \/ Expire(m)
  \/ MailWorkerDown \/ MailWorkerRestart \/ Day

-----------------------------------------------------------------------------
MailsOK ==
  /\ \A m \in Mails :
       /\ mail[m].step \in {"none", "answered", "queued", "check", "send", "log"}
       /\ mail[m].size \in 0..MaxRecipients
       /\ mail[m].tries \in 0..MAX_TRIES /\ mail[m].delivered \in 0..MAX_TRIES
  /\ Cardinality(Running) <= parallel
  /\ sent_emails \in [Days -> Nat] /\ reached \in [Days -> Nat]

\* A mail is sent once, and once more for each time the worker was cut off.
SentOncePerRun == \A m \in Mails : mail[m].delivered <= 1 + mail[m].cut

\* The kill switch misses nobody a mail was sent to, but while its row is
\* being written, and unless that was cut off or failed.
NobodyUncounted ==
  troubles = 0 =>
    Total(reached) <= Total(sent_emails)
      + Total([m \in Mails |-> IF mail[m].step = "log" THEN mail[m].size ELSE 0])

\* The switch is asked before each mail and counts after it: jobs that run
\* at the same time overshoot the threshold, each by one mail, and again for
\* each trouble.
OvershootBounded ==
  Total(reached) <
    MAIL_KILL_SWITCH_THRESHOLD + parallel * MaxRecipients * (1 + troubles)

\* Sending, counting and the kill switch stay in step over crashes, retries
\* and parallel jobs.
MailsSafe == WorkerOK /\ MailsOK /\ SentOncePerRun /\ NobodyUncounted /\ OvershootBounded

\* A job in the queue ends, whatever happens to the worker meanwhile.
EveryMailEnds == \A m \in Mails : mail[m].step = "queued" ~> mail[m].step = "none"

\* A switch that has tripped lets mails pass again as the period moves on:
\* mails it suppresses do not keep it tripped.
SwitchLifts == Active ~> ~Active
=============================================================================
