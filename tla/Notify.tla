------------------------------- MODULE Notify -------------------------------
(***************************************************************************)
(* The daily booking-status mails (app/services/booking_jobs.py): one run  *)
(* of notify_upcoming_booking_status reads booking_logs, mails every user  *)
(* with news and marks the entries in one transaction that commits after   *)
(* the last mail.  Meanwhile casts change, addresses lose and regain their *)
(* verification, the mail kill switch trips, the mail server refuses or    *)
(* the worker dies.                                                        *)
(*                                                                         *)
(* The log is the sequence of rows in the order of their insertion.        *)
(* created_at counts the transactions that wrote rows: rows of one         *)
(* transaction tie.  The query has no ORDER BY and the sort is stable; the *)
(* database is taken to return rows that tie in the order of insertion.    *)
(***************************************************************************)
EXTENDS Integers, Sequences

CONSTANTS
  Performances,
  Users,
  MaxEntries,    \* bound on the rows of booking_logs
  MaxFailures,   \* bound on the runs cut short
  KillSwitch     \* whether the mail kill switch may trip

ASSUME BoundsAssumption == MaxEntries \in Nat /\ MaxFailures \in Nat
ASSUME SwitchAssumption == KillSwitch \in BOOLEAN

VARIABLES
  booking_logs,
  upcoming,     \* performances still to come; the job reads no other's rows
  verified,     \* users with a verified address
  suppressed,   \* the kill switch is active
  job,          \* the run: [step, picks, todo, marked, mailed, muted]
  told,         \* what the last mail said: per performance and user
  astray,       \* keys whose last mail and last mark have come apart
  failures

vars == <<booking_logs, upcoming, verified, suppressed, job, told, astray, failures>>

Keys == Performances \X Users

Types == {"book", "unbook"}

Rows == DOMAIN booking_logs

Idle == [step |-> "idle", picks |-> [k \in Keys |-> 0], todo |-> {},
         marked |-> {}, mailed |-> {}, muted |-> {}]

TypeOK ==
  /\ booking_logs \in Seq([performance : Performances, user : Users, type : Types,
                           created_at : Nat, notified : BOOLEAN])
  /\ upcoming \subseteq Performances
  /\ verified \subseteq Users
  /\ suppressed \in BOOLEAN
  /\ job \in [step : {"idle", "picked", "sending"}, picks : [Keys -> {0} \cup Rows],
              todo : SUBSET Users, marked : SUBSET Rows, mailed : SUBSET Keys,
              muted : SUBSET Keys]
  /\ told \in [Keys -> Types \cup {"nothing"}]
  /\ astray \subseteq Keys
  /\ failures \in 0..MaxFailures

Init ==
  /\ booking_logs = <<>>
  /\ upcoming = Performances
  /\ verified \in SUBSET Users
  /\ suppressed = FALSE
  /\ job = Idle
  /\ told = [k \in Keys |-> "nothing"]
  /\ astray = {}
  /\ failures = 0

-----------------------------------------------------------------------------
(* _latest_unnotified_entries *)

EntriesOf(k) ==
  {i \in Rows : booking_logs[i].performance = k[1] /\ booking_logs[i].user = k[2]}

Newest(entries) ==
  {i \in entries :
     \A j \in entries : booking_logs[j].created_at <= booking_logs[i].created_at}

\* ordered[-1], and max(previously_notified, key=created_at): the last, and
\* the first, of those that tie.
Latest(k) ==
  LET ties == Newest(EntriesOf(k))
  IN  {i \in ties : \A j \in ties : j <= i}

LastNotified(k) ==
  LET ties == Newest({i \in EntriesOf(k) : booking_logs[i].notified})
  IN  {i \in ties : \A j \in ties : i <= j}

\* Mutant: every unmarked entry is news.
IsNewsUnmarked(i, k) == ~booking_logs[i].notified

IsNews(i, k) ==
  /\ ~booking_logs[i].notified
  /\ IF LastNotified(k) = {} THEN booking_logs[i].type = "book"
     ELSE \E j \in LastNotified(k) : booking_logs[j].type # booking_logs[i].type

\* The entries that may be picked for a key; 0 for none.
Picks(k) ==
  IF k[1] \notin upcoming \/ EntriesOf(k) = {} THEN {0}
  ELSE {IF IsNews(i, k) THEN i ELSE 0 : i \in Latest(k)}

-----------------------------------------------------------------------------
(* notify_upcoming_booking_status *)

\* The logs are read and the entries chosen; a run without news ends at once.
ReadLogs ==
  /\ job.step = "idle"
  /\ \E picks \in [Keys -> {0} \cup Rows] :
       /\ \A k \in Keys : picks[k] \in Picks(k)
       /\ \E k \in Keys : picks[k] # 0
       /\ job' = [Idle EXCEPT !.step = "picked", !.picks = picks]
  /\ UNCHANGED <<booking_logs, upcoming, verified, suppressed, told, astray, failures>>

\* Mutant: the skipped users' entries are marked as well.
ReadUsersMarkSkipped ==
  /\ job.step = "picked"
  /\ job' = [job EXCEPT !.step = "sending",
                        !.todo = {u \in verified : \E p \in Performances : job.picks[p, u] # 0},
                        !.marked = {job.picks[k] : k \in Keys} \ {0}]
  /\ UNCHANGED <<booking_logs, upcoming, verified, suppressed, told, astray, failures>>

\* Then the users: those without a verified address are skipped.
ReadUsers ==
  /\ job.step = "picked"
  /\ job' = [job EXCEPT !.step = "sending",
                        !.todo = {u \in verified : \E p \in Performances : job.picks[p, u] # 0}]
  /\ UNCHANGED <<booking_logs, upcoming, verified, suppressed, told, astray, failures>>

\* The keys a user's one mail is about.
Bundle(u) == {k \in Keys : k[2] = u /\ job.picks[k] # 0}

Marked(u) == job.marked \cup {job.picks[k] : k \in Bundle(u)}

\* One turn of the loop: the mail goes out, the rows are marked, not yet
\* committed.  The order of the users follows an unordered query.
Deliver(u) ==
  /\ job.step = "sending" /\ u \in job.todo
  /\ ~suppressed
  /\ told' = [k \in Keys |-> IF k \in Bundle(u) THEN booking_logs[job.picks[k]].type
                             ELSE told[k]]
  /\ job' = [job EXCEPT !.todo = @ \ {u}, !.marked = Marked(u), !.mailed = @ \cup Bundle(u)]
  /\ UNCHANGED <<booking_logs, upcoming, verified, suppressed, astray, failures>>

\* The same turn with the kill switch active: the mailer logs and returns.
Suppress(u) ==
  /\ job.step = "sending" /\ u \in job.todo
  /\ suppressed
  /\ job' = [job EXCEPT !.todo = @ \ {u}, !.marked = Marked(u), !.muted = @ \cup Bundle(u)]
  /\ UNCHANGED <<booking_logs, upcoming, verified, suppressed, told, astray, failures>>

\* Mutant: the mark is set on all rows of the pairs mailed, not on the ids read.
CommitByPair ==
  /\ job.step = "sending" /\ job.todo = {}
  /\ booking_logs' =
       [i \in Rows |->
          [booking_logs[i] EXCEPT
             !.notified = @ \/ <<booking_logs[i].performance, booking_logs[i].user>> \in job.mailed]]
  /\ astray' = (astray \ job.mailed) \cup job.muted
  /\ job' = Idle
  /\ UNCHANGED <<upcoming, verified, suppressed, told, failures>>

\* The one commit, after the loop.
Commit ==
  /\ job.step = "sending" /\ job.todo = {}
  /\ booking_logs' =
       [i \in Rows |-> IF i \in job.marked THEN [booking_logs[i] EXCEPT !.notified = TRUE]
                       ELSE booking_logs[i]]
  /\ astray' = (astray \ job.mailed) \cup job.muted
  /\ job' = Idle
  /\ UNCHANGED <<upcoming, verified, suppressed, told, failures>>

\* The session is closed without the commit: what was mailed is not marked.
CutShort ==
  /\ failures < MaxFailures
  /\ failures' = failures + 1
  /\ astray' = astray \cup job.mailed
  /\ job' = Idle
  /\ UNCHANGED <<booking_logs, upcoming, verified, suppressed, told>>

\* SMTP or the mail server raises for one user.
SmtpFails(u) ==
  /\ job.step = "sending" /\ u \in job.todo
  /\ ~suppressed
  /\ CutShort

\* The worker is stopped, or a statement fails.
Crash == job.step # "idle" /\ CutShort

-----------------------------------------------------------------------------
(* Around the job. *)

\* What one transaction logs about a user, in order (Casting): one entry, or
\* the old place left and the new one taken.
TransactionTypes == {<<"book">>, <<"unbook">>, <<"unbook", "book">>}

\* A cast, a cancellation or a setup change commits.
WriteEntries(k, types) ==
  /\ Len(booking_logs) + Len(types) <= MaxEntries
  /\ booking_logs' = booking_logs \o
       [i \in DOMAIN types |->
          [performance |-> k[1], user |-> k[2], type |-> types[i],
           created_at |-> Len(booking_logs) + 1, notified |-> FALSE]]
  /\ UNCHANGED <<upcoming, verified, suppressed, job, told, astray, failures>>

\* The schedule passes, or the performance is deleted.
Leave(p) ==
  /\ p \in upcoming
  /\ upcoming' = upcoming \ {p}
  /\ UNCHANGED <<booking_logs, verified, suppressed, job, told, astray, failures>>

\* verify_email; and update_profile or update_user with another address.
VerifyEmail(u) ==
  /\ u \notin verified
  /\ verified' = verified \cup {u}
  /\ UNCHANGED <<booking_logs, upcoming, suppressed, job, told, astray, failures>>

ChangeEmail(u) ==
  /\ u \in verified
  /\ verified' = verified \ {u}
  /\ UNCHANGED <<booking_logs, upcoming, suppressed, job, told, astray, failures>>

\* get_kill_switch_status: other mails fill the window, time empties it.
ToggleKillSwitch ==
  /\ KillSwitch
  /\ suppressed' = ~suppressed
  /\ UNCHANGED <<booking_logs, upcoming, verified, job, told, astray, failures>>

-----------------------------------------------------------------------------
Next ==
  \/ ReadLogs
  \/ ReadUsers
  \/ \E u \in Users : Deliver(u) \/ Suppress(u) \/ SmtpFails(u)
  \/ Commit
  \/ Crash
  \/ \E k \in Keys, types \in TransactionTypes : WriteEntries(k, types)
  \/ \E p \in Performances : Leave(p)
  \/ \E u \in Users : VerifyEmail(u) \/ ChangeEmail(u)
  \/ ToggleKillSwitch

\* The job is due every day, and a run that is not cut short goes on.
Fairness ==
  /\ WF_vars(ReadLogs)
  /\ WF_vars(ReadUsers)
  /\ WF_vars(\E u \in Users : Deliver(u) \/ Suppress(u))
  /\ WF_vars(Commit)

Spec == Init /\ [][Next]_vars /\ Fairness

-----------------------------------------------------------------------------
LastType(k) ==
  IF EntriesOf(k) = {} THEN "unbook"
  ELSE booking_logs[CHOOSE i \in EntriesOf(k) : \A j \in EntriesOf(k) : j <= i].type

\* What the user was last told is what the log says last; who was never told
\* of a place needs no word of losing it.
UpToDate(k) ==
  \/ told[k] = LastType(k)
  \/ told[k] = "nothing" /\ LastType(k) = "unbook"

\* Mail and mark go together: the newest marked entry is what the last mail
\* said, whatever is committed, verified or cancelled around the run, for
\* every key no run was cut short or suppressed on since.
InStep ==
  \A k \in Keys \ astray :
    IF k \in job.mailed THEN told[k] = booking_logs[job.picks[k]].type
    ELSE IF LastNotified(k) = {} THEN told[k] = "nothing"
    ELSE \A i \in LastNotified(k) : told[k] = booking_logs[i].type

ToldWhenQuiet(keys) ==
  \A k \in keys :
    job.step = "idle" /\ k[1] \in upcoming /\ Picks(k) = {0} => UpToDate(k)

\* When the job has nothing left to send about a key, the user knows: an
\* entry written between the read and the commit of a run is not lost.
QuietMeansTold == ToldWhenQuiet(Keys \ astray)

\* What the rows of the log say of a user is what the user has been told.
MarksTrue == TypeOK /\ InStep /\ QuietMeansTold

\* No mail repeats what the last one said, and the first one about a
\* performance says "book".
NewsOnly ==
  [][\A u \in Users : Deliver(u) =>
       \A k \in Bundle(u) \ astray :
         /\ told'[k] # told[k]
         /\ told[k] = "nothing" => told'[k] = "book"]_vars

\* Whoever keeps a verified address is told in the end how an upcoming
\* performance stands for them.
EventuallyTold ==
  \A k \in Keys :
    <>[](k[1] \in upcoming /\ k[2] \in verified) => <>[](UpToDate(k) \/ k \in astray)

\* "notified_at ... is set ... once a user has been emailed about this
\* transition": an entry marked was mailed.
MarkedMeansMailed ==
  \A k \in Keys, i \in Rows :
    i \in EntriesOf(k) /\ booking_logs[i].notified => told[k] # "nothing"

\* "previously notified and the booking_type changed since": whoever was
\* mailed hears of the change, also after a run that was cut short.
ChangesReachEveryone == ToldWhenQuiet(Keys)
=============================================================================
