--------------------------- MODULE Notify_proofs ---------------------------
(***************************************************************************)
(* Proofs about Notify: what the rows of booking_logs say of a user is     *)
(* what the user has been told (MarksTrue), and no mail repeats the last   *)
(* one (NewsOnly), for any performances, users and length of the log.      *)
(*                                                                         *)
(* The argument.  The log is ordered by created_at, and a row marked or    *)
(* picked is the last its transaction wrote about the key; so the newest   *)
(* marked row is the one of the greatest index, and it is unique.  A row   *)
(* a run has picked stays unmarked, and younger rows too, until that run   *)
(* commits: rows written meanwhile are unmarked and no second run starts.  *)
(* What IsNews said when the logs were read is thus still true when the    *)
(* mail goes out and when the mark is committed.                           *)
(***************************************************************************)
EXTENDS Notify, TLAPS

Row == [performance : Performances, user : Users, type : Types,
        created_at : Nat, notified : BOOLEAN]

Job == [step : {"idle", "picked", "sending"}, picks : [Keys -> {0} \cup Rows],
        todo : SUBSET Users, marked : SUBSET Rows, mailed : SUBSET Keys,
        muted : SUBSET Keys]

\* Rows are ordered by created_at, and the next transaction is later still.
OrderInv ==
  \A i \in Rows :
    /\ booking_logs[i].created_at <= Len(booking_logs)
    /\ \A j \in Rows : i <= j => booking_logs[i].created_at <= booking_logs[j].created_at

\* No later row about the key of row i was written by the same transaction.
EndsItsTransaction(i) ==
  \A j \in Rows :
    /\ i < j
    /\ booking_logs[j].performance = booking_logs[i].performance
    /\ booking_logs[j].user = booking_logs[i].user
    => booking_logs[i].created_at < booking_logs[j].created_at

MarkedInv == \A i \in Rows : booking_logs[i].notified => EndsItsTransaction(i)

\* A row picked for a key is still news, and no younger row is marked.
PicksInv ==
  \A k \in Keys : job.picks[k] # 0 =>
    /\ job.picks[k] \in EntriesOf(k)
    /\ IsNews(job.picks[k], k)
    /\ EndsItsTransaction(job.picks[k])
    /\ \A j \in EntriesOf(k) : job.picks[k] < j => ~booking_logs[j].notified

\* The progress of a run: what it marks is what it has mailed or muted.
RunInv ==
  /\ job.step = "idle" => job = Idle
  /\ job.step = "picked" => job.marked = {} /\ job.mailed = {} /\ job.muted = {}
  /\ \A k \in job.mailed \cup job.muted :
       job.picks[k] # 0 /\ job.picks[k] \in job.marked /\ k[2] \notin job.todo
  /\ \A i \in job.marked : \E k \in job.mailed \cup job.muted : i = job.picks[k]

\* What was mailed in this run was told, also about keys gone astray before.
MailedInv == \A k \in job.mailed : told[k] = booking_logs[job.picks[k]].type

IInv ==
  /\ TypeOK
  /\ OrderInv
  /\ MarkedInv
  /\ PicksInv
  /\ RunInv
  /\ MailedInv
  /\ InStep

-----------------------------------------------------------------------------
\* The rows of the log, one by one.
LEMMA RowFacts ==
  ASSUME TypeOK
  PROVE  /\ booking_logs \in Seq(Row) /\ Rows = 1..Len(booking_logs) /\ Len(booking_logs) \in Nat
         /\ \A i \in Rows : /\ booking_logs[i] \in Row /\ i \in Nat /\ i # 0
                            /\ booking_logs[i].created_at \in Nat
                            /\ booking_logs[i].type \in Types
                            /\ booking_logs[i].notified \in BOOLEAN
         /\ job \in Job
<1>1. booking_logs \in Seq(Row) /\ job \in Job BY DEF TypeOK, Row, Job
<1>2. Rows = 1..Len(booking_logs) /\ Len(booking_logs) \in Nat BY <1>1 DEF Rows
<1>3. \A i \in Rows : booking_logs[i] \in Row BY <1>1, <1>2
<1> QED BY <1>1, <1>2, <1>3 DEF Row

\* What a run has picked, one by one.
LEMMA JobFacts ==
  ASSUME TypeOK
  PROVE  /\ job.step \in {"idle", "picked", "sending"}
         /\ job.picks \in [Keys -> {0} \cup Rows]
         /\ job.todo \in SUBSET Users /\ job.marked \in SUBSET Rows
         /\ job.mailed \in SUBSET Keys /\ job.muted \in SUBSET Keys
BY DEF TypeOK

\* Of rows that are all ordered as their indices, the newest is the greatest.
LEMMA NewestIsGreatest ==
  ASSUME NEW S \in SUBSET Nat, NEW c \in [S -> Nat], NEW i \in S,
         \A j \in S : j # i => j < i /\ c[j] < c[i]
  PROVE  {a \in {b \in S : \A j \in S : c[j] <= c[b]} :
            \A j \in {b \in S : \A m \in S : c[m] <= c[b]} : a <= j} = {i}
<1>1. \A j \in S : j \in Nat /\ c[j] \in Nat OBVIOUS
<1>2. {b \in S : \A j \in S : c[j] <= c[b]} = {i}
  <2>1. ASSUME NEW b \in S, \A j \in S : c[j] <= c[b] PROVE b = i
    <3>1. c[i] <= c[b] /\ (b # i => c[b] < c[i]) BY <2>1
    <3> QED BY <3>1, <1>1
  <2>2. \A j \in S : c[j] <= c[i] BY <1>1
  <2> QED BY <2>1, <2>2
<1>3. i <= i BY <1>1
<1> QED BY <1>2, <1>3

\* The newest marked row of a key is the marked row of the greatest index.
LEMMA LastNotifiedIs ==
  ASSUME TypeOK, OrderInv, MarkedInv, NEW k \in Keys
  PROVE  /\ \A i \in LastNotified(k) :
              /\ i \in EntriesOf(k) /\ booking_logs[i].notified
              /\ \A j \in EntriesOf(k) : booking_logs[j].notified => j <= i
         /\ \A i \in EntriesOf(k) :
              /\ booking_logs[i].notified
              /\ \A j \in EntriesOf(k) : booking_logs[j].notified => j <= i
              => LastNotified(k) = {i}
<1> DEFINE S == {j \in EntriesOf(k) : booking_logs[j].notified}
           c == [j \in S |-> booking_logs[j].created_at]
<1>1. S \subseteq Rows /\ S \in SUBSET Nat /\ c \in [S -> Nat] BY RowFacts DEF EntriesOf
<1>2. LastNotified(k) = {a \in {b \in S : \A j \in S : c[j] <= c[b]} :
                           \A j \in {b \in S : \A m \in S : c[m] <= c[b]} : a <= j}
  BY DEF LastNotified, Newest
<1>3. \A i, j \in S : j < i => c[j] < c[i]
  BY <1>1, RowFacts DEF EntriesOf, MarkedInv, EndsItsTransaction
<1>4. ASSUME NEW i \in S, \A j \in S : j <= i PROVE LastNotified(k) = {i}
  <2> HIDE DEF S, c
  <2>2. \A j \in S : j \in Nat BY <1>1
  <2>1. \A j \in S : j # i => j < i /\ c[j] < c[i] BY <2>2, <1>3, <1>4
  <2> QED BY <1>1, <1>2, <2>1, NewestIsGreatest
<1>5. ASSUME NEW i \in LastNotified(k) PROVE i \in S /\ \A j \in S : j <= i
  <2>1. i \in S /\ \A j \in S : c[j] <= c[i] BY <1>2, <1>5
  <2> HIDE DEF S, c
  <2>2. \A j \in S : j \in Nat /\ c[j] \in Nat BY <1>1
  <2>3. \A j \in S : ~(i < j) BY <2>1, <2>2, <1>3
  <2> QED BY <2>1, <2>2, <2>3
<1> QED BY <1>4, <1>5

\* The row read last is the one of the greatest index.
LEMMA LatestIsGreatest ==
  ASSUME TypeOK, OrderInv, NEW k \in Keys, NEW i \in Latest(k)
  PROVE  /\ i \in EntriesOf(k) /\ \A j \in EntriesOf(k) : j <= i
         /\ EndsItsTransaction(i)
<1>1. /\ i \in EntriesOf(k)
      /\ \A j \in EntriesOf(k) : booking_logs[j].created_at <= booking_logs[i].created_at
      /\ \A j \in Newest(EntriesOf(k)) : j <= i
  BY DEF Latest, Newest
<1>2. ASSUME NEW j \in EntriesOf(k) PROVE ~(i < j)
  <2>1. SUFFICES ASSUME i < j PROVE FALSE OBVIOUS
  <2>2. i \in Rows /\ j \in Rows /\ i <= j BY <1>1, <1>2, <2>1, RowFacts DEF EntriesOf
  <2>3. booking_logs[i].created_at <= booking_logs[j].created_at BY <2>2 DEF OrderInv
  <2>4. booking_logs[i].created_at = booking_logs[j].created_at
    BY <1>1, <1>2, <2>2, <2>3, RowFacts
  <2>5. j \in Newest(EntriesOf(k)) BY <1>1, <1>2, <2>4 DEF Newest
  <2> QED BY <2>1, <2>2, <2>5, <1>1, RowFacts
<1>3. \A j \in EntriesOf(k) : j <= i BY <1>1, <1>2, RowFacts DEF EntriesOf
<1>4. \A j \in Rows : /\ booking_logs[j].performance = booking_logs[i].performance
                      /\ booking_logs[j].user = booking_logs[i].user
                      => j \in EntriesOf(k)
  BY <1>1 DEF EntriesOf
<1> QED BY <1>1, <1>2, <1>3, <1>4 DEF EndsItsTransaction

\* While the rows of a key keep their marks, and new rows come without one,
\* its newest marked row is the same.
LEMMA LastNotifiedStays ==
  ASSUME NEW k \in Keys,
         \A i \in Rows : /\ i \in Rows' 
                         /\ booking_logs'[i].performance = booking_logs[i].performance
                         /\ booking_logs'[i].user = booking_logs[i].user
                         /\ booking_logs'[i].created_at = booking_logs[i].created_at,
         \A i \in EntriesOf(k) : booking_logs'[i].notified = booking_logs[i].notified,
         \A i \in Rows' : i \in Rows \/ ~booking_logs'[i].notified
  PROVE  LastNotified(k)' = LastNotified(k)
<1> DEFINE S == {j \in EntriesOf(k) : booking_logs[j].notified}
<1>1. S' = S BY DEF EntriesOf
<1>2. \A i \in S : i \in Rows BY DEF EntriesOf
<1>3. Newest(S)' = Newest(S) BY <1>1, <1>2 DEF Newest
<1> QED BY <1>3 DEF LastNotified

LEMMA LastNotifiedAfter ==
  (TypeOK /\ OrderInv /\ MarkedInv)' =>
    \A k \in Keys : \A i \in EntriesOf(k)' :
      /\ booking_logs'[i].notified
      /\ \A j \in EntriesOf(k)' : booking_logs'[j].notified => j <= i
      => LastNotified(k)' = {i}
<1> DEFINE Facts == TypeOK /\ OrderInv /\ MarkedInv =>
                      \A k \in Keys : \A i \in EntriesOf(k) :
                        /\ booking_logs[i].notified
                        /\ \A j \in EntriesOf(k) : booking_logs[j].notified => j <= i
                        => LastNotified(k) = {i}
<1>1. Facts BY LastNotifiedIs
<1> HIDE DEF Facts
<1>2. Facts' BY <1>1, PTL
<1> QED BY <1>2 DEF Facts

-----------------------------------------------------------------------------
LEMMA InitInv == Init => IInv
<1> SUFFICES ASSUME Init PROVE IInv OBVIOUS
<1> USE DEF Init
<1>1. Rows = {} BY DEF Rows
<1>2. TypeOK
  <2>1. booking_logs \in Seq(Row) OBVIOUS
  <2>2. Idle \in Job BY <1>1 DEF Idle, Job
  <2>3. told \in [Keys -> Types \cup {"nothing"}] OBVIOUS
  <2>4. failures \in 0..MaxFailures BY BoundsAssumption
  <2> QED BY <2>1, <2>2, <2>3, <2>4 DEF TypeOK, Job, Row
<1>3. \A k \in Keys : LastNotified(k) = {} BY <1>1 DEF LastNotified, Newest, EntriesOf
<1>4. OrderInv /\ MarkedInv BY <1>1 DEF OrderInv, MarkedInv
<1>5. PicksInv /\ RunInv /\ MailedInv BY DEF PicksInv, RunInv, MailedInv, Idle
<1>6. InStep BY <1>3 DEF InStep, Idle
<1> QED BY <1>2, <1>4, <1>5, <1>6 DEF IInv

-----------------------------------------------------------------------------
(* The steps of a run. *)

LEMMA ReadLogsStep == IInv /\ ReadLogs => IInv'
<1> SUFFICES ASSUME IInv, ReadLogs PROVE IInv' OBVIOUS
<1> USE DEF IInv
<1>1. PICK picks \in [Keys -> {0} \cup Rows] :
        /\ \A k \in Keys : picks[k] \in Picks(k)
        /\ job' = [Idle EXCEPT !.step = "picked", !.picks = picks]
  BY DEF ReadLogs
<1>2. job' = [step |-> "picked", picks |-> picks, todo |-> {}, marked |-> {},
              mailed |-> {}, muted |-> {}]
  BY <1>1 DEF Idle
<1>3. job = Idle BY DEF ReadLogs, RunInv
<1>4. UNCHANGED <<booking_logs, upcoming, verified, suppressed, told, astray, failures>>
  BY DEF ReadLogs
<1>5. TypeOK' BY <1>2, <1>4 DEF TypeOK, Rows
<1>6. OrderInv' /\ MarkedInv'
  BY <1>4 DEF OrderInv, MarkedInv, EndsItsTransaction, Rows
<1>7. ASSUME NEW k \in Keys, picks[k] # 0
      PROVE  picks[k] \in Latest(k) /\ IsNews(picks[k], k)
  BY <1>1, <1>7 DEF Picks
<1>8. ASSUME NEW k \in Keys, picks[k] # 0
      PROVE  /\ picks[k] \in EntriesOf(k) /\ EndsItsTransaction(picks[k])
             /\ IsNews(picks[k], k)
             /\ \A j \in EntriesOf(k) : ~(picks[k] < j)
  <2>1. /\ picks[k] \in EntriesOf(k) /\ \A j \in EntriesOf(k) : j <= picks[k]
        /\ EndsItsTransaction(picks[k])
    BY <1>7, <1>8, LatestIsGreatest
  <2> QED BY <2>1, <1>7, <1>8, RowFacts DEF EntriesOf
<1>9. PicksInv'
  <2> SUFFICES ASSUME NEW k \in Keys, picks[k] # 0
               PROVE  /\ picks[k] \in EntriesOf(k)'
                      /\ IsNews(picks[k], k)'
                      /\ EndsItsTransaction(picks[k])'
                      /\ \A j \in EntriesOf(k)' : picks[k] < j => ~booking_logs'[j].notified
    BY <1>2 DEF PicksInv
  <2> QED BY <1>4, <1>8 DEF EntriesOf, IsNews, LastNotified, Newest, EndsItsTransaction, Rows
<1>10. RunInv' /\ MailedInv' BY <1>2 DEF RunInv, MailedInv
<1>11. InStep'
  BY <1>2, <1>3, <1>4 DEF InStep, Idle, LastNotified, Newest, EntriesOf, Rows
<1> QED BY <1>5, <1>6, <1>9, <1>10, <1>11

\* A step that keeps the log and the picks keeps what is said of them.
LEMMA LogStays ==
  ASSUME OrderInv, MarkedInv, PicksInv, UNCHANGED <<booking_logs, job.picks>>
  PROVE  /\ OrderInv' /\ MarkedInv' /\ PicksInv'
         /\ \A k \in Keys : LastNotified(k)' = LastNotified(k)
<1>1. \A k \in Keys : EntriesOf(k)' = EntriesOf(k) BY DEF EntriesOf, Rows
<1>2. \A k \in Keys : LastNotified(k)' = LastNotified(k) BY <1>1 DEF LastNotified, Newest
<1>3. \A i : EndsItsTransaction(i)' <=> EndsItsTransaction(i)
  BY DEF EndsItsTransaction, Rows
<1>4. \A i, k : k \in Keys => (IsNews(i, k)' <=> IsNews(i, k)) BY <1>2 DEF IsNews
<1>5. OrderInv' BY DEF OrderInv, Rows
<1>6. MarkedInv' BY <1>3 DEF MarkedInv, Rows
<1>7. PicksInv' BY <1>1, <1>3, <1>4 DEF PicksInv
<1> QED BY <1>2, <1>5, <1>6, <1>7

LEMMA ReadUsersStep == IInv /\ ReadUsers => IInv'
<1> SUFFICES ASSUME IInv, ReadUsers PROVE IInv' OBVIOUS
<1> USE DEF IInv
<1> DEFINE todo == {u \in verified : \E p \in Performances : job.picks[p, u] # 0}
<1>1. /\ job' = [job EXCEPT !.step = "sending", !.todo = todo] /\ job.step = "picked"
      /\ UNCHANGED <<booking_logs, upcoming, verified, suppressed, told, astray, failures>>
  BY DEF ReadUsers
<1>2. todo \in SUBSET Users BY DEF TypeOK
<1> HIDE DEF todo
<1>3. job \in Job BY RowFacts
<1>4. /\ job'.step = "sending" /\ job'.todo = todo
      /\ UNCHANGED <<job.picks, job.marked, job.mailed, job.muted>>
  BY <1>1, <1>3 DEF Job
<1>5. job' \in Job BY <1>1, <1>2, <1>3 DEF Job
<1>6. TypeOK' BY <1>1, <1>5 DEF TypeOK, Job, Rows
<1>7. /\ OrderInv' /\ MarkedInv' /\ PicksInv'
      /\ \A k \in Keys : LastNotified(k)' = LastNotified(k)
  BY <1>1, <1>4, LogStays
<1>8. job.marked = {} /\ job.mailed = {} /\ job.muted = {} BY <1>1 DEF RunInv
<1>9. RunInv' /\ MailedInv' BY <1>4, <1>8 DEF RunInv, MailedInv
<1>10. InStep' BY <1>1, <1>4, <1>7 DEF InStep
<1> QED BY <1>6, <1>7, <1>9, <1>10

\* What a turn of the loop does to the run, whether it mails or mutes.
LEMMA TurnEffect ==
  ASSUME IInv, NEW u \in Users, Deliver(u) \/ Suppress(u)
  PROVE  /\ job.step = "sending" /\ u \in job.todo
         /\ job' \in Job
         /\ job'.step = "sending" /\ job'.todo = job.todo \ {u}
         /\ job'.marked = Marked(u)
         /\ Deliver(u) => job'.mailed = job.mailed \cup Bundle(u) /\ job'.muted = job.muted
         /\ Suppress(u) => job'.muted = job.muted \cup Bundle(u) /\ job'.mailed = job.mailed
         /\ UNCHANGED <<booking_logs, upcoming, verified, suppressed, astray, failures, job.picks>>
<1>1. job \in Job BY RowFacts DEF IInv
<1>2. job.picks \in [Keys -> {0} \cup Rows] BY <1>1 DEF Job
<1>3. Bundle(u) \in SUBSET Keys BY DEF Bundle
<1>4. Marked(u) \in SUBSET Rows BY <1>1, <1>2 DEF Marked, Bundle, Job
<1>5. CASE Deliver(u)
  <2>1. job' = [job EXCEPT !.todo = job.todo \ {u}, !.marked = Marked(u),
                           !.mailed = job.mailed \cup Bundle(u)]
    BY <1>5 DEF Deliver
  <2>2. /\ job.step = "sending" /\ u \in job.todo
        /\ ~suppressed
        /\ UNCHANGED <<booking_logs, upcoming, verified, suppressed, astray, failures>>
    BY <1>5 DEF Deliver
  <2>3. /\ job' \in Job
        /\ job'.step = "sending" /\ job'.todo = job.todo \ {u}
        /\ job'.marked = Marked(u)
        /\ job'.mailed = job.mailed \cup Bundle(u) /\ job'.muted = job.muted
        /\ UNCHANGED job.picks
    BY <1>1, <1>3, <1>4, <2>1, <2>2 DEF Job
  <2> QED BY <2>2, <2>3 DEF Suppress
<1>6. CASE Suppress(u)
  <2>1. job' = [job EXCEPT !.todo = job.todo \ {u}, !.marked = Marked(u),
                           !.muted = job.muted \cup Bundle(u)]
    BY <1>6 DEF Suppress
  <2>2. /\ job.step = "sending" /\ u \in job.todo
        /\ suppressed
        /\ UNCHANGED <<booking_logs, upcoming, verified, suppressed, astray, failures>>
    BY <1>6 DEF Suppress
  <2>3. /\ job' \in Job
        /\ job'.step = "sending" /\ job'.todo = job.todo \ {u}
        /\ job'.marked = Marked(u)
        /\ job'.muted = job.muted \cup Bundle(u) /\ job'.mailed = job.mailed
        /\ UNCHANGED job.picks
    BY <1>1, <1>3, <1>4, <2>1, <2>2 DEF Job
  <2> QED BY <2>2, <2>3 DEF Deliver
<1> QED BY <1>5, <1>6

\* The run stays coherent over a turn.
LEMMA TurnRun ==
  ASSUME IInv, NEW u \in Users, Deliver(u) \/ Suppress(u)
  PROVE  RunInv'
<1>1. /\ job'.step = "sending" /\ job'.todo = job.todo \ {u}
      /\ job'.marked = Marked(u) /\ job'.picks = job.picks
      /\ job'.mailed \cup job'.muted = (job.mailed \cup job.muted) \cup Bundle(u)
  <2>1. CASE Deliver(u) BY <2>1, TurnEffect
  <2>2. CASE Suppress(u) BY <2>2, TurnEffect
  <2> QED BY <2>1, <2>2
<1>2. ASSUME NEW k \in Bundle(u)
      PROVE  job.picks[k] # 0 /\ job.picks[k] \in Marked(u) /\ k[2] = u
  BY DEF Bundle, Marked
<1>3. ASSUME NEW k \in job.mailed \cup job.muted
      PROVE  job.picks[k] # 0 /\ job.picks[k] \in Marked(u) /\ k[2] \notin job.todo
  BY DEF Marked, RunInv, IInv
<1>4. ASSUME NEW i \in Marked(u)
      PROVE  \E k \in (job.mailed \cup job.muted) \cup Bundle(u) : i = job.picks[k]
  BY DEF Marked, RunInv, IInv
<1> QED BY <1>1, <1>2, <1>3, <1>4 DEF RunInv

LEMMA DeliverStep == ASSUME NEW u \in Users, IInv, Deliver(u) PROVE IInv'
<1> USE DEF IInv
<1>1. /\ job' \in Job
      /\ job'.mailed = job.mailed \cup Bundle(u)
      /\ UNCHANGED <<booking_logs, upcoming, verified, suppressed, astray, failures, job.picks>>
  BY TurnEffect
<1>2. told' = [k \in Keys |-> IF k \in Bundle(u) THEN booking_logs[job.picks[k]].type
                              ELSE told[k]]
  BY DEF Deliver
<1>3. \A k \in Keys : k \in Bundle(u) => job.picks[k] \in Rows /\ k \in Keys
  BY JobFacts DEF Bundle
<1>4. told' \in [Keys -> Types \cup {"nothing"}]
  BY <1>2, <1>3, RowFacts DEF TypeOK
<1>5. TypeOK' BY <1>1, <1>4 DEF TypeOK, Job, Rows
<1>6. /\ OrderInv' /\ MarkedInv' /\ PicksInv'
      /\ \A k \in Keys : LastNotified(k)' = LastNotified(k)
  BY <1>1, LogStays
<1>7. RunInv' BY TurnRun
<1>8. job.mailed \subseteq Keys BY JobFacts
<1>9. MailedInv'
  <2> SUFFICES ASSUME NEW k \in job.mailed \cup Bundle(u)
               PROVE  told'[k] = booking_logs[job.picks[k]].type
    BY <1>1 DEF MailedInv
  <2>1. k \in Keys BY <1>8 DEF Bundle
  <2>2. CASE k \in Bundle(u) BY <1>2, <2>1, <2>2
  <2>3. CASE k \notin Bundle(u) BY <1>2, <2>1, <2>3 DEF MailedInv
  <2> QED BY <2>2, <2>3
<1>10. InStep'
  <2> SUFFICES ASSUME NEW k \in Keys \ astray
               PROVE  IF k \in job'.mailed THEN told'[k] = booking_logs'[job'.picks[k]].type
                      ELSE IF LastNotified(k)' = {} THEN told'[k] = "nothing"
                      ELSE \A i \in LastNotified(k)' : told'[k] = booking_logs'[i].type
    BY <1>1 DEF InStep
  <2>1. CASE k \in job'.mailed BY <1>9, <2>1 DEF MailedInv
  <2>2. CASE k \notin job'.mailed
    <3>1. k \notin job.mailed /\ told'[k] = told[k] BY <1>1, <1>2, <2>2
    <3> QED BY <1>1, <1>6, <2>2, <3>1 DEF InStep
  <2> QED BY <2>1, <2>2
<1> QED BY <1>5, <1>6, <1>7, <1>9, <1>10

LEMMA SuppressStep == ASSUME NEW u \in Users, IInv, Suppress(u) PROVE IInv'
<1> USE DEF IInv
<1>1. /\ job' \in Job /\ job'.mailed = job.mailed
      /\ UNCHANGED <<booking_logs, upcoming, verified, suppressed, astray, failures, job.picks>>
  BY TurnEffect
<1>2. UNCHANGED told BY DEF Suppress
<1>3. TypeOK' BY <1>1, <1>2 DEF TypeOK, Job, Rows
<1>4. /\ OrderInv' /\ MarkedInv' /\ PicksInv'
      /\ \A k \in Keys : LastNotified(k)' = LastNotified(k)
  BY <1>1, LogStays
<1>5. RunInv' BY TurnRun
<1>6. MailedInv' BY <1>1, <1>2 DEF MailedInv
<1>7. InStep' BY <1>1, <1>2, <1>4 DEF InStep
<1> QED BY <1>3, <1>4, <1>5, <1>6, <1>7

\* A run cut short: what it mailed has lost its mark.
LEMMA CutShortStep == IInv /\ CutShort => IInv'
<1> SUFFICES ASSUME IInv, CutShort PROVE IInv' OBVIOUS
<1> USE DEF IInv
<1>1. /\ failures < MaxFailures /\ failures' = failures + 1
      /\ astray' = astray \cup job.mailed /\ job' = Idle
      /\ UNCHANGED <<booking_logs, upcoming, verified, suppressed, told>>
  BY DEF CutShort
<1>2. Idle \in Job /\ Idle.mailed = {} /\ \A k \in Keys : Idle.picks[k] = 0
  BY DEF Idle, Job
<1>3. TypeOK'
  <2>1. failures' \in 0..MaxFailures BY <1>1, BoundsAssumption DEF TypeOK
  <2>2. astray' \subseteq Keys BY <1>1 DEF TypeOK
  <2> QED BY <1>1, <1>2, <2>1, <2>2 DEF TypeOK, Job, Rows
<1>4. OrderInv' /\ MarkedInv' BY <1>1 DEF OrderInv, MarkedInv, EndsItsTransaction, Rows
<1>5. PicksInv' BY <1>1, <1>2 DEF PicksInv
<1>6. RunInv' BY <1>1 DEF RunInv, Idle
<1>7. MailedInv' BY <1>1, <1>2 DEF MailedInv
<1>8. \A k \in Keys : LastNotified(k)' = LastNotified(k)
  BY <1>1 DEF LastNotified, Newest, EntriesOf, Rows
<1>9. InStep' BY <1>1, <1>2, <1>8 DEF InStep
<1> QED BY <1>3, <1>4, <1>5, <1>6, <1>7, <1>9

\* The rows after the commit: the same rows, those of the run marked.
LEMMA CommitEffect ==
  ASSUME IInv, Commit
  PROVE  /\ booking_logs' \in Seq(Row) /\ Rows' = Rows /\ Len(booking_logs') = Len(booking_logs)
         /\ \A i \in Rows :
              /\ booking_logs'[i].performance = booking_logs[i].performance
              /\ booking_logs'[i].user = booking_logs[i].user
              /\ booking_logs'[i].type = booking_logs[i].type
              /\ booking_logs'[i].created_at = booking_logs[i].created_at
              /\ i \in job.marked => booking_logs'[i].notified
              /\ i \notin job.marked => booking_logs'[i].notified = booking_logs[i].notified
         /\ job' = Idle /\ astray' = (astray \ job.mailed) \cup job.muted
         /\ UNCHANGED <<upcoming, verified, suppressed, told, failures>>
<1> DEFINE next(i) == IF i \in job.marked THEN [booking_logs[i] EXCEPT !.notified = TRUE]
                      ELSE booking_logs[i]
<1>1. booking_logs \in Seq(Row) /\ Rows = 1..Len(booking_logs) /\ Len(booking_logs) \in Nat
  BY RowFacts DEF IInv
<1>2. \A i \in Rows : booking_logs[i] \in Row BY RowFacts DEF IInv
<1>3. booking_logs' = [i \in Rows |-> next(i)] BY DEF Commit
<1>4. ASSUME NEW i \in Rows
      PROVE  /\ next(i) \in Row
             /\ next(i).performance = booking_logs[i].performance
             /\ next(i).user = booking_logs[i].user
             /\ next(i).type = booking_logs[i].type
             /\ next(i).created_at = booking_logs[i].created_at
             /\ i \in job.marked => next(i).notified
             /\ i \notin job.marked => next(i).notified = booking_logs[i].notified
  BY <1>2 DEF Row
<1> HIDE DEF next
<1>5. booking_logs' \in [1..Len(booking_logs) -> Row] BY <1>1, <1>3, <1>4
<1>6. booking_logs' \in Seq(Row) /\ Len(booking_logs') = Len(booking_logs) BY <1>1, <1>5
<1>7. Rows' = Rows BY <1>1, <1>3 DEF Rows
<1>8. job' = Idle /\ astray' = (astray \ job.mailed) \cup job.muted
      /\ UNCHANGED <<upcoming, verified, suppressed, told, failures>>
  BY DEF Commit
<1> QED BY <1>3, <1>4, <1>6, <1>7, <1>8

LEMMA CommitStep == IInv /\ Commit => IInv'
<1> SUFFICES ASSUME IInv, Commit PROVE IInv' OBVIOUS
<1> USE DEF IInv
<1>1. /\ booking_logs' \in Seq(Row) /\ Rows' = Rows /\ Len(booking_logs') = Len(booking_logs)
      /\ job' = Idle /\ astray' = (astray \ job.mailed) \cup job.muted
      /\ UNCHANGED <<upcoming, verified, suppressed, told, failures>>
  BY CommitEffect
<1>2. \A i \in Rows :
        /\ booking_logs'[i].performance = booking_logs[i].performance
        /\ booking_logs'[i].user = booking_logs[i].user
        /\ booking_logs'[i].type = booking_logs[i].type
        /\ booking_logs'[i].created_at = booking_logs[i].created_at
        /\ i \in job.marked => booking_logs'[i].notified
        /\ i \notin job.marked => booking_logs'[i].notified = booking_logs[i].notified
  BY CommitEffect
<1>3. Idle \in Job /\ Idle.mailed = {} /\ \A k \in Keys : Idle.picks[k] = 0
  BY DEF Idle, Job
<1>4. TypeOK'
  <2>1. astray' \subseteq Keys BY <1>1, JobFacts DEF TypeOK
  <2>2. job' \in Job' BY <1>1, <1>3 DEF Job
  <2> QED BY <1>1, <2>1, <2>2 DEF TypeOK, Job, Row
<1>5. \A i \in Rows : EndsItsTransaction(i) => EndsItsTransaction(i)'
  BY <1>1, <1>2 DEF EndsItsTransaction
<1>6. \A i \in job.marked : i \in Rows /\ EndsItsTransaction(i)
      /\ \E k \in job.mailed \cup job.muted : k \in Keys /\ i = job.picks[k] /\ i \in EntriesOf(k)
  <2> SUFFICES ASSUME NEW i \in job.marked
               PROVE  \E k \in job.mailed \cup job.muted :
                        k \in Keys /\ i = job.picks[k] /\ i \in EntriesOf(k)
                        /\ EndsItsTransaction(i)
    BY JobFacts
  <2>1. PICK k \in job.mailed \cup job.muted : i = job.picks[k] BY DEF RunInv
  <2>2. k \in Keys /\ job.picks[k] # 0 BY <2>1, JobFacts DEF RunInv
  <2> QED BY <2>1, <2>2 DEF PicksInv
<1>7. OrderInv' BY <1>1, <1>2 DEF OrderInv
<1>8. MarkedInv' BY <1>1, <1>2, <1>5, <1>6 DEF MarkedInv
<1>9. PicksInv' BY <1>1, <1>3 DEF PicksInv
<1>10. RunInv' BY <1>1 DEF RunInv, Idle
<1>11. MailedInv' BY <1>1, <1>3 DEF MailedInv
<1>12. \A k \in Keys : EntriesOf(k)' = EntriesOf(k) BY <1>1, <1>2 DEF EntriesOf
<1>13. InStep'
  <2> SUFFICES ASSUME NEW k \in Keys, k \notin astray'
               PROVE  IF LastNotified(k)' = {} THEN told[k] = "nothing"
                      ELSE \A i \in LastNotified(k)' : told[k] = booking_logs'[i].type
    BY <1>1, <1>3 DEF InStep
  <2>1. k \notin job.muted BY <1>1
  <2>2. CASE k \in job.mailed
    <3> DEFINE i == job.picks[k]
    <3>1. i # 0 /\ i \in job.marked BY <2>2 DEF RunInv
    <3>2. i \in EntriesOf(k) /\ \A j \in EntriesOf(k) : i < j => ~booking_logs[j].notified
      BY <3>1 DEF PicksInv
    <3>3. told[k] = booking_logs[i].type BY <2>2 DEF MailedInv
    <3> HIDE DEF i
    <3>4. i \in Rows /\ booking_logs'[i].notified BY <1>2, <3>1, <3>2 DEF EntriesOf
    <3>5. ASSUME NEW j \in EntriesOf(k), booking_logs'[j].notified PROVE j <= i
      <4>1. j \in Rows /\ i \in Nat /\ j \in Nat BY <3>4, RowFacts DEF EntriesOf
      <4>2. CASE j \in job.marked
        <5>1. PICK m \in job.mailed \cup job.muted :
                m \in Keys /\ j = job.picks[m] /\ j \in EntriesOf(m)
          BY <4>2, <1>6
        <5>2. m = k
          <6>1. m[1] = k[1] /\ m[2] = k[2] BY <5>1 DEF EntriesOf
          <6> QED BY <5>1, <6>1 DEF Keys
        <5> QED BY <5>1, <5>2, <4>1 DEF i
      <4>3. CASE j \notin job.marked
        <5>1. booking_logs[j].notified BY <1>2, <3>5, <4>1, <4>3
        <5> QED BY <5>1, <3>2, <4>1
      <4> QED BY <4>2, <4>3
    <3>6. LastNotified(k)' = {i}
      BY <1>4, <1>7, <1>8, <1>12, <3>2, <3>4, <3>5, LastNotifiedAfter
    <3> QED BY <3>3, <3>4, <3>6, <1>2
  <2>3. CASE k \notin job.mailed
    <3>1. ASSUME NEW i \in EntriesOf(k) PROVE i \notin job.marked
      <4> SUFFICES ASSUME i \in job.marked PROVE FALSE OBVIOUS
      <4>1. PICK m \in job.mailed \cup job.muted : m \in Keys /\ i \in EntriesOf(m)
        BY <1>6
      <4>2. m[1] = k[1] /\ m[2] = k[2] BY <4>1, <3>1 DEF EntriesOf
      <4>3. m = k BY <4>1, <4>2 DEF Keys
      <4> QED BY <4>1, <4>3, <2>1, <2>3
    <3>2. \A i \in EntriesOf(k) : i \in Rows /\ booking_logs'[i].notified = booking_logs[i].notified
      BY <3>1, <1>2 DEF EntriesOf
    <3>3. LastNotified(k)' = LastNotified(k) BY <1>1, <1>2, <3>2, LastNotifiedStays
    <3>4. \A i \in LastNotified(k) : i \in Rows BY LastNotifiedIs DEF EntriesOf
    <3>5. k \notin astray BY <1>1, <2>3
    <3>6. IF LastNotified(k) = {} THEN told[k] = "nothing"
          ELSE \A i \in LastNotified(k) : told[k] = booking_logs[i].type
      BY <2>3, <3>5 DEF InStep
    <3> QED BY <3>3, <3>4, <3>6, <1>2
  <2> QED BY <2>2, <2>3
<1> QED BY <1>4, <1>7, <1>8, <1>9, <1>10, <1>11, <1>13

-----------------------------------------------------------------------------
(* The steps around the run. *)

\* The rows after a cast, a cancellation or a setup change has committed.
LEMMA WriteEffect ==
  ASSUME TypeOK, NEW k \in Keys, NEW types \in TransactionTypes, WriteEntries(k, types)
  PROVE  /\ booking_logs' \in Seq(Row)
         /\ Len(booking_logs') > Len(booking_logs) /\ Len(booking_logs') \in Nat
         /\ Rows' = 1..Len(booking_logs') /\ Rows \subseteq Rows'
         /\ \A i \in Rows : booking_logs'[i] = booking_logs[i]
         /\ \A i \in Rows' \ Rows : /\ i \in Nat /\ i > Len(booking_logs)
                                    /\ booking_logs'[i].created_at = Len(booking_logs) + 1
                                    /\ ~booking_logs'[i].notified
<1> DEFINE n == Len(types)
           row(i) == [performance |-> k[1], user |-> k[2], type |-> types[i],
                      created_at |-> Len(booking_logs) + 1, notified |-> FALSE]
           new == [i \in DOMAIN types |-> row(i)]
<1>1. booking_logs \in Seq(Row) /\ Rows = 1..Len(booking_logs) /\ Len(booking_logs) \in Nat
  BY RowFacts
<1>2. n \in {1, 2} /\ DOMAIN types = 1..n /\ \A i \in 1..n : types[i] \in Types
  <2>1. CASE types = <<"book">> BY <2>1 DEF Types
  <2>2. CASE types = <<"unbook">> BY <2>2 DEF Types
  <2>3. CASE types = <<"unbook", "book">> BY <2>3 DEF Types
  <2> QED BY <2>1, <2>2, <2>3 DEF TransactionTypes
<1>3. k[1] \in Performances /\ k[2] \in Users BY DEF Keys
<1>4. \A i \in 1..n : /\ row(i) \in Row /\ ~row(i).notified
                      /\ row(i).created_at = Len(booking_logs) + 1
  BY <1>1, <1>2, <1>3 DEF Row
<1>5. booking_logs' = booking_logs \o new BY DEF WriteEntries
<1> HIDE DEF row, n
<1>6. n \in Nat /\ n > 0 BY <1>2
<1>7. new \in [1..n -> Row] BY <1>2, <1>4
<1>8. /\ new \in Seq(Row) /\ Len(new) = n
      /\ \A i \in 1..n : new[i] = row(i)
  BY <1>2, <1>6, <1>7
<1> HIDE DEF new
<1>9. /\ booking_logs' \in Seq(Row) /\ Len(booking_logs') = Len(booking_logs) + n
      /\ \A i \in 1..Len(booking_logs) : booking_logs'[i] = booking_logs[i]
      /\ \A i \in (Len(booking_logs) + 1)..(Len(booking_logs) + n) :
           booking_logs'[i] = new[i - Len(booking_logs)]
  <2>1. booking_logs' \in Seq(Row) /\ Len(booking_logs') = Len(booking_logs) + n
    <3>1. booking_logs \in Seq(Row) /\ new \in Seq(Row) BY <1>1, <1>8
    <3>2. booking_logs \o new \in Seq(Row) BY <3>1
    <3>3. Len(booking_logs \o new) = Len(booking_logs) + Len(new) BY <3>1
    <3> QED BY <3>2, <3>3, <1>5, <1>8
  <2>2. ASSUME NEW i \in 1..Len(booking_logs) PROVE booking_logs'[i] = booking_logs[i]
    BY <1>1, <1>5, <1>6, <1>8
  <2>3. ASSUME NEW i \in (Len(booking_logs) + 1)..(Len(booking_logs) + n)
        PROVE  booking_logs'[i] = new[i - Len(booking_logs)]
    BY <1>1, <1>5, <1>6, <1>8
  <2> QED BY <2>1, <2>2, <2>3
<1>10. Rows' = 1..Len(booking_logs') BY <1>9 DEF Rows
<1>11. ASSUME NEW i \in Rows' \ Rows
       PROVE  /\ i \in Nat /\ i > Len(booking_logs)
              /\ booking_logs'[i].created_at = Len(booking_logs) + 1
              /\ ~booking_logs'[i].notified
  <2>1. i \in (Len(booking_logs) + 1)..(Len(booking_logs) + n) BY <1>1, <1>6, <1>9, <1>10
  <2>2. i - Len(booking_logs) \in 1..n BY <2>1, <1>1, <1>6
  <2>3. booking_logs'[i] = row(i - Len(booking_logs)) BY <2>1, <2>2, <1>8, <1>9
  <2> QED BY <2>1, <2>2, <2>3, <1>1, <1>4, <1>6
<1> QED BY <1>1, <1>6, <1>9, <1>10, <1>11

LEMMA WriteStep ==
  ASSUME IInv, NEW k \in Keys, NEW types \in TransactionTypes, WriteEntries(k, types)
  PROVE  IInv'
<1> USE DEF IInv
<1>1. /\ booking_logs' \in Seq(Row)
      /\ Len(booking_logs') > Len(booking_logs) /\ Len(booking_logs') \in Nat
      /\ Rows' = 1..Len(booking_logs') /\ Rows \subseteq Rows'
  BY WriteEffect
<1>2. \A i \in Rows : booking_logs'[i] = booking_logs[i] BY WriteEffect
<1>3. \A i \in Rows' \ Rows : /\ i \in Nat /\ i > Len(booking_logs)
                              /\ booking_logs'[i].created_at = Len(booking_logs) + 1
                              /\ ~booking_logs'[i].notified
  BY WriteEffect
<1>4. UNCHANGED <<upcoming, verified, suppressed, job, told, astray, failures>>
  BY DEF WriteEntries
<1>5. Rows = 1..Len(booking_logs) /\ Len(booking_logs) \in Nat
      /\ \A i \in Rows : booking_logs[i].created_at \in Nat
  BY RowFacts
<1>6. TypeOK' BY <1>1, <1>4 DEF TypeOK, Row
<1>7. OrderInv'
  <2> SUFFICES ASSUME NEW i \in Rows', NEW j \in Rows'
               PROVE  /\ booking_logs'[i].created_at <= Len(booking_logs')
                      /\ i <= j => booking_logs'[i].created_at <= booking_logs'[j].created_at
    BY DEF OrderInv
  <2>1. CASE i \in Rows /\ j \in Rows BY <2>1, <1>1, <1>2, <1>5 DEF OrderInv
  <2>2. CASE i \in Rows /\ j \notin Rows
    <3>1. booking_logs'[i].created_at <= Len(booking_logs) BY <2>2, <1>2 DEF OrderInv
    <3>2. booking_logs'[i].created_at \in Nat BY <2>2, <1>2, <1>5
    <3> QED BY <2>2, <3>1, <3>2, <1>1, <1>3, <1>5
  <2>3. CASE i \notin Rows /\ j \in Rows BY <2>3, <1>1, <1>3, <1>5
  <2>4. CASE i \notin Rows /\ j \notin Rows BY <2>4, <1>1, <1>3, <1>5
  <2> QED BY <2>1, <2>2, <2>3, <2>4
<1>8. ASSUME NEW i \in Rows, EndsItsTransaction(i) PROVE EndsItsTransaction(i)'
  <2> SUFFICES ASSUME NEW j \in Rows', i < j,
                      booking_logs'[j].performance = booking_logs'[i].performance,
                      booking_logs'[j].user = booking_logs'[i].user
               PROVE  booking_logs'[i].created_at < booking_logs'[j].created_at
    BY DEF EndsItsTransaction
  <2>1. CASE j \in Rows BY <2>1, <1>2, <1>8 DEF EndsItsTransaction
  <2>2. CASE j \notin Rows
    <3>1. booking_logs'[i].created_at <= Len(booking_logs) BY <1>2 DEF OrderInv
    <3>2. booking_logs'[i].created_at \in Nat BY <1>2, <1>5
    <3> QED BY <2>2, <3>1, <3>2, <1>3, <1>5
  <2> QED BY <2>1, <2>2
<1>9. MarkedInv' BY <1>2, <1>3, <1>8 DEF MarkedInv
<1>10. \A m \in Keys : LastNotified(m)' = LastNotified(m)
  <2> SUFFICES ASSUME NEW m \in Keys PROVE LastNotified(m)' = LastNotified(m) OBVIOUS
  <2>1. \A i \in EntriesOf(m) : booking_logs'[i].notified = booking_logs[i].notified
    BY <1>2 DEF EntriesOf
  <2> QED BY <1>1, <1>2, <1>3, <2>1, LastNotifiedStays
<1>11. \A m \in Keys : \A i \in LastNotified(m) : i \in Rows
  BY LastNotifiedIs DEF EntriesOf
<1>12. PicksInv'
  <2> SUFFICES ASSUME NEW m \in Keys, job.picks[m] # 0
               PROVE  /\ job.picks[m] \in EntriesOf(m)'
                      /\ IsNews(job.picks[m], m)'
                      /\ EndsItsTransaction(job.picks[m])'
                      /\ \A j \in EntriesOf(m)' : job.picks[m] < j => ~booking_logs'[j].notified
    BY <1>4 DEF PicksInv
  <2> DEFINE i == job.picks[m]
  <2>1. /\ i \in EntriesOf(m) /\ IsNews(i, m) /\ EndsItsTransaction(i)
        /\ \A j \in EntriesOf(m) : i < j => ~booking_logs[j].notified
    BY DEF PicksInv
  <2> HIDE DEF i
  <2>2. i \in Rows BY <2>1 DEF EntriesOf
  <2>3. i \in EntriesOf(m)' BY <2>1, <2>2, <1>1, <1>2 DEF EntriesOf
  <2>4. IsNews(i, m)' BY <2>1, <2>2, <1>2, <1>10, <1>11, <1>4 DEF IsNews, i
  <2>5. ASSUME NEW j \in EntriesOf(m)', i < j PROVE ~booking_logs'[j].notified
    <3>1. CASE j \in Rows
      <4>1. j \in EntriesOf(m) BY <3>1, <1>2, <2>5 DEF EntriesOf
      <4> QED BY <4>1, <3>1, <2>1, <2>5, <1>2
    <3>2. CASE j \notin Rows BY <3>2, <1>3, <2>5 DEF EntriesOf
    <3> QED BY <3>1, <3>2
  <2> QED BY <2>1, <2>2, <2>3, <2>4, <2>5, <1>8, <1>4 DEF i
<1>13. RunInv' BY <1>4 DEF RunInv
<1>14. MailedInv'
  <2> SUFFICES ASSUME NEW m \in job.mailed
               PROVE  told[m] = booking_logs'[job.picks[m]].type
    BY <1>4 DEF MailedInv
  <2>1. job.picks[m] \in Rows BY JobFacts DEF RunInv
  <2> QED BY <2>1, <1>2 DEF MailedInv
<1>15. InStep'
  <2> SUFFICES ASSUME NEW m \in Keys \ astray
               PROVE  IF m \in job.mailed THEN told[m] = booking_logs'[job.picks[m]].type
                      ELSE IF LastNotified(m)' = {} THEN told[m] = "nothing"
                      ELSE \A i \in LastNotified(m)' : told[m] = booking_logs'[i].type
    BY <1>4 DEF InStep
  <2>1. CASE m \in job.mailed BY <2>1, <1>4, <1>14 DEF MailedInv
  <2>2. CASE m \notin job.mailed BY <2>2, <1>2, <1>10, <1>11 DEF InStep
  <2> QED BY <2>1, <2>2
<1> QED BY <1>6, <1>7, <1>9, <1>12, <1>13, <1>14, <1>15

\* Addresses, the schedule and the kill switch touch neither log nor run.
LEMMA AroundStep ==
  ASSUME IInv, UNCHANGED <<booking_logs, job, told, astray, failures>>,
         (upcoming \subseteq Performances /\ verified \subseteq Users /\ suppressed \in BOOLEAN)'
  PROVE  IInv'
<1> USE DEF IInv
<1>1. /\ OrderInv' /\ MarkedInv' /\ PicksInv'
      /\ \A k \in Keys : LastNotified(k)' = LastNotified(k)
  BY LogStays
<1>2. TypeOK' BY DEF TypeOK, Rows
<1>3. RunInv' /\ MailedInv' BY DEF RunInv, MailedInv
<1>4. InStep' BY <1>1 DEF InStep
<1> QED BY <1>1, <1>2, <1>3, <1>4

LEMMA NextInv == IInv /\ [Next]_vars => IInv'
<1> SUFFICES ASSUME IInv, [Next]_vars PROVE IInv' OBVIOUS
<1>1. CASE ReadLogs BY <1>1, ReadLogsStep
<1>2. CASE ReadUsers BY <1>2, ReadUsersStep
<1>3. ASSUME NEW u \in Users, Deliver(u) PROVE IInv' BY <1>3, DeliverStep
<1>4. ASSUME NEW u \in Users, Suppress(u) PROVE IInv' BY <1>4, SuppressStep
<1>5. ASSUME NEW u \in Users, SmtpFails(u) PROVE IInv' BY <1>5, CutShortStep DEF SmtpFails
<1>6. CASE Commit BY <1>6, CommitStep
<1>7. CASE Crash BY <1>7, CutShortStep DEF Crash
<1>8. ASSUME NEW k \in Keys, NEW types \in TransactionTypes, WriteEntries(k, types)
      PROVE  IInv'
  BY <1>8, WriteStep
<1>9. ASSUME NEW p \in Performances, Leave(p) PROVE IInv'
  BY <1>9, AroundStep DEF Leave, IInv, TypeOK
<1>10. ASSUME NEW u \in Users, VerifyEmail(u) \/ ChangeEmail(u) PROVE IInv'
  <2>1. UNCHANGED <<booking_logs, upcoming, suppressed, job, told, astray, failures>>
        /\ verified' \subseteq Users
    BY <1>10 DEF VerifyEmail, ChangeEmail, IInv, TypeOK
  <2> QED BY <2>1, AroundStep DEF IInv, TypeOK
<1>11. CASE ToggleKillSwitch
  BY <1>11, AroundStep DEF ToggleKillSwitch, IInv, TypeOK
<1>12. CASE UNCHANGED vars BY <1>12, AroundStep DEF vars, IInv, TypeOK
<1> QED
  BY <1>1, <1>2, <1>3, <1>4, <1>5, <1>6, <1>7, <1>8, <1>9, <1>10, <1>11, <1>12 DEF Next

\* What the proofs rest on: the order of the log, what a run has picked and
\* sent, and the agreement of mail and mark, in every reachable state.
THEOREM NotifyInductive == Spec => []IInv
<1>1. Init => IInv BY InitInv
<1>2. IInv /\ [Next]_vars => IInv' BY NextInv
<1> QED BY <1>1, <1>2, PTL DEF Spec

-----------------------------------------------------------------------------
\* A key without news, between two runs: the user knows how it stands.
LEMMA QuietFollows == IInv => QuietMeansTold
<1> SUFFICES ASSUME IInv, NEW k \in Keys \ astray, job.step = "idle", k[1] \in upcoming,
                    Picks(k) = {0}
             PROVE  UpToDate(k)
  BY DEF QuietMeansTold, ToldWhenQuiet
<1> USE DEF IInv
<1>1. job.mailed = {} BY DEF RunInv, Idle
<1>2. CASE EntriesOf(k) = {}
  <2>1. LastNotified(k) = {} BY <1>2 DEF LastNotified, Newest
  <2>2. told[k] = "nothing" BY <1>1, <2>1 DEF InStep
  <2> QED BY <1>2, <2>2 DEF UpToDate, LastType
<1>3. CASE EntriesOf(k) # {}
  <2>0. 0 \in {IF IsNews(m, k) THEN m ELSE 0 : m \in Latest(k)} BY <1>3 DEF Picks
  <2>7. \A m \in Latest(k) : m # 0 BY LatestIsGreatest, RowFacts DEF EntriesOf
  <2>1. PICK i \in Latest(k) : ~IsNews(i, k) BY <2>0, <2>7
  <2>2. i \in EntriesOf(k) /\ \A j \in EntriesOf(k) : j <= i BY LatestIsGreatest
  <2>3. LastType(k) = booking_logs[i].type
    <3> DEFINE Last(m) == m \in EntriesOf(k) /\ \A j \in EntriesOf(k) : j <= m
               c == CHOOSE m \in EntriesOf(k) : \A j \in EntriesOf(k) : j <= m
    <3>1. Last(c) BY <2>2
    <3>2. c <= i /\ i <= c BY <3>1, <2>2
    <3>3. c \in Nat /\ i \in Nat BY <3>1, <2>2, RowFacts DEF EntriesOf
    <3>4. c = i BY <3>2, <3>3
    <3> QED BY <1>3, <3>4 DEF LastType
  <2>4. booking_logs[i].type \in Types BY <2>2, RowFacts DEF EntriesOf
  <2>5. CASE LastNotified(k) = {}
    <3>1. told[k] = "nothing" BY <1>1, <2>5 DEF InStep
    <3>2. ~booking_logs[i].notified BY <2>2, <2>5, LastNotifiedIs
    <3>3. booking_logs[i].type = "unbook" BY <2>1, <2>4, <2>5, <3>2 DEF IsNews, Types
    <3> QED BY <2>3, <3>1, <3>3 DEF UpToDate
  <2>6. CASE LastNotified(k) # {}
    <3>1. \A j \in LastNotified(k) : told[k] = booking_logs[j].type
      BY <1>1, <2>6 DEF InStep
    <3>2. CASE booking_logs[i].notified
      <4>1. LastNotified(k) = {i} BY <2>2, <3>2, LastNotifiedIs
      <4> QED BY <2>3, <3>1, <4>1 DEF UpToDate
    <3>3. CASE ~booking_logs[i].notified
      <4>1. \A j \in LastNotified(k) : booking_logs[j].type = booking_logs[i].type
        BY <2>1, <2>6, <3>3 DEF IsNews
      <4> QED BY <2>3, <2>6, <3>1, <4>1 DEF UpToDate
    <3> QED BY <3>2, <3>3
  <2> QED BY <2>5, <2>6
<1> QED BY <1>2, <1>3

\* booking_jobs.py, for every length of the log and any number of users: the
\* newest marked row is what the last mail said, and when a run finds nothing
\* to send about a key the user knows how it stands, unless a run was cut
\* short or muted on that key since.
THEOREM MarksAreTrue == Spec => []MarksTrue
<1>1. IInv => MarksTrue BY QuietFollows DEF IInv, MarksTrue
<1> QED BY <1>1, NotifyInductive, PTL

\* booking_jobs.py, _latest_unnotified_entries: no mail repeats the last one
\* about a key, and the first mail about a key says "book", also when entries
\* are written between the read of the logs and the mail.
THEOREM MailsAreNews == Spec => NewsOnly
<1> DEFINE News == \A u \in Users : Deliver(u) =>
                     \A k \in Bundle(u) \ astray :
                       /\ told'[k] # told[k]
                       /\ told[k] = "nothing" => told'[k] = "book"
<1>1. ASSUME IInv, [Next]_vars PROVE [News]_vars
  <2> SUFFICES ASSUME NEW u \in Users, Deliver(u), NEW k \in Bundle(u) \ astray
               PROVE  /\ told'[k] # told[k]
                      /\ told[k] = "nothing" => told'[k] = "book"
    OBVIOUS
  <2> USE <1>1 DEF IInv
  <2>1. k \in Keys /\ job.picks[k] # 0 /\ k[2] = u BY DEF Bundle
  <2>2. u \in job.todo /\ told'[k] = booking_logs[job.picks[k]].type
    BY <2>1 DEF Deliver
  <2>3. k \notin job.mailed BY <2>1, <2>2 DEF RunInv
  <2>4. IsNews(job.picks[k], k) BY <2>1 DEF PicksInv
  <2>5. CASE LastNotified(k) = {}
    BY <2>2, <2>3, <2>1, <2>4, <2>5 DEF InStep, IsNews
  <2>6. CASE LastNotified(k) # {}
    <3>1. PICK j \in LastNotified(k) : booking_logs[j].type # booking_logs[job.picks[k]].type
      BY <2>4, <2>6 DEF IsNews
    <3>2. told[k] = booking_logs[j].type BY <2>1, <2>3, <2>6 DEF InStep
    <3>3. booking_logs[j].type \in Types BY <2>1, LastNotifiedIs, RowFacts DEF EntriesOf
    <3> QED BY <2>2, <3>1, <3>2, <3>3 DEF Types
  <2> QED BY <2>5, <2>6
<1>2. IInv /\ [Next]_vars => [News]_vars BY <1>1
<1> QED BY <1>2, NotifyInductive, PTL DEF Spec, NewsOnly
=============================================================================
