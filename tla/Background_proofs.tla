-------------------------- MODULE Background_proofs --------------------------
(***************************************************************************)
(* Proofs about the request log, for any finite set of users and any set   *)
(* of User-Agents, about the scheduled jobs, for any number of tries and   *)
(* of troubles, and about the mails and the kill switch, for any number of *)
(* mails and recipients, any threshold and any period.                     *)
(***************************************************************************)
EXTENDS Background, TLAPS, FiniteSetTheorems

-----------------------------------------------------------------------------
(* The request log.                                                        *)

Call ==
  [step : {"none", "handler", "resolve", "select", "insert", "reselect", "entry", "commit"},
   agent : Strings \cup {"none"}, token : Addresses \cup {Nobody}, user : Callers \cup {Nobody},
   inserted : BOOLEAN, logged : BOOLEAN, hindered : BOOLEAN,
   status : {"none", "ok", "error", "skipped"}]

\* What a request has read and written so far, and what is answered.
CallSound(c) ==
  /\ call[c].step \in {"none", "handler", "resolve"} => call[c].user = Nobody
  /\ call[c].step # "none" => call[c].status = "none"
  /\ call[c].step \in {"select", "insert", "reselect"} => call[c].agent # "none"
  /\ call[c].step \in {"reselect", "entry", "commit"} =>
       call[c].inserted \/ call[c].agent \in client_user_agents \cup {"none"}
  /\ call[c].inserted => call[c].step \in {"entry", "commit"} /\ call[c].agent \in Strings
  /\ call[c].user # Nobody => call[c].user \in Users \/ call[c].hindered
  /\ call[c].status = "error" => call[c].hindered
  /\ call[c].status = "ok" =>
       call[c].logged /\ call[c].agent \in client_user_agents \cup {"none"}

\* One transaction at most has inserted a string; no two users share an
\* address.
LogInv ==
  /\ address \in [Callers -> Addresses \cup {Nobody}]
  /\ client_user_agents \subseteq Strings
  /\ call \in [Callers -> Call]
  /\ \A u, v \in Users : address[u] = address[v] => u = v
  /\ \A c, d \in Callers :
       call[c].inserted /\ call[d].inserted /\ call[c].agent = call[d].agent => c = d
  /\ \A c \in Callers : CallSound(c)
  /\ EntriesNameTheCaller

LEMMA AddressesNotNobody == Nobody \notin Addresses
<1>1. Cardinality(Callers) \in Nat
  BY RequestLogsAssumption, FS_CardinalityType
<1>. QED
  BY <1>1, RequestLogsAssumption DEF Addresses, Nobody

LEMMA LogsInitInv == LogsInit => LogInv
<1>. SUFFICES ASSUME LogsInit PROVE LogInv
  OBVIOUS
<1>. USE DEF LogsInit, NoCall, Nobody
<1>1. \A c \in Callers : call[c] = NoCall
  OBVIOUS
<1>2. call \in [Callers -> Call] /\ address \in [Callers -> Addresses \cup {Nobody}]
  BY DEF Call, Addresses
<1>. QED
  BY <1>1, <1>2 DEF LogInv, CallSound, Users, EntriesNameTheCaller

\* One caller goes on: the others' records stay.
LEMMA Others ==
  ASSUME LogInv, NEW c \in Callers, NEW from, NEW next \in Call, Goes(c, from, next)
  PROVE  /\ call' \in [Callers -> Call]
         /\ call[c].step = from /\ call'[c] = next
         /\ \A d \in Callers \ {c} : call'[d] = call[d]
BY DEF LogInv, Goes


\* What a step of one caller that leaves addresses and strings alone has to
\* keep.
LEMMA OneCaller ==
  ASSUME LogInv, NEW c \in Callers, NEW from, NEW next \in Call, Goes(c, from, next),
         UNCHANGED <<address, client_user_agents>>,
         CallSound(c)',
         next.inserted => \/ call[c].inserted /\ call[c].agent = next.agent
                          \/ Inserting(next.agent) = {},
         c \in Users => next.user \in {c, Nobody} \/ next.token \notin {address[c], Nobody}
  PROVE  LogInv'
<1>1. /\ call' \in [Callers -> Call] /\ call'[c] = next
      /\ \A d \in Callers \ {c} : call'[d] = call[d]
  BY Others
<1>2. Users' = Users
  BY DEF Users
<1>3. \A d \in Callers : CallSound(d)'
  BY <1>1, <1>2 DEF LogInv, CallSound
<1>4. \A d, e \in Callers :
        call'[d].inserted /\ call'[e].inserted /\ call'[d].agent = call'[e].agent => d = e
  <2>1. \A d \in Callers \ {c} :
          call'[d].inserted /\ next.inserted /\ call'[d].agent = next.agent => FALSE
    BY <1>1 DEF LogInv, Inserting
  <2>. QED
    BY <1>1, <2>1 DEF LogInv
<1>5. EntriesNameTheCaller'
  BY <1>1, <1>2 DEF LogInv, EntriesNameTheCaller, Users
<1>. QED
  BY <1>1, <1>2, <1>3, <1>4, <1>5 DEF LogInv

LEMMA RequestStep ==
  ASSUME LogInv, NEW c \in Callers, Request(c)
  PROVE  LogInv'
<1>. PICK s \in Strings \cup {"none"}, token \in {Nobody, address[c]} :
       Goes(c, "none", [NoCall EXCEPT !.step = "handler", !.agent = s, !.token = token])
  BY DEF Request
<1>. DEFINE next == [NoCall EXCEPT !.step = "handler", !.agent = s, !.token = token]
<1>1. next \in Call
  BY DEF LogInv, NoCall, Call
<1>2. UNCHANGED <<address, client_user_agents>>
  BY DEF Request
<1>3. call'[c] = next
  BY <1>1, Others
<1>4. CallSound(c)'
  BY <1>3 DEF CallSound, NoCall, Nobody
<1>. QED
  BY <1>1, <1>2, <1>4, OneCaller DEF NoCall, Nobody

LEMMA ResolveStep ==
  ASSUME LogInv, NEW c \in Callers, ResolveUserId(c)
  PROVE  LogInv'
<1>. DEFINE user == IF Holders(call[c].token) = {} THEN Nobody
                    ELSE CHOOSE u \in Holders(call[c].token) : TRUE
            next == [To(c, IF call[c].agent = "none" THEN "entry" ELSE "select") EXCEPT !.user = user]
<1>1. call[c] \in Call /\ call[c].step = "resolve" /\ CallSound(c)
  BY DEF LogInv, ResolveUserId, Goes
<1>2. user = Nobody \/ (user \in Users /\ address[user] = call[c].token)
  BY DEF Holders
<1>3. next \in Call
  BY <1>1, <1>2 DEF Call, To, Users
<1>4. Goes(c, "resolve", next) /\ UNCHANGED <<address, client_user_agents>>
  BY DEF ResolveUserId
<1>5. call'[c] = next /\ Users' = Users
  BY <1>3, <1>4, Others DEF Users
<1>6. CallSound(c)'
  BY <1>1, <1>2, <1>4, <1>5 DEF CallSound, To, Call
<1>7. c \in Users => next.user \in {c, Nobody} \/ next.token \notin {address[c], Nobody}
  <2>1. next.user = user /\ next.token = call[c].token
    BY <1>1 DEF To, Call
  <2>2. \A u \in Users : address[u] # Nobody
    BY DEF Users
  <2>. QED
    BY <1>2, <2>1, <2>2 DEF LogInv
<1>8. next.inserted = call[c].inserted /\ next.agent = call[c].agent
  BY <1>1 DEF To, Call
<1>. QED
  BY <1>3, <1>4, <1>6, <1>7, <1>8, OneCaller

LEMMA SelectStep ==
  ASSUME LogInv, NEW c \in Callers, SelectAgent(c)
  PROVE  LogInv'
<1>. DEFINE next == To(c, IF call[c].agent \in client_user_agents THEN "entry" ELSE "insert")
<1>1. call[c] \in Call /\ call[c].step = "select" /\ CallSound(c)
  BY DEF LogInv, SelectAgent, Goes
<1>2. next \in Call
  BY <1>1 DEF Call, To
<1>3. Goes(c, "select", next) /\ UNCHANGED <<address, client_user_agents>>
  BY DEF SelectAgent
<1>4. call'[c] = next /\ Users' = Users
  BY <1>2, <1>3, Others DEF Users
<1>5. CallSound(c)'
  BY <1>1, <1>3, <1>4 DEF CallSound, To, Call
<1>6. /\ next.inserted = call[c].inserted /\ next.agent = call[c].agent
      /\ next.user = call[c].user /\ next.token = call[c].token
  BY <1>1 DEF To, Call
<1>. QED
  BY <1>2, <1>3, <1>5, <1>6, OneCaller DEF LogInv, EntriesNameTheCaller

LEMMA InsertStep ==
  ASSUME LogInv, NEW c \in Callers, InsertAgent(c)
  PROVE  LogInv'
<1>. DEFINE next == IF call[c].agent \in client_user_agents THEN To(c, "reselect")
                    ELSE [To(c, "entry") EXCEPT !.inserted = TRUE]
<1>1. call[c] \in Call /\ call[c].step = "insert" /\ CallSound(c)
  BY DEF LogInv, InsertAgent, Goes
<1>2. next \in Call
  BY <1>1 DEF Call, To
<1>3. Goes(c, "insert", next) /\ UNCHANGED <<address, client_user_agents>>
  BY DEF InsertAgent
<1>4. call'[c] = next /\ Users' = Users
  BY <1>2, <1>3, Others DEF Users
<1>5. CallSound(c)'
  BY <1>1, <1>3, <1>4 DEF CallSound, To, Call
<1>6. next.agent = call[c].agent /\ next.user = call[c].user /\ next.token = call[c].token
  BY <1>1 DEF To, Call
<1>7. Inserting(call[c].agent) = {}
  BY DEF InsertAgent
<1>. QED
  BY <1>2, <1>3, <1>5, <1>6, <1>7, OneCaller DEF LogInv, EntriesNameTheCaller

LEMMA ReselectStep ==
  ASSUME LogInv, NEW c \in Callers, Reselect(c)
  PROVE  LogInv'
<1>. DEFINE next == To(c, "entry")
<1>1. call[c] \in Call /\ call[c].step = "reselect" /\ CallSound(c)
  BY DEF LogInv, Reselect, Goes
<1>2. next \in Call
  BY <1>1 DEF Call, To
<1>3. Goes(c, "reselect", next) /\ UNCHANGED <<address, client_user_agents>>
  BY DEF Reselect
<1>4. call'[c] = next /\ Users' = Users
  BY <1>2, <1>3, Others DEF Users
<1>5. CallSound(c)'
  BY <1>1, <1>3, <1>4 DEF CallSound, To, Call
<1>6. /\ next.inserted = call[c].inserted /\ next.agent = call[c].agent
      /\ next.user = call[c].user /\ next.token = call[c].token
  BY <1>1 DEF To, Call
<1>. QED
  BY <1>2, <1>3, <1>5, <1>6, OneCaller DEF LogInv, EntriesNameTheCaller

\* A rolled-back transaction leaves an answer that says so.
LEMMA RefusedStep ==
  ASSUME LogInv, NEW c \in Callers, NEW from, NEW next \in Call, Goes(c, from, next),
         next.step = "none", next.user = Nobody, ~next.inserted,
         next.status = "error", next.hindered,
         UNCHANGED <<address, client_user_agents>>
  PROVE  LogInv'
<1>1. call'[c] = next
  BY Others
<1>2. CallSound(c)'
  BY <1>1 DEF CallSound
<1>. QED
  BY <1>2, OneCaller

\* The entry is refused for one reason: its user is gone.
LEMMA RecordRequestStep ==
  ASSUME LogInv, NEW c \in Callers, RecordRequest(c)
  PROVE  LogInv'
<1>1. call[c] \in Call /\ call[c].step = "entry" /\ CallSound(c)
  BY DEF LogInv, RecordRequest, Goes
<1>2. UNCHANGED <<address, client_user_agents>> /\ Users' = Users
  BY DEF RecordRequest, Users
<1>3. CASE call[c].user \in Users \cup {Nobody}
  <2>. DEFINE next == To(c, "commit")
  <2>1. next \in Call
    BY <1>1 DEF Call, To
  <2>2. Goes(c, "entry", next)
    BY <1>3 DEF RecordRequest
  <2>3. call'[c] = next
    BY <2>1, <2>2, Others
  <2>4. CallSound(c)'
    BY <1>1, <1>2, <2>3 DEF CallSound, To, Call
  <2>5. /\ next.inserted = call[c].inserted /\ next.agent = call[c].agent
        /\ next.user = call[c].user /\ next.token = call[c].token
    BY <1>1 DEF To, Call
  <2>. QED
    BY <1>2, <2>1, <2>2, <2>4, <2>5, OneCaller DEF LogInv, EntriesNameTheCaller
<1>4. CASE call[c].user \notin Users \cup {Nobody}
  <2>1. Goes(c, "entry", Refused(c))
    BY <1>4 DEF RecordRequest
  <2>2. Refused(c) \in Call /\ call[c].hindered
    BY <1>1, <1>4 DEF Call, Refused, NoCall, CallSound, Nobody
  <2>. QED
    BY <1>2, <2>1, <2>2, RefusedStep DEF Refused, NoCall, Nobody
<1>. QED
  BY <1>3, <1>4

LEMMA DatabaseFailsStep ==
  ASSUME LogInv, NEW c \in Callers, DatabaseFails(c)
  PROVE  LogInv'
<1>. DEFINE next == [Refused(c) EXCEPT !.hindered = TRUE]
<1>. PICK step \in {"resolve", "select", "insert", "entry", "commit"} : Goes(c, step, next)
  BY DEF DatabaseFails
<1>1. next \in Call
  BY DEF LogInv, Call, Refused, NoCall, Nobody
<1>2. UNCHANGED <<address, client_user_agents>>
  BY DEF DatabaseFails
<1>. QED
  BY <1>1, <1>2, RefusedStep DEF Refused, NoCall, Nobody

LEMMA CommitEntryStep ==
  ASSUME LogInv, NEW c \in Callers, CommitEntry(c)
  PROVE  LogInv'
<1>. DEFINE next == [NoCall EXCEPT !.agent = call[c].agent, !.logged = TRUE, !.status = "ok"]
<1>1. call[c] \in Call /\ call[c].step = "commit" /\ CallSound(c)
  BY DEF LogInv, CommitEntry, Goes
<1>2. next \in Call
  BY <1>1 DEF Call, NoCall, Nobody
<1>3. /\ call' \in [Callers -> Call] /\ call'[c] = next
      /\ \A d \in Callers \ {c} : call'[d] = call[d]
  BY <1>2, Others DEF CommitEntry
<1>4. /\ UNCHANGED address /\ Users' = Users
      /\ client_user_agents \subseteq client_user_agents'
      /\ client_user_agents' \subseteq Strings
      /\ call[c].inserted => call[c].agent \in client_user_agents'
  BY <1>1 DEF LogInv, CommitEntry, Users, CallSound
<1>5. CallSound(c)'
  BY <1>1, <1>3, <1>4 DEF CallSound, NoCall, Nobody
<1>6. \A d \in Callers \ {c} : CallSound(d)'
  BY <1>3, <1>4 DEF LogInv, CallSound
<1>7. ~next.inserted /\ next.user = Nobody
  BY DEF NoCall, Nobody
<1>8. \A d \in Users : call'[d].user \in {d, Nobody} \/ call'[d].token \notin {address[d], Nobody}
  BY <1>3, <1>7 DEF LogInv, EntriesNameTheCaller, Users
<1>9. EntriesNameTheCaller'
  BY <1>4, <1>8 DEF EntriesNameTheCaller
<1>10. \A d, e \in Callers :
         call'[d].inserted /\ call'[e].inserted /\ call'[d].agent = call'[e].agent => d = e
  BY <1>3, <1>7 DEF LogInv
<1>. QED
  BY <1>3, <1>4, <1>5, <1>6, <1>9, <1>10 DEF LogInv

LEMMA HandleStep ==
  ASSUME LogInv, NEW c \in Callers, Handle(c)
  PROVE  LogInv'
<1>. DEFINE skipped == [NoCall EXCEPT !.status = "skipped"]
<1>1. call[c] \in Call /\ call[c].step = "handler" /\ CallSound(c)
  BY DEF LogInv, Handle, Goes
<1>2. /\ call' \in [Callers -> Call] /\ call'[c] \in {To(c, "resolve"), skipped}
      /\ \A d \in Callers \ {c} : call'[d] = call[d]
  <2>1. To(c, "resolve") \in Call /\ skipped \in Call
    BY <1>1 DEF Call, To, NoCall, Nobody
  <2>2. CASE Goes(c, "handler", To(c, "resolve"))
    BY <2>1, <2>2, Others
  <2>3. CASE Goes(c, "handler", skipped)
    BY <2>1, <2>3, Others
  <2>. QED
    BY <2>2, <2>3 DEF Handle
<1>3. UNCHANGED client_user_agents
  BY DEF Handle
<1>4. /\ address' \in [Callers -> Addresses \cup {Nobody}]
      /\ \A d \in Callers \ {c} : address'[d] = address[d]
      /\ Users' = Users
      /\ \A u, v \in Users : address'[u] = address'[v] => u = v
  <2>1. CASE UNCHANGED address
    BY <2>1 DEF LogInv, Users
  <2>2. CASE /\ c \in Users
             /\ \E new \in Addresses \ {address[u] : u \in Users} :
                  address' = [address EXCEPT ![c] = new]
    BY <2>2, AddressesNotNobody DEF LogInv, Users
  <2>. QED
    BY <2>1, <2>2 DEF Handle
<1>5. /\ ~call'[c].inserted /\ call'[c].user = Nobody
      /\ CallSound(c)'
  BY <1>1, <1>2, <1>3 DEF CallSound, To, NoCall, Nobody, Call
<1>6. \A d \in Callers \ {c} : CallSound(d)'
  BY <1>2, <1>3, <1>4 DEF LogInv, CallSound
<1>7. \A d \in Users : call'[d].user \in {d, Nobody} \/ call'[d].token \notin {address'[d], Nobody}
  BY <1>2, <1>4, <1>5 DEF LogInv, EntriesNameTheCaller, Users
<1>8. EntriesNameTheCaller'
  BY <1>4, <1>7 DEF EntriesNameTheCaller
<1>9. \A d, e \in Callers :
        call'[d].inserted /\ call'[e].inserted /\ call'[d].agent = call'[e].agent => d = e
  BY <1>2, <1>5 DEF LogInv
<1>. QED
  BY <1>2, <1>3, <1>4, <1>5, <1>6, <1>8, <1>9 DEF LogInv

\* A purge hinders the entries that are about to name the user.
LEMMA PurgeStep ==
  ASSUME LogInv, NEW u \in Callers, Purge(u)
  PROVE  LogInv'
<1>1. /\ address' = [address EXCEPT ![u] = Nobody] /\ u \in Users
      /\ UNCHANGED client_user_agents
      /\ call' = [c \in Callers |-> [call[c] EXCEPT
                    !.hindered = @ \/ (call[c].step # "none" /\ call[c].user = u)]]
  BY DEF Purge
<1>2. /\ address' \in [Callers -> Addresses \cup {Nobody}]
      /\ Users' = Users \ {u}
      /\ \A v \in Users' : address'[v] = address[v]
  BY <1>1 DEF LogInv, Users
<1>3. ASSUME NEW c \in Callers
      PROVE  /\ call'[c] \in Call /\ CallSound(c)'
             /\ call'[c].inserted = call[c].inserted /\ call'[c].agent = call[c].agent
             /\ call'[c].user = call[c].user /\ call'[c].token = call[c].token
  <2>. DEFINE hindered == call[c].hindered \/ (call[c].step # "none" /\ call[c].user = u)
  <2>1. call[c] \in Call /\ CallSound(c)
    BY DEF LogInv
  <2>2. call'[c] = [call[c] EXCEPT !.hindered = hindered]
    BY <1>1
  <2>3. hindered \in BOOLEAN /\ (call[c].hindered => hindered)
    BY <2>1 DEF Call
  <2>4. /\ call'[c] \in Call /\ call'[c].hindered = hindered
        /\ call'[c].step = call[c].step /\ call'[c].status = call[c].status
        /\ call'[c].inserted = call[c].inserted /\ call'[c].agent = call[c].agent
        /\ call'[c].user = call[c].user /\ call'[c].token = call[c].token
        /\ call'[c].logged = call[c].logged
    BY <2>1, <2>2, <2>3 DEF Call
  <2>5. call[c].user # Nobody => call[c].user \in Users' \/ hindered
    BY <1>2, <2>1 DEF CallSound
  <2>6. CallSound(c)'
    BY <1>1, <2>1, <2>3, <2>4, <2>5 DEF CallSound
  <2>. QED
    BY <2>4, <2>6
<1>4. call' \in [Callers -> Call]
  BY <1>1, <1>3
<1>5. \A d, e \in Callers :
        call'[d].inserted /\ call'[e].inserted /\ call'[d].agent = call'[e].agent => d = e
  BY <1>3 DEF LogInv
<1>6. \A v, w \in Users' : address'[v] = address'[w] => v = w
  BY <1>2 DEF LogInv
<1>7. EntriesNameTheCaller'
  BY <1>2, <1>3 DEF LogInv, EntriesNameTheCaller, Users
<1>. QED
  BY <1>1, <1>2, <1>3, <1>4, <1>5, <1>6, <1>7 DEF LogInv

LEMMA LogsStepInv == LogInv /\ LogsNext => LogInv'
<1>. SUFFICES ASSUME LogInv, NEW c \in Callers,
                     Request(c) \/ WriteLog(c) \/ DatabaseFails(c) \/ Purge(c)
              PROVE  LogInv'
  BY DEF LogsNext
<1>. QED
  BY RequestStep, HandleStep, ResolveStep, SelectStep, InsertStep, ReselectStep,
     RecordRequestStep, CommitEntryStep, DatabaseFailsStep, PurgeStep DEF WriteLog

LEMMA LogsStutter == LogInv /\ UNCHANGED logVars => LogInv'
BY DEF LogInv, logVars, CallSound, EntriesNameTheCaller, Users

LEMMA LogInvSafe == LogInv => LogsSafe
<1>. SUFFICES ASSUME LogInv PROVE LogsSafe
  OBVIOUS
<1>1. \A c \in Callers : call[c].user \in Callers \cup {Nobody}
  BY DEF LogInv, Call
<1>2. ASSUME NEW s \in Strings
      PROVE  Cardinality(Inserting(s)) <= 1
  <2>1. CASE Inserting(s) = {}
    BY <2>1, FS_EmptySet
  <2>2. ASSUME NEW c \in Inserting(s)
        PROVE  Cardinality(Inserting(s)) <= 1
    <3>1. Inserting(s) = {c}
      BY DEF LogInv, Inserting
    <3>2. Cardinality({c}) = 1
      BY FS_Singleton
    <3>. QED
      BY <3>1, <3>2
  <2>. QED
    BY <2>1, <2>2
<1>. QED
  BY <1>1, <1>2 DEF LogInv, LogsSafe, LogsOK, RaceNeverFails, AnsweredMeansLogged, CallSound

-----------------------------------------------------------------------------
(* The scheduled jobs.                                                     *)

Run == [queued : BOOLEAN, tries : 0..MAX_TRIES, attended : BOOLEAN,
        step : {"none", "body", "done"}]

\* A coroutine waits for each run of the queue that was started; a thread
\* without one has outlived its timeout; one run is in the queue at most.
CronInv ==
  /\ WorkerOK
  /\ job \in Catalog(stage)
  /\ run \in [Numbers -> Run]
  /\ stale \in BOOLEAN
  /\ unrecorded \in Nat /\ late \in 0..troubles
  /\ \A n \in Numbers : run[n].attended <=> run[n].queued /\ run[n].step # "none"
  /\ \A n \in Numbers : run[n].step # "none" => run[n].queued \/ late > 0
  /\ \A m, n \in Numbers : run[m].queued /\ run[n].queued => m = n
  /\ RunsRecorded

LEMMA TroublesAreNat == WorkerOK => troubles \in Nat
BY WorkerAssumption DEF WorkerOK

LEMMA NoRunIsRun == NoRun \in Run
BY WorkerAssumption DEF NoRun, Run

LEMMA CronInitInv == WorkerInit /\ CronInit => CronInv
<1>. SUFFICES ASSUME WorkerInit, CronInit PROVE CronInv
  OBVIOUS
<1>1. WorkerOK /\ troubles = 0
  BY WorkerAssumption DEF WorkerInit, WorkerOK
<1>2. run \in [Numbers -> Run] /\ \A n \in Numbers : run[n] = NoRun
  BY NoRunIsRun DEF CronInit
<1>3. /\ job \in Catalog(stage) /\ stale = FALSE /\ unrecorded = 0 /\ late = 0
  BY DEF CronInit
<1>4. RunsRecorded
  BY <1>3 DEF RunsRecorded
<1>5. \A n \in Numbers : ~run[n].queued /\ ~run[n].attended /\ run[n].step = "none"
  BY <1>2 DEF NoRun
<1>6. late \in 0..troubles /\ unrecorded \in Nat
  BY <1>1, <1>3
<1>7. stale \in BOOLEAN
  BY <1>3
<1>. QED
  BY <1>1, <1>2, <1>3, <1>4, <1>5, <1>6, <1>7 DEF CronInv

\* What a step of one run has to keep.
LEMMA OneRun ==
  ASSUME CronInv, NEW n \in Numbers, NEW next \in Run, Becomes(n, next),
         WorkerOK', UNCHANGED <<stage, job>>, stale' \in BOOLEAN,
         unrecorded' \in Nat, late' \in 0..troubles', late' >= late,
         next.attended <=> next.queued /\ next.step # "none",
         next.step # "none" => next.queued \/ late' > 0,
         next.queued => run[n].queued \/ \A m \in Numbers : ~run[m].queued,
         RunsRecorded'
  PROVE  CronInv'
<1>1. /\ run' \in [Numbers -> Run] /\ run'[n] = next
      /\ \A m \in Numbers \ {n} : run'[m] = run[m]
  BY DEF CronInv, Becomes
<1>2. late \in Nat /\ late' \in Nat
  BY TroublesAreNat DEF CronInv, WorkerOK
<1>3. \A m \in Numbers : run'[m].attended <=> run'[m].queued /\ run'[m].step # "none"
  BY <1>1 DEF CronInv
<1>4. \A m \in Numbers : run'[m].step # "none" => run'[m].queued \/ late' > 0
  BY <1>1, <1>2 DEF CronInv
<1>5. \A m, l \in Numbers : run'[m].queued /\ run'[l].queued => m = l
  BY <1>1 DEF CronInv
<1>6. job' \in Catalog(stage)'
  BY DEF CronInv, Catalog
<1>. QED
  BY <1>1, <1>3, <1>4, <1>5, <1>6 DEF CronInv

\* A run goes on while nothing goes wrong.
LEMMA SmoothRun ==
  ASSUME CronInv, NEW n \in Numbers, NEW next \in Run, Becomes(n, next),
         KeepsHistory, UNCHANGED workerVars, stale' \in BOOLEAN,
         next.attended <=> next.queued /\ next.step # "none",
         next.step # "none" => next.queued \/ (run[n].step # "none" /\ ~run[n].queued),
         next.queued => run[n].queued \/ \A m \in Numbers : ~run[m].queued
  PROVE  CronInv'
<1>1. WorkerOK' /\ UNCHANGED <<stage, job, unrecorded, late, troubles>>
  BY DEF CronInv, WorkerOK, workerVars, KeepsHistory
<1>2. RunsRecorded'
  BY <1>1 DEF CronInv, RunsRecorded, RecordsItself
<1>3. late \in Nat
  BY TroublesAreNat DEF CronInv, WorkerOK
<1>. QED
  BY <1>1, <1>2, <1>3, OneRun DEF CronInv

\* Something goes wrong: a run too many without a row is accounted for.
LEMMA TroubledRun ==
  ASSUME CronInv, NEW n \in Numbers, NEW next \in Run, Becomes(n, next),
         Trouble, Stays, UNCHANGED <<stage, job, stale>>,
         \/ UNCHANGED late /\ unrecorded' \in {unrecorded, unrecorded + 1}
         \/ late' = late + 1 /\ UNCHANGED unrecorded,
         next.attended <=> next.queued /\ next.step # "none",
         next.step # "none" => \/ next.queued
                               \/ late' > late
                               \/ run[n].step # "none" /\ ~run[n].queued,
         next.queued => run[n].queued
  PROVE  CronInv'
<1>1. troubles \in Nat /\ troubles' = troubles + 1 /\ late \in 0..troubles
  BY TroublesAreNat DEF CronInv, Trouble
<1>2. WorkerOK'
  BY <1>1, WorkerAssumption DEF CronInv, WorkerOK, Trouble, Stays
<1>3. unrecorded' \in Nat /\ late' \in 0..troubles' /\ late' >= late
  BY <1>1 DEF CronInv
<1>4. RunsRecorded'
  BY <1>1, <1>3 DEF CronInv, RunsRecorded, RecordsItself
<1>. QED
  BY <1>1, <1>2, <1>3, <1>4, OneRun DEF CronInv

LEMMA RunsGoOn ==
  ASSUME CronInv, NEW n \in Numbers,
         StartJob(n) \/ Body(n) \/ ForgetJob(n)
  PROVE  CronInv'
<1>1. run[n] \in Run /\ NoRun \in Run
  BY NoRunIsRun DEF CronInv
<1>2. CASE StartJob(n)
  <2>1. CASE run[n].tries = MAX_TRIES
    BY <1>1, <1>2, <2>1, SmoothRun DEF StartJob, NoRun, CronInv
  <2>2. CASE run[n].tries # MAX_TRIES
    <3>. DEFINE next == [run[n] EXCEPT !.tries = @ + 1, !.attended = TRUE, !.step = "body"]
    <3>1. next \in Run
      <4>1. run[n].tries + 1 \in 0..MAX_TRIES
        BY <1>1, <2>2, WorkerAssumption DEF Run
      <4>. QED
        BY <1>1, <4>1 DEF Run
    <3>2. Becomes(n, next) /\ run[n].queued
      BY <1>2, <2>2 DEF StartJob
    <3>3. next.attended /\ next.queued = run[n].queued /\ next.step = "body"
      BY <1>1 DEF Run
    <3>. QED
      BY <1>2, <3>1, <3>2, <3>3, SmoothRun, Zenon DEF StartJob, CronInv
  <2>. QED
    BY <2>1, <2>2
<1>3. CASE Body(n)
  <2>. DEFINE next == [run[n] EXCEPT !.step = "done"]
  <2>1. /\ next \in Run /\ next.attended = run[n].attended /\ next.queued = run[n].queued
        /\ next.step = "done"
    BY <1>1 DEF Run
  <2>2. /\ run[n].step = "body" /\ Becomes(n, next) /\ stale' \in BOOLEAN
        /\ KeepsHistory /\ UNCHANGED workerVars
    BY <1>3 DEF Body
  <2>3. next.attended <=> next.queued
    BY <2>1, <2>2 DEF CronInv
  <2>4. next.queued \/ (run[n].step # "none" /\ ~run[n].queued)
    BY <2>1, <2>2
  <2>. QED
    BY <2>1, <2>2, <2>3, <2>4, SmoothRun
<1>4. CASE ForgetJob(n)
  BY <1>1, <1>4, SmoothRun DEF ForgetJob, NoRun, CronInv
<1>. QED
  BY <1>2, <1>3, <1>4

LEMMA RunsInTrouble ==
  ASSUME CronInv, NEW n \in Numbers,
         BodyFails(n) \/ BodyRaises(n) \/ RecordFails(n) \/ Timeout(n)
  PROVE  CronInv'
<1>1. run[n] \in Run /\ NoRun \in Run
  BY NoRunIsRun DEF CronInv
<1>2. late \in Nat
  BY TroublesAreNat DEF CronInv
<1>3. CASE BodyFails(n)
  <2>. DEFINE next == [run[n] EXCEPT !.step = "done"]
  <2>1. /\ next \in Run /\ next.attended = run[n].attended /\ next.queued = run[n].queued
        /\ next.step = "done"
    BY <1>1 DEF Run
  <2>. QED
    BY <1>3, <2>1, TroubledRun DEF BodyFails, KeepsHistory, CronInv
<1>4. CASE BodyRaises(n)
  BY <1>1, <1>4, TroubledRun DEF BodyRaises, NoRun
<1>5. CASE RecordFails(n)
  BY <1>1, <1>5, TroubledRun DEF RecordFails, NoRun
<1>6. CASE Timeout(n)
  <2>. DEFINE next == [NoRun EXCEPT !.step = "body"]
  <2>1. next \in Run /\ ~next.attended /\ ~next.queued
    BY <1>1 DEF Run, NoRun
  <2>2. next.step = "body"
    BY DEF NoRun
  <2>3. /\ Becomes(n, next) /\ late' = late + 1 /\ UNCHANGED unrecorded
        /\ Trouble /\ Stays /\ UNCHANGED <<stage, job, stale>>
    BY <1>6 DEF Timeout
  <2>4. late' > late
    BY <1>2, <2>3
  <2>. QED
    BY <2>1, <2>2, <2>3, <2>4, TroubledRun
<1>. QED
  BY <1>3, <1>4, <1>5, <1>6

\* A thread nobody waits for has outlived its timeout, which is a trouble.
LEMMA RecordStep ==
  ASSUME CronInv, NEW n \in Numbers, Record(n)
  PROVE  CronInv'
<1>1. troubles \in Nat /\ late \in 0..troubles /\ NoRun \in Run
  BY NoRunIsRun, TroublesAreNat DEF CronInv
<1>2. WorkerOK' /\ UNCHANGED <<stage, job, stale, late, troubles>>
  BY DEF Record, workerVars, CronInv, WorkerOK
<1>3. unrecorded' \in Nat
  BY DEF CronInv, Record
<1>4. RunsRecorded'
  <2>1. CASE run[n].attended \/ RecordsItself
    BY <1>2, <2>1 DEF CronInv, RunsRecorded, RecordsItself, Record
  <2>2. CASE ~run[n].attended /\ ~RecordsItself
    <3>1. late > 0
      BY <2>2 DEF CronInv, Record
    <3>. QED
      BY <1>1, <1>2, <2>2, <3>1 DEF RunsRecorded, RecordsItself
  <2>. QED
    BY <2>1, <2>2
<1>5. Becomes(n, NoRun)
  BY DEF Record
<1>. QED
  BY <1>1, <1>2, <1>3, <1>4, <1>5, OneRun DEF NoRun, CronInv

LEMMA DueStep == CronInv /\ Due => CronInv'
<1>. SUFFICES ASSUME CronInv, Due PROVE CronInv'
  OBVIOUS
<1>. PICK n \in Numbers : run[n] = NoRun /\ Becomes(n, [NoRun EXCEPT !.queued = TRUE])
  BY DEF Due
<1>. DEFINE next == [NoRun EXCEPT !.queued = TRUE]
<1>1. next \in Run /\ next.queued /\ ~next.attended /\ next.step = "none"
  BY NoRunIsRun DEF Run, NoRun
<1>. QED
  BY <1>1, SmoothRun DEF Due, CronInv

\* The process dies: no thread is left.
LEMMA WorkerDownStep == CronInv /\ JobWorkerDown => CronInv'
<1>. SUFFICES ASSUME CronInv, JobWorkerDown PROVE CronInv'
  OBVIOUS
<1>. /\ UNCHANGED <<stage, job, stale, late, parallel>> /\ up' = FALSE
     /\ troubles < MaxTroubles[parallel] /\ troubles' = troubles + 1
  BY DEF JobWorkerDown, GoesDown, Trouble
<1>1. troubles \in Nat /\ troubles' = troubles + 1 /\ late \in 0..troubles
  BY TroublesAreNat DEF CronInv
<1>2. WorkerOK'
  <2>1. parallel \in 1..2 /\ MaxTroubles[parallel] \in Nat
    BY WorkerAssumption DEF CronInv, WorkerOK
  <2>2. troubles' \in 0..MaxTroubles[parallel]
    BY <1>1, <2>1
  <2>. QED
    BY <2>1, <2>2 DEF WorkerOK
<1>3. unrecorded' \in Nat
  <2>1. IsFiniteSet(Numbers)
    <3>1. 1 \in Int /\ 2 \in Int
      OBVIOUS
    <3>. QED
      BY <3>1, FS_Interval DEF Numbers
  <2>2. Cardinality({n \in Numbers : run[n].step = "done"}) \in Nat
    BY <2>1, FS_Subset, FS_CardinalityType
  <2>3. unrecorded' = unrecorded + Cardinality({n \in Numbers : run[n].step = "done"})
    BY DEF JobWorkerDown
  <2>. QED
    BY <2>2, <2>3 DEF CronInv
<1>4. RunsRecorded'
  BY <1>1 DEF RunsRecorded, RecordsItself
<1>5. ASSUME NEW n \in Numbers
      PROVE  /\ run'[n] \in Run /\ ~run'[n].attended /\ run'[n].step = "none"
             /\ run'[n].queued => run[n].queued
  BY NoRunIsRun DEF CronInv, JobWorkerDown, NoRun, Run
<1>6. run' \in [Numbers -> Run]
  BY <1>5 DEF JobWorkerDown
<1>7. /\ job' \in Catalog(stage)' /\ stale' \in BOOLEAN /\ late' \in 0..troubles'
  BY <1>1 DEF CronInv, Catalog
<1>. QED
  BY <1>2, <1>3, <1>4, <1>5, <1>6, <1>7 DEF CronInv

LEMMA CronStepInv == CronInv /\ CronNext => CronInv'
<1>. SUFFICES ASSUME CronInv, CronNext PROVE CronInv'
  OBVIOUS
<1>1. CASE GetStale
  BY <1>1 DEF GetStale, KeepsHistory, CronInv, WorkerOK, workerVars, Catalog, RunsRecorded,
              RecordsItself
<1>2. CASE JobWorkerRestart
  BY <1>2 DEF JobWorkerRestart, Restarts, cronVars, CronInv, WorkerOK, Catalog, RunsRecorded,
              RecordsItself
<1>. QED
  BY <1>1, <1>2, DueStep, RunsGoOn, RunsInTrouble, RecordStep, WorkerDownStep DEF CronNext

LEMMA CronInvSafe == CronInv => RunsSafe
<1>. SUFFICES ASSUME CronInv PROVE RunsSafe
  OBVIOUS
<1>1. ASSUME late = 0
      PROVE  Cardinality({n \in Numbers : run[n].step = "body"}) <= 1
  <2>. DEFINE bodies == {n \in Numbers : run[n].step = "body"}
  <2>1. \A m, n \in bodies : m = n
    BY <1>1 DEF CronInv
  <2>2. CASE bodies = {}
    BY <2>2, FS_EmptySet
  <2>3. ASSUME NEW n \in bodies
        PROVE  Cardinality(bodies) <= 1
    <3>1. bodies = {n}
      BY <2>1
    <3>2. Cardinality({n}) = 1
      BY FS_Singleton
    <3>. QED
      BY <3>1, <3>2
  <2>. QED
    BY <2>2, <2>3
<1>. QED
  BY <1>1 DEF CronInv, Run, RunsSafe, CronOK, RunsDisjoint

-----------------------------------------------------------------------------
(* Counting recipients.                                                    *)

LEMMA BlockCounts ==
  ASSUME NEW x, NEW n \in Nat
  PROVE  IsFiniteSet({x} \X (1..n)) /\ Cardinality({x} \X (1..n)) = n
<1>1. IsFiniteSet({x}) /\ Cardinality({x}) = 1
  BY FS_Singleton
<1>2. IsFiniteSet(1..n) /\ Cardinality(1..n) = n
  <2>1. Cardinality(1..n) = IF 1 > n THEN 0 ELSE n - 1 + 1
    BY FS_Interval
  <2>. QED
    BY <2>1, FS_Interval
<1>3. /\ IsFiniteSet({x} \X (1..n))
      /\ Cardinality({x} \X (1..n)) = Cardinality({x}) * Cardinality(1..n)
  BY <1>1, <1>2, FS_Product, Zenon
<1>4. Cardinality({x} \X (1..n)) = 1 * n
  BY <1>1, <1>2, <1>3, Zenon
<1>5. 1 * n = n
  OBVIOUS
<1>. QED
  BY <1>3, <1>4, <1>5, Zenon

LEMMA RecipientsAre ==
  ASSUME NEW S, NEW f \in [S -> Nat], NEW e
  PROVE  e \in Recipients(f) <=> \E x \in S : e \in {x} \X (1..f[x])
BY DEF Recipients

\* No recipients: nothing is counted.
LEMMA NoneCounted ==
  ASSUME NEW S, NEW f \in [S -> Nat], \A x \in S : f[x] = 0
  PROVE  IsFiniteSet(Recipients(f)) /\ Total(f) = 0
<1>1. ASSUME NEW e \in Recipients(f) PROVE FALSE
  BY <1>1, RecipientsAre
<1>2. Recipients(f) = {}
  BY <1>1
<1>. QED
  BY <1>2, FS_EmptySet DEF Total

\* One number changes: so does the total.
With(f, x, n) == [f EXCEPT ![x] = n]

LEMMA Replaced ==
  ASSUME NEW S, NEW f \in [S -> Nat], IsFiniteSet(Recipients(f)),
         NEW x \in S, NEW n \in Nat, NEW g, g = With(f, x, n)
  PROVE  /\ IsFiniteSet(Recipients(g))
         /\ Total(f) \in Nat /\ Total(g) \in Nat
         /\ f[x] <= Total(f) /\ Total(g) = Total(f) - f[x] + n
<1>. DEFINE before == {x} \X (1..f[x])
            after == {x} \X (1..n)
            rest == Recipients(f) \ before
<1>1. g \in [S -> Nat] /\ g[x] = n /\ \A y \in S \ {x} : g[y] = f[y]
  BY DEF With
<1>2. before \subseteq Recipients(f)
  BY RecipientsAre
<1>3. ASSUME NEW e PROVE e \in rest <=> \E y \in S \ {x} : e \in {y} \X (1..f[y])
  <2>1. \A y \in S \ {x} : e \in {y} \X (1..f[y]) => e \notin before
    OBVIOUS
  <2>. QED
    BY <2>1, RecipientsAre
<1>4. ASSUME NEW e PROVE e \in Recipients(g) <=> e \in rest \cup after
  <2>1. e \in Recipients(g) <=> \E y \in S : e \in {y} \X (1..g[y])
    BY <1>1, RecipientsAre
  <2>. HIDE DEF rest
  <2>. QED
    BY <1>1, <1>3, <2>1
<1>5. rest \cap after = {}
  <2>1. \A y \in S \ {x} : ({y} \X (1..f[y])) \cap after = {}
    OBVIOUS
  <2>. HIDE DEF rest, after
  <2>. QED
    BY <1>3, <2>1
<1>6. /\ IsFiniteSet(before) /\ Cardinality(before) = f[x]
      /\ IsFiniteSet(after) /\ Cardinality(after) = n
  BY BlockCounts
<1>7. Recipients(g) = rest \cup after
  BY <1>4
<1>8. Recipients(f) \cap before = before
  BY <1>2
<1>. HIDE DEF before, after
<1>9. /\ IsFiniteSet(rest)
      /\ Cardinality(rest) = Cardinality(Recipients(f)) - f[x]
  <2>1. /\ IsFiniteSet(Recipients(f) \ before)
        /\ Cardinality(Recipients(f) \ before)
             = Cardinality(Recipients(f)) - Cardinality(Recipients(f) \cap before)
    BY FS_Difference, Zenon
  <2>. QED
    BY <1>6, <1>8, <2>1, Zenon DEF rest
<1>10. Cardinality(before) <= Cardinality(Recipients(f))
  BY <1>2, FS_Subset
<1>. HIDE DEF rest
<1>11. /\ IsFiniteSet(Recipients(g))
       /\ Cardinality(Recipients(g)) = Cardinality(rest) + n - Cardinality({})
  <2>1. /\ IsFiniteSet(rest \cup after)
        /\ Cardinality(rest \cup after)
             = Cardinality(rest) + Cardinality(after) - Cardinality(rest \cap after)
    BY <1>6, <1>9, FS_Union, Zenon
  <2>. QED
    BY <1>5, <1>6, <1>7, <2>1, Zenon
<1>12. Cardinality({}) = 0
  BY FS_EmptySet
<1>13. /\ Cardinality(Recipients(f)) \in Nat /\ Cardinality(Recipients(g)) \in Nat
       /\ f[x] \in Nat /\ Cardinality(rest) \in Nat
  BY <1>9, <1>11, FS_CardinalityType
<1>. QED
  BY <1>6, <1>9, <1>10, <1>11, <1>12, <1>13 DEF Total

\* Less of each: less of all.
LEMMA FewerCounted ==
  ASSUME NEW S, NEW f \in [S -> Nat], IsFiniteSet(Recipients(f)),
         NEW g \in [S -> Nat], \A x \in S : g[x] <= f[x]
  PROVE  /\ IsFiniteSet(Recipients(g))
         /\ Total(g) \in Nat /\ Total(f) \in Nat /\ Total(g) <= Total(f)
<1>1. ASSUME NEW e \in Recipients(g) PROVE e \in Recipients(f)
  <2>1. PICK x \in S : e \in {x} \X (1..g[x])
    BY RecipientsAre
  <2>2. 1..g[x] \subseteq 1..f[x]
    OBVIOUS
  <2>3. e \in {x} \X (1..f[x])
    BY <2>1, <2>2
  <2>. QED
    BY <2>3, RecipientsAre
<1>2. Recipients(g) \in SUBSET Recipients(f)
  BY <1>1
<1>. QED
  BY <1>2, FS_Subset, FS_CardinalityType DEF Total

\* A day later the same is counted, if nothing leaves the period.
LEMMA ShiftedCounts ==
  ASSUME NEW f \in [Days -> Nat], IsFiniteSet(Recipients(f)), f[1] = 0
  PROVE  /\ Later(f) \in [Days -> Nat] /\ IsFiniteSet(Recipients(Later(f)))
         /\ Total(Later(f)) = Total(f)
<1>. DEFINE g == Later(f)
            back == [e \in Recipients(f) |-> <<e[1] - 1, e[2]>>]
<1>1. MAIL_KILL_SWITCH_PERIOD \in Nat \ {0}
  BY MailsAssumption
<1>2. /\ g \in [Days -> Nat] /\ g[Today] = 0
      /\ \A d \in Days \ {Today} : d + 1 \in Days /\ g[d] = f[d + 1]
  BY <1>1 DEF Later, Days, Today
<1>. HIDE DEF g
<1>3. ASSUME NEW e \in Recipients(f)
      PROVE  /\ e = <<e[1], e[2]>> /\ e[1] \in Days \ {1} /\ e[2] \in 1..f[e[1]]
             /\ back[e] \in Recipients(g)
  <2>1. PICK d \in Days : e \in {d} \X (1..f[d])
    BY RecipientsAre
  <2>2. e = <<e[1], e[2]>> /\ e[1] = d /\ e[2] \in 1..f[d]
    BY <2>1
  <2>3. d # 1
    BY <2>2
  <2>4. d - 1 \in Days \ {Today} /\ (d - 1) + 1 = d
    BY <1>1, <2>3 DEF Days, Today
  <2>5. g[d - 1] = f[d]
    BY <1>2, <2>4
  <2>6. back[e] \in {d - 1} \X (1..g[d - 1])
    BY <2>2, <2>5
  <2>7. back[e] \in Recipients(g)
    BY <1>2, <2>4, <2>6, RecipientsAre
  <2>. QED
    BY <2>2, <2>3, <2>7
<1>4. back \in Injection(Recipients(f), Recipients(g))
  <2>1. back \in [Recipients(f) -> Recipients(g)]
    BY <1>3
  <2>2. ASSUME NEW a \in Recipients(f), NEW b \in Recipients(f), back[a] = back[b]
        PROVE  a = b
    <3>1. a[1] - 1 = b[1] - 1 /\ a[2] = b[2]
      BY <2>2
    <3>2. a[1] \in Days /\ b[1] \in Days
      BY <1>3, Zenon
    <3>3. Days \subseteq Int
      BY <1>1 DEF Days
    <3>4. \A i, j \in Int : i - 1 = j - 1 => i = j
      OBVIOUS
    <3>5. a[1] = b[1]
      BY <3>1, <3>2, <3>3, <3>4, Zenon
    <3>. QED
      BY <1>3, <3>1, <3>5, Zenon
  <2>. QED
    BY <2>1, <2>2 DEF Injection, IsInjective
<1>5. ASSUME NEW b \in Recipients(g) PROVE \E e \in Recipients(f) : back[e] = b
  <2>1. PICK d \in Days : b \in {d} \X (1..g[d])
    BY <1>2, RecipientsAre
  <2>2. b = <<d, b[2]>> /\ b[2] \in 1..g[d]
    BY <2>1
  <2>3. d # Today
    BY <1>2, <2>2
  <2>4. d + 1 \in Days /\ g[d] = f[d + 1] /\ (d + 1) - 1 = d
    BY <1>1, <1>2, <2>3 DEF Days
  <2>5. <<d + 1, b[2]>> \in {d + 1} \X (1..f[d + 1])
    BY <2>2, <2>4
  <2>6. <<d + 1, b[2]>> \in Recipients(f)
    BY <2>4, <2>5, RecipientsAre
  <2>7. back[<<d + 1, b[2]>>] = <<(d + 1) - 1, b[2]>>
    BY <2>6
  <2>. QED
    BY <2>2, <2>4, <2>6, <2>7
<1>6. back \in Surjection(Recipients(f), Recipients(g))
  BY <1>3, <1>5 DEF Surjection
<1>7. ExistsBijection(Recipients(f), Recipients(g))
  BY <1>4, <1>6 DEF ExistsBijection, Bijection
<1>8. IsFiniteSet(Recipients(g)) /\ Cardinality(Recipients(g)) = Cardinality(Recipients(f))
  BY <1>7, FS_Bijection
<1>. QED
  BY <1>2, <1>8 DEF g, Total

-----------------------------------------------------------------------------
(* The mails: how often one is sent.                                       *)

Mail == [step : {"none", "answered", "queued", "check", "send", "log"},
         size : Nat, tries : Nat, delivered : Nat, cut : Nat]

\* A mail that waits to be sent was sent before only where it was cut off, and
\* not in this run.
SoundMail(r) ==
  /\ r.size <= MaxRecipients /\ r.tries <= MAX_TRIES
  /\ r.delivered <= r.cut + (IF r.step = "log" THEN 1 ELSE 0)
  /\ r.delivered + (IF r.step \in {"check", "send"} THEN 1 ELSE 0) <= r.tries

MailInv ==
  /\ WorkerOK
  /\ mail \in [Mails -> Mail]
  /\ \A m \in Mails : SoundMail(mail[m])
  /\ IsFiniteSet(Running) /\ Cardinality(Running) <= parallel

\* The mail's place is free.
LEMMA FreePlace ==
  /\ NoMail \in Mail /\ SoundMail(NoMail)
  /\ NoMail.step = "none" /\ NoMail.size = 0 /\ NoMail.delivered = 0 /\ NoMail.cut = 0
  /\ NoMail.tries = 0
BY WorkerAssumption, MailsAssumption DEF NoMail, Mail, SoundMail

LEMMA MailInitInv ==
  ASSUME WorkerOK, MailsInit
  PROVE  MailInv
<1>1. \A m \in Mails : mail[m] = NoMail
  BY DEF MailsInit
<1>2. mail \in [Mails -> Mail]
  BY FreePlace DEF MailsInit
<1>3. \A m \in Mails : SoundMail(mail[m])
  BY <1>1, FreePlace
<1>4. Running = {}
  BY <1>1, FreePlace DEF Running
<1>5. IsFiniteSet(Running) /\ Cardinality(Running) = 0
  BY <1>4, FS_EmptySet
<1>6. 0 <= parallel
  BY DEF WorkerOK
<1>. QED
  BY <1>2, <1>3, <1>5, <1>6 DEF MailInv

\* A mail goes on to be next.
MailGoes(m, next) ==
  /\ next \in Mail /\ SoundMail(next)
  /\ mail' = [mail EXCEPT ![m] = next]
  /\ next.step \in {"check", "send", "log"} => m \in Running \/ Cardinality(Running) < parallel
  /\ UNCHANGED parallel /\ WorkerOK'

LEMMA WorkerStays ==
  ASSUME WorkerOK, Stays, Smoothly \/ Trouble
  PROVE  UNCHANGED parallel /\ WorkerOK'
<1>1. parallel \in 1..2 /\ MaxTroubles[parallel] \in Nat
  BY WorkerAssumption DEF WorkerOK
<1>2. CASE Smoothly
  BY <1>2 DEF WorkerOK, Stays, Smoothly
<1>3. CASE Trouble
  <2>1. troubles \in Nat /\ troubles' \in 0..MaxTroubles[parallel]
    BY <1>1, <1>3 DEF WorkerOK, Trouble
  <2>. QED
    BY <2>1 DEF WorkerOK, Stays
<1>. QED
  BY <1>2, <1>3

\* What a step with one mail keeps.
LEMMA OneMail ==
  ASSUME MailInv, NEW m \in Mails, NEW next, MailGoes(m, next)
  PROVE  MailInv'
<1>1. /\ mail' \in [Mails -> Mail]
      /\ mail'[m] = next /\ \A l \in Mails \ {m} : mail'[l] = mail[l]
  BY DEF MailInv, MailGoes
<1>2. \A l \in Mails : SoundMail(mail'[l])
  BY <1>1 DEF MailInv, MailGoes
<1>3. IsFiniteSet(Running) /\ Cardinality(Running) \in Nat /\ Cardinality(Running) <= parallel
      /\ parallel \in Nat
  BY FS_CardinalityType DEF MailInv, WorkerOK
<1>4. IsFiniteSet(Running') /\ Cardinality(Running') <= parallel
  <2>1. CASE next.step \in {"check", "send", "log"}
    <3>1. Running' = Running \cup {m}
      BY <1>1, <2>1 DEF Running
    <3>2. /\ IsFiniteSet(Running \cup {m})
          /\ Cardinality(Running \cup {m}) =
               IF m \in Running THEN Cardinality(Running) ELSE Cardinality(Running) + 1
      BY <1>3, FS_AddElement
    <3>3. m \in Running \/ Cardinality(Running) < parallel
      BY <2>1 DEF MailGoes
    <3>. QED
      BY <1>3, <3>1, <3>2, <3>3
  <2>2. CASE next.step \notin {"check", "send", "log"}
    <3>1. Running' = Running \ {m}
      BY <1>1, <2>2 DEF Running
    <3>2. /\ IsFiniteSet(Running \ {m})
          /\ Cardinality(Running \ {m}) =
               IF m \in Running THEN Cardinality(Running) - 1 ELSE Cardinality(Running)
      BY <1>3, FS_RemoveElement
    <3>. QED
      BY <1>3, <3>1, <3>2
  <2>. QED
    BY <2>1, <2>2
<1>. QED
  BY <1>1, <1>2, <1>4 DEF MailInv, MailGoes

\* A place that is left.
LEMMA LeaveIs ==
  ASSUME MailInv, NEW m \in Mails, NEW from, Leave(m, from), Stays, Smoothly \/ Trouble
  PROVE  MailGoes(m, NoMail) /\ mail[m].step = from
BY FreePlace, WorkerStays DEF Leave, MailGoes, MailInv

\* A step that changes nothing but where the mail is.
LEMMA StepIs ==
  ASSUME MailInv, NEW m \in Mails, NEW from, NEW to, Stays, Smoothly \/ Trouble,
         \/ from = "answered" /\ to = "queued"
         \/ from = "check" /\ to = "send",
         Step(m, from, to)
  PROVE  \E next : MailGoes(m, next) /\ next.step = to /\ next.size = mail[m].size
<1>. DEFINE next == [mail[m] EXCEPT !.step = to]
<1>1. mail[m] \in Mail /\ SoundMail(mail[m]) /\ mail[m].step = from
  BY DEF MailInv, Step
<1>2. /\ next \in Mail /\ next.step = to /\ next.size = mail[m].size
      /\ next.delivered = mail[m].delivered /\ next.cut = mail[m].cut
      /\ next.tries = mail[m].tries
  BY <1>1 DEF Mail
<1>3. mail' = [mail EXCEPT ![m] = next]
  BY DEF Step, MailInv
<1>. HIDE DEF next
<1>4. /\ mail[m].delivered \in Nat /\ mail[m].cut \in Nat /\ mail[m].tries \in Nat
  BY <1>1 DEF Mail
<1>5. SoundMail(next)
  BY <1>1, <1>2, <1>4 DEF SoundMail
<1>6. to = "send" => m \in Running
  BY <1>1 DEF Running
<1>. QED
  BY <1>2, <1>3, <1>5, <1>6, WorkerStays DEF MailGoes, MailInv

LEMMA AnsweredIs ==
  ASSUME MailInv, NEW m \in Mails, Answered(m)
  PROVE  \E next : MailGoes(m, next) /\ next.step = "answered" /\ mail[m].step = "none"
<1>1. PICK n \in 1..MaxRecipients :
        mail' = [mail EXCEPT ![m] = [NoMail EXCEPT !.step = "answered", !.size = n]]
  BY DEF Answered
<1>. DEFINE next == [NoMail EXCEPT !.step = "answered", !.size = n]
<1>2. n \in Nat /\ n <= MaxRecipients
  BY MailsAssumption
<1>3. /\ next \in Mail /\ next.delivered = 0 /\ next.cut = 0 /\ next.step = "answered"
      /\ next.size = n /\ next.tries = 0
  BY <1>2 DEF NoMail, Mail
<1>4. mail' = [mail EXCEPT ![m] = next] /\ Stays /\ Smoothly /\ mail[m].step = "none"
  BY <1>1 DEF Answered
<1>. HIDE DEF next
<1>5. SoundMail(next)
  BY <1>2, <1>3, WorkerAssumption DEF SoundMail
<1>. QED
  BY <1>3, <1>4, <1>5, WorkerStays DEF MailGoes, MailInv

LEMMA StartIs ==
  ASSUME MailInv, NEW m \in Mails, StartMail(m)
  PROVE  \E next : MailGoes(m, next) /\ next.step \in {"none", "check"} /\ mail[m].step = "queued"
<1>1. Stays /\ Smoothly
  BY DEF StartMail
<1>2. CASE mail[m].tries = MAX_TRIES
  <2>1. Leave(m, "queued")
    BY <1>2 DEF StartMail
  <2>. QED
    BY <1>1, <2>1, LeaveIs, FreePlace
<1>3. CASE mail[m].tries # MAX_TRIES
  <2>. DEFINE next == [mail[m] EXCEPT !.step = "check", !.tries = @ + 1]
  <2>1. mail[m] \in Mail /\ SoundMail(mail[m]) /\ mail[m].step = "queued"
        /\ mail' = [mail EXCEPT ![m] = next]
    BY <1>3 DEF MailInv, StartMail
  <2>2. /\ mail[m].delivered \in Nat /\ mail[m].cut \in Nat /\ mail[m].tries \in Nat
        /\ mail[m].tries + 1 \in Nat
    BY <2>1 DEF Mail
  <2>3. /\ next \in Mail /\ next.step = "check" /\ next.size = mail[m].size
        /\ next.delivered = mail[m].delivered /\ next.cut = mail[m].cut
        /\ next.tries = mail[m].tries + 1
    BY <2>1, <2>2 DEF Mail
  <2>. HIDE DEF next
  <2>4. SoundMail(next)
    BY <1>3, <2>1, <2>2, <2>3, WorkerAssumption DEF SoundMail
  <2>5. Cardinality(Running) < parallel
    BY DEF StartMail
  <2>. QED
    BY <1>1, <2>1, <2>3, <2>4, <2>5, WorkerStays DEF MailGoes, MailInv
<1>. QED
  BY <1>2, <1>3

LEMMA SendIs ==
  ASSUME MailInv, NEW m \in Mails, Send(m)
  PROVE  \E next : MailGoes(m, next) /\ next.step = "log" /\ next.size = mail[m].size
<1>. DEFINE next == [mail[m] EXCEPT !.step = "log", !.delivered = @ + 1]
<1>1. mail[m] \in Mail /\ SoundMail(mail[m]) /\ mail[m].step = "send"
      /\ mail' = [mail EXCEPT ![m] = next] /\ Stays /\ Smoothly
  BY DEF MailInv, Send
<1>2. /\ mail[m].delivered \in Nat /\ mail[m].cut \in Nat /\ mail[m].tries \in Nat
      /\ mail[m].delivered + 1 \in Nat
  BY <1>1 DEF Mail
<1>3. /\ next \in Mail /\ next.step = "log" /\ next.size = mail[m].size
      /\ next.delivered = mail[m].delivered + 1 /\ next.cut = mail[m].cut
      /\ next.tries = mail[m].tries
  BY <1>1, <1>2 DEF Mail
<1>. HIDE DEF next
<1>4. SoundMail(next)
  BY <1>1, <1>2, <1>3 DEF SoundMail
<1>5. m \in Running
  BY <1>1 DEF Running
<1>. QED
  BY <1>1, <1>3, <1>4, <1>5, WorkerStays DEF MailGoes, MailInv

LEMMA WorkerDownIs ==
  ASSUME MailInv, MailWorkerDown
  PROVE  /\ UNCHANGED parallel /\ troubles' = troubles + 1 /\ KeepsCounts
         /\ Running' = {} /\ MailInv'
<1>1. WorkerOK' /\ UNCHANGED parallel /\ troubles' = troubles + 1
  <2>1. parallel \in 1..2 /\ MaxTroubles[parallel] \in Nat
    BY WorkerAssumption DEF MailInv, WorkerOK
  <2>2. troubles \in Nat /\ troubles < MaxTroubles[parallel] /\ troubles' = troubles + 1
    BY TroublesAreNat DEF MailInv, MailWorkerDown, GoesDown, Trouble
  <2>3. up' = FALSE /\ parallel' = parallel
    BY Zenon DEF MailWorkerDown, GoesDown
  <2>4. troubles' \in 0..MaxTroubles[parallel]
    BY <2>1, <2>2
  <2>. QED
    BY <2>1, <2>2, <2>3, <2>4 DEF WorkerOK
<1>2. \A m \in Mails : mail[m] \in Mail /\ SoundMail(mail[m])
  BY DEF MailInv
<1>3. ASSUME NEW m \in Mails
      PROVE  /\ mail'[m] \in Mail /\ SoundMail(mail'[m])
             /\ mail'[m].step \notin {"check", "send", "log"}
  <2>1. CASE m \in Running
    <3>. DEFINE next == [mail[m] EXCEPT !.step = "queued", !.cut = @ + 1]
    <3>1. mail'[m] = next
      BY <2>1 DEF MailWorkerDown
    <3>2. /\ mail[m].delivered \in Nat /\ mail[m].cut \in Nat /\ mail[m].tries \in Nat
          /\ mail[m].cut + 1 \in Nat
      BY <1>2 DEF Mail
    <3>3. /\ next \in Mail /\ next.step = "queued" /\ next.size = mail[m].size
          /\ next.delivered = mail[m].delivered /\ next.cut = mail[m].cut + 1
          /\ next.tries = mail[m].tries
      BY <1>2, <3>2 DEF Mail
    <3>. HIDE DEF next
    <3>4. SoundMail(next)
      BY <1>2, <3>2, <3>3 DEF SoundMail
    <3>. QED
      BY <3>1, <3>3, <3>4
  <2>2. CASE m \notin Running
    BY <1>2, <2>2 DEF MailWorkerDown, Running
  <2>. QED
    BY <2>1, <2>2
<1>4. mail' \in [Mails -> Mail]
  <2>1. mail' = [m \in Mails |-> mail'[m]]
    BY DEF MailWorkerDown
  <2>. QED
    BY <1>3, <2>1
<1>5. Running' = {}
  BY <1>3 DEF Running
<1>6. IsFiniteSet(Running') /\ Cardinality(Running') = 0
  BY <1>5, FS_EmptySet
<1>7. 0 <= parallel'
  BY <1>1 DEF WorkerOK
<1>. QED
  BY <1>1, <1>3, <1>4, <1>5, <1>6, <1>7 DEF MailInv, MailWorkerDown

-----------------------------------------------------------------------------
(* The mails: what the kill switch has not counted.                        *)

\* The recipients of the mails that have come to step.
Sizes(step) == [m \in Mails |-> IF mail[m].step = step THEN mail[m].size ELSE 0]

\* What is in the period for another k days at least.
From(recipients, k) == [d \in Days |-> IF d >= k THEN recipients[d] ELSE 0]

\* For the recipients of the jobs that run at a time.
Room == parallel * MaxRecipients

Lost == Room * troubles

\* What mails reached and no row tells is in the mails whose row is being
\* written, and was lost with a trouble; the mails that the switch has let
\* pass find room beside what it had counted.
Counted(rows, got, logged, sending, lost, room) ==
  /\ rows \in [Days -> Nat] /\ IsFiniteSet(Recipients(rows))
  /\ got \in [Days -> Nat] /\ IsFiniteSet(Recipients(got))
  /\ \A k \in Nat \ {0} : Total(From(got, k)) <= Total(From(rows, k)) + logged + lost
  /\ Total(got) + sending < MAIL_KILL_SWITCH_THRESHOLD + lost + room

CountInv ==
  Counted(sent_emails, reached, Total(Sizes("log")), Total(Sizes("send")), Lost, Room)

LEMMA RoomIs ==
  ASSUME WorkerOK
  PROVE  /\ Room \in Nat /\ MaxRecipients <= Room /\ 0 < Room /\ Lost \in Nat
         /\ Room * (1 + troubles) = Lost + Room
         /\ troubles = 0 => Lost = 0
<1>1. parallel \in 1..2 /\ MaxRecipients \in Nat \ {0} /\ troubles \in Nat
  BY TroublesAreNat, MailsAssumption DEF WorkerOK
<1>2. Room \in Nat /\ MaxRecipients <= Room /\ 0 < Room
  <2>1. CASE parallel = 1
    BY <1>1, <2>1 DEF Room
  <2>2. CASE parallel = 2
    BY <1>1, <2>2 DEF Room
  <2>. QED
    BY <1>1, <2>1, <2>2
<1>3. \A a, b \in Nat : a * b \in Nat /\ a * (1 + b) = a * b + a /\ a * 0 = 0
  OBVIOUS
<1>. HIDE DEF Room
<1>. QED
  BY <1>1, <1>2, <1>3 DEF Lost

LEMMA LostMoves ==
  ASSUME WorkerOK, UNCHANGED parallel, Smoothly \/ Trouble
  PROVE  /\ Room' = Room
         /\ Lost' = Lost \/ Lost' = Lost + Room
         /\ Smoothly => Lost' = Lost
         /\ Trouble => Lost' = Lost + Room
<1>1. Room' = Room
  BY DEF Room
<1>2. Room \in Nat /\ troubles \in Nat
  BY RoomIs, TroublesAreNat
<1>3. \A a, b \in Nat : a * (b + 1) = a * b + a
  OBVIOUS
<1>4. Lost' = Room * troubles'
  BY <1>1 DEF Lost
<1>. HIDE DEF Room
<1>5. Trouble => Lost' = Lost + Room
  BY <1>2, <1>3, <1>4 DEF Trouble, Lost
<1>6. Smoothly => Lost' = Lost
  BY <1>4 DEF Smoothly, Lost
<1>. QED
  BY <1>1, <1>5, <1>6

\* No more than the jobs that run have recipients.
LEMMA RunBounded ==
  ASSUME MailInv
  PROVE  /\ Sizes("log") \in [Mails -> Nat] /\ IsFiniteSet(Recipients(Sizes("log")))
         /\ Sizes("send") \in [Mails -> Nat] /\ IsFiniteSet(Recipients(Sizes("send")))
         /\ Total(Sizes("log")) \in Nat /\ Total(Sizes("send")) \in Nat
         /\ Total(Sizes("log")) + Total(Sizes("send")) <= Room
<1>. DEFINE logs == Recipients(Sizes("log"))
            sends == Recipients(Sizes("send"))
            all == Running \X (1..MaxRecipients)
<1>1. \A m \in Mails : mail[m].size \in Nat /\ mail[m].size <= MaxRecipients
  BY DEF MailInv, Mail, SoundMail
<1>2. MaxRecipients \in Nat
  BY MailsAssumption
<1>3. ASSUME NEW s \in {"log", "send"}
      PROVE  /\ Sizes(s) \in [Mails -> Nat]
             /\ \A e \in Recipients(Sizes(s)) : e \in all /\ mail[e[1]].step = s
  <2>1. Sizes(s) \in [Mails -> Nat]
    BY <1>1 DEF Sizes
  <2>2. ASSUME NEW e \in Recipients(Sizes(s))
        PROVE  e \in all /\ mail[e[1]].step = s
    <3>1. PICK m \in Mails : e \in {m} \X (1..Sizes(s)[m])
      BY <2>1, RecipientsAre
    <3>2. mail[m].step = s /\ Sizes(s)[m] = mail[m].size
      BY <3>1 DEF Sizes
    <3>3. m \in Running
      BY <3>2 DEF Running
    <3>4. 1..mail[m].size \subseteq 1..MaxRecipients
      BY <1>1, <1>2
    <3>. QED
      BY <3>1, <3>2, <3>3, <3>4
  <2>. QED
    BY <2>1, <2>2
<1>4. IsFiniteSet(Running) /\ Cardinality(Running) \in Nat /\ Cardinality(Running) <= parallel
  BY FS_CardinalityType DEF MailInv
<1>5. IsFiniteSet(1..MaxRecipients) /\ Cardinality(1..MaxRecipients) = MaxRecipients
  <2>1. Cardinality(1..MaxRecipients) = IF 1 > MaxRecipients THEN 0 ELSE MaxRecipients - 1 + 1
    BY <1>2, FS_Interval
  <2>. QED
    BY <1>2, <2>1, FS_Interval
<1>6. IsFiniteSet(all) /\ Cardinality(all) = Cardinality(Running) * MaxRecipients
  <2>1. /\ IsFiniteSet(Running \X (1..MaxRecipients))
        /\ Cardinality(Running \X (1..MaxRecipients))
             = Cardinality(Running) * Cardinality(1..MaxRecipients)
    BY <1>4, <1>5, FS_Product, Zenon
  <2>. QED
    BY <1>5, <2>1, Zenon
<1>7. Cardinality(all) <= Room
  <2>1. parallel \in 1..2
    BY DEF MailInv, WorkerOK
  <2>2. CASE Cardinality(Running) = 0
    BY <1>2, <1>6, <2>1, <2>2, RoomIs DEF MailInv
  <2>3. CASE Cardinality(Running) = 1
    BY <1>2, <1>6, <2>3, RoomIs DEF MailInv
  <2>4. CASE Cardinality(Running) = 2
    <3>1. parallel = 2
      BY <1>4, <2>1, <2>4
    <3>. QED
      BY <1>2, <1>6, <2>4, <3>1 DEF Room
  <2>. QED
    BY <1>4, <2>1, <2>2, <2>3, <2>4
<1>8. logs \subseteq all /\ sends \subseteq all /\ logs \cap sends = {}
  BY <1>3
<1>. HIDE DEF all
<1>9. IsFiniteSet(logs) /\ IsFiniteSet(sends)
  BY <1>6, <1>8, FS_Subset, Zenon
<1>10. /\ IsFiniteSet(logs \cup sends)
       /\ Cardinality(logs \cup sends)
            = Cardinality(logs) + Cardinality(sends) - Cardinality(logs \cap sends)
  BY <1>9, FS_Union, Zenon
<1>11. Cardinality(logs \cap sends) = 0
  BY <1>8, FS_EmptySet, Zenon
<1>12. Cardinality(logs \cup sends) <= Cardinality(all)
  <2>1. logs \cup sends \in SUBSET all
    BY <1>8
  <2>. QED
    BY <1>6, <2>1, FS_Subset, Zenon
<1>13. /\ Cardinality(logs) \in Nat /\ Cardinality(sends) \in Nat
       /\ Cardinality(logs \cup sends) \in Nat /\ Cardinality(all) \in Nat
  BY <1>6, <1>9, <1>10, FS_CardinalityType, Zenon
<1>14. Room \in Nat
  BY RoomIs DEF MailInv
<1>15. Cardinality(logs) + Cardinality(sends) <= Room
  <2>. HIDE DEF logs, sends
  <2>. QED
    BY <1>7, <1>10, <1>11, <1>12, <1>13, <1>14
<1>. QED
  BY <1>3, <1>9, <1>13, <1>15 DEF Total

LEMMA FromIs ==
  ASSUME NEW f \in [Days -> Nat], IsFiniteSet(Recipients(f)), NEW k \in Nat \ {0}
  PROVE  /\ From(f, k) \in [Days -> Nat] /\ IsFiniteSet(Recipients(From(f, k)))
         /\ Total(From(f, k)) \in Nat /\ Total(From(f, k)) <= Total(f) /\ Total(f) \in Nat
         /\ From(f, 1) = f
<1>1. Days \subseteq Nat /\ \A d \in Days : d >= 1
  BY MailsAssumption DEF Days
<1>2. From(f, k) \in [Days -> Nat] /\ \A d \in Days : From(f, k)[d] <= f[d]
  BY <1>1 DEF From
<1>3. From(f, 1) = f
  BY <1>1 DEF From
<1>. HIDE DEF From
<1>. QED
  BY <1>2, <1>3, FewerCounted

\* One more row, or mail, of today.
LEMMA NoneLeft ==
  ASSUME NEW f \in [Days -> Nat], NEW k \in Nat \ {0}, ~(k <= Today)
  PROVE  Total(From(f, k)) = 0
<1>1. Today \in Nat /\ Days \subseteq Nat /\ \A d \in Days : d <= Today
  BY MailsAssumption DEF Days, Today
<1>2. \A d \in Days : From(f, k)[d] = 0
  BY <1>1 DEF From
<1>3. From(f, k) \in [Days -> Nat]
  BY DEF From
<1>. QED
  BY <1>2, <1>3, NoneCounted

Added(f, n) == [f EXCEPT ![Today] = @ + n]

LEMMA AddedIs ==
  ASSUME NEW f \in [Days -> Nat], NEW n \in Nat
  PROVE  /\ Today \in Days /\ f[Today] \in Nat /\ f[Today] + n \in Nat
         /\ Added(f, n) = With(f, Today, f[Today] + n) /\ Added(f, n) \in [Days -> Nat]
<1>1. Today \in Days
  BY MailsAssumption DEF Days, Today
<1>2. f[Today] + n \in Nat
  BY <1>1
<1>. QED
  BY <1>1, <1>2 DEF Added, With

LEMMA MoreToday ==
  ASSUME NEW f \in [Days -> Nat], IsFiniteSet(Recipients(f)), NEW n \in Nat,
         NEW g, g = Added(f, n)
  PROVE  /\ g \in [Days -> Nat] /\ IsFiniteSet(Recipients(g))
         /\ Total(g) = Total(f) + n
<1>. DEFINE more == f[Today] + n
<1>1. /\ Today \in Days /\ f[Today] \in Nat /\ more \in Nat
      /\ g = With(f, Today, more) /\ g \in [Days -> Nat]
  BY AddedIs
<1>. HIDE DEF more
<1>2. /\ IsFiniteSet(Recipients(g)) /\ Total(f) \in Nat
      /\ Total(g) = Total(f) - f[Today] + more
  BY <1>1, Replaced, Zenon
<1>. QED
  BY <1>1, <1>2 DEF more

LEMMA MoreFrom ==
  ASSUME NEW f \in [Days -> Nat], IsFiniteSet(Recipients(f)), NEW n \in Nat,
         NEW g, g = Added(f, n), NEW k \in Nat \ {0}
  PROVE  Total(From(g, k)) = Total(From(f, k)) + (IF k <= Today THEN n ELSE 0)
<1>. DEFINE more == f[Today] + n
            before == From(f, k)
            after == From(g, k)
<1>1. /\ Today \in Days /\ f[Today] \in Nat /\ more \in Nat
      /\ g = With(f, Today, more) /\ g \in [Days -> Nat]
  BY AddedIs
<1>2. Today \in Nat /\ Days \subseteq Nat
  BY MailsAssumption DEF Days, Today
<1>3. before \in [Days -> Nat] /\ IsFiniteSet(Recipients(before)) /\ Total(before) \in Nat
  BY FromIs
<1>4. CASE k <= Today
  <2>. HIDE DEF more
  <2>1. before[Today] = f[Today] /\ after = With(before, Today, more)
    BY <1>1, <1>2, <1>4 DEF From, With
  <2>. HIDE DEF before, after
  <2>2. Total(after) = Total(before) - before[Today] + more
    BY <1>1, <1>3, <2>1, Replaced
  <2>3. Total(after) = Total(before) + n
    BY <1>1, <1>3, <2>1, <2>2 DEF more
  <2>. QED
    BY <1>4, <2>3 DEF before, after
<1>5. CASE ~(k <= Today)
  <2>1. Total(after) = 0 /\ Total(before) = 0
    BY <1>1, <1>5, NoneLeft
  <2>. QED
    BY <1>5, <2>1
<1>. QED
  BY <1>4, <1>5

\* A day later, what is left.
LEMMA DayLater ==
  ASSUME NEW f \in [Days -> Nat], IsFiniteSet(Recipients(f))
  PROVE  /\ Later(f) \in [Days -> Nat] /\ IsFiniteSet(Recipients(Later(f)))
         /\ Total(Later(f)) <= Total(f) /\ Total(Later(f)) \in Nat /\ Total(f) \in Nat
         /\ \A k \in Nat \ {0} : Total(From(Later(f), k)) = Total(From(f, k + 1))
<1>1. /\ Today \in Nat /\ Days \subseteq Nat /\ 1 \in Days /\ \A d \in Days : d <= Today /\ d >= 1
      /\ \A d \in Days \ {Today} : d + 1 \in Days
  BY MailsAssumption DEF Days, Today
<1>2. Later(f) \in [Days -> Nat]
  BY <1>1 DEF Later
<1>3. ASSUME NEW k \in Nat \ {0}
      PROVE  /\ Later(From(f, k + 1)) = From(Later(f), k)
             /\ IsFiniteSet(Recipients(From(Later(f), k)))
             /\ Total(From(Later(f), k)) = Total(From(f, k + 1))
  <2>1. Later(From(f, k + 1)) = From(Later(f), k)
    <3>1. ASSUME NEW d \in Days
          PROVE  Later(From(f, k + 1))[d] = From(Later(f), k)[d]
      BY <1>1 DEF Later, From
    <3>. QED
      BY <3>1 DEF Later, From
  <2>2. /\ From(f, k + 1) \in [Days -> Nat] /\ IsFiniteSet(Recipients(From(f, k + 1)))
    BY FromIs
  <2>3. From(f, k + 1)[1] = 0
    BY <1>1 DEF From
  <2>. QED
    BY <2>1, <2>2, <2>3, ShiftedCounts
<1>4. From(Later(f), 1) = Later(f)
  BY <1>1, <1>2 DEF From
<1>5. IsFiniteSet(Recipients(Later(f))) /\ Total(Later(f)) = Total(From(f, 2))
  <2>1. 1 \in Nat \ {0} /\ 1 + 1 = 2
    OBVIOUS
  <2>. QED
    BY <1>3, <1>4, <2>1
<1>6. Total(From(f, 2)) <= Total(f) /\ Total(From(f, 2)) \in Nat /\ Total(f) \in Nat
  <2>1. 2 \in Nat \ {0}
    OBVIOUS
  <2>. QED
    BY <2>1, FromIs
<1>. QED
  BY <1>2, <1>3, <1>5, <1>6

\* What else is lost makes up for what is no more in the mails.
LEMMA CountedStill ==
  ASSUME NEW rows, NEW got, NEW logged \in Nat, NEW sending \in Nat, NEW lost \in Nat,
         NEW room \in Nat, Counted(rows, got, logged, sending, lost, room),
         NEW logged2 \in Nat, NEW sending2 \in Nat, NEW lost2 \in Nat,
         logged + lost <= logged2 + lost2, sending2 + lost <= sending + lost2
  PROVE  Counted(rows, got, logged2, sending2, lost2, room)
<1>1. /\ rows \in [Days -> Nat] /\ IsFiniteSet(Recipients(rows))
      /\ got \in [Days -> Nat] /\ IsFiniteSet(Recipients(got))
  BY DEF Counted
<1>2. ASSUME NEW k \in Nat \ {0}
      PROVE  Total(From(got, k)) <= Total(From(rows, k)) + logged2 + lost2
  <2>1. Total(From(got, k)) \in Nat /\ Total(From(rows, k)) \in Nat
    BY <1>1, FromIs
  <2>2. Total(From(got, k)) <= Total(From(rows, k)) + logged + lost
    BY DEF Counted
  <2>. QED
    BY <2>1, <2>2
<1>3. Total(got) + sending2 < MAIL_KILL_SWITCH_THRESHOLD + lost2 + room
  <2>1. 1 \in Nat \ {0}
    OBVIOUS
  <2>2. Total(got) \in Nat
    BY <1>1, <2>1, FromIs
  <2>3. Total(got) + sending < MAIL_KILL_SWITCH_THRESHOLD + lost + room
    BY DEF Counted
  <2>. QED
    BY <2>2, <2>3, MailsAssumption
<1>. QED
  BY <1>1, <1>2, <1>3 DEF Counted

\* A mail that goes on takes its recipients along.
LEMMA SizesMove ==
  ASSUME MailInv, NEW m \in Mails, NEW next, MailGoes(m, next), NEW s \in {"log", "send"}
  PROVE  LET old == IF mail[m].step = s THEN mail[m].size ELSE 0
             new == IF next.step = s THEN next.size ELSE 0
         IN  /\ old \in Nat /\ new \in Nat /\ old <= Total(Sizes(s))
             /\ Total(Sizes(s)') \in Nat /\ Total(Sizes(s)') = Total(Sizes(s)) - old + new
<1>. DEFINE old == IF mail[m].step = s THEN mail[m].size ELSE 0
            new == IF next.step = s THEN next.size ELSE 0
            f == Sizes(s)
            g == Sizes(s)'
<1>1. f \in [Mails -> Nat] /\ IsFiniteSet(Recipients(f))
  BY RunBounded
<1>2. mail \in [Mails -> Mail] /\ next \in Mail /\ mail' = [mail EXCEPT ![m] = next]
  BY DEF MailInv, MailGoes
<1>3. f[m] = old /\ old \in Nat /\ new \in Nat
  BY <1>2 DEF Sizes, Mail
<1>4. g = With(f, m, new)
  BY <1>2 DEF Sizes, With
<1>. HIDE DEF old, new, f, g
<1>5. /\ Total(f) \in Nat /\ Total(g) \in Nat
      /\ f[m] <= Total(f) /\ Total(g) = Total(f) - f[m] + new
  BY <1>1, <1>3, <1>4, Replaced, Zenon
<1>. QED
  BY <1>3, <1>5 DEF old, new, f, g

LEMMA CountFacts ==
  ASSUME MailInv, CountInv
  PROVE  /\ sent_emails \in [Days -> Nat] /\ IsFiniteSet(Recipients(sent_emails))
         /\ reached \in [Days -> Nat] /\ IsFiniteSet(Recipients(reached))
         /\ Total(Sizes("log")) \in Nat /\ Total(Sizes("send")) \in Nat
         /\ Lost \in Nat /\ Room \in Nat
BY RunBounded, RoomIs DEF MailInv, CountInv, Counted

\* A step that neither sends nor logs: a mail whose row was being written is
\* left with a trouble only.
LEMMA CountMoves ==
  ASSUME MailInv, CountInv, NEW m \in Mails, NEW next, MailGoes(m, next), KeepsCounts,
         next.step \notin {"log", "send"}, Smoothly \/ Trouble,
         mail[m].step = "log" => Trouble
  PROVE  CountInv'
<1>1. /\ Total(Sizes("log")) \in Nat /\ Total(Sizes("send")) \in Nat
      /\ Total(Sizes("log")) + Total(Sizes("send")) <= Room
  BY RunBounded
<1>2. /\ Lost \in Nat /\ Room \in Nat
      /\ Room' = Room /\ (Lost' = Lost \/ Lost' = Lost + Room)
      /\ mail[m].step = "log" => Lost' = Lost + Room
  BY RoomIs, LostMoves DEF MailInv, MailGoes
<1>3. /\ Total(Sizes("log")') \in Nat
      /\ Total(Sizes("log")) + Lost <= Total(Sizes("log")') + Lost'
  <2>1. CASE mail[m].step = "log"
    <3>1. Total(Sizes("log")') \in Nat
      BY SizesMove
    <3>. QED
      BY <1>1, <1>2, <2>1, <3>1
  <2>2. CASE mail[m].step # "log"
    <3>1. Total(Sizes("log")') \in Nat /\ Total(Sizes("log")') = Total(Sizes("log")) - 0 + 0
      BY <2>2, SizesMove
    <3>. QED
      BY <1>1, <1>2, <3>1
  <2>. QED
    BY <2>1, <2>2
<1>4. /\ Total(Sizes("send")') \in Nat
      /\ Total(Sizes("send")') + Lost <= Total(Sizes("send")) + Lost'
  <2>. DEFINE old == IF mail[m].step = "send" THEN mail[m].size ELSE 0
  <2>1. /\ old \in Nat /\ Total(Sizes("send")') \in Nat
        /\ Total(Sizes("send")') = Total(Sizes("send")) - old + 0
    BY SizesMove
  <2>. HIDE DEF old
  <2>. QED
    BY <1>1, <1>2, <2>1
<1>5. Lost' \in Nat
  BY <1>2
<1>. DEFINE logged == Total(Sizes("log"))
            sending == Total(Sizes("send"))
            logged2 == Total(Sizes("log")')
            sending2 == Total(Sizes("send")')
            lost == Lost
            lost2 == Lost'
            room == Room
<1>6. Counted(sent_emails, reached, logged, sending, lost, room)
  BY DEF CountInv
<1>7. /\ logged \in Nat /\ sending \in Nat /\ lost \in Nat /\ room \in Nat
      /\ logged2 \in Nat /\ sending2 \in Nat /\ lost2 \in Nat
      /\ logged + lost <= logged2 + lost2 /\ sending2 + lost <= sending + lost2
  BY <1>1, <1>2, <1>3, <1>4, <1>5
<1>. HIDE DEF logged, sending, logged2, sending2, lost, lost2, room
<1>8. Counted(sent_emails, reached, logged2, sending2, lost2, room)
  BY <1>6, <1>7, CountedStill
<1>9. sent_emails' = sent_emails /\ reached' = reached
  BY DEF KeepsCounts
<1>10. Counted(sent_emails', reached', Total(Sizes("log")'), Total(Sizes("send")'), Lost', Room')
  BY <1>2, <1>8, <1>9, Zenon DEF logged2, sending2, lost2, room
<1>. QED
  BY <1>10 DEF CountInv

LEMMA ThresholdIs == MAIL_KILL_SWITCH_THRESHOLD \in Nat /\ 1 \in Nat \ {0} /\ Today \in Nat
BY MailsAssumption DEF Today

\* A mail is sent: what the switch has let pass is reached.
LEMMA CountedSend ==
  ASSUME NEW rows, NEW got, NEW logged \in Nat, NEW sending \in Nat, NEW lost \in Nat,
         NEW room \in Nat, Counted(rows, got, logged, sending, lost, room),
         NEW n \in Nat, n <= sending, NEW got2, got2 = Added(got, n)
  PROVE  Counted(rows, got2, logged + n, sending - n, lost, room)
<1>1. /\ rows \in [Days -> Nat] /\ IsFiniteSet(Recipients(rows))
      /\ got \in [Days -> Nat] /\ IsFiniteSet(Recipients(got))
  BY DEF Counted
<1>2. /\ got2 \in [Days -> Nat] /\ IsFiniteSet(Recipients(got2))
  BY <1>1, MoreToday
<1>3. Total(got2) = Total(got) + n
  BY <1>1, MoreToday
<1>4. ASSUME NEW k \in Nat \ {0}
      PROVE  Total(From(got2, k)) = Total(From(got, k)) + (IF k <= Today THEN n ELSE 0)
  BY <1>1, MoreFrom
<1>5. ASSUME NEW k \in Nat \ {0}
      PROVE  Total(From(got2, k)) <= Total(From(rows, k)) + (logged + n) + lost
  <2>1. Total(From(got, k)) \in Nat /\ Total(From(rows, k)) \in Nat
    BY <1>1, FromIs
  <2>2. Total(From(got, k)) <= Total(From(rows, k)) + logged + lost
    BY DEF Counted
  <2>3. /\ k <= Today => Total(From(got2, k)) = Total(From(got, k)) + n
        /\ ~(k <= Today) => Total(From(got2, k)) = Total(From(got, k)) + 0
    BY <1>4, Zenon
  <2>. QED
    BY <2>1, <2>2, <2>3
<1>6. Total(got) \in Nat
  BY <1>1, ThresholdIs, FromIs
<1>7. Total(got2) + (sending - n) < MAIL_KILL_SWITCH_THRESHOLD + lost + room
  <2>1. Total(got) + sending < MAIL_KILL_SWITCH_THRESHOLD + lost + room
    BY DEF Counted
  <2>. QED
    BY <1>3, <1>6, <2>1, ThresholdIs
<1>. QED
  BY <1>1, <1>2, <1>5, <1>7 DEF Counted

\* Its row is written.
LEMMA CountedLog ==
  ASSUME NEW rows, NEW got, NEW logged \in Nat, NEW sending \in Nat, NEW lost \in Nat,
         NEW room \in Nat, Counted(rows, got, logged, sending, lost, room),
         NEW n \in Nat, n <= logged, NEW rows2, rows2 = Added(rows, n)
  PROVE  Counted(rows2, got, logged - n, sending, lost, room)
<1>1. /\ rows \in [Days -> Nat] /\ IsFiniteSet(Recipients(rows))
      /\ got \in [Days -> Nat] /\ IsFiniteSet(Recipients(got))
  BY DEF Counted
<1>2. /\ rows2 \in [Days -> Nat] /\ IsFiniteSet(Recipients(rows2))
  BY <1>1, MoreToday
<1>3. ASSUME NEW k \in Nat \ {0}
      PROVE  Total(From(rows2, k)) = Total(From(rows, k)) + (IF k <= Today THEN n ELSE 0)
  BY <1>1, MoreFrom
<1>4. ASSUME NEW k \in Nat \ {0}
      PROVE  Total(From(got, k)) <= Total(From(rows2, k)) + (logged - n) + lost
  <2>1. Total(From(got, k)) \in Nat /\ Total(From(rows, k)) \in Nat
    BY <1>1, FromIs
  <2>4. /\ k <= Today => Total(From(rows2, k)) = Total(From(rows, k)) + n
        /\ ~(k <= Today) => Total(From(rows2, k)) = Total(From(rows, k)) + 0
    BY <1>3, Zenon
  <2>2. CASE k <= Today
    <3>1. Total(From(got, k)) <= Total(From(rows, k)) + logged + lost
      BY DEF Counted
    <3>. QED
      BY <2>1, <2>2, <2>4, <3>1
  <2>3. CASE ~(k <= Today)
    <3>1. Total(From(got, k)) = 0
      BY <1>1, <2>3, NoneLeft
    <3>. QED
      BY <2>1, <2>3, <2>4, <3>1
  <2>. QED
    BY <2>2, <2>3
<1>5. Total(got) + sending < MAIL_KILL_SWITCH_THRESHOLD + lost + room
  BY DEF Counted
<1>. QED
  BY <1>1, <1>2, <1>4, <1>5 DEF Counted

\* A day passes.
LEMMA CountedDay ==
  ASSUME NEW rows, NEW got, NEW logged \in Nat, NEW sending \in Nat, NEW lost \in Nat,
         NEW room \in Nat, Counted(rows, got, logged, sending, lost, room)
  PROVE  Counted(Later(rows), Later(got), logged, sending, lost, room)
<1>1. /\ rows \in [Days -> Nat] /\ IsFiniteSet(Recipients(rows))
      /\ got \in [Days -> Nat] /\ IsFiniteSet(Recipients(got))
  BY DEF Counted
<1>2. /\ Later(rows) \in [Days -> Nat] /\ IsFiniteSet(Recipients(Later(rows)))
      /\ Later(got) \in [Days -> Nat] /\ IsFiniteSet(Recipients(Later(got)))
  BY <1>1, DayLater
<1>3. ASSUME NEW k \in Nat \ {0}
      PROVE  Total(From(Later(got), k)) <= Total(From(Later(rows), k)) + logged + lost
  <2>1. Total(From(Later(got), k)) = Total(From(got, k + 1))
    BY <1>1, DayLater
  <2>2. Total(From(Later(rows), k)) = Total(From(rows, k + 1))
    BY <1>1, DayLater
  <2>3. k + 1 \in Nat \ {0}
    OBVIOUS
  <2>4. Total(From(got, k + 1)) <= Total(From(rows, k + 1)) + logged + lost
    BY <2>3 DEF Counted
  <2>. QED
    BY <2>1, <2>2, <2>4
<1>4. Total(Later(got)) + sending < MAIL_KILL_SWITCH_THRESHOLD + lost + room
  <2>1. Total(Later(got)) <= Total(got) /\ Total(Later(got)) \in Nat /\ Total(got) \in Nat
    BY <1>1, DayLater
  <2>2. Total(got) + sending < MAIL_KILL_SWITCH_THRESHOLD + lost + room
    BY DEF Counted
  <2>. QED
    BY <2>1, <2>2, ThresholdIs
<1>. QED
  BY <1>2, <1>3, <1>4 DEF Counted

\* The switch lets a mail pass: what it had not counted finds room.
LEMMA CountedPass ==
  ASSUME NEW rows, NEW got, NEW logged \in Nat, NEW sending \in Nat, NEW lost \in Nat,
         NEW room \in Nat, Counted(rows, got, logged, sending, lost, room),
         Total(rows) < MAIL_KILL_SWITCH_THRESHOLD,
         NEW sending2 \in Nat, logged + sending2 <= room
  PROVE  Counted(rows, got, logged, sending2, lost, room)
<1>1. /\ rows \in [Days -> Nat] /\ IsFiniteSet(Recipients(rows))
      /\ got \in [Days -> Nat] /\ IsFiniteSet(Recipients(got))
  BY DEF Counted
<1>2. Total(got) \in Nat /\ Total(rows) \in Nat /\ From(got, 1) = got /\ From(rows, 1) = rows
  BY <1>1, ThresholdIs, FromIs
<1>3. Total(From(got, 1)) <= Total(From(rows, 1)) + logged + lost
  BY ThresholdIs DEF Counted
<1>4. Total(got) <= Total(rows) + logged + lost
  BY <1>2, <1>3
<1>5. Total(got) + sending2 < MAIL_KILL_SWITCH_THRESHOLD + lost + room
  BY <1>2, <1>4, ThresholdIs
<1>. QED
  BY <1>5 DEF Counted

\* At rest, nothing is counted.
LEMMA CountInit ==
  ASSUME WorkerOK, MailsInit
  PROVE  MailInv /\ CountInv
<1>1. MailInv
  BY MailInitInv
<1>2. \A m \in Mails : mail[m].step = "none"
  BY FreePlace DEF MailsInit
<1>3. Sizes("log") = [m \in Mails |-> 0] /\ Sizes("send") = [m \in Mails |-> 0]
  BY <1>2 DEF Sizes
<1>4. [m \in Mails |-> 0] \in [Mails -> Nat] /\ \A m \in Mails : [l \in Mails |-> 0][m] = 0
  OBVIOUS
<1>5. Total(Sizes("log")) = 0 /\ Total(Sizes("send")) = 0
  BY <1>3, <1>4, NoneCounted
<1>6. /\ sent_emails \in [Days -> Nat] /\ \A d \in Days : sent_emails[d] = 0
      /\ reached \in [Days -> Nat] /\ \A d \in Days : reached[d] = 0
  BY DEF MailsInit
<1>7. IsFiniteSet(Recipients(sent_emails)) /\ IsFiniteSet(Recipients(reached)) /\ Total(reached) = 0
  BY <1>6, NoneCounted
<1>8. ASSUME NEW k \in Nat \ {0}
      PROVE  Total(From(reached, k)) = 0 /\ Total(From(sent_emails, k)) = 0
  <2>1. /\ From(reached, k) \in [Days -> Nat] /\ \A d \in Days : From(reached, k)[d] = 0
        /\ From(sent_emails, k) \in [Days -> Nat] /\ \A d \in Days : From(sent_emails, k)[d] = 0
    BY <1>6 DEF From
  <2>. QED
    BY <2>1, NoneCounted
<1>9. Lost \in Nat /\ Room \in Nat /\ 0 < Room
  BY RoomIs
<1>10. \A k \in Nat \ {0} : Total(From(reached, k)) <= Total(From(sent_emails, k)) + 0 + Lost
  BY <1>8, <1>9
<1>11. Total(reached) + 0 < MAIL_KILL_SWITCH_THRESHOLD + Lost + Room
  BY <1>7, <1>9, ThresholdIs
<1>12. Counted(sent_emails, reached, 0, 0, Lost, Room)
  BY <1>6, <1>7, <1>10, <1>11 DEF Counted
<1>. QED
  BY <1>1, <1>5, <1>12, Zenon DEF CountInv

RunBound ==
  Total(Sizes("log")) + Total(Sizes("send")) <= Room /\ Total(Sizes("send")) \in Nat

LEMMA RunIsBounded == MailInv => RunBound
BY RunBounded DEF RunBound

LEMMA PassCounts ==
  ASSUME MailInv, CountInv, NEW m \in Mails, Pass(m)
  PROVE  MailInv' /\ CountInv'
<1>1. Step(m, "check", "send") /\ Stays /\ Smoothly /\ KeepsCounts /\ ~Active
  BY DEF Pass
<1>2. PICK next : MailGoes(m, next) /\ next.step = "send" /\ next.size = mail[m].size
  BY <1>1, StepIs
<1>3. MailInv'
  BY <1>2, OneMail
<1>4. mail[m].step = "check"
  BY <1>1 DEF Step
<1>5. Total(Sizes("log")') \in Nat /\ Total(Sizes("log")') = Total(Sizes("log")) - 0 + 0
  BY <1>2, <1>4, SizesMove
<1>6. Total(Sizes("log")') + Total(Sizes("send")') <= Room' /\ Total(Sizes("send")') \in Nat
  <2>1. RunBound'
    BY <1>3, RunIsBounded, PTL
  <2>. QED
    BY <2>1 DEF RunBound
<1>7. Room' = Room /\ Lost' = Lost
  BY <1>1, <1>2, LostMoves DEF MailInv, MailGoes
<1>. DEFINE logged == Total(Sizes("log"))
            sending == Total(Sizes("send"))
            sending2 == Total(Sizes("send")')
            lost == Lost
            room == Room
<1>8. Counted(sent_emails, reached, logged, sending, lost, room)
  BY DEF CountInv
<1>9. /\ logged \in Nat /\ sending \in Nat /\ lost \in Nat /\ room \in Nat
      /\ Total(Sizes("log")') = logged /\ sending2 \in Nat /\ logged + sending2 <= room
  BY <1>5, <1>6, <1>7, CountFacts
<1>10. Total(sent_emails) < MAIL_KILL_SWITCH_THRESHOLD
  <2>1. Total(sent_emails) \in Nat
    BY CountFacts, ThresholdIs, FromIs
  <2>. QED
    BY <1>1, <2>1, ThresholdIs DEF Active
<1>. HIDE DEF logged, sending, sending2, lost, room
<1>11. Counted(sent_emails, reached, logged, sending2, lost, room)
  BY <1>8, <1>9, <1>10, CountedPass
<1>12. sent_emails' = sent_emails /\ reached' = reached
  BY <1>1 DEF KeepsCounts
<1>13. Counted(sent_emails', reached', Total(Sizes("log")'), Total(Sizes("send")'), Lost', Room')
  BY <1>7, <1>9, <1>11, <1>12, Zenon DEF sending2, lost, room
<1>. QED
  BY <1>3, <1>13 DEF CountInv

LEMMA SendCounts ==
  ASSUME MailInv, CountInv, NEW m \in Mails, Send(m)
  PROVE  MailInv' /\ CountInv'
<1>1. PICK next : MailGoes(m, next) /\ next.step = "log" /\ next.size = mail[m].size
  BY SendIs
<1>2. MailInv'
  BY <1>1, OneMail
<1>3. /\ mail[m].step = "send" /\ Stays /\ Smoothly /\ sent_emails' = sent_emails
      /\ reached' = Added(reached, mail[m].size)
  BY DEF Send, Added
<1>. DEFINE n == mail[m].size
            logged == Total(Sizes("log"))
            sending == Total(Sizes("send"))
            lost == Lost
            room == Room
<1>4. n \in Nat /\ n <= sending /\ Total(Sizes("send")') = sending - n + 0
  BY <1>1, <1>3, SizesMove
<1>5. Total(Sizes("log")') = logged - 0 + n
  BY <1>1, <1>3, SizesMove
<1>6. Room' = room /\ Lost' = lost
  BY <1>1, <1>3, LostMoves DEF MailInv, MailGoes
<1>7. Counted(sent_emails, reached, logged, sending, lost, room)
  BY DEF CountInv
<1>8. logged \in Nat /\ sending \in Nat /\ lost \in Nat /\ room \in Nat
  BY CountFacts
<1>9. reached' = Added(reached, n)
  BY <1>3
<1>. HIDE DEF n, logged, sending, lost, room
<1>10. Total(Sizes("send")') = sending - n /\ Total(Sizes("log")') = logged + n
  BY <1>4, <1>5, <1>8
<1>11. Counted(sent_emails, reached', logged + n, sending - n, lost, room)
  BY <1>4, <1>7, <1>8, <1>9, CountedSend
<1>12. Counted(sent_emails', reached', Total(Sizes("log")'), Total(Sizes("send")'), Lost', Room')
  BY <1>3, <1>6, <1>10, <1>11, Zenon
<1>. QED
  BY <1>2, <1>12 DEF CountInv

LEMMA LogCounts ==
  ASSUME MailInv, CountInv, NEW m \in Mails, LogSentEmail(m)
  PROVE  MailInv' /\ CountInv'
<1>1. MailGoes(m, NoMail) /\ mail[m].step = "log" /\ NoMail.step = "none"
  BY LeaveIs, FreePlace DEF LogSentEmail
<1>2. MailInv'
  BY <1>1, OneMail
<1>3. /\ Stays /\ Smoothly /\ reached' = reached
      /\ sent_emails' = Added(sent_emails, mail[m].size)
  BY DEF LogSentEmail, Added
<1>. DEFINE n == mail[m].size
            logged == Total(Sizes("log"))
            sending == Total(Sizes("send"))
            lost == Lost
            room == Room
<1>4. n \in Nat /\ n <= logged /\ Total(Sizes("log")') = logged - n + 0
  BY <1>1, SizesMove
<1>5. Total(Sizes("send")') = sending - 0 + 0
  BY <1>1, SizesMove
<1>6. Room' = room /\ Lost' = lost
  BY <1>1, <1>3, LostMoves DEF MailInv, MailGoes
<1>7. Counted(sent_emails, reached, logged, sending, lost, room)
  BY DEF CountInv
<1>8. logged \in Nat /\ sending \in Nat /\ lost \in Nat /\ room \in Nat
  BY CountFacts
<1>9. sent_emails' = Added(sent_emails, n)
  BY <1>3
<1>. HIDE DEF n, logged, sending, lost, room
<1>10. Total(Sizes("send")') = sending /\ Total(Sizes("log")') = logged - n
  BY <1>4, <1>5, <1>8
<1>11. Counted(sent_emails', reached, logged - n, sending, lost, room)
  BY <1>4, <1>7, <1>8, <1>9, CountedLog
<1>12. Counted(sent_emails', reached', Total(Sizes("log")'), Total(Sizes("send")'), Lost', Room')
  BY <1>3, <1>6, <1>10, <1>11, Zenon
<1>. QED
  BY <1>2, <1>12 DEF CountInv

LEMMA WorkerDownCounts ==
  ASSUME MailInv, CountInv, MailWorkerDown
  PROVE  MailInv' /\ CountInv'
<1>1. UNCHANGED parallel /\ troubles' = troubles + 1 /\ KeepsCounts /\ Running' = {} /\ MailInv'
  BY WorkerDownIs
<1>2. Trouble
  BY DEF MailWorkerDown, GoesDown
<1>3. Room' = Room /\ Lost' = Lost + Room
  BY <1>1, <1>2, LostMoves DEF MailInv
<1>4. \A m \in Mails : mail'[m].step \notin {"check", "send", "log"}
  BY <1>1 DEF Running
<1>5. /\ Sizes("log")' \in [Mails -> Nat] /\ \A m \in Mails : Sizes("log")'[m] = 0
      /\ Sizes("send")' \in [Mails -> Nat] /\ \A m \in Mails : Sizes("send")'[m] = 0
  BY <1>4 DEF Sizes
<1>6. Total(Sizes("log")') = 0 /\ Total(Sizes("send")') = 0
  BY <1>5, NoneCounted
<1>. DEFINE logged == Total(Sizes("log"))
            sending == Total(Sizes("send"))
            lost == Lost
            lost2 == Lost + Room
            room == Room
<1>7. Counted(sent_emails, reached, logged, sending, lost, room)
  BY DEF CountInv
<1>8. /\ logged \in Nat /\ sending \in Nat /\ lost \in Nat /\ room \in Nat
      /\ logged + sending <= room
  BY RunBounded, CountFacts
<1>. HIDE DEF logged, sending, lost, room
<1>9. lost2 = lost + room
  BY DEF lost, room
<1>. HIDE DEF lost2
<1>10. lost2 \in Nat /\ logged + lost <= 0 + lost2 /\ 0 + lost <= sending + lost2 /\ 0 \in Nat
  BY <1>8, <1>9
<1>11. Counted(sent_emails, reached, 0, 0, lost2, room)
  BY <1>7, <1>8, <1>10, CountedStill
<1>12. sent_emails' = sent_emails /\ reached' = reached
  BY <1>1 DEF KeepsCounts
<1>13. Counted(sent_emails', reached', Total(Sizes("log")'), Total(Sizes("send")'), Lost', Room')
  BY <1>3, <1>6, <1>11, <1>12, Zenon DEF lost2, room
<1>. QED
  BY <1>1, <1>13 DEF CountInv

LEMMA DayCounts ==
  ASSUME MailInv, CountInv, Day
  PROVE  MailInv' /\ CountInv'
<1>1. /\ mail' = mail /\ parallel' = parallel /\ up' = up /\ troubles' = troubles
      /\ sent_emails' = Later(sent_emails) /\ reached' = Later(reached)
  BY DEF Day, Stays, Smoothly
<1>2. MailInv'
  BY <1>1 DEF MailInv, WorkerOK, Running
<1>3. /\ Sizes("log")' = Sizes("log") /\ Sizes("send")' = Sizes("send")
      /\ Lost' = Lost /\ Room' = Room
  BY <1>1 DEF Sizes, Lost, Room
<1>. DEFINE logged == Total(Sizes("log"))
            sending == Total(Sizes("send"))
            lost == Lost
            room == Room
<1>4. Counted(sent_emails, reached, logged, sending, lost, room)
  BY DEF CountInv
<1>5. logged \in Nat /\ sending \in Nat /\ lost \in Nat /\ room \in Nat
  BY CountFacts
<1>. HIDE DEF logged, sending, lost, room
<1>6. Counted(Later(sent_emails), Later(reached), logged, sending, lost, room)
  BY <1>4, <1>5, CountedDay
<1>7. Counted(sent_emails', reached', Total(Sizes("log")'), Total(Sizes("send")'), Lost', Room')
  BY <1>1, <1>3, <1>6, Zenon DEF logged, sending, lost, room
<1>. QED
  BY <1>2, <1>7 DEF CountInv

LEMMA MailOnItsWay ==
  ASSUME MailInv, CountInv, NEW m \in Mails,
         Answered(m) \/ Enqueue(m) \/ LoseJob(m) \/ WorkOn(m) \/ SendFails(m) \/ LogFails(m)
           \/ Expire(m)
  PROVE  MailInv' /\ CountInv'
<1>1. SUFFICES ASSUME ~Pass(m), ~Send(m), ~LogSentEmail(m)
               PROVE  MailInv' /\ CountInv'
  BY PassCounts, SendCounts, LogCounts
<1>2. ASSUME NEW next, MailGoes(m, next), KeepsCounts, next.step \notin {"log", "send"},
             Smoothly \/ Trouble, mail[m].step = "log" => Trouble
      PROVE  MailInv' /\ CountInv'
  BY <1>2, OneMail, CountMoves
<1>3. CASE Answered(m)
  <2>1. PICK next : MailGoes(m, next) /\ next.step = "answered" /\ mail[m].step = "none"
    BY <1>3, AnsweredIs
  <2>2. KeepsCounts /\ Smoothly
    BY <1>3 DEF Answered
  <2>. QED
    BY <1>2, <2>1, <2>2
<1>4. CASE Enqueue(m)
  <2>1. Step(m, "answered", "queued") /\ Stays /\ KeepsCounts /\ Smoothly
    BY <1>4 DEF Enqueue
  <2>2. PICK next : MailGoes(m, next) /\ next.step = "queued"
    BY <2>1, StepIs
  <2>3. mail[m].step = "answered"
    BY <2>1 DEF Step
  <2>. QED
    BY <1>2, <2>1, <2>2, <2>3
<1>5. CASE StartMail(m)
  <2>1. PICK next : MailGoes(m, next) /\ next.step \in {"none", "check"} /\ mail[m].step = "queued"
    BY <1>5, StartIs
  <2>2. KeepsCounts /\ Smoothly
    BY <1>5 DEF StartMail
  <2>. QED
    BY <1>2, <2>1, <2>2
<1>6. CASE LoseJob(m) \/ SendFails(m) \/ LogFails(m) \/ Expire(m) \/ Suppress(m)
  <2>1. PICK from \in {"answered", "queued", "check", "send", "log"} :
          /\ Leave(m, from) /\ Stays /\ KeepsCounts /\ (Smoothly \/ Trouble)
          /\ from = "log" => Trouble
    BY <1>6 DEF LoseJob, SendFails, LogFails, Expire, Suppress
  <2>2. MailGoes(m, NoMail) /\ mail[m].step = from /\ NoMail.step = "none"
    BY <2>1, LeaveIs, FreePlace
  <2>. QED
    BY <1>2, <2>1, <2>2
<1>. QED
  BY <1>1, <1>3, <1>4, <1>5, <1>6 DEF WorkOn

LEMMA MailsRest ==
  MailInv /\ CountInv /\ UNCHANGED mailVars /\ UNCHANGED <<parallel, troubles>> /\ up' \in BOOLEAN
    => MailInv' /\ CountInv'
<1>. SUFFICES ASSUME MailInv, CountInv, UNCHANGED mailVars, UNCHANGED <<parallel, troubles>>,
                     up' \in BOOLEAN
              PROVE  MailInv' /\ CountInv'
  OBVIOUS
<1>1. UNCHANGED <<mail, sent_emails, reached, parallel, troubles>>
  BY DEF mailVars
<1>2. MailInv'
  BY <1>1 DEF MailInv, WorkerOK, Running
<1>3. /\ Sizes("log")' = Sizes("log") /\ Sizes("send")' = Sizes("send")
      /\ Lost' = Lost /\ Room' = Room
  BY <1>1 DEF Sizes, Lost, Room
<1>4. Counted(sent_emails', reached', Total(Sizes("log")'), Total(Sizes("send")'), Lost', Room')
  BY <1>1, <1>3, Zenon DEF CountInv
<1>. QED
  BY <1>2, <1>4 DEF CountInv

LEMMA MailStepInv == MailInv /\ CountInv /\ MailsNext => MailInv' /\ CountInv'
<1>. SUFFICES ASSUME MailInv, CountInv, MailsNext PROVE MailInv' /\ CountInv'
  OBVIOUS
<1>1. CASE MailWorkerRestart
  <2>1. UNCHANGED mailVars /\ UNCHANGED <<parallel, troubles>> /\ up' \in BOOLEAN
    BY <1>1 DEF MailWorkerRestart, Restarts
  <2>. QED
    BY <2>1, MailsRest
<1>. QED
  BY <1>1, MailOnItsWay, WorkerDownCounts, DayCounts DEF MailsNext

LEMMA MailInvSafe == MailInv /\ CountInv => MailsSafe
<1>. SUFFICES ASSUME MailInv, CountInv PROVE MailsSafe
  OBVIOUS
<1>1. WorkerOK /\ MAX_TRIES \in Nat /\ MaxRecipients \in Nat
  BY WorkerAssumption, MailsAssumption DEF MailInv
<1>2. ASSUME NEW m \in Mails
      PROVE  /\ mail[m].step \in {"none", "answered", "queued", "check", "send", "log"}
             /\ mail[m].size \in 0..MaxRecipients
             /\ mail[m].tries \in 0..MAX_TRIES /\ mail[m].delivered \in 0..MAX_TRIES
             /\ mail[m].delivered <= 1 + mail[m].cut
  <2>1. mail[m] \in Mail /\ SoundMail(mail[m])
    BY DEF MailInv
  <2>2. /\ mail[m].size \in Nat /\ mail[m].tries \in Nat /\ mail[m].delivered \in Nat
        /\ mail[m].cut \in Nat
        /\ mail[m].step \in {"none", "answered", "queued", "check", "send", "log"}
    BY <2>1 DEF Mail
  <2>. QED
    BY <1>1, <2>1, <2>2 DEF SoundMail
<1>3. MailsOK
  BY <1>2, CountFacts DEF MailsOK, MailInv
<1>4. SentOncePerRun
  BY <1>2 DEF SentOncePerRun
<1>. DEFINE logged == Total(Sizes("log"))
            sending == Total(Sizes("send"))
            lost == Lost
            room == Room
<1>5. Counted(sent_emails, reached, logged, sending, lost, room)
  BY DEF CountInv
<1>6. logged \in Nat /\ sending \in Nat /\ lost \in Nat /\ room \in Nat
  BY CountFacts
<1>7. /\ Total(reached) \in Nat /\ Total(sent_emails) \in Nat
      /\ From(reached, 1) = reached /\ From(sent_emails, 1) = sent_emails
  BY CountFacts, ThresholdIs, FromIs
<1>8. NobodyUncounted
  <2>1. logged = Total([m \in Mails |-> IF mail[m].step = "log" THEN mail[m].size ELSE 0])
    BY DEF Sizes
  <2>2. troubles = 0 => lost = 0
    BY <1>1, RoomIs
  <2>. HIDE DEF logged, sending, lost, room
  <2>3. Total(From(reached, 1)) <= Total(From(sent_emails, 1)) + logged + lost
    BY <1>5, ThresholdIs DEF Counted
  <2>4. Total(reached) <= Total(sent_emails) + logged + lost
    BY <1>7, <2>3, Zenon
  <2>5. troubles = 0 => Total(reached) <= Total(sent_emails) + logged
    BY <1>6, <1>7, <2>2, <2>4
  <2>. QED
    BY <2>1, <2>5, Zenon DEF NobodyUncounted
<1>9. OvershootBounded
  <2>1. room * (1 + troubles) = lost + room
    BY <1>1, RoomIs
  <2>2. parallel * MaxRecipients * (1 + troubles) = room * (1 + troubles)
    BY DEF Room
  <2>. HIDE DEF logged, sending, lost, room
  <2>3. Total(reached) < MAIL_KILL_SWITCH_THRESHOLD + (lost + room)
    BY <1>5, <1>6, <1>7, ThresholdIs DEF Counted
  <2>. QED
    BY <2>1, <2>2, <2>3, Zenon DEF OvershootBounded
<1>. QED
  BY <1>1, <1>3, <1>4, <1>8, <1>9 DEF MailsSafe

-----------------------------------------------------------------------------
(* Background: each topic leaves the variables of the others alone.        *)

\* Where the jobs are not followed, nothing of theirs happens.
CronAtRest ==
  /\ job \in Catalog(stage)
  /\ run = [n \in Numbers |-> NoRun]
  /\ stale = FALSE /\ unrecorded = 0 /\ late = 0

BackgroundInv ==
  /\ LogInv
  /\ IF topic = "cron" THEN CronInv ELSE CronAtRest
  /\ IF topic = "mails" THEN MailInv /\ CountInv ELSE WorkerOK /\ MailsInit

LEMMA BackgroundWorker == BackgroundInv => WorkerOK
BY DEF BackgroundInv, MailInv

LEMMA BackgroundInit == Init => BackgroundInv
<1>1. Init => LogInv
  BY LogsInitInv DEF Init
<1>2. Init => CronInv
  BY CronInitInv DEF Init
<1>3. Init => CronAtRest
  BY DEF Init, CronInit, CronAtRest
<1>4. Init => WorkerOK /\ MailsInit
  <2>1. Init => WorkerInit /\ MailsInit
    BY DEF Init
  <2>2. WorkerInit => WorkerOK
    BY WorkerAssumption DEF WorkerInit, WorkerOK
  <2>. QED
    BY <2>1, <2>2
<1>5. Init => MailInv /\ CountInv
  BY <1>4, CountInit
<1>. QED
  BY <1>1, <1>2, <1>3, <1>4, <1>5 DEF BackgroundInv

LEMMA BackgroundStep == BackgroundInv /\ [Next]_vars => BackgroundInv'
<1>. SUFFICES ASSUME BackgroundInv, [Next]_vars PROVE BackgroundInv'
  OBVIOUS
<1>1. UNCHANGED cronVars => (CronAtRest => CronAtRest')
  BY DEF CronAtRest, cronVars, Catalog
<1>2. UNCHANGED mailVars => (MailsInit => MailsInit')
  BY DEF MailsInit, mailVars
<1>3. CASE OnMails(MailsNext)
  <2>1. topic = "mails" /\ topic' = "mails" /\ MailsNext /\ UNCHANGED <<cronVars, logVars>>
    BY <1>3 DEF OnMails
  <2>2. MailInv' /\ CountInv'
    BY <2>1, MailStepInv DEF BackgroundInv
  <2>. QED
    BY <1>1, <2>1, <2>2, LogsStutter DEF BackgroundInv
<1>4. CASE OnCron(CronNext)
  <2>1. topic = "cron" /\ topic' = "cron" /\ CronNext /\ UNCHANGED <<mailVars, logVars>>
    BY <1>4 DEF OnCron
  <2>2. CronInv' /\ WorkerOK'
    BY <2>1, CronStepInv DEF BackgroundInv, CronInv
  <2>. QED
    BY <1>2, <2>1, <2>2, LogsStutter DEF BackgroundInv
<1>5. CASE OnLogs(LogsNext)
  <2>1. /\ topic = "logs" /\ topic' = "logs" /\ LogsNext
        /\ UNCHANGED <<workerVars, mailVars, cronVars>>
    BY <1>5 DEF OnLogs
  <2>2. WorkerOK'
    BY <2>1, BackgroundWorker DEF WorkerOK, workerVars
  <2>. QED
    BY <1>1, <1>2, <2>1, <2>2, LogsStepInv DEF BackgroundInv
<1>6. CASE UNCHANGED vars
  <2>0. topic' = topic /\ UNCHANGED <<workerVars, mailVars, cronVars, logVars>>
    BY <1>6 DEF vars
  <2>1. LogInv'
    BY <2>0, LogsStutter DEF BackgroundInv
  <2>2. CronInv => CronInv'
    BY <1>6 DEF vars, cronVars, workerVars, CronInv, WorkerOK, Catalog, RunsRecorded, RecordsItself
  <2>3. WorkerOK'
    BY <2>0, BackgroundWorker DEF WorkerOK, workerVars
  <2>4. MailInv /\ CountInv => MailInv' /\ CountInv'
    <3>1. UNCHANGED <<parallel, troubles>> /\ (MailInv => up' \in BOOLEAN)
      BY <2>0 DEF workerVars, MailInv, WorkerOK
    <3>. QED
      BY <2>0, <3>1, MailsRest
  <2>. QED
    BY <1>1, <1>2, <2>0, <2>1, <2>2, <2>3, <2>4 DEF BackgroundInv
<1>. QED
  BY <1>3, <1>4, <1>5, <1>6 DEF Next

LEMMA CronRestSafe == CronAtRest /\ WorkerOK => RunsSafe
<1>. SUFFICES ASSUME CronAtRest, WorkerOK PROVE RunsSafe
  OBVIOUS
<1>1. \A n \in Numbers : run[n] \in Run /\ run[n].step = "none"
  BY NoRunIsRun DEF CronAtRest, NoRun
<1>2. {n \in Numbers : run[n].step = "body"} = {}
  BY <1>1
<1>3. stale \in BOOLEAN
  BY DEF CronAtRest
<1>4. unrecorded = 0 /\ late = 0 /\ late \in 0..troubles
  BY TroublesAreNat DEF CronAtRest
<1>5. CronOK
  BY <1>1, <1>3, <1>4 DEF CronOK, CronAtRest, Run
<1>6. RunsDisjoint
  BY <1>2, FS_EmptySet DEF RunsDisjoint
<1>. QED
  BY <1>4, <1>5, <1>6 DEF RunsSafe, RunsRecorded

\* The invariant behind the theorems below.
THEOREM BackgroundInductive == Spec => []BackgroundInv
BY BackgroundInit, BackgroundStep, PTL DEF Spec

\* However many requests with however many new User-Agents are logged at once,
\* whoever is purged or takes another's address meanwhile: no entry is lost,
\* misattributed, or refused because of another's.
THEOREM LoggingSafe == Spec => []LogsSafe
<1>1. BackgroundInv => LogsSafe
  BY LogInvSafe DEF BackgroundInv
<1>. QED
  BY <1>1, BackgroundInductive, PTL

\* Whatever goes wrong with a scheduled job and however often it is tried, its
\* runs are disjoint while none outlives its timeout, and each leaves a row
\* unless something went wrong.
THEOREM JobsSafe == Spec => []RunsSafe
<1>1. BackgroundInv => RunsSafe
  BY CronInvSafe, CronRestSafe, BackgroundWorker DEF BackgroundInv
<1>. QED
  BY <1>1, BackgroundInductive, PTL

\* However many mails are under way, of however many recipients, and however
\* often the worker dies, retries or fails to write a row: a mail is sent once,
\* and once more for each time the worker was cut off; the kill switch counts
\* everybody reached unless something went wrong; and what is sent beyond its
\* threshold is bounded by the jobs that run at a time and by the troubles.
THEOREM MailsSound == Spec => []MailsSafe
<1>1. MailsInit /\ WorkerOK => MailsSafe
  BY CountInit, MailInvSafe
<1>2. BackgroundInv => MailsSafe
  BY <1>1, MailInvSafe DEF BackgroundInv
<1>. QED
  BY <1>2, BackgroundInductive, PTL
=============================================================================
