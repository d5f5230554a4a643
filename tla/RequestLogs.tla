----------------------------- MODULE RequestLogs -----------------------------
(***************************************************************************)
(* The request log.  The outermost middleware lets the handler commit its  *)
(* change, writes the entry in a transaction of its own, and only then     *)
(* answers.  The row of the User-Agent is created at its first request, in *)
(* a savepoint; others see it when the entry is committed.                 *)
(*                                                                         *)
(* A caller is a user whose token names his e-mail address.  A behaviour   *)
(* follows the last request of each.                                       *)
(***************************************************************************)
EXTENDS Integers, FiniteSets

CONSTANTS
  Callers,   \* users; their names are their first addresses
  Strings    \* User-Agent headers

ASSUME RequestLogsAssumption == Callers \subseteq Nat \ {0} /\ IsFiniteSet(Callers)

VARIABLES
  address,             \* [user -> his e-mail address; Nobody's when he was purged]
  client_user_agents,  \* the strings with a committed row
  call                 \* [caller -> his request and the transaction of its entry]

logVars == <<address, client_user_agents, call>>

Nobody == 0

\* Bound: one address more than users.
Addresses == Callers \cup {Cardinality(Callers) + 1}

NoCall ==
  [step |-> "none",
   agent |-> "none",      \* the User-Agent of the request
   token |-> Nobody,      \* the address its token names
   user |-> Nobody,       \* whom the entry names
   inserted |-> FALSE,    \* its transaction has inserted the agent's row
   logged |-> FALSE,      \* its entry is committed
   hindered |-> FALSE,    \* its user was purged, or the database failed, meanwhile
   status |-> "none"]     \* what is answered

LogsInit ==
  /\ address = [u \in Callers |-> u]
  /\ client_user_agents = {}
  /\ call = [c \in Callers |-> NoCall]

Users == {u \in Callers : address[u] # Nobody}

Goes(c, from, next) == call[c].step = from /\ call' = [call EXCEPT ![c] = next]

To(c, step) == [call[c] EXCEPT !.step = step]

Inserting(agent) == {c \in Callers : call[c].inserted /\ call[c].agent = agent}

-----------------------------------------------------------------------------
\* A request is signed in or not.
Request(c) ==
  /\ c \in Users
  /\ \E s \in Strings \cup {"none"}, token \in {Nobody, address[c]} :
       Goes(c, "none", [NoCall EXCEPT !.step = "handler", !.agent = s, !.token = token])
  /\ UNCHANGED <<address, client_user_agents>>

\* The handler commits, a new address of the caller perhaps; a response with
\* the skip header, and a liveness check, leave no entry.
Handle(c) ==
  /\ \/ UNCHANGED address
     \/ /\ call[c].token # Nobody /\ c \in Users
        /\ \E new \in Addresses \ {address[u] : u \in Users} : address' = [address EXCEPT ![c] = new]
  /\ \/ Goes(c, "handler", To(c, "resolve"))
     \/ Goes(c, "handler", [NoCall EXCEPT !.status = "skipped"])
  /\ UNCHANGED client_user_agents

\* The user whose e-mail address a token names, if there is one.
Holders(token) == {u \in Users : address[u] = token}

ResolveUserId(c) ==
  /\ Goes(c, "resolve",
          [To(c, IF call[c].agent = "none" THEN "entry" ELSE "select") EXCEPT
             !.user = IF Holders(call[c].token) = {} THEN Nobody
                      ELSE CHOOSE u \in Holders(call[c].token) : TRUE])
  /\ UNCHANGED <<address, client_user_agents>>

SelectAgent(c) ==
  /\ Goes(c, "select", To(c, IF call[c].agent \in client_user_agents THEN "entry" ELSE "insert"))
  /\ UNCHANGED <<address, client_user_agents>>

\* The INSERT waits for another transaction that has inserted the string.
InsertAgent(c) ==
  /\ Inserting(call[c].agent) = {}
  /\ Goes(c, "insert",
          IF call[c].agent \in client_user_agents THEN To(c, "reselect")
          ELSE [To(c, "entry") EXCEPT !.inserted = TRUE])
  /\ UNCHANGED <<address, client_user_agents>>

\* The transaction is rolled back.  The exception of the middleware is
\* answered with a 500, although the handler has committed.
Refused(c) == [NoCall EXCEPT !.status = "error", !.hindered = call[c].hindered]

\* Mutant: the lost race is not handled.
ReselectNothing(c) ==
  /\ Goes(c, "reselect", Refused(c))
  /\ UNCHANGED <<address, client_user_agents>>

Reselect(c) ==
  /\ Goes(c, "reselect", To(c, "entry"))
  /\ UNCHANGED <<address, client_user_agents>>

\* The entry must name a user who exists.
RecordRequest(c) ==
  /\ Goes(c, "entry", IF call[c].user \in Users \cup {Nobody} THEN To(c, "commit") ELSE Refused(c))
  /\ UNCHANGED <<address, client_user_agents>>

CommitEntry(c) ==
  /\ Goes(c, "commit",
          [NoCall EXCEPT !.agent = call[c].agent, !.logged = TRUE, !.status = "ok"])
  /\ client_user_agents' = client_user_agents \cup (IF call[c].inserted THEN {call[c].agent} ELSE {})
  /\ UNCHANGED address

\* Any statement of the log's may fail.
DatabaseFails(c) ==
  /\ \E step \in {"resolve", "select", "insert", "entry", "commit"} :
       Goes(c, step, [Refused(c) EXCEPT !.hindered = TRUE])
  /\ UNCHANGED <<address, client_user_agents>>

\* An administrator purges another user; an entry that refers to him holds that up
\* until it is committed.
Purge(u) ==
  /\ u \in Users /\ Users # {u}
  /\ \A c \in Callers : call[c].step = "commit" => call[c].user # u
  /\ address' = [address EXCEPT ![u] = Nobody]
  /\ call' = [c \in Callers |-> [call[c] EXCEPT
                !.hindered = @ \/ (call[c].step # "none" /\ call[c].user = u)]]
  /\ UNCHANGED client_user_agents

WriteLog(c) ==
  Handle(c) \/ ResolveUserId(c) \/ SelectAgent(c) \/ InsertAgent(c) \/ Reselect(c)
    \/ RecordRequest(c) \/ CommitEntry(c)

LogsNext == \E c \in Callers : Request(c) \/ WriteLog(c) \/ DatabaseFails(c) \/ Purge(c)

-----------------------------------------------------------------------------
LogsOK ==
  /\ address \in [Callers -> Addresses \cup {Nobody}]
  /\ client_user_agents \subseteq Strings
  /\ \A c \in Callers : call[c].user \in Callers \cup {Nobody}
  /\ \A s \in Strings : Cardinality(Inserting(s)) <= 1

\* A request is answered with an error on the log's account only when its
\* user was purged while it was being logged, or the database failed: another
\* request with the same new User-Agent is no reason.
RaceNeverFails == \A c \in Callers : call[c].status = "error" => call[c].hindered

\* Once a request is answered, its entry and its agent's row are committed.
AnsweredMeansLogged ==
  \A c \in Callers :
    call[c].status = "ok" =>
      call[c].logged /\ call[c].agent \in client_user_agents \cup {"none"}

\* An entry names the caller or nobody, unless the request has changed his
\* address, the token names the old one, and another has taken that over.
EntriesNameTheCaller ==
  \A c \in Users : call[c].user \in {c, Nobody} \/ call[c].token \notin {address[c], Nobody}

\* Logging a request neither fails it, nor loses it, nor blames another.
LogsSafe == LogsOK /\ RaceNeverFails /\ AnsweredMeansLogged /\ EntriesNameTheCaller
=============================================================================
