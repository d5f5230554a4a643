------------------------------ MODULE Sessions ------------------------------
(***************************************************************************)
(* The sessions of one account: rows of personal_access_tokens, each with  *)
(* the hash of the one refresh secret that is good for it.  The clients    *)
(* are tabs of a browser; they share the cookie that holds the session and *)
(* its secret, and each keeps an access token that names the session.      *)
(***************************************************************************)
EXTENDS Requests

CONSTANTS
  MaxSessions,   \* bounds, for one client and for two: sessions ever opened,
  MaxSecrets,    \* secrets ever drawn,
  MaxResets      \* passwords reset

VARIABLES
  account,       \* "open", "locked" or "deleted"
  sessions,      \* [ids of the rows there are -> [secret, idle, epoch]]
  cookie,        \* [id, secret]
  access,        \* [tab -> the session its access token names]
  drawn,         \* [ids: sessions ever opened, secrets: drawn, epoch: resets]
  spent,         \* secrets that were rotated away
  ended,         \* sessions that were removed
  lost           \* an answer was lost on its way to the browser

sessionVars == <<account, sessions, cookie, access, drawn, spent, ended, lost>>

\* No session, no cookie, no access token.
None == 0
NoCookie == [id |-> None, secret |-> 0]

SessionsInit ==
  /\ account = "open"
  /\ sessions = [i \in {} |-> 0]
  /\ cookie = NoCookie
  /\ access = [c \in clients |-> None]
  /\ drawn = [ids |-> 0, secrets |-> 0, epoch |-> 0]
  /\ spent = {} /\ ended = {}
  /\ lost = FALSE

-----------------------------------------------------------------------------
(* What the statements do to the rows.                                     *)

Live == DOMAIN sessions

\* A DELETE that finds no row does nothing.
Remove(gone) ==
  /\ sessions' = [i \in Live \ gone |-> sessions[i]]
  /\ ended' = ended \cup (gone \cap Live)

\* An answer on its way: the cookie and the access token it sets.
Answer(jar, token) == [step |-> "answer", cookie |-> jar, access |-> token]

KeepsRows == UNCHANGED <<account, sessions, drawn, spent, ended>>
KeepsBrowser == UNCHANGED <<cookie, access, lost>>
KeepsAll == UNCHANGED sessionVars

-----------------------------------------------------------------------------
(* Signing in.                                                             *)

\* authenticate_user and authenticate_google_user; register_user and
\* verify_email sign in whatever the account's state.
Authenticate(c) ==
  /\ Idle(c) /\ account = "open"
  /\ Continue(c, [step |-> "open", epoch |-> drawn.epoch])
  /\ KeepsAll

FollowVerificationLink(c) ==
  /\ Idle(c)
  /\ Continue(c, [step |-> "open", epoch |-> drawn.epoch])
  /\ KeepsAll

CreateUserSession(c) ==
  /\ At(c, "open")
  /\ drawn.ids < Bound(MaxSessions) /\ drawn.secrets < Bound(MaxSecrets)
  /\ LET id == drawn.ids + 1
         secret == drawn.secrets + 1
     IN /\ sessions' = [i \in Live \cup {id} |->
                          IF i \in Live THEN sessions[i]
                          ELSE [secret |-> secret, idle |-> FALSE, epoch |-> request[c].epoch]]
        /\ drawn' = [drawn EXCEPT !.ids = id, !.secrets = secret]
        /\ Continue(c, Answer([id |-> id, secret |-> secret], id))
  /\ UNCHANGED <<account, spent, ended>> /\ KeepsBrowser

\* The browser takes the answer in, or never gets it.
TakeAnswer(c) ==
  /\ At(c, "answer")
  /\ cookie' = request[c].cookie
  /\ access' = [access EXCEPT ![c] = request[c].access]
  /\ Continue(c, Rest)
  /\ UNCHANGED lost /\ KeepsRows

LoseAnswer(c) ==
  /\ At(c, "answer")
  /\ lost' = TRUE
  /\ Continue(c, Rest)
  /\ UNCHANGED <<cookie, access>> /\ KeepsRows

-----------------------------------------------------------------------------
(* Refreshing.  The browser sends the cookie it has when the request goes  *)
(* out, which is when the server reads the session or a while before: the  *)
(* answers still under way stand for the while.                            *)

Refused(jar, cause) == [step |-> "invalidate", sent |-> jar, cause |-> cause]

ReadSession(c) ==
  /\ Idle(c) /\ cookie # NoCookie
  /\ Continue(c,
       IF cookie.id \notin Live
         THEN Answer(NoCookie, access[c])
       ELSE IF sessions[cookie.id].secret # cookie.secret
         THEN Refused(cookie, "reuse")
       ELSE IF sessions[cookie.id].idle
         THEN Refused(cookie, "idle")
       ELSE [step |-> "account", sent |-> cookie])
  /\ KeepsAll

ReadAccount(c) ==
  /\ At(c, "account")
  /\ Continue(c, IF account = "open"
                   THEN [step |-> "rotate", sent |-> request[c].sent]
                   ELSE Refused(request[c].sent, "account"))
  /\ KeepsAll

Invalidate(c) ==
  /\ At(c, "invalidate")
  /\ Remove({request[c].sent.id})
  /\ Continue(c, Answer(NoCookie, access[c]))
  /\ UNCHANGED <<account, drawn, spent>> /\ KeepsBrowser

\* Mutant: the cookie keeps the old secret.
RotateUnanswered(c) ==
  /\ At(c, "rotate") /\ drawn.secrets < Bound(MaxSecrets)
  /\ LET old == request[c].sent
     IN /\ old.id \in Live
        /\ sessions' = [sessions EXCEPT ![old.id].secret = drawn.secrets + 1]
        /\ drawn' = [drawn EXCEPT !.secrets = @ + 1]
        /\ spent' = spent \cup {old.secret}
        /\ Continue(c, Answer(old, old.id))
  /\ UNCHANGED <<account, ended>> /\ KeepsBrowser

\* An UPDATE that finds no row raises StaleDataError: 500, the cookie stays.
Rotate(c) ==
  /\ At(c, "rotate") /\ drawn.secrets < Bound(MaxSecrets)
  /\ LET old == request[c].sent
         secret == drawn.secrets + 1
     IN IF old.id \notin Live
          THEN /\ Continue(c, Failed("rotate", "stale", old.id))
               /\ UNCHANGED <<sessions, drawn, spent>>
          ELSE /\ sessions' = [sessions EXCEPT ![old.id].secret = secret, ![old.id].idle = FALSE]
               /\ drawn' = [drawn EXCEPT !.secrets = secret]
               /\ spent' = spent \cup {old.secret}
               /\ Continue(c, Answer([old EXCEPT !.secret = secret], old.id))
  /\ UNCHANGED <<account, ended>> /\ KeepsBrowser

-----------------------------------------------------------------------------
(* Calls with the access token.                                            *)

\* get_current_user: an idle session is removed and the call refused.
CallExpired(c) ==
  /\ Idle(c) /\ access[c] \in Live /\ sessions[access[c]].idle
  /\ Remove({access[c]})
  /\ Continue(c, Rest)
  /\ UNCHANGED <<account, drawn, spent>> /\ KeepsBrowser

CheckLogout(c) ==
  /\ Idle(c) /\ account = "open"
  /\ access[c] \in Live /\ ~sessions[access[c]].idle
  /\ Continue(c, [step |-> "logout", id |-> access[c]])
  /\ KeepsAll

Logout(c) ==
  /\ At(c, "logout")
  /\ Remove({request[c].id})
  /\ Continue(c, Answer(NoCookie, None))
  /\ UNCHANGED <<account, drawn, spent>> /\ KeepsBrowser

-----------------------------------------------------------------------------
(* What happens to the account meanwhile.                                  *)

\* Half an hour without a call.
GoIdle(id) ==
  /\ id \in Live /\ ~sessions[id].idle
  /\ \A c \in clients : request[c].step \in {"rest", "failed"}
  /\ sessions' = [sessions EXCEPT ![id].idle = TRUE]
  /\ UNCHANGED <<clients, request, account, drawn, spent, ended>> /\ KeepsBrowser

SetAccount ==
  /\ account' \in {"open", "locked", "deleted"} \ {account}
  /\ UNCHANGED <<clients, request, sessions, drawn, spent, ended>> /\ KeepsBrowser

-----------------------------------------------------------------------------
(* execute_password_reset, once it has found its token and the user.       *)

StartReset(c) ==
  /\ Idle(c) /\ drawn.epoch + Cardinality({d \in clients : At(d, "password")}) < Bound(MaxResets)
  /\ Continue(c, [step |-> "password"])
  /\ KeepsAll

Reset(c) ==
  /\ At(c, "password")
  /\ drawn' = [drawn EXCEPT !.epoch = @ + 1]
  /\ Remove(Live)
  /\ Continue(c, Rest)
  /\ UNCHANGED <<account, spent>> /\ KeepsBrowser

SessionsNext ==
  \/ /\ UNCHANGED clients
     /\ \E c \in clients :
          \/ Authenticate(c) \/ FollowVerificationLink(c) \/ CreateUserSession(c)
          \/ TakeAnswer(c) \/ LoseAnswer(c)
          \/ ReadSession(c) \/ ReadAccount(c) \/ Invalidate(c) \/ Rotate(c)
          \/ CallExpired(c) \/ CheckLogout(c) \/ Logout(c)
          \/ StartReset(c) \/ Reset(c)
  \/ \E id \in Live : GoIdle(id)
  \/ SetAccount

-----------------------------------------------------------------------------
SessionsOK ==
  /\ account \in {"open", "locked", "deleted"}
  /\ Live \subseteq 1..drawn.ids
  /\ \A i \in Live : sessions[i].secret \in 1..drawn.secrets /\ sessions[i].epoch \in 0..drawn.epoch
  /\ cookie.id \in 0..drawn.ids /\ cookie.secret \in 0..drawn.secrets
  /\ \A c \in clients : access[c] \in 0..drawn.ids

\* A browser with one request at a time, none of whose answers was lost, is
\* never taken for a thief.
AloneNoReuse ==
  Alone /\ ~lost => \A c \in clients : At(c, "invalidate") => request[c].cause # "reuse"

\* Without two refreshes at once a secret is good for one rotation: retried
\* after a lost answer, or stolen, it ends the session.
AloneSecretsSpent ==
  Alone => \A c \in clients : At(c, "rotate") => request[c].sent.secret \notin spent

\* After a reset no session opened with the former password lives, unless a
\* sign-in was under way.
AloneResetEndsSessions ==
  \A i \in Live : sessions[i].epoch < drawn.epoch => ~Alone

\* A session removed, by whomever, never comes back.
GoneStaysGone == ended \cap Live = {}

\* Refresh secrets are good for one rotation each, and a session that was
\* ended stays ended, while answers are lost, tabs race and staff interfere.
SessionsSafe ==
  SessionsOK /\ AloneNoReuse /\ AloneSecretsSpent /\ AloneResetEndsSessions /\ GoneStaysGone
=============================================================================
