------------------------------ MODULE Bindings ------------------------------
(***************************************************************************)
(* Google accounts linked to accounts of ours.  A Google account may be    *)
(* linked once, which a constraint sees to; that an account of ours is     *)
(* linked once is checked only.                                            *)
(***************************************************************************)
EXTENDS Requests

CONSTANT MaxBindings   \* bound: rows ever made

VARIABLES
  bindings,   \* rows of oauth2_bindings: [id, remote, user]
  made        \* rows ever made

bindingVars == <<bindings, made>>

BindingUsers == {"u1", "u2"}
Remotes == {"g1", "g2"}

BindingsInit == bindings = {} /\ made = 0

\* Mutant: only the Google account is looked up.
FoundByRemote(g, u) == {b \in bindings : b.remote = g}

Found(g, u) == {b \in bindings : b.remote = g \/ b.user = u}

\* link_google_account, once Google and the password vouch for both.
CheckLink(c) ==
  /\ Idle(c)
  /\ \E g \in Remotes, u \in BindingUsers :
       Continue(c,
         IF Found(g, u) = {} THEN [step |-> "bind", remote |-> g, user |-> u]
         ELSE IF Cardinality(Found(g, u)) > 1
           THEN Failed("link", "twice", [remote |-> g, user |-> u])
         ELSE LET b == CHOOSE b \in Found(g, u) : TRUE
              IN IF b.remote = g /\ b.user = u THEN [step |-> "use", binding |-> b] ELSE Rest)
  /\ UNCHANGED bindingVars

Bind(c) ==
  /\ At(c, "bind") /\ made < MaxBindings
  /\ LET b == [id |-> made + 1, remote |-> request[c].remote, user |-> request[c].user]
     IN IF \E d \in bindings : d.remote = b.remote
          THEN Continue(c, Failed("bind", "unique", b)) /\ UNCHANGED bindingVars
          ELSE bindings' = bindings \cup {b} /\ made' = b.id /\ Continue(c, Rest)

\* authenticate_google_user: lastuse_at is written; a vanished row is not.
GoogleCallback(c) ==
  /\ Idle(c)
  /\ \E b \in bindings : Continue(c, [step |-> "use", binding |-> b])
  /\ UNCHANGED bindingVars

Use(c) ==
  /\ At(c, "use")
  /\ Continue(c, IF request[c].binding \in bindings THEN Rest
                 ELSE Failed("use", "stale", request[c].binding))
  /\ UNCHANGED bindingVars

CheckUnlink(c) ==
  /\ Idle(c)
  /\ \E b \in bindings : Continue(c, [step |-> "unlink", binding |-> b])
  /\ UNCHANGED bindingVars

Unlink(c) ==
  /\ At(c, "unlink")
  /\ bindings' = bindings \ {request[c].binding}
  /\ Continue(c, Rest)
  /\ UNCHANGED made

BindingsNext ==
  /\ UNCHANGED clients
  /\ \E c \in clients : \/ CheckLink(c) \/ Bind(c)
                        \/ GoogleCallback(c) \/ Use(c)
                        \/ CheckUnlink(c) \/ Unlink(c)

-----------------------------------------------------------------------------
BindingsOK == bindings \subseteq [id : 1..made, remote : Remotes, user : BindingUsers]

\* Without interference an account is linked to one Google account at most,
\* and, whatever interferes, no Google account to two accounts.
LinkedOnce ==
  \A a, b \in bindings :
    (a.remote = b.remote \/ (Alone /\ a.user = b.user)) => a = b

\* A client that nothing interferes with is told why it may not link, except
\* where the account and the Google account are both linked otherwise: the
\* lookup then finds two rows and the request ends in an error.
AloneLinkAnswered ==
  Alone => \A c \in clients :
    request[c].step = "failed" /\ request[c].at \in {"link", "bind", "use"} =>
    LET b == request[c].id
    IN /\ request[c].cause = "twice"
       /\ \E d \in bindings : d.user = b.user /\ d.remote # b.remote
       /\ \E d \in bindings : d.remote = b.remote /\ d.user # b.user

\* Accounts and Google accounts stay paired, and refusals explained.
BindingsSafe == BindingsOK /\ LinkedOnce /\ AloneLinkAnswered
=============================================================================
