------------------------------ MODULE Addresses ------------------------------
(***************************************************************************)
(* E-mail addresses of accounts: who may have which, which of them are     *)
(* verified, and the tokens to reset a password with.  Registration stores *)
(* an address in lower case, staff and the users themselves store it as    *)
(* typed; the unique constraint and the checks of staff and users tell     *)
(* cases apart, those of registration and of the resets do not.            *)
(*                                                                         *)
(* Mail reaches the same mailbox however the address is spelled.           *)
(***************************************************************************)
EXTENDS Requests, Sequences

CONSTANTS
  MaxTokens,   \* bounds, for one client and for two: reset tokens issued,
  MaxEdits     \* addresses typed in by staff or users

VARIABLES
  accounts,    \* [users there are -> [email, verified]]
  links,       \* verification links mailed: [user, email]
  resets,      \* rows of password_reset_tokens: [email, token]
  tokens,      \* tokens issued, in order: the lower-case address of each
  useless,     \* tokens used, or followed by another for the same address
  proven,      \* <<user, mailbox>>: mail sent there was answered
  edits        \* addresses typed in so far

addressVars == <<accounts, links, resets, tokens, useless, proven, edits>>

Users == 1..2
Registered == DOMAIN accounts

NoEmail == "none"
Spellings == {"anna", "Anna", "berta"}
Lower == [e \in Spellings |-> IF e = "Anna" THEN "anna" ELSE e]
Mailboxes == {Lower[e] : e \in Spellings}

AddressesInit ==
  /\ accounts = [u \in {} |-> 0]
  /\ links = {} /\ resets = {} /\ useless = {} /\ proven = {}
  /\ tokens = << >>
  /\ edits = 0

\* Users whose address is e, and users whose address is e but for the case.
Having(e) == {u \in Registered : accounts[u].email = e}
HavingLower(e) == {u \in Registered : accounts[u].email # NoEmail /\ Lower[accounts[u].email] = e}

KeepsTokens == UNCHANGED <<resets, tokens, useless>>
KeepsAddresses == UNCHANGED addressVars

-----------------------------------------------------------------------------
(* Registration, and accounts created by staff.                            *)

Entering == {c \in clients : request[c].step = "insert"}

\* Mutant: an address is registered as it was typed.
CheckRegistrationAsTyped(c) ==
  /\ Idle(c) /\ Cardinality(Registered) + Cardinality(Entering) < Cardinality(Users)
  /\ \E e \in Spellings :
       Continue(c, IF HavingLower(Lower[e]) # {} THEN Rest
                   ELSE [step |-> "insert", email |-> e, mailed |-> TRUE])
  /\ KeepsAddresses

CheckRegistration(c) ==
  /\ Idle(c) /\ Cardinality(Registered) + Cardinality(Entering) < Cardinality(Users)
  /\ \E e \in Spellings :
       Continue(c, IF HavingLower(Lower[e]) # {} THEN Rest
                   ELSE [step |-> "insert", email |-> Lower[e], mailed |-> TRUE])
  /\ KeepsAddresses

CheckCreation(c) ==
  /\ Idle(c) /\ Cardinality(Registered) + Cardinality(Entering) < Cardinality(Users)
  /\ edits < Bound(MaxEdits)
  /\ \E e \in Spellings \cup {NoEmail} :
       Continue(c, IF e # NoEmail /\ Having(e) # {} THEN Rest
                   ELSE [step |-> "insert", email |-> e, mailed |-> FALSE])
  /\ edits' = edits + 1
  /\ UNCHANGED <<accounts, links, proven>> /\ KeepsTokens

InsertUser(c) ==
  /\ At(c, "insert")
  /\ LET e == request[c].email
         u == Cardinality(Registered) + 1
     IN IF e # NoEmail /\ Having(e) # {}
          THEN Continue(c, Failed("insert", "unique", 0)) /\ UNCHANGED <<accounts, links>>
          ELSE /\ accounts' = [v \in Registered \cup {u} |->
                                IF v = u THEN [email |-> e, verified |-> FALSE] ELSE accounts[v]]
               /\ links' = IF request[c].mailed THEN links \cup {[user |-> u, email |-> e]}
                                                ELSE links
               /\ Continue(c, Rest)
  /\ UNCHANGED <<proven, edits>> /\ KeepsTokens

-----------------------------------------------------------------------------
(* Edits.  Only what differs from the row as it was loaded is written.     *)

CheckEdit(c, u, e, own, changes) ==
  /\ Idle(c) /\ u \in Registered /\ edits < Bound(MaxEdits)
  /\ edits' = edits + 1
  /\ Continue(c, IF e # NoEmail /\ Having(e) \ {u} # {} THEN Rest
                 ELSE [step |-> "edit", user |-> u, own |-> own, changes |-> changes])
  /\ UNCHANGED <<accounts, links, proven>> /\ KeepsTokens

Changes(u, e) ==
  LET differs == e # accounts[u].email
  IN [email |-> e, written |-> differs, unverified |-> differs /\ accounts[u].verified]

\* One's own profile is open to verified users only.
CheckProfile(c) ==
  \E u \in Registered, e \in Spellings :
    accounts[u].verified /\ CheckEdit(c, u, e, TRUE, Changes(u, e))

CheckUserEdit(c) ==
  \E u \in Registered, e \in Spellings \cup {NoEmail} : CheckEdit(c, u, e, FALSE, Changes(u, e))

EditUser(c) ==
  /\ At(c, "edit")
  /\ LET u == request[c].user
         new == request[c].changes
         row == IF new.written
                  THEN [email |-> new.email, verified |-> accounts[u].verified /\ ~new.unverified]
                  ELSE accounts[u]
     IN IF row.email # NoEmail /\ Having(row.email) \ {u} # {}
          THEN Continue(c, Failed("edit", "unique", u)) /\ UNCHANGED <<accounts, links>>
          ELSE /\ accounts' = [accounts EXCEPT ![u] = row]
               /\ links' = IF request[c].own /\ new.written
                             THEN links \cup {[user |-> u, email |-> row.email]} ELSE links
               /\ Continue(c, Rest)
  /\ UNCHANGED <<proven, edits>> /\ KeepsTokens

-----------------------------------------------------------------------------
(* Verification.  A link names the user and the address it was mailed to.  *)

ResendVerificationEmail(c) ==
  /\ Idle(c)
  /\ \E u \in Registered :
       /\ ~accounts[u].verified /\ accounts[u].email # NoEmail
       /\ links' = links \cup {[user |-> u, email |-> accounts[u].email]}
  /\ UNCHANGED <<request, accounts, proven, edits>> /\ KeepsTokens

ReadLink(c) ==
  /\ Idle(c)
  /\ \E l \in links :
       /\ accounts[l.user].email = l.email /\ ~accounts[l.user].verified
       /\ proven' = proven \cup {<<l.user, Lower[l.email]>>}
       /\ Continue(c, [step |-> "verify", user |-> l.user])
  /\ UNCHANGED <<accounts, links, edits>> /\ KeepsTokens

VerifyEmail(c) ==
  /\ At(c, "verify")
  /\ accounts' = [accounts EXCEPT ![request[c].user].verified = TRUE]
  /\ Continue(c, Rest)
  /\ UNCHANGED <<links, proven, edits>> /\ KeepsTokens

-----------------------------------------------------------------------------
(* Password reset.                                                         *)

\* The DELETE of the former rows sees what is committed when it starts.
RequestPasswordReset(c) ==
  /\ Idle(c)
  /\ Len(tokens) + Cardinality({d \in clients : At(d, "token")}) < Bound(MaxTokens)
  /\ \E e \in Mailboxes :
       /\ HavingLower(e) # {}
       /\ Continue(c, IF Cardinality(HavingLower(e)) > 1 THEN Failed("token", "twice", 0)
                      ELSE [step |-> "token", email |-> e,
                            former |-> {r \in resets : r.email = e}])
  /\ KeepsAddresses

IssueToken(c) ==
  /\ At(c, "token")
  /\ LET e == request[c].email
     IN /\ tokens' = Append(tokens, e)
        /\ resets' = (resets \ request[c].former) \cup {[email |-> e, token |-> Len(tokens) + 1]}
        /\ useless' = useless \cup {t \in DOMAIN tokens : tokens[t] = e}
  /\ Continue(c, Rest)
  /\ UNCHANGED <<accounts, links, proven, edits>>

\* The link mailed with token t is followed.  The row is looked up by the
\* address; an expired one is removed.
ReadToken(c) ==
  /\ Idle(c)
  /\ \E t \in DOMAIN tokens :
       LET e == tokens[t]
           found == {r \in resets : r.email = e}
           owners == HavingLower(e)
       IN /\ found # {}
          /\ \/ /\ Cardinality(found) > 1
                /\ Continue(c, Failed("reset", "twice", 0)) /\ UNCHANGED proven
             \/ /\ found = {[email |-> e, token |-> t]}
                /\ Continue(c, [step |-> "expire", email |-> e]) /\ UNCHANGED proven
             \/ /\ found = {[email |-> e, token |-> t]} /\ Cardinality(owners) > 1
                /\ Continue(c, Failed("reset", "twice", 0)) /\ UNCHANGED proven
             \/ /\ found = {[email |-> e, token |-> t]} /\ Cardinality(owners) = 1
                /\ proven' = proven \cup {<<u, e>> : u \in owners}
                /\ Continue(c, [step |-> "reset", email |-> e, token |-> t,
                                user |-> CHOOSE u \in owners : TRUE])
  /\ UNCHANGED <<accounts, links, edits>> /\ KeepsTokens

\* The address is the row's key as far as the session knows: removing one
\* row removes all of the address.
ForgetTokens(e) == resets' = {r \in resets : r.email # e}

ExpireToken(c) ==
  /\ At(c, "expire")
  /\ ForgetTokens(request[c].email)
  /\ Continue(c, Rest)
  /\ UNCHANGED <<accounts, links, tokens, useless, proven, edits>>

ExecutePasswordReset(c) ==
  /\ At(c, "reset")
  /\ accounts' = [accounts EXCEPT ![request[c].user].verified = TRUE]
  /\ ForgetTokens(request[c].email)
  /\ useless' = useless \cup {request[c].token}
  /\ Continue(c, Rest)
  /\ UNCHANGED <<links, tokens, proven, edits>>

AddressesNext ==
  /\ UNCHANGED clients
  /\ \E c \in clients :
       \/ CheckRegistration(c) \/ CheckCreation(c) \/ InsertUser(c)
       \/ CheckProfile(c) \/ CheckUserEdit(c) \/ EditUser(c)
       \/ ResendVerificationEmail(c) \/ ReadLink(c) \/ VerifyEmail(c)
       \/ RequestPasswordReset(c) \/ IssueToken(c)
       \/ ReadToken(c) \/ ExpireToken(c) \/ ExecutePasswordReset(c)

-----------------------------------------------------------------------------
AddressesOK ==
  /\ Registered \subseteq Users
  /\ \A u \in Registered : accounts[u].email \in Spellings \cup {NoEmail}
                           /\ accounts[u].verified \in BOOLEAN
  /\ \A r \in resets : r.token \in DOMAIN tokens /\ r.email = tokens[r.token]
  /\ useless \subseteq DOMAIN tokens

\* An account counts as verified only for an address whose mail its user
\* answered: unless an edit overtakes the answer.
AloneVerifiedIsProven ==
  Alone => \A u \in Registered : accounts[u].verified =>
             accounts[u].email # NoEmail /\ <<u, Lower[accounts[u].email]>> \in proven

\* Registrations, however they race, never take addresses that differ by
\* case alone; where two accounts have such, one was typed in by staff or by
\* its user, and neither can reset its password from then on.
TwinsWereTyped ==
  edits = 0 => \A e \in Mailboxes : Cardinality(HavingLower(e)) <= 1

\* Without interference a token sets a password once, and not after another
\* was issued for the address.
AloneTokenGoodOnce ==
  Alone => \A c \in clients : At(c, "reset") => request[c].token \notin useless

\* Without interference an address never has two tokens: a reset request
\* replaces the one that is there (two concurrent ones leave both).
AloneOneToken ==
  Alone => \A r, s \in resets : r.email = s.email => r = s

\* An address, its account and its reset token belong together, whoever edits,
\* registers, verifies or resets meanwhile.
AddressesSafe ==
  AddressesOK /\ AloneVerifiedIsProven /\ TwinsWereTyped /\ AloneTokenGoodOnce /\ AloneOneToken
=============================================================================
