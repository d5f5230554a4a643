-------------------------------- MODULE Staff --------------------------------
(***************************************************************************)
(* User administration: accounts are created, edited, locked and deleted   *)
(* by those who hold the role "disponent" and by administrators, restored  *)
(* and purged by administrators.  Being an administrator is a flag of the  *)
(* account; "disponent" stands for the roles.                              *)
(***************************************************************************)
EXTENDS Requests

CONSTANTS
  MaxStaff,    \* bounds, for one client and for two: accounts ever created,
  MaxEntries   \* bookings and booking requests ever made

VARIABLES
  staff,     \* [ids of the accounts there are -> account]
  hired,     \* accounts ever created
  entries    \* bookings and booking requests ever made

staffVars == <<staff, hired, entries>>

\* history: what bookings, requests and log entries refer to the account.
Account == [is : SUBSET {"administrator", "disponent", "locked", "deleted"},
            history : SUBSET {"booked", "played", "requested", "logged"}]

StaffInit ==
  /\ staff = [u \in 1..2 |-> [is |-> IF u = 1 THEN {"administrator"} ELSE {"disponent"},
                              history |-> {}]]
  /\ hired = 2
  /\ entries = 0

There == DOMAIN staff
Present == {u \in There : "deleted" \notin staff[u].is}

\* Who may act: get_current_user, with the roles as they are then.
Acting == {u \in Present : "locked" \notin staff[u].is}
Administrators == {u \in Acting : "administrator" \in staff[u].is}
Maintainers == {u \in Acting : staff[u].is \cap {"administrator", "disponent"} # {}}

KeepsStaff == UNCHANGED staffVars

-----------------------------------------------------------------------------
(* Accounts are edited by maintainers; flag and roles change only when an  *)
(* administrator edits.                                                    *)

Forms == SUBSET {"administrator", "disponent", "locked"}

\* What the form adds to the account as loaded, and what it takes away: the
\* flag of administrators is never taken away.
Edited(is, form, byAdministrator) ==
  [on  |-> (IF byAdministrator THEN form ELSE form \cap {"locked"}) \ is,
   off |-> ((IF byAdministrator THEN {"disponent", "locked"} ELSE {"locked"}) \ form) \cap is]

Changed(is, changes) == (is \ changes.off) \cup changes.on

IsAdministrator(u) == "administrator" \in staff[u].is

CreateUser(c) ==
  /\ Idle(c) /\ hired < Bound(MaxStaff)
  /\ \E actor \in Maintainers, form \in Forms :
       staff' = [u \in There \cup {hired + 1} |->
                   IF u \in There THEN staff[u]
                   ELSE [is |-> Edited({}, form, IsAdministrator(actor)).on, history |-> {}]]
  /\ hired' = hired + 1
  /\ UNCHANGED <<request, entries>>

\* Mutant: administrators are edited like anybody else.
CheckUpdateOfAnyone(c) ==
  /\ Idle(c)
  /\ \E actor \in Maintainers, target \in Present, form \in Forms :
       Continue(c, [step |-> "update", id |-> target,
                    changes |-> Edited(staff[target].is, form, IsAdministrator(actor))])
  /\ KeepsStaff

CheckUpdateUser(c) ==
  /\ Idle(c)
  /\ \E actor \in Maintainers, target \in Present, form \in Forms :
       /\ ~IsAdministrator(target)
       /\ Continue(c, [step |-> "update", id |-> target,
                       changes |-> Edited(staff[target].is, form, IsAdministrator(actor))])
  /\ KeepsStaff

\* A role held twice is refused; one that is gone is not missed.
UpdateUser(c) ==
  /\ At(c, "update")
  /\ LET id == request[c].id
         changes == request[c].changes
     IN IF id \notin There
          THEN /\ \/ Continue(c, Failed("update", "stale", id))
                  \/ /\ changes.on \cup changes.off \subseteq {"disponent"}
                     /\ Continue(c, Rest)
               /\ UNCHANGED staff
        ELSE IF "disponent" \in changes.on \cap staff[id].is
          THEN Continue(c, Failed("update", "unique", id)) /\ UNCHANGED staff
        ELSE staff' = [staff EXCEPT ![id].is = Changed(@, changes)] /\ Continue(c, Rest)
  /\ UNCHANGED <<hired, entries>>

-----------------------------------------------------------------------------
(* Deletion, restoration, removal for good.                                *)

CheckDeleteUser(c) ==
  /\ Idle(c) /\ Maintainers # {}
  /\ \E target \in Present :
       /\ staff[target].is \cap {"administrator", "disponent"} = {}
       /\ "booked" \notin staff[target].history
       /\ Continue(c, [step |-> "set", id |-> target, changes |-> [on |-> {"deleted"}, off |-> {}]])
  /\ KeepsStaff

CheckRestoreUser(c) ==
  /\ Idle(c) /\ Administrators # {}
  /\ \E target \in There :
       /\ "deleted" \in staff[target].is
       /\ Continue(c, [step |-> "set", id |-> target, changes |-> [on |-> {}, off |-> {"deleted"}]])
  /\ KeepsStaff

CheckUnlockUser(c) ==
  /\ Idle(c) /\ Administrators # {}
  /\ \E target \in There :
       /\ "locked" \in staff[target].is
       /\ Continue(c, [step |-> "set", id |-> target, changes |-> [on |-> {}, off |-> {"locked"}]])
  /\ KeepsStaff

SetUser(c) ==
  /\ At(c, "set")
  /\ LET id == request[c].id
     IN IF id \notin There
          THEN Continue(c, Failed("set", "stale", id)) /\ UNCHANGED staff
          ELSE /\ staff' = [staff EXCEPT ![id].is = Changed(@, request[c].changes)]
               /\ Continue(c, Rest)
  /\ UNCHANGED <<hired, entries>>

\* Mutant: booking requests are no history.
CheckPurgeUnbooked(c) ==
  /\ Idle(c) /\ Administrators # {}
  /\ \E target \in There :
       /\ "deleted" \in staff[target].is
       /\ staff[target].history \cap {"booked", "played", "logged"} = {}
       /\ Continue(c, [step |-> "purge", id |-> target])
  /\ KeepsStaff

CheckPurgeUser(c) ==
  /\ Idle(c) /\ Administrators # {}
  /\ \E target \in There :
       /\ "deleted" \in staff[target].is /\ staff[target].history = {}
       /\ Continue(c, [step |-> "purge", id |-> target])
  /\ KeepsStaff

\* Bookings keep the row; requests, roles and the like go with it, log
\* entries lose their user.
PurgeUser(c) ==
  /\ At(c, "purge")
  /\ LET id == request[c].id
     IN IF id \in There /\ staff[id].history \cap {"booked", "played"} # {}
          THEN Continue(c, Failed("purge", "key", id)) /\ UNCHANGED staff
          ELSE staff' = [u \in There \ {id} |-> staff[u]] /\ Continue(c, Rest)
  /\ UNCHANGED <<hired, entries>>

-----------------------------------------------------------------------------
(* The cast engine writes history meanwhile.                               *)

CheckEnter(c) ==
  /\ Idle(c) /\ entries < Bound(MaxEntries)
  /\ \E target \in Present, kind \in {"booked", "requested"} :
       Continue(c, [step |-> "enter", id |-> target, kind |-> kind])
  /\ entries' = entries + 1
  /\ UNCHANGED <<staff, hired>>

\* A booking is logged, a request is not.
Enter(c) ==
  /\ At(c, "enter")
  /\ LET id == request[c].id
     IN IF id \notin There
          THEN Continue(c, Failed("enter", "key", id)) /\ UNCHANGED staff
          ELSE /\ staff' = [staff EXCEPT ![id].history = @ \cup
                              (IF request[c].kind = "booked" THEN {"booked", "logged"}
                                                             ELSE {"requested"})]
               /\ Continue(c, Rest)
  /\ UNCHANGED <<hired, entries>>

Perform(u) ==
  /\ u \in There /\ "booked" \in staff[u].history
  /\ staff' = [staff EXCEPT ![u].history = (@ \ {"booked"}) \cup {"played"}]
  /\ UNCHANGED <<request, hired, entries>>

StaffNext ==
  /\ UNCHANGED clients
  /\ \/ \E c \in clients :
          \/ CreateUser(c) \/ CheckUpdateUser(c) \/ UpdateUser(c)
          \/ CheckDeleteUser(c) \/ CheckRestoreUser(c) \/ CheckUnlockUser(c) \/ SetUser(c)
          \/ CheckPurgeUser(c) \/ PurgeUser(c)
          \/ CheckEnter(c) \/ Enter(c)
     \/ \E u \in There : Perform(u)

-----------------------------------------------------------------------------
StaffOK ==
  /\ There \subseteq 1..hired
  /\ \A u \in There : staff[u] \in Account

\* However edits, deletions and purges race, somebody is left who can undo
\* them: administrators are beyond the reach of all three.
SomeoneAdministers == Administrators # {}

\* Without interference nobody who is deleted holds a role or the flag, and
\* comes back with it when restored.
AloneStaffKept ==
  Alone => \A u \in There : "deleted" \in staff[u].is =>
             staff[u].is \cap {"administrator", "disponent"} = {}

\* Roles and flags rest with accounts that are there, one at least.
StaffSafe == StaffOK /\ SomeoneAdministers /\ AloneStaffKept

\* A purge never takes bookings along, whatever interferes; left alone it
\* takes deleted accounts without any history.
PurgeSpares ==
  [][\A u \in There \ There' :
       /\ staff[u].history \cap {"booked", "played"} = {}
       /\ Alone => "deleted" \in staff[u].is /\ staff[u].history = {}]_staffVars
=============================================================================
