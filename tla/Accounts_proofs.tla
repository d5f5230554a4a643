--------------------------- MODULE Accounts_proofs ---------------------------
(***************************************************************************)
(* Proofs about the accounts, for any bounds: as many accounts, edits,     *)
(* entries and links as there may be.                                      *)
(***************************************************************************)
EXTENDS Accounts, TLAPS, FiniteSetTheorems, SequenceTheorems

-----------------------------------------------------------------------------
(* Requests.                                                               *)

RequestsOK ==
  /\ clients \in {{1}, {1, 2}}
  /\ request = [c \in clients |-> request[c]]

LEMMA PairHasTwo == IsFiniteSet({1, 2}) /\ Cardinality({1, 2}) = 2
<1>1. Cardinality({1}) = 1 /\ IsFiniteSet({1})
  BY FS_Singleton
<1>2. 2 \notin {1} /\ {1} \cup {2} = {1, 2}
  OBVIOUS
<1>3. IsFiniteSet({1} \cup {2}) /\ Cardinality({1} \cup {2}) = 2
  BY <1>1, <1>2, FS_AddElement
<1>. QED
  BY <1>2, <1>3

LEMMA AloneIsOne ==
  ASSUME RequestsOK, Alone PROVE clients = {1}
BY PairHasTwo DEF RequestsOK, Alone

\* One request goes on, the others stay as they are.
LEMMA OneGoes ==
  ASSUME RequestsOK, NEW c \in clients, NEW next, Continue(c, next), UNCHANGED clients
  PROVE  /\ RequestsOK'
         /\ request'[c] = next
         /\ \A d \in clients \ {c} : request'[d] = request[d]
BY DEF RequestsOK, Continue

-----------------------------------------------------------------------------
(* Administration.                                                         *)

Attributes == {"administrator", "disponent", "locked", "deleted"}
Offices == {"administrator", "disponent"}

\* What a request under way is about to do, and to whom: never to account 1.
StaffCallOK(c) ==
  /\ request[c].step \in {"update", "set"} =>
       /\ request[c].id # 1
       /\ request[c].changes.on \subseteq Attributes
       /\ request[c].changes.off \subseteq Attributes
  /\ request[c].step = "purge" => request[c].id # 1
  /\ request[c].step = "enter" => request[c].kind \in {"booked", "requested"}

\* Without interference what was checked still holds: no role is given to an
\* account that is deleted, no account that holds one is deleted, none that
\* has a history is purged.
StaffCallFresh(c) ==
  /\ request[c].step = "purge" /\ request[c].id \in There =>
       "deleted" \in staff[request[c].id].is /\ staff[request[c].id].history = {}
  /\ request[c].step \in {"update", "set"} /\ request[c].id \in There =>
       Changed(staff[request[c].id].is, request[c].changes) \cap Offices = {}
         \/ "deleted" \notin Changed(staff[request[c].id].is, request[c].changes)

StaffTyped ==
  /\ hired \in Nat
  /\ staff = [u \in There |-> staff[u]]
  /\ StaffOK

FirstAdministers ==
  1 \in There /\ "administrator" \in staff[1].is /\ staff[1].is \cap {"locked", "deleted"} = {}

StaffInv ==
  /\ RequestsOK /\ StaffTyped /\ FirstAdministers /\ AloneStaffKept
  /\ \A c \in clients : StaffCallOK(c) /\ (Alone => StaffCallFresh(c))

\* Account 1 is changed by nobody, so this is what is left to show of a step
\* that does not write accounts.
LEMMA StaffReads ==
  ASSUME StaffInv, NEW c \in clients, NEW next, Continue(c, next),
         UNCHANGED <<clients, staff, hired>>,
         next.step \in {"rest", "failed"}
           \/ (StaffCallOK(c)' /\ (Alone => StaffCallFresh(c)'))
  PROVE  StaffInv'
<1>1. RequestsOK' /\ request'[c] = next /\ \A d \in clients \ {c} : request'[d] = request[d]
  BY OneGoes DEF StaffInv
<1>2. Alone' = Alone
  BY DEF Alone
<1>3. StaffTyped' /\ FirstAdministers' /\ AloneStaffKept'
  BY <1>2 DEF StaffInv, StaffTyped, FirstAdministers, AloneStaffKept, StaffOK, There
<1>4. ASSUME NEW d \in clients, d # c PROVE StaffCallOK(d)' /\ (Alone => StaffCallFresh(d)')
  BY <1>1, <1>4 DEF StaffInv, StaffCallOK, StaffCallFresh, There
<1>5. StaffCallOK(c)' /\ (Alone => StaffCallFresh(c)')
  BY <1>1 DEF StaffCallOK, StaffCallFresh
<1>. QED
  BY <1>1, <1>2, <1>3, <1>4, <1>5 DEF StaffInv

LEMMA FormsEdited ==
  ASSUME NEW is \in SUBSET Attributes, NEW form \in Forms, NEW b \in BOOLEAN
  PROVE  /\ Edited(is, form, b).on \subseteq Attributes
         /\ Edited(is, form, b).off \subseteq Attributes
         /\ "deleted" \notin Edited(is, form, b).on
BY DEF Edited, Forms, Attributes

LEMMA CheckUpdateStep ==
  ASSUME StaffInv, NEW c \in clients, CheckUpdateUser(c), UNCHANGED clients PROVE StaffInv'
<1>1. PICK actor \in Maintainers, target \in Present, form \in Forms :
        /\ ~IsAdministrator(target)
        /\ Continue(c, [step |-> "update", id |-> target,
                        changes |-> Edited(staff[target].is, form, IsAdministrator(actor))])
  BY DEF CheckUpdateUser
<1>. DEFINE edited == Edited(staff[target].is, form, IsAdministrator(actor))
<1>2. UNCHANGED <<staff, hired>>
  BY DEF CheckUpdateUser, KeepsStaff, staffVars
<1>3. target \in There /\ staff[target].is \in SUBSET Attributes /\ "deleted" \notin staff[target].is
  BY DEF StaffInv, StaffTyped, StaffOK, Account, Attributes, Present
<1>4. IsAdministrator(actor) \in BOOLEAN
  BY DEF IsAdministrator
<1>5. edited.on \subseteq Attributes /\ edited.off \subseteq Attributes /\ "deleted" \notin edited.on
  BY <1>3, <1>4, FormsEdited
<1>. HIDE DEF edited
<1>6. request'[c] = [step |-> "update", id |-> target, changes |-> edited]
  BY <1>1, OneGoes DEF StaffInv, edited
<1>7. target # 1
  BY <1>1 DEF IsAdministrator, StaffInv, FirstAdministers
<1>8. StaffCallOK(c)'
  BY <1>5, <1>6, <1>7 DEF StaffCallOK
<1>9. StaffCallFresh(c)'
  BY <1>2, <1>3, <1>5, <1>6 DEF StaffCallFresh, Changed
<1>. QED
  BY <1>1, <1>2, <1>8, <1>9, StaffReads

LEMMA CheckSetStep ==
  ASSUME StaffInv, NEW c \in clients, UNCHANGED clients,
         CheckDeleteUser(c) \/ CheckRestoreUser(c) \/ CheckUnlockUser(c)
  PROVE  StaffInv'
<1>1. PICK target \in There, changes \in {[on |-> {"deleted"}, off |-> {}],
                                          [on |-> {}, off |-> {"deleted"}],
                                          [on |-> {}, off |-> {"locked"}]} :
        /\ Continue(c, [step |-> "set", id |-> target, changes |-> changes])
        /\ changes.on # {} => staff[target].is \cap Offices = {}
        /\ target # 1
  BY DEF CheckDeleteUser, CheckRestoreUser, CheckUnlockUser, Present, Offices,
         StaffInv, FirstAdministers
<1>2. UNCHANGED <<staff, hired>>
  BY DEF CheckDeleteUser, CheckRestoreUser, CheckUnlockUser, KeepsStaff, staffVars
<1>3. request'[c] = [step |-> "set", id |-> target, changes |-> changes]
  BY <1>1, OneGoes DEF StaffInv
<1>4. StaffCallOK(c)'
  BY <1>1, <1>3 DEF StaffCallOK, Attributes
<1>5. Alone => StaffCallFresh(c)'
  <2>1. Alone /\ "deleted" \in staff[target].is => staff[target].is \cap Offices = {}
    BY DEF StaffInv, AloneStaffKept, Offices
  <2>2. Changed(staff[target].is, changes) \cap Offices = {} \/ changes.on = {}
    BY <1>1 DEF Changed, Offices
  <2>. QED
    BY <1>1, <1>2, <1>3, <2>1, <2>2 DEF StaffCallFresh, Changed, There, Offices
<1>. QED
  BY <1>1, <1>2, <1>4, <1>5, StaffReads

LEMMA CheckPurgeStep ==
  ASSUME StaffInv, NEW c \in clients, CheckPurgeUser(c), UNCHANGED clients PROVE StaffInv'
<1>1. PICK target \in There :
        /\ "deleted" \in staff[target].is /\ staff[target].history = {}
        /\ Continue(c, [step |-> "purge", id |-> target])
  BY DEF CheckPurgeUser
<1>2. UNCHANGED <<staff, hired>>
  BY DEF CheckPurgeUser, KeepsStaff, staffVars
<1>3. request'[c] = [step |-> "purge", id |-> target]
  BY <1>1, OneGoes DEF StaffInv
<1>4. StaffCallOK(c)' /\ StaffCallFresh(c)'
  BY <1>1, <1>2, <1>3 DEF StaffCallOK, StaffCallFresh, StaffInv, FirstAdministers
<1>. QED
  BY <1>1, <1>2, <1>4, StaffReads

LEMMA CheckEnterStep ==
  ASSUME StaffInv, NEW c \in clients, CheckEnter(c), UNCHANGED clients PROVE StaffInv'
<1>1. PICK target \in Present, kind \in {"booked", "requested"} :
        Continue(c, [step |-> "enter", id |-> target, kind |-> kind])
  BY DEF CheckEnter
<1>2. UNCHANGED <<staff, hired>>
  BY DEF CheckEnter
<1>3. request'[c] = [step |-> "enter", id |-> target, kind |-> kind]
  BY <1>1, OneGoes DEF StaffInv
<1>4. StaffCallOK(c)' /\ StaffCallFresh(c)'
  BY <1>1, <1>3 DEF StaffCallOK, StaffCallFresh
<1>. QED
  BY <1>1, <1>2, <1>4, StaffReads

\* A request that is done.
LEMMA StaffDone ==
  ASSUME StaffInv, NEW c \in clients, NEW next, Continue(c, next), next.step \in {"rest", "failed"},
         UNCHANGED clients
  PROVE  /\ RequestsOK'
         /\ \A d \in clients : StaffCallOK(d)' /\ (Alone => StaffCallFresh(d)')
<1>1. RequestsOK' /\ request'[c] = next /\ \A d \in clients \ {c} : request'[d] = request[d]
  BY OneGoes DEF StaffInv
<1>2. ASSUME NEW d \in clients PROVE StaffCallOK(d)'
  BY <1>1 DEF StaffInv, StaffCallOK
<1>3. ASSUME NEW d \in clients, Alone PROVE StaffCallFresh(d)'
  <2>1. d = c
    BY <1>3, AloneIsOne DEF StaffInv
  <2>. QED
    BY <1>1, <2>1 DEF StaffCallFresh
<1>. QED
  BY <1>1, <1>2, <1>3

LEMMA CreateStep ==
  ASSUME StaffInv, NEW c \in clients, CreateUser(c), UNCHANGED clients PROVE StaffInv'
<1>1. PICK actor \in Maintainers, form \in Forms :
        staff' = [u \in There \cup {hired + 1} |->
                    IF u \in There THEN staff[u]
                    ELSE [is |-> Edited({}, form, IsAdministrator(actor)).on, history |-> {}]]
  BY DEF CreateUser
<1>. DEFINE is == Edited({}, form, IsAdministrator(actor)).on
<1>2. is \subseteq Attributes /\ "deleted" \notin is
  <2>1. {} \in SUBSET Attributes /\ IsAdministrator(actor) \in BOOLEAN
    BY DEF IsAdministrator
  <2>. QED
    BY <2>1, FormsEdited
<1>. HIDE DEF is
<1>3. /\ There' = There \cup {hired + 1}
      /\ \A u \in There : staff'[u] = staff[u]
      /\ hired + 1 \notin There => staff'[hired + 1] = [is |-> is, history |-> {}]
  BY <1>1 DEF There, is
<1>4. hired' = hired + 1 /\ UNCHANGED request
  BY DEF CreateUser
<1>5. StaffTyped'
  <2>1. staff' = [u \in There' |-> staff'[u]] /\ hired' \in Nat
    BY <1>1, <1>4 DEF There, StaffInv, StaffTyped
  <2>2. There' \subseteq 1..hired'
    BY <1>3, <1>4 DEF StaffInv, StaffTyped, StaffOK
  <2>3. \A u \in There' : staff'[u] \in Account
    BY <1>2, <1>3 DEF StaffInv, StaffTyped, StaffOK, Account, Attributes
  <2>. QED
    BY <2>1, <2>2, <2>3 DEF StaffTyped, StaffOK
<1>6. FirstAdministers'
  BY <1>3 DEF StaffInv, FirstAdministers
<1>7. AloneStaffKept'
  BY <1>2, <1>3 DEF StaffInv, AloneStaffKept, Alone
<1>8. RequestsOK' /\ \A d \in clients : StaffCallOK(d)'
  BY <1>4 DEF StaffInv, RequestsOK, StaffCallOK
<1>9. ASSUME NEW d \in clients, Alone PROVE StaffCallFresh(d)'
  <2>1. d = c
    BY <1>9, AloneIsOne DEF StaffInv
  <2>. QED
    BY <1>4, <2>1 DEF StaffCallFresh, CreateUser, Idle
<1>. QED
  BY <1>5, <1>6, <1>7, <1>8, <1>9 DEF StaffInv, Alone

\* An account is changed and the request done.
LEMMA WriteStep ==
  ASSUME StaffInv, NEW c \in clients, UNCHANGED clients, request[c].step \in {"update", "set"},
         request[c].id \in There, UNCHANGED hired,
         staff' = [staff EXCEPT ![request[c].id].is = Changed(@, request[c].changes)],
         Continue(c, Rest)
  PROVE  StaffInv'
<1>. DEFINE id == request[c].id
            is == Changed(staff[request[c].id].is, request[c].changes)
<1>1. id # 1 /\ is \subseteq Attributes
  BY DEF StaffInv, StaffCallOK, StaffTyped, StaffOK, Account, Attributes, Changed
<1>2. Alone => is \cap Offices = {} \/ "deleted" \notin is
  BY DEF StaffInv, StaffCallFresh
<1>3. /\ There' = There
      /\ \A u \in There \ {id} : staff'[u] = staff[u]
      /\ staff'[id].is = is
      /\ staff'[id] \in Account
      /\ staff' = [u \in There' |-> staff'[u]]
  <2>. HIDE DEF is
  <2>1. staff' = [staff EXCEPT ![id].is = is] /\ id \in There
    BY DEF is
  <2>2. staff = [u \in There |-> staff[u]] /\ staff[id] \in Account
    BY <2>1 DEF StaffInv, StaffTyped, StaffOK
  <2>. HIDE DEF id
  <2>3. There' = There /\ staff' = [u \in There' |-> staff'[u]]
    BY <2>1, <2>2 DEF There
  <2>4. \A u \in There \ {id} : staff'[u] = staff[u]
    BY <2>1, <2>2
  <2>5. staff'[id] = [staff[id] EXCEPT !.is = is]
    BY <2>1, <2>2
  <2>6. staff'[id].is = is /\ staff'[id] \in Account
    BY <1>1, <2>2, <2>5 DEF Account, Attributes
  <2>. QED
    BY <2>3, <2>4, <2>6
<1>. HIDE DEF id, is
<1>4. StaffTyped' /\ FirstAdministers'
  BY <1>1, <1>3 DEF StaffInv, StaffTyped, StaffOK, FirstAdministers
<1>5. AloneStaffKept'
  BY <1>2, <1>3 DEF StaffInv, AloneStaffKept, Alone, Offices
<1>6. RequestsOK' /\ \A d \in clients : StaffCallOK(d)' /\ (Alone => StaffCallFresh(d)')
  BY StaffDone DEF Rest
<1>. QED
  BY <1>4, <1>5, <1>6 DEF StaffInv, Alone

LEMMA UpdateStep ==
  ASSUME StaffInv, NEW c \in clients, UpdateUser(c) \/ SetUser(c), UNCHANGED clients PROVE StaffInv'
<1>1. request[c].step \in {"update", "set"} /\ UNCHANGED hired
  BY DEF UpdateUser, SetUser, At
<1>2. CASE UNCHANGED staff
  <2>1. PICK next : Continue(c, next) /\ next.step \in {"rest", "failed"}
    BY DEF UpdateUser, SetUser, Failed, Rest
  <2>. QED
    BY <1>1, <1>2, <2>1, StaffReads
<1>3. CASE staff' # staff
  BY <1>1, <1>3, WriteStep DEF UpdateUser, SetUser
<1>. QED
  BY <1>2, <1>3

LEMMA PurgeStep ==
  ASSUME StaffInv, NEW c \in clients, PurgeUser(c), UNCHANGED clients PROVE StaffInv'
<1>1. request[c].step = "purge" /\ request[c].id # 1 /\ UNCHANGED hired
  BY DEF PurgeUser, At, StaffInv, StaffCallOK
<1>2. PICK next : Continue(c, next) /\ next.step \in {"rest", "failed"}
  BY DEF PurgeUser, Failed, Rest
<1>3. CASE UNCHANGED staff
  BY <1>1, <1>2, <1>3, StaffReads
<1>4. CASE staff' = [u \in There \ {request[c].id} |-> staff[u]]
  <2>1. /\ There' = There \ {request[c].id}
        /\ \A u \in There' : staff'[u] = staff[u]
        /\ staff' = [u \in There' |-> staff'[u]]
    BY <1>4 DEF There
  <2>2. StaffTyped' /\ FirstAdministers' /\ AloneStaffKept'
    BY <1>1, <2>1 DEF StaffInv, StaffTyped, StaffOK, FirstAdministers, AloneStaffKept, Alone
  <2>3. RequestsOK' /\ \A d \in clients : StaffCallOK(d)' /\ (Alone => StaffCallFresh(d)')
    BY <1>2, StaffDone
  <2>. QED
    BY <2>2, <2>3 DEF StaffInv, Alone
<1>. QED
  BY <1>3, <1>4 DEF PurgeUser

\* History grows; flags and roles stay.
LEMMA HistoryWritten ==
  ASSUME StaffInv, NEW u \in There, NEW h \in SUBSET {"booked", "played", "requested", "logged"},
         staff' = [staff EXCEPT ![u].history = h], UNCHANGED <<hired, clients>>
  PROVE  /\ There' = There /\ \A v \in There : staff'[v].is = staff[v].is
         /\ \A v \in There \ {u} : staff'[v] = staff[v]
         /\ StaffTyped' /\ FirstAdministers' /\ AloneStaffKept'
<1>1. /\ There' = There
      /\ \A v \in There : staff'[v].is = staff[v].is /\ staff'[v] \in Account
      /\ \A v \in There \ {u} : staff'[v] = staff[v]
      /\ staff' = [v \in There' |-> staff'[v]]
  BY DEF StaffInv, StaffTyped, StaffOK, Account, There
<1>. QED
  BY <1>1 DEF StaffInv, StaffTyped, StaffOK, FirstAdministers, AloneStaffKept, Alone

LEMMA EnterStep ==
  ASSUME StaffInv, NEW c \in clients, Enter(c), UNCHANGED clients PROVE StaffInv'
<1>1. PICK next : Continue(c, next) /\ next.step \in {"rest", "failed"}
  BY DEF Enter, Failed, Rest
<1>2. UNCHANGED hired
  BY DEF Enter
<1>3. CASE UNCHANGED staff
  BY <1>1, <1>2, <1>3, StaffReads
<1>4. CASE staff' # staff
  <2>. DEFINE id == request[c].id
              added == IF request[c].kind = "booked" THEN {"booked", "logged"} ELSE {"requested"}
  <2>1. id \in There /\ staff' = [staff EXCEPT ![id].history = @ \cup added]
    BY <1>4 DEF Enter
  <2>2. staff[id].history \cup added \in SUBSET {"booked", "played", "requested", "logged"}
    BY <2>1 DEF StaffInv, StaffTyped, StaffOK, Account
  <2>3. staff' = [staff EXCEPT ![id].history = staff[id].history \cup added]
    BY <2>1
  <2>. HIDE DEF id, added
  <2>4. StaffTyped' /\ FirstAdministers' /\ AloneStaffKept'
    BY <1>2, <2>1, <2>2, <2>3, HistoryWritten
  <2>5. RequestsOK' /\ \A d \in clients : StaffCallOK(d)' /\ (Alone => StaffCallFresh(d)')
    BY <1>1, StaffDone
  <2>. QED
    BY <2>4, <2>5 DEF StaffInv, Alone
<1>. QED
  BY <1>3, <1>4

LEMMA PerformStep ==
  ASSUME StaffInv, NEW u \in There, Perform(u), UNCHANGED clients PROVE StaffInv'
<1>. DEFINE h == (staff[u].history \ {"booked"}) \cup {"played"}
<1>1. h \in SUBSET {"booked", "played", "requested", "logged"}
  BY DEF StaffInv, StaffTyped, StaffOK, Account
<1>2. /\ staff' = [staff EXCEPT ![u].history = h] /\ UNCHANGED <<request, hired>>
      /\ staff[u].history # {}
  BY DEF Perform
<1>. HIDE DEF h
<1>3. /\ There' = There /\ \A v \in There : staff'[v].is = staff[v].is
      /\ \A v \in There \ {u} : staff'[v] = staff[v]
      /\ StaffTyped' /\ FirstAdministers' /\ AloneStaffKept'
  BY <1>1, <1>2, HistoryWritten
<1>4. RequestsOK' /\ \A d \in clients : StaffCallOK(d)' /\ (Alone => StaffCallFresh(d)')
  BY <1>2, <1>3 DEF StaffInv, RequestsOK, StaffCallOK, StaffCallFresh
<1>. QED
  BY <1>3, <1>4 DEF StaffInv, Alone

LEMMA StaffStep == StaffInv /\ StaffNext => StaffInv'
<1>. SUFFICES ASSUME StaffInv, StaffNext PROVE StaffInv'
  OBVIOUS
<1>1. UNCHANGED clients
  BY DEF StaffNext
<1>. QED
  BY <1>1, CreateStep, CheckUpdateStep, UpdateStep, CheckSetStep, CheckPurgeStep, PurgeStep,
     CheckEnterStep, EnterStep, PerformStep DEF StaffNext

LEMMA PurgeSparing ==
  ASSUME StaffInv, StaffNext
  PROVE  \A u \in There \ There' :
           /\ staff[u].history \cap {"booked", "played"} = {}
           /\ Alone => "deleted" \in staff[u].is /\ staff[u].history = {}
<1>1. CASE \E c \in clients : PurgeUser(c)
  <2>1. PICK c \in clients : PurgeUser(c)
    BY <1>1
  <2>2. \A u \in There \ There' :
          u = request[c].id /\ staff[u].history \cap {"booked", "played"} = {}
    BY <2>1 DEF PurgeUser, There
  <2>3. Alone => StaffCallFresh(c) /\ request[c].step = "purge"
    BY <2>1 DEF StaffInv, PurgeUser, At
  <2>. QED
    BY <2>2, <2>3 DEF StaffCallFresh
<1>2. CASE \E c \in clients : CreateUser(c)
  BY <1>2 DEF CreateUser, There
<1>3. CASE UNCHANGED staff
  BY <1>3 DEF There
<1>4. CASE \E c \in clients : UpdateUser(c) \/ SetUser(c) \/ Enter(c)
  BY <1>4 DEF UpdateUser, SetUser, Enter, There
<1>5. CASE \E u \in There : Perform(u)
  BY <1>5 DEF Perform, There
<1>. QED
  BY <1>1, <1>2, <1>3, <1>4, <1>5
  DEF StaffNext, CheckUpdateUser, CheckDeleteUser, CheckRestoreUser, CheckUnlockUser,
      CheckPurgeUser, CheckEnter, KeepsStaff, staffVars

LEMMA StaffInvSafe == StaffInv => StaffSafe
BY DEF StaffInv, StaffTyped, FirstAdministers, StaffSafe, SomeoneAdministers, Administrators,
       Acting, Present

LEMMA StaffInitInv == RequestsOK /\ (\A c \in clients : request[c] = Rest) /\ StaffInit => StaffInv
BY DEF StaffInit, StaffInv, StaffTyped, StaffOK, There, Account, FirstAdministers, AloneStaffKept,
       StaffCallOK, StaffCallFresh, Rest

-----------------------------------------------------------------------------
(* Sessions.                                                               *)

Row == [secret : Nat, idle : BOOLEAN, epoch : Nat]
Jar == [id : 0..drawn.ids, secret : 0..drawn.secrets]

SessionsTyped ==
  /\ drawn \in [ids : Nat, secrets : Nat, epoch : Nat]
  /\ sessions = [i \in Live |-> sessions[i]]
  /\ \A i \in Live : sessions[i] \in Row
  /\ cookie \in Jar
  /\ access = [c \in clients |-> access[c]]
  /\ ended \subseteq 1..drawn.ids /\ spent \subseteq 0..drawn.secrets
  /\ SessionsOK

SessionCallTyped(c) ==
  /\ request[c].step = "answer" => request[c].cookie \in Jar /\ request[c].access \in 0..drawn.ids
  /\ request[c].step \in {"account", "rotate", "invalidate"} => request[c].sent \in Jar
  /\ request[c].step = "open" => request[c].epoch \in 0..drawn.epoch

\* No two sessions have the same secret, none that ended is there.
RowsSound ==
  /\ \A i, j \in Live : sessions[i].secret = sessions[j].secret => i = j
  /\ GoneStaysGone

\* The secret in the cookie is good, if its session is there.
Good(jar) == jar.id \in Live => sessions[jar.id].secret = jar.secret

\* Without interference no secret that is spent is good for anything, ...
AloneRows == \A i \in Live : sessions[i].secret \notin spent /\ sessions[i].epoch = drawn.epoch

\* ... what was read still holds, and unless an answer was lost the browser
\* has, or will be told, the secret that is good.
AloneCall(c) ==
  /\ request[c].step = "open" => request[c].epoch = drawn.epoch
  /\ request[c].step \in {"account", "rotate"} =>
       request[c].sent.id \in Live /\ Good(request[c].sent)
  /\ ~lost /\ request[c].step = "invalidate" => request[c].cause # "reuse"
  /\ ~lost => IF request[c].step = "answer" THEN Good(request[c].cookie) ELSE Good(cookie)

SessionsInv ==
  /\ RequestsOK /\ SessionsTyped /\ RowsSound
  /\ \A c \in clients : SessionCallTyped(c)
  /\ Alone => AloneRows /\ \A c \in clients : AloneCall(c)

\* Of several requests the one that goes on is left to look at; without
\* interference it is the only one.
LEMMA SessionStep ==
  ASSUME SessionsInv, NEW c \in clients, NEW next, Continue(c, next), UNCHANGED clients,
         drawn'.ids \in Nat, drawn'.ids >= drawn.ids,
         drawn'.secrets \in Nat, drawn'.secrets >= drawn.secrets,
         drawn'.epoch \in Nat, drawn'.epoch >= drawn.epoch,
         SessionsTyped', RowsSound', SessionCallTyped(c)', Alone => AloneRows' /\ AloneCall(c)'
  PROVE  SessionsInv'
<1>1. RequestsOK' /\ request'[c] = next /\ \A d \in clients \ {c} : request'[d] = request[d]
  BY OneGoes DEF SessionsInv
<1>2. Alone' = Alone
  BY DEF Alone
<1>3. 0..drawn.ids \subseteq 0..drawn'.ids /\ 0..drawn.secrets \subseteq 0..drawn'.secrets
        /\ 0..drawn.epoch \subseteq 0..drawn'.epoch
  BY DEF SessionsInv, SessionsTyped
<1>4. ASSUME NEW d \in clients PROVE SessionCallTyped(d)'
  <2>1. CASE d = c
    BY <2>1
  <2>2. CASE d # c
    <3>1. SessionCallTyped(d) /\ request'[d] = request[d]
      BY <1>1, <2>2 DEF SessionsInv
    <3>2. \A jar \in Jar : jar \in Jar'
      BY <1>3 DEF Jar
    <3>. QED
      BY <1>3, <3>1, <3>2 DEF SessionCallTyped
  <2>. QED
    BY <2>1, <2>2
<1>5. ASSUME NEW d \in clients, Alone PROVE AloneCall(d)'
  <2>1. d = c
    BY <1>5, AloneIsOne DEF SessionsInv
  <2>. QED
    BY <1>5, <2>1
<1>. QED
  BY <1>1, <1>2, <1>4, <1>5 DEF SessionsInv

\* Steps that only read.
LEMMA SessionReads ==
  ASSUME SessionsInv, NEW c \in clients, NEW next, Continue(c, next),
         UNCHANGED <<clients, sessionVars>>,
         SessionCallTyped(c)', Alone => AloneCall(c)'
  PROVE  SessionsInv'
<1>1. UNCHANGED <<account, sessions, cookie, access, drawn, spent, ended, lost>>
  BY DEF sessionVars
<1>2. SessionsTyped' /\ RowsSound' /\ (Alone => AloneRows')
  BY <1>1 DEF SessionsInv, SessionsTyped, RowsSound, AloneRows, SessionsOK, GoneStaysGone, Live, Jar
<1>3. drawn' = drawn /\ drawn.ids \in Nat /\ drawn.secrets \in Nat /\ drawn.epoch \in Nat
  BY <1>1 DEF SessionsInv, SessionsTyped
<1>. QED
  BY <1>2, <1>3, SessionStep

LEMMA SignInStep ==
  ASSUME SessionsInv, NEW c \in clients, UNCHANGED clients,
         Authenticate(c) \/ FollowVerificationLink(c) \/ CheckLogout(c) \/ StartReset(c)
  PROVE  SessionsInv'
<1>1. PICK next : Continue(c, next) /\ next.step \in {"open", "logout", "password"}
                    /\ (next.step = "open" => next.epoch = drawn.epoch)
  BY DEF Authenticate, FollowVerificationLink, CheckLogout, StartReset
<1>2. request'[c] = next /\ UNCHANGED sessionVars /\ request[c].step \in {"rest", "failed"}
  BY <1>1, OneGoes
  DEF SessionsInv, Authenticate, FollowVerificationLink, CheckLogout, StartReset, KeepsAll, Idle
<1>3. SessionCallTyped(c)'
  BY <1>1, <1>2 DEF SessionCallTyped, sessionVars, SessionsInv, SessionsTyped
<1>4. Alone => AloneCall(c)'
  BY <1>1, <1>2 DEF AloneCall, sessionVars, SessionsInv, Good, Live
<1>. QED
  BY <1>1, <1>2, <1>3, <1>4, SessionReads

LEMMA ReadSessionStep ==
  ASSUME SessionsInv, NEW c \in clients, ReadSession(c), UNCHANGED clients PROVE SessionsInv'
<1>1. /\ UNCHANGED <<account, sessions, cookie, access, drawn, spent, ended, lost>>
      /\ request[c].step \in {"rest", "failed"} /\ RequestsOK
  BY DEF ReadSession, KeepsAll, sessionVars, Idle, SessionsInv
<1>2. cookie \in Jar /\ access[c] \in 0..drawn.ids /\ NoCookie \in Jar
  BY DEF SessionsInv, SessionsTyped, SessionsOK, NoCookie, None, Jar
<1>3. Alone /\ ~lost => Good(cookie)
  BY <1>1 DEF SessionsInv, AloneCall
<1>4. 0 \notin Live
  BY DEF SessionsInv, SessionsTyped, SessionsOK
<1>5. CASE Continue(c, Answer(NoCookie, access[c]))
  <2>1. request'[c] = Answer(NoCookie, access[c])
    BY <1>1, <1>5, OneGoes
  <2>2. SessionCallTyped(c)'
    BY <1>1, <1>2, <2>1 DEF SessionCallTyped, Answer, Jar
  <2>3. AloneCall(c)'
    BY <1>1, <1>4, <2>1 DEF AloneCall, Answer, Good, NoCookie, None, Live
  <2>. QED
    BY <1>1, <1>5, <2>2, <2>3, SessionReads DEF sessionVars
<1>6. CASE \E cause \in {"reuse", "idle"} :
             /\ Continue(c, Refused(cookie, cause))
             /\ cause = "reuse" => ~Good(cookie)
  <2>1. PICK cause \in {"reuse", "idle"} :
          Continue(c, Refused(cookie, cause)) /\ (cause = "reuse" => ~Good(cookie))
    BY <1>6
  <2>2. request'[c] = Refused(cookie, cause)
    BY <1>1, <2>1, OneGoes
  <2>3. SessionCallTyped(c)'
    BY <1>1, <1>2, <2>2 DEF SessionCallTyped, Refused, Jar
  <2>4. Alone => AloneCall(c)'
    BY <1>1, <1>3, <2>1, <2>2 DEF AloneCall, Refused, Good, Live
  <2>. QED
    BY <1>1, <2>1, <2>3, <2>4, SessionReads DEF sessionVars
<1>7. CASE /\ Continue(c, [step |-> "account", sent |-> cookie])
           /\ cookie.id \in Live /\ Good(cookie)
  <2>1. request'[c] = [step |-> "account", sent |-> cookie]
    BY <1>1, <1>7, OneGoes
  <2>2. SessionCallTyped(c)'
    BY <1>1, <1>2, <2>1 DEF SessionCallTyped, Jar
  <2>3. AloneCall(c)'
    BY <1>1, <1>7, <2>1 DEF AloneCall, Good, Live
  <2>. QED
    BY <1>1, <1>7, <2>2, <2>3, SessionReads DEF sessionVars
<1>. QED
  BY <1>5, <1>6, <1>7 DEF ReadSession, Good

LEMMA ReadAccountStep ==
  ASSUME SessionsInv, NEW c \in clients, ReadAccount(c), UNCHANGED clients PROVE SessionsInv'
<1>1. /\ UNCHANGED <<account, sessions, cookie, access, drawn, spent, ended, lost>>
      /\ request[c].step = "account" /\ RequestsOK
  BY DEF ReadAccount, KeepsAll, sessionVars, At, SessionsInv
<1>2. PICK next \in {[step |-> "rotate", sent |-> request[c].sent],
                     Refused(request[c].sent, "account")} : Continue(c, next)
  BY DEF ReadAccount
<1>3. request'[c] = next
  BY <1>1, <1>2, OneGoes
<1>4. SessionCallTyped(c)'
  BY <1>1, <1>2, <1>3 DEF SessionsInv, SessionCallTyped, Refused, Jar
<1>5. Alone => AloneCall(c)'
  BY <1>1, <1>2, <1>3 DEF SessionsInv, AloneCall, Refused, Good, Live
<1>. QED
  BY <1>1, <1>2, <1>4, <1>5, SessionReads DEF sessionVars

\* Rows that are removed.
LEMMA Removed ==
  ASSUME SessionsInv, NEW gone, Remove(gone), UNCHANGED <<clients, cookie, access, spent>>,
         drawn' \in [ids : {drawn.ids}, secrets : {drawn.secrets}, epoch : Nat],
         drawn'.epoch >= drawn.epoch, account' = account
  PROVE  /\ SessionsTyped' /\ RowsSound'
         /\ Live' = Live \ gone /\ \A i \in Live' : sessions'[i] = sessions[i]
         /\ drawn'.ids = drawn.ids /\ drawn'.secrets = drawn.secrets
         /\ drawn.ids \in Nat /\ drawn.secrets \in Nat /\ drawn.epoch \in Nat
<1>1. /\ Live' = Live \ gone
      /\ \A i \in Live' : sessions'[i] = sessions[i]
      /\ sessions' = [i \in Live' |-> sessions'[i]]
      /\ ended' = ended \cup (gone \cap Live)
  BY DEF Remove, Live
<1>2. drawn'.ids = drawn.ids /\ drawn'.secrets = drawn.secrets
        /\ drawn.ids \in Nat /\ drawn.secrets \in Nat /\ drawn.epoch \in Nat
  BY DEF SessionsInv, SessionsTyped
<1>3. SessionsOK'
  BY <1>1, <1>2 DEF SessionsInv, SessionsTyped, SessionsOK
<1>4. SessionsTyped'
  BY <1>1, <1>2, <1>3 DEF SessionsInv, SessionsTyped, SessionsOK, Jar
<1>5. RowsSound'
  BY <1>1 DEF SessionsInv, RowsSound, GoneStaysGone
<1>. QED
  BY <1>1, <1>2, <1>4, <1>5

LEMMA InvalidateStep ==
  ASSUME SessionsInv, NEW c \in clients, UNCHANGED clients,
         Invalidate(c) \/ CallExpired(c) \/ Logout(c)
  PROVE  SessionsInv'
<1>1. UNCHANGED <<account, drawn, spent, cookie, access, lost>>
  BY DEF Invalidate, CallExpired, Logout, KeepsBrowser
<1>2. PICK gone, next :
        /\ Remove(gone) /\ Continue(c, next)
        /\ \/ next = Rest /\ request[c].step \in {"rest", "failed"}
           \/ \E token \in {access[c], None} : next = Answer(NoCookie, token)
  BY DEF Invalidate, CallExpired, Logout, Idle
<1>3. drawn' \in [ids : {drawn.ids}, secrets : {drawn.secrets}, epoch : Nat] /\ drawn'.epoch >= drawn.epoch
  BY <1>1 DEF SessionsInv, SessionsTyped
<1>4. /\ SessionsTyped' /\ RowsSound'
      /\ Live' = Live \ gone /\ \A i \in Live' : sessions'[i] = sessions[i]
      /\ drawn.ids \in Nat /\ drawn.secrets \in Nat /\ drawn.epoch \in Nat
  BY <1>1, <1>2, <1>3, Removed
<1>5. request'[c] = next
  BY <1>2, OneGoes DEF SessionsInv
<1>6. SessionCallTyped(c)'
  BY <1>1, <1>2, <1>5 DEF SessionCallTyped, Answer, Rest, Jar, NoCookie, None, SessionsInv,
     SessionsTyped, SessionsOK
<1>7. 0 \notin Live'
  BY <1>4 DEF SessionsInv, SessionsTyped, SessionsOK
<1>8. Alone => AloneRows' /\ AloneCall(c)'
  BY <1>1, <1>2, <1>4, <1>5, <1>7
  DEF SessionsInv, AloneRows, AloneCall, Good, Answer, Rest, NoCookie, None
<1>. QED
  BY <1>1, <1>2, <1>3, <1>4, <1>6, <1>8, SessionStep

LEMMA ResetStep ==
  ASSUME SessionsInv, NEW c \in clients, UNCHANGED clients, Reset(c) PROVE SessionsInv'
<1>1. /\ UNCHANGED <<account, spent, cookie, access, lost>> /\ Remove(Live) /\ Continue(c, Rest)
      /\ drawn' = [drawn EXCEPT !.epoch = @ + 1]
  BY DEF Reset, KeepsBrowser
<1>2. /\ drawn' \in [ids : {drawn.ids}, secrets : {drawn.secrets}, epoch : Nat]
      /\ drawn'.epoch >= drawn.epoch
  BY <1>1 DEF SessionsInv, SessionsTyped
<1>3. /\ SessionsTyped' /\ RowsSound' /\ Live' = {}
      /\ drawn'.ids = drawn.ids /\ drawn'.secrets = drawn.secrets
      /\ drawn.ids \in Nat /\ drawn.secrets \in Nat /\ drawn.epoch \in Nat
  <2>1. Remove(Live) /\ UNCHANGED <<clients, cookie, access, spent>> /\ account' = account
    BY <1>1
  <2>. QED
    BY <1>2, <2>1, Removed
<1>4. request'[c] = Rest
  BY <1>1, OneGoes DEF SessionsInv
<1>5. SessionCallTyped(c)' /\ AloneRows' /\ AloneCall(c)'
  BY <1>3, <1>4 DEF SessionCallTyped, AloneRows, AloneCall, Good, Rest
<1>. QED
  BY <1>1, <1>2, <1>3, <1>5, SessionStep

LEMMA AnswerStep ==
  ASSUME SessionsInv, NEW c \in clients, UNCHANGED clients, TakeAnswer(c) \/ LoseAnswer(c)
  PROVE  SessionsInv'
<1>1. /\ UNCHANGED <<account, sessions, drawn, spent, ended>> /\ Continue(c, Rest)
      /\ request[c].step = "answer"
  BY DEF TakeAnswer, LoseAnswer, KeepsRows, At
<1>2. /\ drawn'.ids = drawn.ids /\ drawn'.secrets = drawn.secrets /\ drawn'.epoch = drawn.epoch
      /\ drawn.ids \in Nat /\ drawn.secrets \in Nat /\ drawn.epoch \in Nat
  BY <1>1 DEF SessionsInv, SessionsTyped
<1>3. request'[c] = Rest
  BY <1>1, OneGoes DEF SessionsInv
<1>4. /\ cookie' \in Jar /\ access' = [d \in clients |-> access'[d]]
      /\ \A d \in clients : access'[d] \in 0..drawn.ids
  <2>1. request[c].cookie \in Jar /\ request[c].access \in 0..drawn.ids
    BY <1>1 DEF SessionsInv, SessionCallTyped
  <2>. QED
    BY <2>1 DEF TakeAnswer, LoseAnswer, SessionsInv, SessionsTyped, SessionsOK
<1>5. SessionsTyped' /\ RowsSound'
  BY <1>1, <1>2, <1>4
  DEF SessionsInv, SessionsTyped, SessionsOK, RowsSound, GoneStaysGone, Live, Jar
<1>6. SessionCallTyped(c)'
  BY <1>3 DEF SessionCallTyped, Rest
<1>7. ASSUME Alone PROVE AloneRows' /\ AloneCall(c)'
  <2>1. AloneRows'
    BY <1>1, <1>7 DEF SessionsInv, AloneRows, Live
  <2>2. ~lost' => Good(cookie)'
    BY <1>1, <1>7 DEF SessionsInv, AloneCall, Good, Live, TakeAnswer, LoseAnswer
  <2>. QED
    BY <1>3, <2>1, <2>2 DEF AloneCall, Rest
<1>. QED
  BY <1>1, <1>2, <1>5, <1>6, <1>7, SessionStep

LEMMA CreateSessionStep ==
  ASSUME SessionsInv, NEW c \in clients, UNCHANGED clients, CreateUserSession(c)
  PROVE  SessionsInv'
<1>. DEFINE id == drawn.ids + 1
            secret == drawn.secrets + 1
            row == [secret |-> secret, idle |-> FALSE, epoch |-> request[c].epoch]
<1>1. /\ sessions' = [i \in Live \cup {id} |-> IF i \in Live THEN sessions[i] ELSE row]
      /\ drawn' = [drawn EXCEPT !.ids = id, !.secrets = secret]
      /\ Continue(c, Answer([id |-> id, secret |-> secret], id))
      /\ UNCHANGED <<account, spent, ended, cookie, access, lost>>
      /\ request[c].step = "open"
  BY DEF CreateUserSession, KeepsBrowser, At
<1>2. drawn.ids \in Nat /\ drawn.secrets \in Nat /\ drawn.epoch \in Nat
  BY DEF SessionsInv, SessionsTyped
<1>3. drawn'.ids = id /\ drawn'.secrets = secret /\ drawn'.epoch = drawn.epoch
        /\ drawn' \in [ids : Nat, secrets : Nat, epoch : Nat]
  <2>1. drawn' = [drawn EXCEPT !.ids = id, !.secrets = secret] /\ id \in Nat /\ secret \in Nat
    BY <1>1, <1>2
  <2>. HIDE DEF id, secret
  <2>. QED
    BY <1>2, <2>1 DEF SessionsInv, SessionsTyped
<1>4. request[c].epoch \in 0..drawn.epoch
  BY <1>1 DEF SessionsInv, SessionCallTyped
<1>5. Live \subseteq 1..drawn.ids /\ id \notin Live
  BY <1>2 DEF SessionsInv, SessionsTyped, SessionsOK
<1>6. /\ Live' = Live \cup {id} /\ sessions' = [i \in Live' |-> sessions'[i]]
      /\ \A i \in Live : sessions'[i] = sessions[i]
      /\ sessions'[id] = row
  BY <1>1, <1>5 DEF Live
<1>7. row \in Row /\ row.secret = secret /\ row.epoch = request[c].epoch
  BY <1>2, <1>4 DEF Row
<1>8. request'[c] = Answer([id |-> id, secret |-> secret], id)
  BY <1>1, OneGoes DEF SessionsInv
<1>. HIDE DEF row
<1>9. SessionsOK'
  <2>1. Live' \subseteq 1..drawn'.ids
    BY <1>2, <1>3, <1>5, <1>6
  <2>2. \A i \in Live' : sessions'[i].secret \in 1..drawn'.secrets /\ sessions'[i].epoch \in 0..drawn'.epoch
    BY <1>2, <1>3, <1>4, <1>6, <1>7 DEF SessionsInv, SessionsTyped, SessionsOK
  <2>3. cookie'.id \in 0..drawn'.ids /\ cookie'.secret \in 0..drawn'.secrets
          /\ \A d \in clients' : access'[d] \in 0..drawn'.ids
    BY <1>1, <1>2, <1>3 DEF SessionsInv, SessionsTyped, SessionsOK
  <2>. QED
    BY <1>1, <2>1, <2>2, <2>3 DEF SessionsInv, SessionsTyped, SessionsOK
<1>10. SessionsTyped'
  <2>1. \A i \in Live' : sessions'[i] \in Row
    BY <1>6, <1>7 DEF SessionsInv, SessionsTyped
  <2>2. cookie' \in Jar' /\ ended' \subseteq 1..drawn'.ids /\ spent' \subseteq 0..drawn'.secrets
    BY <1>1, <1>2, <1>3 DEF SessionsInv, SessionsTyped, Jar
  <2>. QED
    BY <1>1, <1>3, <1>6, <1>9, <2>1, <2>2 DEF SessionsInv, SessionsTyped
<1>11. RowsSound'
  <2>1. \A i \in Live : sessions[i].secret < secret
    BY <1>2 DEF SessionsInv, SessionsTyped, SessionsOK
  <2>2. id \notin ended
    BY <1>2 DEF SessionsInv, SessionsTyped
  <2>. QED
    BY <1>1, <1>2, <1>6, <1>7, <2>1, <2>2 DEF SessionsInv, RowsSound, GoneStaysGone
<1>12. SessionCallTyped(c)'
  BY <1>2, <1>3, <1>8 DEF SessionCallTyped, Answer, Jar
<1>13. ASSUME Alone PROVE AloneRows' /\ AloneCall(c)'
  <2>1. secret \notin spent /\ request[c].epoch = drawn.epoch
    BY <1>1, <1>2, <1>13 DEF SessionsInv, SessionsTyped, AloneCall
  <2>2. AloneRows'
    BY <1>1, <1>3, <1>6, <1>7, <1>13, <2>1 DEF SessionsInv, AloneRows
  <2>3. AloneCall(c)'
    BY <1>6, <1>7, <1>8 DEF AloneCall, Answer, Good
  <2>. QED
    BY <2>2, <2>3
<1>. QED
  BY <1>1, <1>2, <1>3, <1>10, <1>11, <1>12, <1>13, SessionStep

LEMMA RotateStep ==
  ASSUME SessionsInv, NEW c \in clients, UNCHANGED clients, Rotate(c)
  PROVE  SessionsInv'
<1>. DEFINE old == request[c].sent
            secret == drawn.secrets + 1
<1>1. /\ UNCHANGED <<account, ended, cookie, access, lost>>
      /\ request[c].step = "rotate" /\ RequestsOK
  BY DEF Rotate, KeepsBrowser, At, SessionsInv
<1>2. drawn.ids \in Nat /\ drawn.secrets \in Nat /\ drawn.epoch \in Nat
  BY DEF SessionsInv, SessionsTyped
<1>3. old \in Jar
  BY <1>1 DEF SessionsInv, SessionCallTyped
<1>4. CASE old.id \notin Live
  <2>1. Continue(c, Failed("rotate", "stale", old.id)) /\ UNCHANGED <<sessions, drawn, spent>>
    BY <1>4 DEF Rotate
  <2>2. request'[c] = Failed("rotate", "stale", old.id)
    BY <1>1, <2>1, OneGoes
  <2>3. SessionCallTyped(c)'
    BY <2>2 DEF SessionCallTyped, Failed
  <2>4. Alone => AloneCall(c)'
    BY <1>1, <2>1, <2>2 DEF SessionsInv, AloneCall, Failed, Good, Live
  <2>. QED
    BY <1>1, <2>1, <2>3, <2>4, SessionReads DEF sessionVars
<1>5. CASE old.id \in Live
  <2>1. /\ sessions' = [sessions EXCEPT ![old.id].secret = secret, ![old.id].idle = FALSE]
        /\ drawn' = [drawn EXCEPT !.secrets = secret]
        /\ spent' = spent \cup {old.secret}
        /\ Continue(c, Answer([old EXCEPT !.secret = secret], old.id))
    BY <1>5 DEF Rotate
  <2>2. drawn'.ids = drawn.ids /\ drawn'.secrets = secret /\ drawn'.epoch = drawn.epoch
          /\ drawn' \in [ids : Nat, secrets : Nat, epoch : Nat]
    BY <1>2, <2>1 DEF SessionsInv, SessionsTyped
  <2>3. sessions[old.id] \in Row /\ sessions[old.id].secret \in 1..drawn.secrets
    BY <1>5 DEF SessionsInv, SessionsTyped, SessionsOK
  <2>4. /\ Live' = Live /\ sessions' = [i \in Live' |-> sessions'[i]]
        /\ \A i \in Live \ {old.id} : sessions'[i] = sessions[i]
    BY <1>5, <2>1 DEF SessionsInv, SessionsTyped, Live
  <2>5. /\ sessions'[old.id].secret = secret /\ sessions'[old.id].epoch = sessions[old.id].epoch
        /\ sessions'[old.id] \in Row
    <3>. DEFINE r == [sessions[old.id] EXCEPT !.secret = secret, !.idle = FALSE]
    <3>1. sessions'[old.id] = r
      BY <1>5, <2>1 DEF SessionsInv, SessionsTyped, Live
    <3>2. r.secret = secret /\ r.epoch = sessions[old.id].epoch /\ r \in Row
      <4>1. secret \in Nat /\ sessions[old.id] \in Row
        BY <1>2, <2>3
      <4>. HIDE DEF secret, old
      <4>. QED
        BY <4>1 DEF Row
    <3>. QED
      BY <3>1, <3>2
  <2>6. request'[c] = Answer([old EXCEPT !.secret = secret], old.id)
    BY <1>1, <2>1, OneGoes
  <2>7. [old EXCEPT !.secret = secret] = [id |-> old.id, secret |-> secret]
    BY <1>3 DEF Jar
  <2>. HIDE DEF old
  <2>8. old.id \in 1..drawn.ids /\ old.secret \in 0..drawn.secrets
    BY <1>3, <1>5 DEF Jar, SessionsInv, SessionsTyped, SessionsOK
  <2>9. SessionsOK'
    BY <1>1, <1>2, <2>2, <2>3, <2>4, <2>5 DEF SessionsInv, SessionsTyped, SessionsOK
  <2>10. SessionsTyped'
    <3>1. spent' \subseteq 0..drawn'.secrets /\ cookie' \in Jar' /\ ended' \subseteq 1..drawn'.ids
      BY <1>1, <1>2, <2>1, <2>2, <2>8 DEF SessionsInv, SessionsTyped, Jar
    <3>2. \A i \in Live' : sessions'[i] \in Row
      BY <2>4, <2>5 DEF SessionsInv, SessionsTyped
    <3>. QED
      BY <1>1, <2>2, <2>4, <2>9, <3>1, <3>2 DEF SessionsInv, SessionsTyped
  <2>11. RowsSound'
    <3>1. \A i \in Live : sessions[i].secret # secret
      BY <1>2 DEF SessionsInv, SessionsTyped, SessionsOK
    <3>2. \A i, j \in Live : sessions[i].secret = sessions[j].secret => i = j
      BY DEF SessionsInv, RowsSound
    <3>3. ended' \cap Live' = {}
      BY <1>1, <2>4 DEF SessionsInv, RowsSound, GoneStaysGone
    <3>. HIDE DEF secret
    <3>4. ASSUME NEW i \in Live', NEW j \in Live', sessions'[i].secret = sessions'[j].secret
          PROVE  i = j
      <4>1. i # old.id => sessions'[i] = sessions[i] /\ i \in Live
        BY <2>4
      <4>2. j # old.id => sessions'[j] = sessions[j] /\ j \in Live
        BY <2>4
      <4>. QED
        BY <2>5, <3>1, <3>2, <3>4, <4>1, <4>2
    <3>. QED
      BY <3>3, <3>4 DEF RowsSound, GoneStaysGone
  <2>12. SessionCallTyped(c)'
    BY <1>2, <2>2, <2>6, <2>7, <2>8 DEF SessionCallTyped, Answer, Jar
  <2>13. ASSUME Alone PROVE AloneRows' /\ AloneCall(c)'
    <3>1. sessions[old.id].secret = old.secret
      BY <1>1, <1>5, <2>13 DEF SessionsInv, AloneCall, Good, old
    <3>2. \A i \in Live \ {old.id} : sessions[i].secret # old.secret
      BY <1>5, <3>1 DEF SessionsInv, RowsSound
    <3>3. secret \notin spent /\ secret # old.secret
      BY <1>2, <2>8 DEF SessionsInv, SessionsTyped
    <3>4. AloneRows'
      <4>. HIDE DEF secret
      <4>1. ASSUME NEW i \in Live'
            PROVE  sessions'[i].secret \notin spent \cup {old.secret} /\ sessions'[i].epoch = drawn.epoch
        <5>1. CASE i = old.id
          BY <1>5, <2>5, <2>13, <3>3, <5>1 DEF SessionsInv, AloneRows
        <5>2. CASE i # old.id
          BY <2>4, <2>13, <3>2, <5>2 DEF SessionsInv, AloneRows
        <5>. QED
          BY <5>1, <5>2
      <4>. QED
        BY <2>1, <2>2, <4>1 DEF AloneRows
    <3>5. AloneCall(c)'
      BY <2>4, <2>5, <2>6, <2>7 DEF AloneCall, Answer, Good
    <3>. QED
      BY <3>4, <3>5
  <2>. QED
    BY <1>1, <1>2, <2>1, <2>2, <2>10, <2>11, <2>12, <2>13, SessionStep
<1>. QED
  BY <1>4, <1>5

LEMMA GoIdleStep ==
  ASSUME SessionsInv, NEW id, GoIdle(id) PROVE SessionsInv'
<1>1. /\ id \in Live /\ sessions' = [sessions EXCEPT ![id].idle = TRUE]
      /\ UNCHANGED <<clients, request, account, drawn, spent, ended, cookie, access, lost>>
  BY DEF GoIdle, KeepsBrowser
<1>2. sessions[id] \in Row
  BY <1>1 DEF SessionsInv, SessionsTyped
<1>3. /\ Live' = Live /\ sessions' = [i \in Live' |-> sessions'[i]]
      /\ \A i \in Live : sessions'[i] \in Row /\ sessions'[i].secret = sessions[i].secret
                         /\ sessions'[i].epoch = sessions[i].epoch
  BY <1>1, <1>2 DEF SessionsInv, SessionsTyped, Live, Row
<1>4. SessionsTyped' /\ RowsSound'
  <2>1. SessionsOK'
    BY <1>1, <1>3 DEF SessionsInv, SessionsTyped, SessionsOK
  <2>2. SessionsTyped'
    BY <1>1, <1>3, <2>1 DEF SessionsInv, SessionsTyped, Jar
  <2>. QED
    BY <1>1, <1>3, <2>2 DEF SessionsInv, RowsSound, GoneStaysGone
<1>5. RequestsOK' /\ \A c \in clients : SessionCallTyped(c)'
  BY <1>1 DEF SessionsInv, RequestsOK, SessionCallTyped, Jar
<1>6. Alone => AloneRows' /\ \A c \in clients : AloneCall(c)'
  BY <1>1, <1>3 DEF SessionsInv, AloneRows, AloneCall, Good
<1>. QED
  BY <1>1, <1>4, <1>5, <1>6 DEF SessionsInv, Alone

LEMMA SetAccountStep == SessionsInv /\ SetAccount => SessionsInv'
<1>. SUFFICES ASSUME SessionsInv, SetAccount PROVE SessionsInv'
  OBVIOUS
<1>1. /\ account' \in {"open", "locked", "deleted"}
      /\ UNCHANGED <<clients, request, sessions, drawn, spent, ended, cookie, access, lost>>
  BY DEF SetAccount, KeepsBrowser
<1>. QED
  BY <1>1 DEF SessionsInv, RequestsOK, SessionsTyped, SessionsOK, RowsSound, GoneStaysGone, Live,
     Jar, SessionCallTyped, Alone, AloneRows, AloneCall, Good

LEMMA SessionsStep == SessionsInv /\ SessionsNext => SessionsInv'
<1>. SUFFICES ASSUME SessionsInv, SessionsNext PROVE SessionsInv'
  OBVIOUS
<1>1. CASE /\ UNCHANGED clients
           /\ \E c \in clients :
                \/ Authenticate(c) \/ FollowVerificationLink(c) \/ CreateUserSession(c)
                \/ TakeAnswer(c) \/ LoseAnswer(c)
                \/ ReadSession(c) \/ ReadAccount(c) \/ Invalidate(c) \/ Rotate(c)
                \/ CallExpired(c) \/ CheckLogout(c) \/ Logout(c)
                \/ StartReset(c) \/ Reset(c)
  BY <1>1, SignInStep, ReadSessionStep, ReadAccountStep, InvalidateStep, ResetStep, AnswerStep,
     CreateSessionStep, RotateStep
<1>. QED
  BY <1>1, GoIdleStep, SetAccountStep DEF SessionsNext

LEMMA SessionsInvSafe == SessionsInv => SessionsSafe
<1>. SUFFICES ASSUME SessionsInv PROVE SessionsSafe
  OBVIOUS
<1>1. AloneNoReuse
  BY DEF SessionsInv, AloneNoReuse, AloneCall, At
<1>2. AloneSecretsSpent
  BY DEF SessionsInv, AloneSecretsSpent, AloneCall, AloneRows, Good, At
<1>3. AloneResetEndsSessions
  BY DEF SessionsInv, AloneResetEndsSessions, AloneRows, SessionsTyped
<1>. QED
  BY <1>1, <1>2, <1>3 DEF SessionsInv, SessionsTyped, RowsSound, SessionsSafe

LEMMA SessionsInitInv ==
  RequestsOK /\ (\A c \in clients : request[c] = Rest) /\ SessionsInit => SessionsInv
<1>. SUFFICES ASSUME RequestsOK, \A c \in clients : request[c] = Rest, SessionsInit PROVE SessionsInv
  OBVIOUS
<1>1. /\ drawn = [ids |-> 0, secrets |-> 0, epoch |-> 0] /\ account = "open"
      /\ Live = {} /\ sessions = [i \in Live |-> sessions[i]]
      /\ cookie = [id |-> 0, secret |-> 0] /\ access = [c \in clients |-> 0]
      /\ spent = {} /\ ended = {}
  BY DEF SessionsInit, Live, NoCookie, None
<1>2. SessionsTyped
  BY <1>1 DEF SessionsTyped, SessionsOK, Jar
<1>3. \A c \in clients : SessionCallTyped(c) /\ AloneCall(c)
  BY <1>1 DEF SessionCallTyped, AloneCall, Good, Rest
<1>. QED
  BY <1>1, <1>2, <1>3 DEF SessionsInv, RowsSound, GoneStaysGone, AloneRows

-----------------------------------------------------------------------------
(* Google accounts.                                                        *)

BindingsTyped == made \in Nat /\ BindingsOK

\* What was found out about the pair still holds if nothing interferes.
BindingCall(c) ==
  /\ request[c].step = "bind" =>
       /\ request[c].remote \in Remotes /\ request[c].user \in BindingUsers
       /\ Alone => Found(request[c].remote, request[c].user) = {}
  /\ request[c].step = "use" /\ Alone => request[c].binding \in bindings

BindingsInv ==
  /\ RequestsOK /\ BindingsTyped /\ LinkedOnce /\ AloneLinkAnswered
  /\ \A c \in clients : BindingCall(c)

LEMMA BindingRefused ==
  ASSUME BindingsInv, Alone, NEW g \in Remotes, NEW u \in BindingUsers,
         Cardinality(Found(g, u)) > 1
  PROVE  /\ \E d \in bindings : d.user = u /\ d.remote # g
         /\ \E d \in bindings : d.remote = g /\ d.user # u
<1>1. PICK a \in Found(g, u) : TRUE
  BY FS_EmptySet
<1>2. PICK b \in Found(g, u) : b # a
  <2>1. SUFFICES ASSUME Found(g, u) = {a} PROVE FALSE
    BY <1>1
  <2>. QED
    BY <2>1, FS_Singleton
<1>3. \A x, y \in bindings : x.remote = y.remote \/ x.user = y.user => x = y
  BY DEF BindingsInv, LinkedOnce
<1>. QED
  BY <1>1, <1>2, <1>3 DEF Found

\* A refusal that is still to be explained.
Unexplained(c) == request[c].step = "failed" /\ request[c].at \in {"link", "bind", "use"}

Explained(c) ==
  LET b == request[c].id
  IN /\ request[c].cause = "twice"
     /\ \E d \in bindings : d.user = b.user /\ d.remote # b.remote
     /\ \E d \in bindings : d.remote = b.remote /\ d.user # b.user

\* Of several requests the one that goes on is left to look at.
LEMMA BindingStep ==
  ASSUME BindingsInv, NEW c \in clients, NEW next, Continue(c, next), UNCHANGED clients,
         BindingsTyped', LinkedOnce', BindingCall(c)',
         Alone => (Unexplained(c)' => Explained(c)')
  PROVE  BindingsInv'
<1>1. RequestsOK' /\ request'[c] = next /\ \A d \in clients \ {c} : request'[d] = request[d]
  BY OneGoes DEF BindingsInv
<1>2. Alone' = Alone
  BY DEF Alone
<1>3. Alone => clients = {c}
  BY AloneIsOne DEF BindingsInv
<1>4. ASSUME NEW d \in clients PROVE BindingCall(d)'
  BY <1>1, <1>2, <1>3 DEF BindingsInv, BindingCall
<1>5. AloneLinkAnswered'
  BY <1>2, <1>3 DEF AloneLinkAnswered, Unexplained, Explained
<1>. QED
  BY <1>1, <1>4, <1>5 DEF BindingsInv

LEMMA CheckLinkStep ==
  ASSUME BindingsInv, NEW c \in clients, CheckLink(c), UNCHANGED clients PROVE BindingsInv'
<1>1. PICK g \in Remotes, u \in BindingUsers :
        \/ Found(g, u) = {} /\ Continue(c, [step |-> "bind", remote |-> g, user |-> u])
        \/ /\ Cardinality(Found(g, u)) > 1
           /\ Continue(c, Failed("link", "twice", [remote |-> g, user |-> u]))
        \/ \E b \in Found(g, u) : Continue(c, [step |-> "use", binding |-> b])
        \/ Continue(c, Rest)
  BY DEF CheckLink
<1>2. UNCHANGED <<bindings, made>>
  BY DEF CheckLink, bindingVars
<1>3. LinkedOnce' /\ BindingsTyped' /\ RequestsOK
  BY <1>2 DEF BindingsInv, LinkedOnce, BindingsTyped, BindingsOK, Alone
<1>4. CASE Found(g, u) = {} /\ Continue(c, [step |-> "bind", remote |-> g, user |-> u])
  <2>1. request'[c] = [step |-> "bind", remote |-> g, user |-> u]
    BY <1>3, <1>4, OneGoes
  <2>2. BindingCall(c)' /\ ~Unexplained(c)'
    BY <1>2, <1>4, <2>1 DEF BindingCall, Unexplained, Found
  <2>. QED
    BY <1>3, <1>4, <2>2, BindingStep
<1>5. CASE /\ Cardinality(Found(g, u)) > 1
           /\ Continue(c, Failed("link", "twice", [remote |-> g, user |-> u]))
  <2>1. request'[c] = Failed("link", "twice", [remote |-> g, user |-> u])
    BY <1>3, <1>5, OneGoes
  <2>2. BindingCall(c)'
    BY <2>1 DEF BindingCall, Failed
  <2>3. Alone => Explained(c)'
    BY <1>2, <1>5, <2>1, BindingRefused DEF Explained, Failed
  <2>. QED
    BY <1>3, <1>5, <2>2, <2>3, BindingStep
<1>6. CASE \E b \in Found(g, u) : Continue(c, [step |-> "use", binding |-> b])
  <2>1. PICK b \in Found(g, u) : Continue(c, [step |-> "use", binding |-> b])
    BY <1>6
  <2>2. request'[c] = [step |-> "use", binding |-> b]
    BY <1>3, <2>1, OneGoes
  <2>3. BindingCall(c)' /\ ~Unexplained(c)'
    BY <1>2, <2>2 DEF BindingCall, Unexplained, Found
  <2>. QED
    BY <1>3, <2>1, <2>3, BindingStep
<1>7. CASE Continue(c, Rest)
  <2>1. request'[c] = Rest
    BY <1>3, <1>7, OneGoes
  <2>2. BindingCall(c)' /\ ~Unexplained(c)'
    BY <2>1 DEF BindingCall, Unexplained, Rest
  <2>. QED
    BY <1>3, <1>7, <2>2, BindingStep
<1>. QED
  BY <1>1, <1>4, <1>5, <1>6, <1>7

LEMMA BindStep ==
  ASSUME BindingsInv, NEW c \in clients, Bind(c), UNCHANGED clients PROVE BindingsInv'
<1>. DEFINE b == [id |-> made + 1, remote |-> request[c].remote, user |-> request[c].user]
<1>1. /\ request[c].step = "bind" /\ RequestsOK
      /\ request[c].remote \in Remotes /\ request[c].user \in BindingUsers
      /\ Alone => Found(request[c].remote, request[c].user) = {}
  BY DEF Bind, At, BindingsInv, BindingCall
<1>2. CASE \E d \in bindings : d.remote = b.remote
  <2>1. Continue(c, Failed("bind", "unique", b)) /\ UNCHANGED <<bindings, made>> /\ ~Alone
    BY <1>1, <1>2 DEF Bind, bindingVars, Found
  <2>2. request'[c] = Failed("bind", "unique", b)
    BY <1>1, <2>1, OneGoes
  <2>3. BindingCall(c)'
    BY <2>2 DEF BindingCall, Failed
  <2>4. LinkedOnce' /\ BindingsTyped'
    BY <2>1 DEF BindingsInv, LinkedOnce, BindingsTyped, BindingsOK, Alone
  <2>. QED
    BY <2>1, <2>3, <2>4, BindingStep
<1>3. CASE ~\E d \in bindings : d.remote = b.remote
  <2>1. bindings' = bindings \cup {b} /\ made' = made + 1 /\ Continue(c, Rest)
    BY <1>3 DEF Bind
  <2>2. request'[c] = Rest
    BY <1>1, <2>1, OneGoes
  <2>3. BindingCall(c)' /\ ~Unexplained(c)'
    BY <2>2 DEF BindingCall, Unexplained, Rest
  <2>4. BindingsTyped'
    BY <1>1, <2>1 DEF BindingsInv, BindingsTyped, BindingsOK
  <2>5. LinkedOnce'
    BY <1>1, <1>3, <2>1 DEF BindingsInv, LinkedOnce, Found, Alone
  <2>. QED
    BY <2>1, <2>3, <2>4, <2>5, BindingStep
<1>. QED
  BY <1>2, <1>3

LEMMA UseStep ==
  ASSUME BindingsInv, NEW c \in clients, UNCHANGED clients,
         GoogleCallback(c) \/ Use(c) \/ CheckUnlink(c)
  PROVE  BindingsInv'
<1>1. PICK next :
        /\ Continue(c, next)
        /\ \/ next.step = "use" /\ next.binding \in bindings
           \/ next.step \in {"rest", "unlink"}
           \/ next.step = "failed" /\ request[c].step = "use" /\ request[c].binding \notin bindings
  <2>1. CASE GoogleCallback(c)
    <3>1. PICK b \in bindings : Continue(c, [step |-> "use", binding |-> b])
      BY <2>1 DEF GoogleCallback
    <3>. QED
      BY <3>1
  <2>2. CASE CheckUnlink(c)
    <3>1. PICK b \in bindings : Continue(c, [step |-> "unlink", binding |-> b])
      BY <2>2 DEF CheckUnlink
    <3>. QED
      BY <3>1
  <2>3. CASE Use(c)
    BY <2>3 DEF Use, At, Rest, Failed
  <2>. QED
    BY <2>1, <2>2, <2>3
<1>2. UNCHANGED <<bindings, made>> /\ RequestsOK
  BY DEF GoogleCallback, Use, CheckUnlink, bindingVars, BindingsInv
<1>3. request'[c] = next
  BY <1>1, <1>2, OneGoes
<1>4. LinkedOnce' /\ BindingsTyped'
  BY <1>2 DEF BindingsInv, LinkedOnce, BindingsTyped, BindingsOK, Alone
<1>5. BindingCall(c)'
  BY <1>1, <1>2, <1>3 DEF BindingCall
<1>6. Alone => ~Unexplained(c)'
  BY <1>1, <1>3 DEF Unexplained, BindingsInv, BindingCall
<1>. QED
  BY <1>1, <1>4, <1>5, <1>6, BindingStep

LEMMA UnlinkStep ==
  ASSUME BindingsInv, NEW c \in clients, Unlink(c), UNCHANGED clients PROVE BindingsInv'
<1>1. /\ bindings' \subseteq bindings /\ made' = made /\ Continue(c, Rest) /\ RequestsOK
  BY DEF Unlink, BindingsInv
<1>2. request'[c] = Rest
  BY <1>1, OneGoes
<1>3. LinkedOnce' /\ BindingsTyped'
  BY <1>1 DEF BindingsInv, LinkedOnce, BindingsTyped, BindingsOK, Alone
<1>4. BindingCall(c)' /\ ~Unexplained(c)'
  BY <1>2 DEF BindingCall, Unexplained, Rest
<1>. QED
  BY <1>1, <1>3, <1>4, BindingStep

LEMMA BindingsStep == BindingsInv /\ BindingsNext => BindingsInv'
<1>. SUFFICES ASSUME BindingsInv, BindingsNext PROVE BindingsInv'
  OBVIOUS
<1>. QED
  BY CheckLinkStep, BindStep, UseStep, UnlinkStep DEF BindingsNext

LEMMA BindingsInitInv ==
  RequestsOK /\ (\A c \in clients : request[c] = Rest) /\ BindingsInit => BindingsInv
BY DEF BindingsInit, BindingsInv, BindingsTyped, BindingsOK, LinkedOnce, AloneLinkAnswered,
       BindingCall, Rest

-----------------------------------------------------------------------------
(* Addresses.                                                              *)

\* What a request under way has read: rows that are still there, and no
\* address but in lower case before one was typed in.
AddressCallOK(c) ==
  /\ request[c].step = "insert" =>
       /\ request[c].email \in Spellings \cup {NoEmail}
       /\ request[c].mailed \in BOOLEAN
       /\ request[c].mailed => request[c].email \in Spellings
       /\ edits = 0 => request[c].email \in Mailboxes
  /\ request[c].step = "edit" =>
       /\ edits # 0
       /\ request[c].user \in Registered
       /\ request[c].own \in BOOLEAN
       /\ request[c].changes \in [email : Spellings \cup {NoEmail}, written : BOOLEAN, unverified : BOOLEAN]
       /\ request[c].own => request[c].changes.email \in Spellings
  /\ request[c].step = "verify" => request[c].user \in Registered
  /\ request[c].step = "token" => request[c].email \in Mailboxes
  /\ request[c].step = "reset" =>
       /\ request[c].user \in Registered
       /\ request[c].token \in DOMAIN tokens
       /\ tokens[request[c].token] = request[c].email

\* Without interference what was read still holds.
AddressCallFresh(c) ==
  /\ request[c].step = "edit" =>
       (request[c].changes.written /\ accounts[request[c].user].verified
          => request[c].changes.unverified)
  /\ request[c].step = "verify" =>
       /\ accounts[request[c].user].email # NoEmail
       /\ <<request[c].user, Lower[accounts[request[c].user].email]>> \in proven
  /\ request[c].step = "token" => request[c].former = {r \in resets : r.email = request[c].email}
  /\ request[c].step = "reset" =>
       /\ accounts[request[c].user].email # NoEmail
       /\ <<request[c].user, Lower[accounts[request[c].user].email]>> \in proven
       /\ request[c].token \notin useless

AddressRow == [email : Spellings \cup {NoEmail}, verified : BOOLEAN]

AddressesTyped ==
  /\ Registered \in {{}, {1}, {1, 2}}
  /\ accounts = [u \in Registered |-> accounts[u]]
  /\ \A u \in Registered : accounts[u] \in AddressRow
  /\ links \subseteq [user : Registered, email : Spellings]
  /\ tokens \in Seq(Mailboxes)
  /\ resets \subseteq [email : Mailboxes, token : DOMAIN tokens]
  /\ \A r \in resets : r.email = tokens[r.token]
  /\ useless \subseteq DOMAIN tokens
  /\ edits \in Nat

\* Nobody is let in for whom there would be no number left.
RoomLeft == Cardinality(Registered) + Cardinality(Entering) <= 2

\* Until one is typed in, addresses are in lower case and differ.
LowerAndDistinct ==
  \A u, v \in Registered :
    /\ accounts[u].email \in Mailboxes
    /\ accounts[u].email = accounts[v].email => u = v

ProvenRows ==
  \A u \in Registered : accounts[u].verified =>
    accounts[u].email # NoEmail /\ <<u, Lower[accounts[u].email]>> \in proven

GoodTokens ==
  /\ \A r, s \in resets : r.email = s.email => r = s
  /\ \A r \in resets : r.token \notin useless

AddressesInv ==
  /\ RequestsOK /\ AddressesTyped /\ RoomLeft
  /\ edits = 0 => LowerAndDistinct
  /\ Alone => ProvenRows /\ GoodTokens
  /\ \A c \in clients : AddressCallOK(c) /\ (Alone => AddressCallFresh(c))

LEMMA AddressNames ==
  /\ Mailboxes = {"anna", "berta"}
  /\ Mailboxes \subseteq Spellings /\ NoEmail \notin Spellings
  /\ \A e \in Spellings : Lower[e] \in Mailboxes
  /\ \A e \in Mailboxes : Lower[e] = e
<1>1. Mailboxes = {"anna", "berta"}
  BY DEF Mailboxes, Lower, Spellings
<1>. QED
  BY <1>1 DEF Lower, Spellings, NoEmail

\* Whoever has been told what the rows were like is told the truth as long as
\* rows are added only.
LEMMA AddressGoes ==
  ASSUME AddressesInv, NEW c \in clients, NEW next, Continue(c, next), UNCHANGED clients,
         AddressesTyped', RoomLeft', Registered \subseteq Registered', edits <= edits',
         \A t \in DOMAIN tokens : t \in DOMAIN tokens' /\ tokens'[t] = tokens[t],
         edits' = 0 => LowerAndDistinct',
         Alone => ProvenRows' /\ GoodTokens',
         AddressCallOK(c)', Alone => AddressCallFresh(c)'
  PROVE  AddressesInv'
<1>1. RequestsOK' /\ \A d \in clients \ {c} : request'[d] = request[d]
  BY OneGoes DEF AddressesInv
<1>2. Alone' = Alone /\ clients' = clients
  BY DEF Alone
<1>3. edits \in Nat /\ edits' \in Nat
  BY DEF AddressesInv, AddressesTyped
<1>4. ASSUME NEW d \in clients, d # c PROVE AddressCallOK(d)' /\ (Alone => AddressCallFresh(d)')
  <2>1. request'[d] = request[d] /\ AddressCallOK(d)
    BY <1>1, <1>4 DEF AddressesInv
  <2>2. AddressCallOK(d)'
    BY <1>3, <2>1 DEF AddressCallOK
  <2>3. ~Alone
    BY <1>4, AloneIsOne DEF AddressesInv
  <2>. QED
    BY <2>2, <2>3
<1>. QED
  BY <1>1, <1>2, <1>4 DEF AddressesInv

LEMMA EnteringFinite ==
  ASSUME AddressesInv
  PROVE  /\ IsFiniteSet(Registered) /\ IsFiniteSet(Entering)
         /\ Cardinality(Registered) \in Nat /\ Cardinality(Entering) \in Nat
<1>1. IsFiniteSet({}) /\ IsFiniteSet({1}) /\ IsFiniteSet({1, 2})
  BY FS_EmptySet, FS_Singleton, PairHasTwo
<1>3. IsFiniteSet(Registered)
  BY <1>1 DEF AddressesInv, AddressesTyped
<1>4. IsFiniteSet(clients)
  BY <1>1 DEF AddressesInv, RequestsOK
<1>5. IsFiniteSet(Entering)
  BY <1>4, FS_Subset DEF Entering
<1>. QED
  BY <1>3, <1>5, FS_CardinalityType

\* A request that does not come to enter anybody leaves the room there is.
LEMMA RoomStays ==
  ASSUME AddressesInv, NEW c \in clients, NEW next, Continue(c, next), UNCHANGED clients,
         Registered' = Registered, next.step # "insert"
  PROVE  RoomLeft'
<1>1. \A d \in clients : request'[d].step = "insert" => request[d].step = "insert"
  BY OneGoes DEF AddressesInv
<1>2. Entering' \subseteq Entering
  BY <1>1 DEF Entering
<1>3. IsFiniteSet(Entering') /\ Cardinality(Entering') <= Cardinality(Entering) /\ Cardinality(Entering') \in Nat
  BY <1>2, EnteringFinite, FS_Subset, FS_CardinalityType
<1>. QED
  BY <1>3, EnteringFinite DEF RoomLeft, AddressesInv

LEMMA RoomTaken ==
  ASSUME AddressesInv, NEW c \in clients, NEW next, Continue(c, next), UNCHANGED clients,
         Registered' = Registered,
         Cardinality(Registered) + Cardinality(Entering) < Cardinality(Users)
  PROVE  RoomLeft'
<1>1. \A d \in clients : d # c /\ request'[d].step = "insert" => request[d].step = "insert"
  BY OneGoes DEF AddressesInv
<1>2. Entering' \subseteq Entering \cup {c}
  BY <1>1 DEF Entering
<1>3. IsFiniteSet(Entering \cup {c}) /\ Cardinality(Entering \cup {c}) <= Cardinality(Entering) + 1
  BY EnteringFinite, FS_AddElement
<1>4. IsFiniteSet(Entering') /\ Cardinality(Entering') <= Cardinality(Entering \cup {c})
  BY <1>2, <1>3, FS_Subset
<1>5. Cardinality(Entering') \in Nat /\ Cardinality(Entering \cup {c}) \in Nat
  BY <1>3, <1>4, FS_CardinalityType
<1>6. Cardinality(Users) = 2
  <2>1. Users = {1, 2}
    BY DEF Users
  <2>. QED
    BY <2>1, PairHasTwo
<1>. QED
  BY <1>3, <1>4, <1>5, <1>6, EnteringFinite DEF RoomLeft

\* The number of a new account is the next one, and there is one.
LEMMA RoomUsed ==
  ASSUME AddressesInv, NEW c \in clients, request[c].step = "insert"
  PROVE  /\ Cardinality(Registered) + 1 \notin Registered
         /\ Registered \cup {Cardinality(Registered) + 1} \in {{1}, {1, 2}}
         /\ Cardinality(Registered \cup {Cardinality(Registered) + 1}) = Cardinality(Registered) + 1
<1>1. c \in Entering
  BY DEF Entering
<1>2. Cardinality(Entering) # 0
  BY <1>1, EnteringFinite, FS_EmptySet
<1>3. Cardinality(Registered) <= 1
  BY <1>2, EnteringFinite DEF AddressesInv, RoomLeft
<1>4. Cardinality({}) = 0 /\ Cardinality({1}) = 1 /\ IsFiniteSet({1})
  BY FS_EmptySet, FS_Singleton
<1>7. \/ Registered = {} /\ Cardinality(Registered) = 0
      \/ Registered = {1} /\ Cardinality(Registered) = 1
  <2>1. Registered # {1, 2}
    BY <1>3, PairHasTwo
  <2>2. Registered = {} \/ Registered = {1}
    BY <2>1 DEF AddressesInv, AddressesTyped
  <2>. QED
    BY <1>4, <2>2
<1>8. CASE Registered = {} /\ Cardinality(Registered) = 0
  <2>1. {} \cup {0 + 1} = {1}
    OBVIOUS
  <2>. QED
    BY <1>4, <1>8, <2>1
<1>9. CASE Registered = {1} /\ Cardinality(Registered) = 1
  <2>1. {1} \cup {1 + 1} = {1, 2}
    OBVIOUS
  <2>. QED
    BY <1>9, <2>1, PairHasTwo
<1>. QED
  BY <1>7, <1>8, <1>9

\* A step that writes no row of another request's.
LEMMA AddressReads ==
  ASSUME AddressesInv, NEW c \in clients, NEW next, Continue(c, next), UNCHANGED clients,
         UNCHANGED <<accounts, links, resets, tokens, useless>>,
         proven \subseteq proven', edits' \in Nat, edits <= edits', RoomLeft',
         AddressCallOK(c)', Alone => AddressCallFresh(c)'
  PROVE  AddressesInv'
<1>1. Registered' = Registered
  BY DEF Registered
<1>2. AddressesTyped'
  BY <1>1 DEF AddressesInv, AddressesTyped
<1>3. edits' = 0 => LowerAndDistinct'
  BY <1>1 DEF AddressesInv, AddressesTyped, LowerAndDistinct
<1>4. Alone => ProvenRows' /\ GoodTokens'
  BY <1>1 DEF AddressesInv, ProvenRows, GoodTokens
<1>. QED
  BY <1>1, <1>2, <1>3, <1>4, AddressGoes

LEMMA CallAtRest ==
  ASSUME AddressesInv, NEW c \in clients, NEW next, Continue(c, next), UNCHANGED clients,
         next.step \in {"rest", "failed", "expire"}
  PROVE  AddressCallOK(c)' /\ AddressCallFresh(c)'
<1>1. request'[c] = next
  BY OneGoes DEF AddressesInv
<1>. QED
  BY <1>1 DEF AddressCallOK, AddressCallFresh

LEMMA RegistrationStep ==
  ASSUME AddressesInv, NEW c \in clients, CheckRegistration(c), UNCHANGED clients PROVE AddressesInv'
<1>. USE DEF KeepsAddresses, addressVars
<1>1. PICK e \in Spellings :
        Continue(c, IF HavingLower(Lower[e]) # {} THEN Rest
                    ELSE [step |-> "insert", email |-> Lower[e], mailed |-> TRUE])
  BY DEF CheckRegistration
<1>2. /\ UNCHANGED <<accounts, links, resets, tokens, useless, proven, edits>>
      /\ Cardinality(Registered) + Cardinality(Entering) < Cardinality(Users)
  BY DEF CheckRegistration
<1>3. Registered' = Registered /\ edits \in Nat
  BY <1>2 DEF Registered, AddressesInv, AddressesTyped
<1>4. RoomLeft'
  BY <1>1, <1>2, <1>3, RoomTaken
<1>5. AddressCallOK(c)' /\ AddressCallFresh(c)'
  <2>1. CASE HavingLower(Lower[e]) # {}
    BY <1>1, <2>1, CallAtRest DEF Rest
  <2>2. CASE HavingLower(Lower[e]) = {}
    <3>1. request'[c] = [step |-> "insert", email |-> Lower[e], mailed |-> TRUE]
      BY <1>1, <2>2, OneGoes DEF AddressesInv
    <3>. QED
      BY <3>1, AddressNames DEF AddressCallOK, AddressCallFresh
  <2>. QED
    BY <2>1, <2>2
<1>. QED
  BY <1>1, <1>2, <1>3, <1>4, <1>5, AddressReads

LEMMA CreationStep ==
  ASSUME AddressesInv, NEW c \in clients, CheckCreation(c), UNCHANGED clients PROVE AddressesInv'
<1>1. PICK e \in Spellings \cup {NoEmail} :
        Continue(c, IF e # NoEmail /\ Having(e) # {} THEN Rest
                    ELSE [step |-> "insert", email |-> e, mailed |-> FALSE])
  BY DEF CheckCreation
<1>2. /\ UNCHANGED <<accounts, links, resets, tokens, useless, proven>> /\ edits' = edits + 1
      /\ Cardinality(Registered) + Cardinality(Entering) < Cardinality(Users)
  BY DEF CheckCreation, KeepsTokens
<1>3. Registered' = Registered /\ edits \in Nat
  BY <1>2 DEF Registered, AddressesInv, AddressesTyped
<1>4. RoomLeft'
  BY <1>1, <1>2, <1>3, RoomTaken
<1>5. AddressCallOK(c)' /\ AddressCallFresh(c)'
  <2>1. CASE e # NoEmail /\ Having(e) # {}
    BY <1>1, <2>1, CallAtRest DEF Rest
  <2>2. CASE ~(e # NoEmail /\ Having(e) # {})
    <3>1. request'[c] = [step |-> "insert", email |-> e, mailed |-> FALSE]
      BY <1>1, <2>2, OneGoes DEF AddressesInv
    <3>. QED
      BY <1>2, <1>3, <3>1 DEF AddressCallOK, AddressCallFresh
  <2>. QED
    BY <2>1, <2>2
<1>. QED
  BY <1>1, <1>2, <1>3, <1>4, <1>5, AddressReads

LEMMA CheckEditStep ==
  ASSUME AddressesInv, NEW c \in clients, CheckProfile(c) \/ CheckUserEdit(c), UNCHANGED clients
  PROVE  AddressesInv'
<1>1. PICK u \in Registered, e \in Spellings \cup {NoEmail}, own \in BOOLEAN :
        /\ CheckEdit(c, u, e, own, Changes(u, e))
        /\ own => e \in Spellings
  BY DEF CheckProfile, CheckUserEdit
<1>. DEFINE next == [step |-> "edit", user |-> u, own |-> own, changes |-> Changes(u, e)]
<1>2. /\ UNCHANGED <<accounts, links, resets, tokens, useless, proven>> /\ edits' = edits + 1
      /\ Continue(c, Rest) \/ Continue(c, next)
  BY <1>1 DEF CheckEdit, KeepsTokens
<1>3. Registered' = Registered /\ edits \in Nat
  BY <1>2 DEF Registered, AddressesInv, AddressesTyped
<1>4. CASE Continue(c, Rest)
  <2>1. RoomLeft'
    BY <1>3, <1>4, RoomStays DEF Rest
  <2>2. AddressCallOK(c)' /\ AddressCallFresh(c)'
    BY <1>4, CallAtRest DEF Rest
  <2>. QED
    BY <1>2, <1>3, <1>4, <2>1, <2>2, AddressReads
<1>5. CASE Continue(c, next)
  <2>1. RoomLeft'
    BY <1>3, <1>5, RoomStays
  <2>2. request'[c] = next
    BY <1>5, OneGoes DEF AddressesInv
  <2>3. accounts[u] \in AddressRow
    BY DEF AddressesInv, AddressesTyped
  <2>4. /\ Changes(u, e) \in [email : Spellings \cup {NoEmail}, written : BOOLEAN, unverified : BOOLEAN]
        /\ Changes(u, e).email = e
        /\ Changes(u, e).written /\ accounts[u].verified => Changes(u, e).unverified
    BY <2>3 DEF Changes, AddressRow
  <2>5. AddressCallOK(c)' /\ AddressCallFresh(c)'
    <3>. HIDE DEF next
    <3>1. /\ next.step = "edit" /\ next.user = u /\ next.own = own /\ next.changes = Changes(u, e)
      BY DEF next
    <3>. QED
      BY <1>1, <1>2, <1>3, <2>2, <2>4, <3>1 DEF AddressCallOK, AddressCallFresh
  <2>. QED
    BY <1>2, <1>3, <1>5, <2>1, <2>5, AddressReads
<1>. QED
  BY <1>2, <1>4, <1>5

LEMMA ReadLinkStep ==
  ASSUME AddressesInv, NEW c \in clients, ReadLink(c), UNCHANGED clients PROVE AddressesInv'
<1>1. PICK l \in links :
        /\ accounts[l.user].email = l.email
        /\ proven' = proven \cup {<<l.user, Lower[l.email]>>}
        /\ Continue(c, [step |-> "verify", user |-> l.user])
  BY DEF ReadLink
<1>2. UNCHANGED <<accounts, links, resets, tokens, useless, edits>>
  BY DEF ReadLink, KeepsTokens
<1>3. Registered' = Registered /\ edits \in Nat /\ l.user \in Registered /\ l.email \in Spellings
  BY <1>2 DEF Registered, AddressesInv, AddressesTyped
<1>4. RoomLeft'
  BY <1>1, <1>3, RoomStays
<1>5. request'[c] = [step |-> "verify", user |-> l.user]
  BY <1>1, OneGoes DEF AddressesInv
<1>6. AddressCallOK(c)' /\ AddressCallFresh(c)'
  BY <1>1, <1>2, <1>3, <1>5, AddressNames DEF AddressCallOK, AddressCallFresh
<1>. QED
  BY <1>1, <1>2, <1>3, <1>4, <1>6, AddressReads

LEMMA RequestResetStep ==
  ASSUME AddressesInv, NEW c \in clients, RequestPasswordReset(c), UNCHANGED clients
  PROVE  AddressesInv'
<1>1. PICK e \in Mailboxes :
        Continue(c, IF Cardinality(HavingLower(e)) > 1 THEN Failed("token", "twice", 0)
                    ELSE [step |-> "token", email |-> e, former |-> {r \in resets : r.email = e}])
  BY DEF RequestPasswordReset
<1>. DEFINE next == [step |-> "token", email |-> e, former |-> {r \in resets : r.email = e}]
<1>2. UNCHANGED <<accounts, links, resets, tokens, useless, proven, edits>>
  BY DEF RequestPasswordReset, KeepsAddresses, addressVars
<1>3. Registered' = Registered /\ edits \in Nat
  BY <1>2 DEF Registered, AddressesInv, AddressesTyped
<1>4. CASE Continue(c, Failed("token", "twice", 0))
  <2>1. RoomLeft' /\ AddressCallOK(c)' /\ AddressCallFresh(c)'
    BY <1>3, <1>4, RoomStays, CallAtRest DEF Failed
  <2>. QED
    BY <1>2, <1>3, <1>4, <2>1, AddressReads
<1>5. CASE Continue(c, next)
  <2>1. RoomLeft' /\ request'[c] = next
    BY <1>3, <1>5, RoomStays, OneGoes DEF AddressesInv
  <2>2. AddressCallOK(c)' /\ AddressCallFresh(c)'
    BY <1>2, <2>1 DEF AddressCallOK, AddressCallFresh
  <2>. QED
    BY <1>2, <1>3, <1>5, <2>1, <2>2, AddressReads
<1>. QED
  BY <1>1, <1>4, <1>5

LEMMA ReadTokenStep ==
  ASSUME AddressesInv, NEW c \in clients, ReadToken(c), UNCHANGED clients PROVE AddressesInv'
<1>1. PICK t \in DOMAIN tokens :
        \/ /\ Continue(c, Failed("reset", "twice", 0)) \/ Continue(c, [step |-> "expire", email |-> tokens[t]])
           /\ proven' = proven
        \/ /\ {r \in resets : r.email = tokens[t]} = {[email |-> tokens[t], token |-> t]}
           /\ Cardinality(HavingLower(tokens[t])) = 1
           /\ proven' = proven \cup {<<u, tokens[t]>> : u \in HavingLower(tokens[t])}
           /\ Continue(c, [step |-> "reset", email |-> tokens[t], token |-> t,
                           user |-> CHOOSE u \in HavingLower(tokens[t]) : TRUE])
  BY DEF ReadToken
<1>2. UNCHANGED <<accounts, links, resets, tokens, useless, edits>>
  BY DEF ReadToken, KeepsTokens
<1>3. Registered' = Registered /\ edits \in Nat
  BY <1>2 DEF Registered, AddressesInv, AddressesTyped
<1>4. CASE /\ Continue(c, Failed("reset", "twice", 0)) \/ Continue(c, [step |-> "expire", email |-> tokens[t]])
           /\ proven' = proven
  <2>1. PICK next : Continue(c, next) /\ next.step \in {"failed", "expire"}
    <3>1. Failed("reset", "twice", 0).step = "failed"
      BY DEF Failed
    <3>2. [step |-> "expire", email |-> tokens[t]].step = "expire"
      OBVIOUS
    <3>. QED
      BY <1>4, <3>1, <3>2
  <2>2. RoomLeft' /\ AddressCallOK(c)' /\ AddressCallFresh(c)'
    BY <1>3, <2>1, RoomStays, CallAtRest
  <2>. QED
    BY <1>2, <1>3, <1>4, <2>1, <2>2, AddressReads
<1>5. CASE /\ {r \in resets : r.email = tokens[t]} = {[email |-> tokens[t], token |-> t]}
           /\ Cardinality(HavingLower(tokens[t])) = 1
           /\ proven' = proven \cup {<<u, tokens[t]>> : u \in HavingLower(tokens[t])}
           /\ Continue(c, [step |-> "reset", email |-> tokens[t], token |-> t,
                           user |-> CHOOSE u \in HavingLower(tokens[t]) : TRUE])
  <2>. DEFINE owner == CHOOSE u \in HavingLower(tokens[t]) : TRUE
              next == [step |-> "reset", email |-> tokens[t], token |-> t, user |-> owner]
  <2>1. HavingLower(tokens[t]) # {}
    BY <1>5, FS_EmptySet
  <2>2. owner \in HavingLower(tokens[t])
    BY <2>1
  <2>3. /\ owner \in Registered /\ accounts[owner].email # NoEmail
        /\ Lower[accounts[owner].email] = tokens[t] /\ <<owner, tokens[t]>> \in proven'
    BY <1>5, <2>2 DEF HavingLower
  <2>. HIDE DEF owner
  <2>4. [email |-> tokens[t], token |-> t] \in resets
    BY <1>5
  <2>5. Alone => t \notin useless
    BY <2>4 DEF AddressesInv, GoodTokens
  <2>6. Continue(c, next)
    BY <1>5 DEF owner
  <2>7. next.step = "reset" /\ next.email = tokens[t] /\ next.token = t /\ next.user = owner
    OBVIOUS
  <2>. HIDE DEF next
  <2>8. RoomLeft' /\ request'[c] = next
    BY <1>3, <2>6, <2>7, RoomStays, OneGoes DEF AddressesInv
  <2>9. AddressCallOK(c)' /\ (Alone => AddressCallFresh(c)')
    BY <1>2, <1>3, <2>3, <2>5, <2>7, <2>8 DEF AddressCallOK, AddressCallFresh
  <2>. QED
    BY <1>2, <1>3, <1>5, <2>6, <2>8, <2>9, AddressReads
<1>. QED
  BY <1>1, <1>4, <1>5

LEMMA ResendStep ==
  ASSUME AddressesInv, NEW c \in clients, ResendVerificationEmail(c), UNCHANGED clients
  PROVE  AddressesInv'
<1>1. PICK u \in Registered : /\ accounts[u].email # NoEmail
                             /\ links' = links \cup {[user |-> u, email |-> accounts[u].email]}
  BY DEF ResendVerificationEmail
<1>2. UNCHANGED <<clients, request, accounts, resets, tokens, useless, proven, edits>>
  BY DEF ResendVerificationEmail, KeepsTokens
<1>3. Registered' = Registered /\ Entering' = Entering /\ Alone' = Alone
  BY <1>2 DEF Registered, Entering, Alone
<1>4. accounts[u].email \in Spellings
  BY <1>1 DEF AddressesInv, AddressesTyped, AddressRow
<1>5. AddressesTyped'
  BY <1>1, <1>2, <1>3, <1>4 DEF AddressesInv, AddressesTyped
<1>6. RequestsOK' /\ RoomLeft' /\ (edits' = 0 => LowerAndDistinct') /\ (Alone' => ProvenRows' /\ GoodTokens')
  BY <1>2, <1>3 DEF AddressesInv, RequestsOK, RoomLeft, LowerAndDistinct, ProvenRows, GoodTokens
<1>7. \A d \in clients' : AddressCallOK(d)' /\ (Alone' => AddressCallFresh(d)')
  BY <1>2, <1>3 DEF AddressesInv, AddressCallOK, AddressCallFresh
<1>. QED
  BY <1>5, <1>6, <1>7 DEF AddressesInv

\* An account is changed, none is added, and the request is answered.
LEMMA AccountChanges ==
  ASSUME AddressesInv, NEW c \in clients, NEW u \in Registered, NEW row \in AddressRow, NEW next,
         Continue(c, next), next.step \in {"rest", "failed"}, UNCHANGED clients,
         accounts' = [accounts EXCEPT ![u] = row],
         links' \subseteq [user : Registered, email : Spellings],
         \A r \in resets' : r \in resets, UNCHANGED <<tokens, edits, proven>>,
         useless' \subseteq DOMAIN tokens,
         edits = 0 => row.email = accounts[u].email,
         Alone /\ row.verified => row.email # NoEmail /\ <<u, Lower[row.email]>> \in proven,
         Alone => \A r \in resets' : r.token \notin useless'
  PROVE  AddressesInv'
<1>1. accounts = [v \in Registered |-> accounts[v]]
  BY DEF AddressesInv, AddressesTyped
<1>2. /\ Registered' = Registered /\ accounts' = [v \in Registered |-> accounts'[v]]
      /\ accounts'[u] = row /\ \A v \in Registered \ {u} : accounts'[v] = accounts[v]
  BY <1>1 DEF Registered
<1>3. AddressesTyped'
  BY <1>2 DEF AddressesInv, AddressesTyped
<1>4. RoomLeft' /\ AddressCallOK(c)' /\ AddressCallFresh(c)'
  BY <1>2, RoomStays, CallAtRest
<1>5. edits' = 0 => LowerAndDistinct'
  BY <1>2 DEF AddressesInv, LowerAndDistinct
<1>6. Alone => ProvenRows' /\ GoodTokens'
  BY <1>2 DEF AddressesInv, ProvenRows, GoodTokens
<1>7. edits <= edits'
  BY DEF AddressesInv, AddressesTyped
<1>. QED
  BY <1>2, <1>3, <1>4, <1>5, <1>6, <1>7, AddressGoes

LEMMA VerifyStep ==
  ASSUME AddressesInv, NEW c \in clients, VerifyEmail(c), UNCHANGED clients PROVE AddressesInv'
<1>. DEFINE u == request[c].user
            row == [accounts[u] EXCEPT !.verified = TRUE]
<1>1. /\ request[c].step = "verify" /\ Continue(c, Rest)
      /\ accounts' = [accounts EXCEPT ![u] = row]
      /\ UNCHANGED <<links, resets, tokens, useless, proven, edits>>
  BY DEF VerifyEmail, At, KeepsTokens
<1>2. u \in Registered
  BY <1>1 DEF AddressesInv, AddressCallOK
<1>3. accounts[u] \in AddressRow
  BY <1>2 DEF AddressesInv, AddressesTyped
<1>4. row \in AddressRow /\ row.email = accounts[u].email
  BY <1>3 DEF AddressRow
<1>5. Alone => row.email # NoEmail /\ <<u, Lower[row.email]>> \in proven
  BY <1>1, <1>4 DEF AddressesInv, AddressCallFresh
<1>6. /\ links' \subseteq [user : Registered, email : Spellings] /\ useless' \subseteq DOMAIN tokens
      /\ Alone => \A r \in resets' : r.token \notin useless'
  BY <1>1 DEF AddressesInv, AddressesTyped, GoodTokens
<1>. HIDE DEF u, row
<1>. QED
  BY <1>1, <1>2, <1>4, <1>5, <1>6, AccountChanges DEF Rest

LEMMA ExecuteResetStep ==
  ASSUME AddressesInv, NEW c \in clients, ExecutePasswordReset(c), UNCHANGED clients PROVE AddressesInv'
<1>. DEFINE u == request[c].user
            row == [accounts[u] EXCEPT !.verified = TRUE]
<1>1. /\ request[c].step = "reset" /\ Continue(c, Rest)
      /\ accounts' = [accounts EXCEPT ![u] = row]
      /\ resets' = {r \in resets : r.email # request[c].email}
      /\ useless' = useless \cup {request[c].token}
      /\ UNCHANGED <<links, tokens, proven, edits>>
  BY DEF ExecutePasswordReset, ForgetTokens, At
<1>2. u \in Registered /\ request[c].token \in DOMAIN tokens /\ tokens[request[c].token] = request[c].email
  BY <1>1 DEF AddressesInv, AddressCallOK
<1>3. accounts[u] \in AddressRow
  BY <1>2 DEF AddressesInv, AddressesTyped
<1>4. row \in AddressRow /\ row.email = accounts[u].email
  BY <1>3 DEF AddressRow
<1>5. Alone => row.email # NoEmail /\ <<u, Lower[row.email]>> \in proven
  BY <1>1, <1>4 DEF AddressesInv, AddressCallFresh
<1>6. links' \subseteq [user : Registered, email : Spellings] /\ useless' \subseteq DOMAIN tokens
  BY <1>1, <1>2 DEF AddressesInv, AddressesTyped
<1>7. Alone => \A r \in resets' : r.token \notin useless'
  BY <1>1, <1>2 DEF AddressesInv, AddressesTyped, GoodTokens
<1>. HIDE DEF u, row
<1>. QED
  BY <1>1, <1>2, <1>4, <1>5, <1>6, <1>7, AccountChanges DEF Rest

LEMMA EditStep ==
  ASSUME AddressesInv, NEW c \in clients, EditUser(c), UNCHANGED clients PROVE AddressesInv'
<1>. DEFINE u == request[c].user
            new == request[c].changes
            row == IF new.written
                     THEN [email |-> new.email, verified |-> accounts[u].verified /\ ~new.unverified]
                     ELSE accounts[u]
<1>1. /\ request[c].step = "edit" /\ UNCHANGED <<resets, tokens, useless, proven, edits>>
      /\ \/ Continue(c, Failed("edit", "unique", u)) /\ UNCHANGED <<accounts, links>>
         \/ /\ accounts' = [accounts EXCEPT ![u] = row] /\ Continue(c, Rest)
            /\ links' = IF request[c].own /\ new.written
                          THEN links \cup {[user |-> u, email |-> row.email]} ELSE links
  BY DEF EditUser, At, KeepsTokens
<1>2. /\ edits # 0 /\ u \in Registered /\ request[c].own \in BOOLEAN
      /\ new \in [email : Spellings \cup {NoEmail}, written : BOOLEAN, unverified : BOOLEAN]
      /\ request[c].own => new.email \in Spellings
  BY <1>1 DEF AddressesInv, AddressCallOK
<1>3. accounts[u] \in AddressRow
  BY <1>2 DEF AddressesInv, AddressesTyped
<1>4. CASE Continue(c, Failed("edit", "unique", u)) /\ UNCHANGED <<accounts, links>>
  <2>1. Registered' = Registered /\ edits \in Nat
    BY <1>4 DEF Registered, AddressesInv, AddressesTyped
  <2>2. RoomLeft' /\ AddressCallOK(c)' /\ AddressCallFresh(c)'
    BY <1>4, <2>1, RoomStays, CallAtRest DEF Failed
  <2>. QED
    BY <1>1, <1>4, <2>1, <2>2, AddressReads
<1>5. CASE /\ accounts' = [accounts EXCEPT ![u] = row] /\ Continue(c, Rest)
           /\ links' = IF request[c].own /\ new.written
                         THEN links \cup {[user |-> u, email |-> row.email]} ELSE links
  <2>1. new.written => row.email = new.email /\ row.verified = (accounts[u].verified /\ ~new.unverified)
    OBVIOUS
  <2>2. ~new.written => row = accounts[u]
    OBVIOUS
  <2>3. row \in AddressRow
    BY <1>2, <1>3 DEF AddressRow
  <2>4. Alone /\ row.verified => ~new.written
    <3>1. Alone /\ new.written /\ accounts[u].verified => new.unverified
      BY <1>1 DEF AddressesInv, AddressCallFresh
    <3>2. ASSUME Alone, row.verified, new.written PROVE FALSE
      BY <2>1, <3>1, <3>2
    <3>. QED
      BY <1>2, <3>2
  <2>5. Alone /\ row.verified => row.email # NoEmail /\ <<u, Lower[row.email]>> \in proven
    BY <1>2, <2>2, <2>4 DEF AddressesInv, ProvenRows
  <2>6. links' \subseteq [user : Registered, email : Spellings]
    <3>1. links \subseteq [user : Registered, email : Spellings]
      BY DEF AddressesInv, AddressesTyped
    <3>2. request[c].own /\ new.written => row.email \in Spellings
      BY <1>2, <2>1
    <3>. HIDE DEF row
    <3>. QED
      BY <1>2, <1>5, <3>1, <3>2
  <2>7. useless' \subseteq DOMAIN tokens /\ (Alone => \A r \in resets' : r.token \notin useless')
    BY <1>1 DEF AddressesInv, AddressesTyped, GoodTokens
  <2>. HIDE DEF u, row, new
  <2>. QED
    BY <1>1, <1>2, <1>5, <2>3, <2>5, <2>6, <2>7, AccountChanges DEF Rest
<1>. QED
  BY <1>1, <1>4, <1>5

LEMMA ExpireStep ==
  ASSUME AddressesInv, NEW c \in clients, ExpireToken(c), UNCHANGED clients PROVE AddressesInv'
<1>1. /\ resets' \subseteq resets /\ Continue(c, Rest)
      /\ UNCHANGED <<accounts, links, tokens, useless, proven, edits>>
  BY DEF ExpireToken, ForgetTokens
<1>2. Registered' = Registered
  BY <1>1 DEF Registered
<1>3. AddressesTyped' /\ edits <= edits'
  BY <1>1, <1>2 DEF AddressesInv, AddressesTyped
<1>4. RoomLeft' /\ AddressCallOK(c)' /\ AddressCallFresh(c)'
  BY <1>1, <1>2, RoomStays, CallAtRest DEF Rest
<1>5. (edits' = 0 => LowerAndDistinct') /\ (Alone => ProvenRows' /\ GoodTokens')
  BY <1>1, <1>2 DEF AddressesInv, LowerAndDistinct, ProvenRows, GoodTokens
<1>. QED
  BY <1>1, <1>2, <1>3, <1>4, <1>5, AddressGoes

LEMMA IssueStep ==
  ASSUME AddressesInv, NEW c \in clients, IssueToken(c), UNCHANGED clients PROVE AddressesInv'
<1>. DEFINE e == request[c].email
            new == [email |-> e, token |-> Len(tokens) + 1]
<1>1. /\ request[c].step = "token" /\ Continue(c, Rest)
      /\ tokens' = Append(tokens, e)
      /\ resets' = (resets \ request[c].former) \cup {new}
      /\ useless' = useless \cup {t \in DOMAIN tokens : tokens[t] = e}
      /\ UNCHANGED <<accounts, links, proven, edits>>
  BY DEF IssueToken, At
<1>2. e \in Mailboxes
  BY <1>1 DEF AddressesInv, AddressCallOK
<1>3. /\ tokens \in Seq(Mailboxes) /\ useless \subseteq DOMAIN tokens
      /\ resets \subseteq [email : Mailboxes, token : DOMAIN tokens]
      /\ \A r \in resets : r.email = tokens[r.token]
  BY DEF AddressesInv, AddressesTyped
<1>4. new.email = e /\ new.token = Len(tokens) + 1
  OBVIOUS
<1>5. /\ tokens' \in Seq(Mailboxes) /\ DOMAIN tokens' = DOMAIN tokens \cup {new.token}
      /\ new.token \notin DOMAIN tokens /\ tokens'[new.token] = e
      /\ \A t \in DOMAIN tokens : tokens'[t] = tokens[t]
  BY <1>1, <1>2, <1>3, <1>4
<1>6. new \in [email : Mailboxes, token : DOMAIN tokens']
  BY <1>2, <1>5
<1>. HIDE DEF e, new
<1>7. Registered' = Registered
  BY <1>1 DEF Registered
<1>8. AddressesTyped'
  <2>1. resets' \subseteq [email : Mailboxes, token : DOMAIN tokens']
    BY <1>1, <1>3, <1>5, <1>6
  <2>2. \A r \in resets' : r.email = tokens'[r.token]
    BY <1>1, <1>3, <1>4, <1>5
  <2>3. useless' \subseteq DOMAIN tokens'
    BY <1>1, <1>3, <1>5
  <2>. QED
    BY <1>1, <1>5, <1>7, <2>1, <2>2, <2>3 DEF AddressesInv, AddressesTyped
<1>9. RoomLeft' /\ AddressCallOK(c)' /\ AddressCallFresh(c)'
  BY <1>1, <1>7, RoomStays, CallAtRest DEF Rest
<1>10. (edits' = 0 => LowerAndDistinct') /\ (Alone => ProvenRows')
  BY <1>1, <1>7 DEF AddressesInv, LowerAndDistinct, ProvenRows
<1>11. Alone => GoodTokens'
  <2>. SUFFICES ASSUME Alone PROVE GoodTokens'
    OBVIOUS
  <2>1. request[c].former = {r \in resets : r.email = e} /\ GoodTokens
    BY <1>1 DEF AddressesInv, AddressCallFresh, e
  <2>2. \A r \in resets' : r = new \/ (r \in resets /\ r.email # e)
    BY <1>1, <2>1
  <2>3. \A r \in resets' : r.token \notin useless'
    BY <1>1, <1>3, <1>4, <1>5, <2>1, <2>2 DEF GoodTokens
  <2>4. \A r, s \in resets' : r.email = s.email => r = s
    BY <1>4, <2>1, <2>2 DEF GoodTokens
  <2>. QED
    BY <2>3, <2>4 DEF GoodTokens
<1>12. Registered \subseteq Registered' /\ edits <= edits' /\ UNCHANGED clients
  BY <1>1, <1>7 DEF AddressesInv, AddressesTyped
<1>13. \A t \in DOMAIN tokens : t \in DOMAIN tokens' /\ tokens'[t] = tokens[t]
  BY <1>5
<1>. QED
  BY <1>1, <1>8, <1>9, <1>10, <1>11, <1>12, <1>13, AddressGoes

LEMMA InsertStep ==
  ASSUME AddressesInv, NEW c \in clients, InsertUser(c), UNCHANGED clients PROVE AddressesInv'
<1>. DEFINE e == request[c].email
            u == Cardinality(Registered) + 1
            row == [email |-> e, verified |-> FALSE]
<1>1. /\ request[c].step = "insert" /\ UNCHANGED <<resets, tokens, useless, proven, edits>>
      /\ \/ Continue(c, Failed("insert", "unique", 0)) /\ UNCHANGED <<accounts, links>>
         \/ /\ e = NoEmail \/ Having(e) = {}
            /\ accounts' = [v \in Registered \cup {u} |-> IF v = u THEN row ELSE accounts[v]]
            /\ links' = IF request[c].mailed THEN links \cup {[user |-> u, email |-> e]} ELSE links
            /\ Continue(c, Rest)
  BY DEF InsertUser, At, KeepsTokens
<1>2. /\ e \in Spellings \cup {NoEmail} /\ request[c].mailed \in BOOLEAN
      /\ request[c].mailed => e \in Spellings
      /\ edits = 0 => e \in Mailboxes
  BY <1>1 DEF AddressesInv, AddressCallOK
<1>3. CASE Continue(c, Failed("insert", "unique", 0)) /\ UNCHANGED <<accounts, links>>
  <2>1. Registered' = Registered /\ edits \in Nat
    BY <1>3 DEF Registered, AddressesInv, AddressesTyped
  <2>2. RoomLeft' /\ AddressCallOK(c)' /\ AddressCallFresh(c)'
    BY <1>3, <2>1, RoomStays, CallAtRest DEF Failed
  <2>. QED
    BY <1>1, <1>3, <2>1, <2>2, AddressReads
<1>4. CASE /\ e = NoEmail \/ Having(e) = {}
           /\ accounts' = [v \in Registered \cup {u} |-> IF v = u THEN row ELSE accounts[v]]
           /\ links' = IF request[c].mailed THEN links \cup {[user |-> u, email |-> e]} ELSE links
           /\ Continue(c, Rest)
  <2>1. /\ Registered' = Registered \cup {u}
        /\ accounts' = [v \in Registered' |-> accounts'[v]]
    BY <1>4 DEF Registered
  <2>2. u \notin Registered /\ Registered' \in {{1}, {1, 2}} /\ Cardinality(Registered') = u
    BY <1>1, <2>1, RoomUsed
  <2>3. row.email = e /\ row.verified = FALSE /\ row \in AddressRow
    BY <1>2 DEF AddressRow
  <2>4. accounts'[u] = row /\ \A v \in Registered : accounts'[v] = accounts[v] /\ v # u
    BY <1>4, <2>2
  <2>5. RoomLeft'
    <3>1. \A d \in clients : request'[d].step = "insert" => d # c /\ request[d].step = "insert"
      BY <1>4, OneGoes DEF AddressesInv, Rest
    <3>2. Entering' \subseteq Entering \ {c} /\ c \in Entering
      BY <1>1, <3>1 DEF Entering
    <3>3. IsFiniteSet(Entering \ {c}) /\ Cardinality(Entering \ {c}) = Cardinality(Entering) - 1
      BY <3>2, EnteringFinite, FS_RemoveElement
    <3>4. Cardinality(Entering') <= Cardinality(Entering \ {c}) /\ IsFiniteSet(Entering')
      BY <3>2, <3>3, FS_Subset
    <3>5. Cardinality(Entering') \in Nat /\ Cardinality(Registered) + Cardinality(Entering) <= 2
      BY <3>4, FS_CardinalityType DEF AddressesInv, RoomLeft
    <3>. QED
      BY <2>2, <3>3, <3>4, <3>5, EnteringFinite DEF RoomLeft
  <2>6. \A v \in Registered : accounts[v] \in AddressRow
    BY DEF AddressesInv, AddressesTyped
  <2>7. edits = 0 => LowerAndDistinct'
    <3>. SUFFICES ASSUME edits = 0 PROVE LowerAndDistinct'
      OBVIOUS
    <3>1. e \in Mailboxes /\ e # NoEmail /\ LowerAndDistinct
      BY <1>2, AddressNames DEF AddressesInv
    <3>2. \A v \in Registered : accounts[v].email # e
      BY <1>4, <3>1 DEF Having
    <3>3. \A v \in Registered' : accounts'[v].email \in Mailboxes
      BY <2>1, <2>3, <2>4, <3>1 DEF LowerAndDistinct
    <3>4. \A v, w \in Registered' : accounts'[v].email = accounts'[w].email => v = w
      BY <2>1, <2>3, <2>4, <3>1, <3>2 DEF LowerAndDistinct
    <3>. QED
      BY <3>3, <3>4 DEF LowerAndDistinct
  <2>8. Alone => ProvenRows' /\ GoodTokens'
    <3>1. Alone => GoodTokens'
      BY <1>1 DEF AddressesInv, GoodTokens
    <3>2. Alone => ProvenRows'
      BY <1>1, <2>1, <2>3, <2>4 DEF AddressesInv, ProvenRows
    <3>. QED
      BY <3>1, <3>2
  <2>9. links' \subseteq [user : Registered', email : Spellings]
    <3>1. links \subseteq [user : Registered, email : Spellings]
      BY DEF AddressesInv, AddressesTyped
    <3>2. request[c].mailed => [user |-> u, email |-> e] \in [user : Registered', email : Spellings]
      BY <1>2, <2>1
    <3>. QED
      BY <1>2, <1>4, <2>1, <3>1, <3>2
  <2>. HIDE DEF u, row, e
  <2>10. AddressesTyped'
    <3>1. \A v \in Registered' : accounts'[v] \in AddressRow
      BY <2>1, <2>3, <2>4, <2>6
    <3>. QED
      BY <1>1, <2>1, <2>2, <2>9, <3>1 DEF AddressesInv, AddressesTyped
  <2>11. AddressCallOK(c)' /\ AddressCallFresh(c)'
    BY <1>4, CallAtRest DEF Rest
  <2>12. /\ Registered \subseteq Registered' /\ edits <= edits'
         /\ \A t \in DOMAIN tokens : t \in DOMAIN tokens' /\ tokens'[t] = tokens[t]
    BY <1>1, <2>1 DEF AddressesInv, AddressesTyped
  <2>. QED
    BY <1>1, <1>4, <2>5, <2>7, <2>8, <2>10, <2>11, <2>12, AddressGoes
<1>. QED
  BY <1>1, <1>3, <1>4

LEMMA AddressesStep == AddressesInv /\ AddressesNext => AddressesInv'
<1>. SUFFICES ASSUME AddressesInv, AddressesNext PROVE AddressesInv'
  OBVIOUS
<1>1. UNCHANGED clients
  BY DEF AddressesNext
<1>2. PICK c \in clients :
        \/ CheckRegistration(c) \/ CheckCreation(c) \/ InsertUser(c)
        \/ CheckProfile(c) \/ CheckUserEdit(c) \/ EditUser(c)
        \/ ResendVerificationEmail(c) \/ ReadLink(c) \/ VerifyEmail(c)
        \/ RequestPasswordReset(c) \/ IssueToken(c)
        \/ ReadToken(c) \/ ExpireToken(c) \/ ExecutePasswordReset(c)
  BY DEF AddressesNext
<1>. QED
  BY <1>1, <1>2, RegistrationStep, CreationStep, InsertStep, CheckEditStep, EditStep, ResendStep,
     ReadLinkStep, VerifyStep, RequestResetStep, IssueStep, ReadTokenStep, ExpireStep, ExecuteResetStep

LEMMA AddressesInitInv ==
  RequestsOK /\ (\A c \in clients : request[c] = Rest) /\ AddressesInit => AddressesInv
<1>. SUFFICES ASSUME RequestsOK, \A c \in clients : request[c] = Rest, AddressesInit
              PROVE  AddressesInv
  OBVIOUS
<1>1. Registered = {} /\ Entering = {}
  BY DEF AddressesInit, Registered, Entering, Rest
<1>2. AddressesTyped
  BY <1>1 DEF AddressesInit, AddressesTyped
<1>3. RoomLeft
  BY <1>1, FS_EmptySet DEF RoomLeft
<1>4. LowerAndDistinct /\ ProvenRows /\ GoodTokens
  BY <1>1 DEF AddressesInit, LowerAndDistinct, ProvenRows, GoodTokens
<1>5. \A c \in clients : AddressCallOK(c) /\ AddressCallFresh(c)
  BY DEF AddressCallOK, AddressCallFresh, Rest
<1>. QED
  BY <1>2, <1>3, <1>4, <1>5 DEF AddressesInv

\* What a behaviour that follows another topic keeps of the addresses: there
\* are none.
NoAddresses == Registered = {} /\ resets = {} /\ useless = {}

LEMMA AddressesInvSafe ==
  ASSUME AddressesInv PROVE AddressesSafe
<1>1. AddressesOK
  BY DEF AddressesInv, AddressesTyped, AddressesOK, AddressRow, Users
<1>2. AloneVerifiedIsProven /\ AloneTokenGoodOnce /\ AloneOneToken
  BY DEF AddressesInv, ProvenRows, GoodTokens, AddressCallFresh, At,
         AloneVerifiedIsProven, AloneTokenGoodOnce, AloneOneToken
<1>3. ASSUME edits = 0, NEW e \in Mailboxes PROVE Cardinality(HavingLower(e)) <= 1
  <2>1. LowerAndDistinct
    BY <1>3 DEF AddressesInv
  <2>2. \A u, v \in HavingLower(e) : u = v
    BY <2>1, AddressNames DEF HavingLower, LowerAndDistinct
  <2>3. CASE HavingLower(e) = {}
    <3>1. Cardinality({}) = 0
      BY FS_EmptySet
    <3>. QED
      BY <2>3, <3>1
  <2>4. CASE \E u : u \in HavingLower(e)
    <3>1. PICK u : HavingLower(e) = {u}
      BY <2>2, <2>4
    <3>2. Cardinality({u}) = 1
      BY FS_Singleton
    <3>. QED
      BY <3>1, <3>2
  <2>. QED
    BY <2>3, <2>4
<1>. QED
  BY <1>1, <1>2, <1>3 DEF AddressesSafe, TwinsWereTyped

LEMMA NoAddressesSafe ==
  ASSUME NoAddresses PROVE AddressesSafe
<1>1. Cardinality({}) = 0
  BY FS_EmptySet
<1>2. \A e : HavingLower(e) = {}
  BY DEF NoAddresses, HavingLower
<1>3. TwinsWereTyped
  BY <1>1, <1>2 DEF TwinsWereTyped
<1>. QED
  BY <1>3 DEF NoAddresses, AddressesSafe, AddressesOK, AloneVerifiedIsProven, AloneTokenGoodOnce, AloneOneToken

-----------------------------------------------------------------------------
(* The login throttle.                                                     *)

FailuresOK ==
  /\ failures \in Seq(1..LOGIN_THROTTLE_WINDOW)
  /\ \A i, j \in 1..Len(failures) : i < j => failures[i] <= failures[j]

\* Attempts under way count as the failures they may become.
AttemptsBounded ==
  Len(failures) + Cardinality(Trying) < MAX_LOGIN_ATTEMPTS + Cardinality(clients)

\* A wait stands as long as nobody is let in, and with every half second both
\* it and the windows get shorter.
WaitStands ==
  /\ wait \in NoWait..2 * LOGIN_THROTTLE_WINDOW
  /\ wait # NoWait => Trying = {}
  /\ wait # NoWait /\ LockedOut =>
       failures[Len(failures) - MAX_LOGIN_ATTEMPTS + 1] <= wait + 1

ThrottleInv == RequestsOK /\ FailuresOK /\ AttemptsBounded /\ WaitStands

LEMMA ElementsOfList ==
  ASSUME NEW S, NEW s \in Seq(S)
  PROVE  Len(s) \in Nat /\ \A i \in 1..Len(s) : s[i] \in S
OBVIOUS

LEMMA FailuresRead ==
  ASSUME FailuresOK
  PROVE  /\ Len(failures) \in Nat
         /\ \A i \in 1..Len(failures) : failures[i] \in 1..LOGIN_THROTTLE_WINDOW
<1>. DEFINE Windows == 1..LOGIN_THROTTLE_WINDOW
<1>1. failures \in Seq(Windows)
  BY DEF FailuresOK
<1>. HIDE DEF Windows
<1>2. Len(failures) \in Nat /\ \A i \in 1..Len(failures) : failures[i] \in Windows
  BY <1>1, ElementsOfList
<1>. QED
  BY <1>2 DEF Windows

LEMMA AttemptsFinite ==
  ASSUME RequestsOK
  PROVE  /\ IsFiniteSet(clients) /\ Cardinality(clients) \in Nat \ {0}
         /\ IsFiniteSet(Trying) /\ Cardinality(Trying) \in Nat
         /\ Cardinality(Trying) <= Cardinality(clients)
<1>1. IsFiniteSet({1}) /\ Cardinality({1}) = 1
  BY FS_Singleton
<1>2. IsFiniteSet(clients) /\ Cardinality(clients) \in Nat \ {0}
  BY <1>1, PairHasTwo DEF RequestsOK
<1>3. Trying \subseteq clients
  BY DEF Trying
<1>. QED
  BY <1>2, <1>3, FS_Subset, FS_CardinalityType

LEMMA CheckThrottleStep ==
  ASSUME ThrottleInv, NEW c \in clients, CheckLoginThrottle(c), UNCHANGED clients PROVE ThrottleInv'
<1>1. /\ ~LockedOut /\ Continue(c, [step |-> "try"]) /\ wait' = NoWait /\ failures' = failures
  BY DEF CheckLoginThrottle
<1>2. RequestsOK'
  BY <1>1, OneGoes DEF ThrottleInv
<1>3. FailuresOK' /\ Len(failures) \in Nat
  BY <1>1 DEF ThrottleInv, FailuresOK
<1>4. Cardinality(clients) \in Nat /\ Cardinality(Trying') \in Nat /\ Cardinality(Trying') <= Cardinality(clients')
  <2>1. IsFiniteSet(clients) /\ Cardinality(clients) \in Nat
    BY AttemptsFinite DEF ThrottleInv
  <2>2. Trying' \subseteq clients
    BY DEF Trying
  <2>. QED
    BY <2>1, <2>2, FS_Subset, FS_CardinalityType
<1>5. AttemptsBounded'
  BY <1>1, <1>3, <1>4, ThrottleAssumption DEF AttemptsBounded, LockedOut
<1>6. WaitStands'
  BY <1>1, ThrottleAssumption DEF WaitStands, NoWait
<1>. QED
  BY <1>2, <1>3, <1>5, <1>6 DEF ThrottleInv

LEMMA LockoutStep ==
  ASSUME ThrottleInv, NEW c \in clients, Lockout(c), UNCHANGED clients PROVE ThrottleInv'
<1>. DEFINE f == failures[Len(failures) - MAX_LOGIN_ATTEMPTS + 1]
<1>1. /\ LockedOut /\ UNCHANGED <<failures, request>>
      /\ wait' = IF Trying = {} THEN RetryAfter ELSE wait
  BY DEF Lockout
<1>2. Trying' = Trying
  BY <1>1 DEF Trying, At
<1>3. RequestsOK' /\ FailuresOK' /\ AttemptsBounded'
  BY <1>1, <1>2 DEF ThrottleInv, RequestsOK, FailuresOK, AttemptsBounded
<1>4. f \in 1..LOGIN_THROTTLE_WINDOW
  <2>1. Len(failures) \in Nat /\ Len(failures) >= MAX_LOGIN_ATTEMPTS
    BY <1>1 DEF ThrottleInv, FailuresOK, LockedOut
  <2>2. Len(failures) - MAX_LOGIN_ATTEMPTS + 1 \in 1..Len(failures)
    BY <2>1, ThrottleAssumption
  <2>. QED
    BY <2>2, FailuresRead DEF ThrottleInv
<1>5. RetryAfter \in 0..2 * LOGIN_THROTTLE_WINDOW /\ f <= RetryAfter + 1
  <2>. DEFINE half == f \div 2
  <2>1. half \in Nat /\ 2 * half <= f /\ f <= 2 * half + 1
    BY <1>4, ThrottleAssumption
  <2>. HIDE DEF half, f
  <2>2. Max({1, half}) = IF half > 1 THEN half ELSE 1
    BY <2>1 DEF Max
  <2>3. RetryAfter = 2 * Max({1, half})
    BY DEF RetryAfter, half, f
  <2>. QED
    BY <1>4, <2>1, <2>2, <2>3, ThrottleAssumption
<1>6. WaitStands'
  <2>1. CASE Trying = {}
    BY <1>1, <1>2, <1>5, <2>1 DEF WaitStands, NoWait, LockedOut
  <2>2. CASE Trying # {}
    BY <1>1, <1>2, <2>2 DEF ThrottleInv, WaitStands
  <2>. QED
    BY <2>1, <2>2
<1>. QED
  BY <1>3, <1>6 DEF ThrottleInv

\* An attempt ends: there was one under way, so no wait stands.
LEMMA AttemptEnds ==
  ASSUME ThrottleInv, NEW c \in clients, At(c, "try"), Continue(c, Rest), UNCHANGED clients
  PROVE  /\ RequestsOK' /\ wait = NoWait
         /\ Cardinality(Trying') = Cardinality(Trying) - 1 /\ Cardinality(Trying) \in Nat
<1>1. RequestsOK' /\ request'[c] = Rest /\ \A d \in clients \ {c} : request'[d] = request[d]
  BY OneGoes DEF ThrottleInv
<1>2. Trying' = Trying \ {c} /\ c \in Trying
  BY <1>1 DEF Trying, At, Rest
<1>3. wait = NoWait
  BY <1>2 DEF ThrottleInv, WaitStands
<1>. QED
  BY <1>1, <1>2, <1>3, AttemptsFinite, FS_RemoveElement DEF ThrottleInv

LEMMA FailStep ==
  ASSUME ThrottleInv, NEW c \in clients, Fail(c), UNCHANGED clients PROVE ThrottleInv'
<1>1. /\ At(c, "try") /\ Continue(c, Rest) /\ wait' = wait
      /\ failures' = Append(failures, LOGIN_THROTTLE_WINDOW)
  BY DEF Fail
<1>2. /\ RequestsOK' /\ wait = NoWait
      /\ Cardinality(Trying') = Cardinality(Trying) - 1 /\ Cardinality(Trying) \in Nat
  BY <1>1, AttemptEnds
<1>3. LOGIN_THROTTLE_WINDOW \in 1..LOGIN_THROTTLE_WINDOW
  BY ThrottleAssumption
<1>4. /\ failures' \in Seq(1..LOGIN_THROTTLE_WINDOW) /\ Len(failures') = Len(failures) + 1
      /\ Len(failures) \in Nat /\ failures'[Len(failures) + 1] = LOGIN_THROTTLE_WINDOW
      /\ \A i \in 1..Len(failures) : failures'[i] = failures[i] /\ failures[i] \in 1..LOGIN_THROTTLE_WINDOW
  <2>. DEFINE Windows == 1..LOGIN_THROTTLE_WINDOW
  <2>1. failures \in Seq(Windows) /\ LOGIN_THROTTLE_WINDOW \in Windows
    BY <1>3 DEF ThrottleInv, FailuresOK
  <2>. HIDE DEF Windows
  <2>2. /\ failures' \in Seq(Windows) /\ Len(failures') = Len(failures) + 1
        /\ Len(failures) \in Nat /\ failures'[Len(failures) + 1] = LOGIN_THROTTLE_WINDOW
        /\ \A i \in 1..Len(failures) : failures'[i] = failures[i] /\ failures[i] \in Windows
    BY <1>1, <2>1
  <2>. QED
    BY <2>2 DEF Windows
<1>5. ASSUME NEW i \in 1..Len(failures'), NEW j \in 1..Len(failures'), i < j
      PROVE  failures'[i] <= failures'[j]
  <2>1. i \in 1..Len(failures) /\ failures'[i] = failures[i] /\ failures[i] <= LOGIN_THROTTLE_WINDOW
    BY <1>4, <1>5, ThrottleAssumption
  <2>2. CASE j = Len(failures) + 1
    BY <1>4, <2>1, <2>2
  <2>3. CASE j \in 1..Len(failures)
    BY <1>4, <1>5, <2>1, <2>3 DEF ThrottleInv, FailuresOK
  <2>. QED
    BY <1>4, <2>2, <2>3
<1>6. FailuresOK'
  BY <1>4, <1>5 DEF FailuresOK
<1>7. AttemptsBounded'
  BY <1>2, <1>4, AttemptsFinite, ThrottleAssumption DEF ThrottleInv, AttemptsBounded
<1>8. WaitStands'
  BY <1>1, <1>2, ThrottleAssumption DEF WaitStands, NoWait
<1>. QED
  BY <1>2, <1>6, <1>7, <1>8 DEF ThrottleInv

LEMMA SucceedStep ==
  ASSUME ThrottleInv, NEW c \in clients, Succeed(c), UNCHANGED clients PROVE ThrottleInv'
<1>1. At(c, "try") /\ Continue(c, Rest) /\ wait' = wait /\ failures' = << >>
  BY DEF Succeed
<1>2. /\ RequestsOK' /\ wait = NoWait
      /\ Cardinality(Trying') = Cardinality(Trying) - 1 /\ Cardinality(Trying) \in Nat
  BY <1>1, AttemptEnds
<1>3. Len(failures) \in Nat
  BY DEF ThrottleInv, FailuresOK
<1>4. Len(failures') = 0 /\ FailuresOK'
  BY <1>1 DEF FailuresOK
<1>5. AttemptsBounded'
  BY <1>2, <1>3, <1>4, AttemptsFinite, ThrottleAssumption DEF ThrottleInv, AttemptsBounded
<1>6. WaitStands'
  BY <1>1, <1>2, ThrottleAssumption DEF WaitStands, NoWait
<1>. QED
  BY <1>2, <1>4, <1>5, <1>6 DEF ThrottleInv

LEMMA PassStep == ASSUME ThrottleInv, Pass, UNCHANGED clients PROVE ThrottleInv'
<1>1. PICK n \in 0..Len(failures) :
        /\ \A i \in 1..Len(failures) : i <= n <=> failures[i] <= 1
        /\ failures' = [i \in 1..Len(failures) - n |-> failures[i + n] - 1]
  BY DEF Pass
<1>2. request' = request /\ wait' = IF wait > 0 THEN wait - 1 ELSE NoWait
  BY DEF Pass
<1>3. RequestsOK' /\ Trying' = Trying
  BY <1>2 DEF ThrottleInv, RequestsOK, Trying, At
<1>4. /\ Len(failures) \in Nat /\ n \in Nat /\ n <= Len(failures)
      /\ \A i \in 1..Len(failures) : failures[i] \in 1..LOGIN_THROTTLE_WINDOW
  BY FailuresRead DEF ThrottleInv
<1>. DEFINE left == Len(failures) - n
<1>5. left \in Nat /\ left <= Len(failures)
  BY <1>4
<1>6. \A i \in 1..left : failures[i + n] - 1 \in 1..LOGIN_THROTTLE_WINDOW
  <2>. SUFFICES ASSUME NEW i \in 1..left PROVE failures[i + n] - 1 \in 1..LOGIN_THROTTLE_WINDOW
    OBVIOUS
  <2>1. i + n \in 1..Len(failures) /\ ~(i + n <= n)
    BY <1>4
  <2>2. failures[i + n] \in 1..LOGIN_THROTTLE_WINDOW /\ ~(failures[i + n] <= 1)
    BY <1>1, <1>4, <2>1
  <2>. QED
    BY <2>2, ThrottleAssumption
<1>7. /\ failures' \in Seq(1..LOGIN_THROTTLE_WINDOW) /\ Len(failures') = left
      /\ \A i \in 1..left : failures'[i] = failures[i + n] - 1
  BY <1>1, <1>5, <1>6
<1>8. ASSUME NEW i \in 1..left, NEW j \in 1..left, i < j PROVE failures'[i] <= failures'[j]
  <2>1. i + n \in 1..Len(failures) /\ j + n \in 1..Len(failures) /\ i + n < j + n
    BY <1>4, <1>8
  <2>2. failures[i + n] <= failures[j + n]
    BY <2>1 DEF ThrottleInv, FailuresOK
  <2>3. failures[i + n] \in Nat /\ failures[j + n] \in Nat
    BY <1>4, <2>1
  <2>. QED
    BY <1>7, <2>2, <2>3
<1>. HIDE DEF left
<1>9. FailuresOK'
  BY <1>7, <1>8 DEF FailuresOK
<1>10. AttemptsBounded'
  BY <1>3, <1>4, <1>5, <1>7, AttemptsFinite, ThrottleAssumption DEF ThrottleInv, AttemptsBounded
<1>11. wait \in NoWait..2 * LOGIN_THROTTLE_WINDOW
  BY DEF ThrottleInv, WaitStands
<1>12. wait' \in NoWait..2 * LOGIN_THROTTLE_WINDOW /\ (wait' # NoWait => wait > 0 /\ wait' = wait - 1)
  BY <1>2, <1>11, ThrottleAssumption DEF NoWait
<1>13. ASSUME wait' # NoWait, LockedOut'
       PROVE  failures'[Len(failures') - MAX_LOGIN_ATTEMPTS + 1] <= wait' + 1
  <2>. DEFINE k == left - MAX_LOGIN_ATTEMPTS + 1
  <2>1. left >= MAX_LOGIN_ATTEMPTS
    BY <1>7, <1>13 DEF LockedOut
  <2>2. k \in 1..left /\ k + n = Len(failures) - MAX_LOGIN_ATTEMPTS + 1 /\ k + n \in 1..Len(failures)
    BY <1>4, <1>5, <2>1, ThrottleAssumption DEF left
  <2>3. LockedOut
    BY <1>4, <1>5, <2>1, ThrottleAssumption DEF LockedOut
  <2>4. wait # NoWait
    BY <1>12, <1>13 DEF NoWait
  <2>5. failures[k + n] <= wait + 1 /\ failures[k + n] \in Nat
    BY <1>4, <2>2, <2>3, <2>4 DEF ThrottleInv, WaitStands
  <2>6. failures'[k] = failures[k + n] - 1
    BY <1>7, <2>2
  <2>. HIDE DEF k
  <2>7. failures'[k] <= wait' + 1
    BY <1>11, <1>12, <1>13, <2>5, <2>6, ThrottleAssumption DEF NoWait
  <2>. QED
    BY <1>7, <2>7 DEF k
<1>14. WaitStands'
  BY <1>3, <1>12, <1>13 DEF ThrottleInv, WaitStands, NoWait
<1>. QED
  BY <1>3, <1>9, <1>10, <1>14 DEF ThrottleInv

LEMMA ThrottleStep == ThrottleInv /\ ThrottleNext /\ UNCHANGED clients => ThrottleInv'
BY CheckThrottleStep, LockoutStep, FailStep, SucceedStep, PassStep DEF ThrottleNext

\* What a behaviour that follows another topic keeps: no failures, no wait.
NoFailures == failures = << >> /\ wait = NoWait

LEMMA ThrottleInitInv ==
  RequestsOK /\ (\A c \in clients : request[c] = Rest) /\ ThrottleInit => ThrottleInv /\ NoFailures
<1>. SUFFICES ASSUME RequestsOK, \A c \in clients : request[c] = Rest, ThrottleInit
              PROVE  ThrottleInv /\ NoFailures
  OBVIOUS
<1>1. failures = << >> /\ Len(failures) = 0 /\ wait = NoWait
  BY DEF ThrottleInit
<1>2. FailuresOK
  BY <1>1 DEF FailuresOK
<1>4. Trying = {}
  BY DEF Trying, At, Rest
<1>5. AttemptsBounded
  <2>1. Cardinality(Trying) = 0
    BY <1>4, FS_EmptySet
  <2>. QED
    BY <1>1, <2>1, AttemptsFinite, ThrottleAssumption DEF AttemptsBounded
<1>6. WaitStands
  BY <1>1, ThrottleAssumption DEF WaitStands, NoWait
<1>. QED
  BY <1>1, <1>2, <1>5, <1>6 DEF ThrottleInv, NoFailures

LEMMA ThrottleInvSafe == ASSUME ThrottleInv PROVE ThrottleSafe
<1>1. Len(failures) \in Nat /\ \A i \in 1..Len(failures) : failures[i] \in 1..LOGIN_THROTTLE_WINDOW
  BY FailuresRead DEF ThrottleInv
<1>2. ThrottleOK
  BY <1>1 DEF ThrottleInv, FailuresOK, WaitStands, ThrottleOK
<1>3. FailuresBounded
  BY <1>1, AttemptsFinite, ThrottleAssumption DEF ThrottleInv, AttemptsBounded, FailuresBounded
<1>4. WaitSuffices
  BY DEF ThrottleInv, WaitStands, WaitSuffices, NoWait
<1>. QED
  BY <1>2, <1>3, <1>4 DEF ThrottleSafe

LEMMA NoFailuresSafe == ASSUME RequestsOK, NoFailures PROVE ThrottleSafe
<1>1. failures = << >> /\ Len(failures) = 0 /\ wait = NoWait
  BY DEF NoFailures
<1>. QED
  BY <1>1, AttemptsFinite, ThrottleAssumption
  DEF ThrottleSafe, ThrottleOK, FailuresBounded, WaitSuffices, NoWait

-----------------------------------------------------------------------------
(* What the topics do to each other's requests: nothing.                   *)

\* A session is about to be ended or continued.
Refreshing(c) == request[c].step \in {"invalidate", "rotate"}

\* Requests of the others look like neither of these.
Other(next) ==
  /\ next.step \notin {"invalidate", "rotate"}
  /\ next.step = "failed" => next.at \notin {"link", "bind", "use"}

LEMMA OtherGoes ==
  ASSUME RequestsOK, NEW c \in clients, NEW next, Continue(c, next), Other(next), UNCHANGED clients,
         \A d \in clients : ~Refreshing(d) /\ ~Unexplained(d)
  PROVE  RequestsOK' /\ \A d \in clients : ~Refreshing(d)' /\ ~Unexplained(d)'
BY OneGoes DEF Other, Refreshing, Unexplained

LEMMA StaffOthers ==
  ASSUME StaffNext PROVE UNCHANGED request \/ \E c \in clients : \E next : Continue(c, next) /\ Other(next)
<1>1. CASE \E u \in There : Perform(u)
  BY <1>1 DEF Perform
<1>2. ASSUME NEW c \in clients,
             \/ CreateUser(c) \/ UpdateUser(c) \/ SetUser(c) \/ PurgeUser(c) \/ Enter(c)
      PROVE  UNCHANGED request \/ \E next : Continue(c, next) /\ Other(next)
  BY <1>2 DEF CreateUser, UpdateUser, SetUser, PurgeUser, Enter, Other, Rest, Failed
<1>3. ASSUME NEW c \in clients,
             \/ CheckUpdateUser(c) \/ CheckDeleteUser(c) \/ CheckRestoreUser(c)
             \/ CheckUnlockUser(c) \/ CheckPurgeUser(c) \/ CheckEnter(c)
      PROVE  \E next : Continue(c, next) /\ Other(next)
  <2>1. CASE CheckUpdateUser(c)
    <3>1. PICK target, changes :
            Continue(c, [step |-> "update", id |-> target, changes |-> changes])
      BY <2>1 DEF CheckUpdateUser
    <3>. QED
      BY <3>1 DEF Other
  <2>2. CASE CheckDeleteUser(c) \/ CheckRestoreUser(c) \/ CheckUnlockUser(c)
    <3>1. PICK target, changes :
            Continue(c, [step |-> "set", id |-> target, changes |-> changes])
      BY <2>2 DEF CheckDeleteUser, CheckRestoreUser, CheckUnlockUser
    <3>. QED
      BY <3>1 DEF Other
  <2>3. CASE CheckPurgeUser(c)
    <3>1. PICK target : Continue(c, [step |-> "purge", id |-> target])
      BY <2>3 DEF CheckPurgeUser
    <3>. QED
      BY <3>1 DEF Other
  <2>4. CASE CheckEnter(c)
    <3>1. PICK target, kind : Continue(c, [step |-> "enter", id |-> target, kind |-> kind])
      BY <2>4 DEF CheckEnter
    <3>. QED
      BY <3>1 DEF Other
  <2>. QED
    BY <1>3, <2>1, <2>2, <2>3, <2>4
<1>. QED
  BY <1>1, <1>2, <1>3 DEF StaffNext

LEMMA ThrottleOthers ==
  ASSUME ThrottleNext
  PROVE  UNCHANGED request \/ \E c \in clients : \E next : Continue(c, next) /\ Other(next)
BY DEF ThrottleNext, CheckLoginThrottle, Lockout, Fail, Succeed, Pass, Other, Rest

LEMMA AddressesOthers ==
  ASSUME AddressesNext
  PROVE  UNCHANGED request \/ \E c \in clients : \E next : Continue(c, next) /\ Other(next)
<1>1. ASSUME NEW c \in clients,
             \/ CheckRegistration(c) \/ CheckCreation(c) \/ RequestPasswordReset(c)
      PROVE  \E next : Continue(c, next) /\ Other(next)
  <2>1. CASE CheckRegistration(c)
    <3>1. PICK e \in Spellings :
            Continue(c, IF HavingLower(Lower[e]) # {} THEN Rest
                        ELSE [step |-> "insert", email |-> Lower[e], mailed |-> TRUE])
      BY <2>1 DEF CheckRegistration
    <3>. QED
      BY <3>1 DEF Other, Rest
  <2>2. CASE CheckCreation(c)
    <3>1. PICK e \in Spellings \cup {NoEmail} :
            Continue(c, IF e # NoEmail /\ Having(e) # {} THEN Rest
                        ELSE [step |-> "insert", email |-> e, mailed |-> FALSE])
      BY <2>2 DEF CheckCreation
    <3>. QED
      BY <3>1 DEF Other, Rest
  <2>3. CASE RequestPasswordReset(c)
    <3>1. PICK e \in Mailboxes :
            Continue(c, IF Cardinality(HavingLower(e)) > 1 THEN Failed("token", "twice", 0)
                        ELSE [step |-> "token", email |-> e,
                              former |-> {r \in resets : r.email = e}])
      BY <2>3 DEF RequestPasswordReset
    <3>. QED
      BY <3>1 DEF Other, Failed
  <2>. QED
    BY <1>1, <2>1, <2>2, <2>3
<1>2. ASSUME NEW c \in clients, CheckProfile(c) \/ CheckUserEdit(c)
      PROVE  \E next : Continue(c, next) /\ Other(next)
  <2>1. PICK u, e, own, changes : CheckEdit(c, u, e, own, changes)
    BY <1>2 DEF CheckProfile, CheckUserEdit
  <2>2. Continue(c, IF e # NoEmail /\ Having(e) \ {u} # {} THEN Rest
                    ELSE [step |-> "edit", user |-> u, own |-> own, changes |-> changes])
    BY <2>1 DEF CheckEdit
  <2>. QED
    BY <2>2 DEF Other, Rest
<1>3. ASSUME NEW c \in clients,
             \/ InsertUser(c) \/ EditUser(c) \/ VerifyEmail(c) \/ IssueToken(c)
             \/ ExpireToken(c) \/ ExecutePasswordReset(c)
      PROVE  \E next : Continue(c, next) /\ Other(next)
  BY <1>3 DEF InsertUser, EditUser, VerifyEmail, IssueToken, ExpireToken, ExecutePasswordReset,
              Other, Rest, Failed
<1>4. ASSUME NEW c \in clients, ReadLink(c) PROVE \E next : Continue(c, next) /\ Other(next)
  <2>1. PICK u : Continue(c, [step |-> "verify", user |-> u])
    BY <1>4 DEF ReadLink
  <2>. QED
    BY <2>1 DEF Other
<1>5. ASSUME NEW c \in clients, ReadToken(c) PROVE \E next : Continue(c, next) /\ Other(next)
  <2>1. \/ Continue(c, Failed("reset", "twice", 0))
        \/ \E e : Continue(c, [step |-> "expire", email |-> e])
        \/ \E e, t, u : Continue(c, [step |-> "reset", email |-> e, token |-> t, user |-> u])
    BY <1>5 DEF ReadToken
  <2>2. ASSUME NEW e, Continue(c, [step |-> "expire", email |-> e])
        PROVE  \E next : Continue(c, next) /\ Other(next)
    BY <2>2 DEF Other
  <2>3. ASSUME NEW e, NEW t, NEW u,
               Continue(c, [step |-> "reset", email |-> e, token |-> t, user |-> u])
        PROVE  \E next : Continue(c, next) /\ Other(next)
    BY <2>3 DEF Other
  <2>4. Continue(c, Failed("reset", "twice", 0)) => \E next : Continue(c, next) /\ Other(next)
    BY DEF Other, Failed
  <2>. QED
    BY <2>1, <2>2, <2>3, <2>4
<1>6. ASSUME NEW c \in clients, ResendVerificationEmail(c) PROVE UNCHANGED request
  BY <1>6 DEF ResendVerificationEmail
<1>. QED
  BY <1>1, <1>2, <1>3, <1>4, <1>5, <1>6 DEF AddressesNext

\* Sessions explain nothing to Google's users, who refresh no sessions.
LEMMA SessionsOthers ==
  ASSUME RequestsOK, SessionsNext, \A c \in clients : ~Unexplained(c)
  PROVE  RequestsOK' /\ \A c \in clients : ~Unexplained(c)'
<1>1. CASE SetAccount \/ \E id \in Live : GoIdle(id)
  BY <1>1 DEF SetAccount, GoIdle, RequestsOK, Unexplained
<1>2. ASSUME NEW c \in clients, UNCHANGED clients,
             \E next : Continue(c, next) /\ (next.step = "failed" => next.at \notin {"link", "bind", "use"})
      PROVE  RequestsOK' /\ \A d \in clients : ~Unexplained(d)'
  BY <1>2, OneGoes DEF Unexplained
<1>3. ASSUME NEW c \in clients,
             \/ Authenticate(c) \/ FollowVerificationLink(c) \/ CreateUserSession(c)
             \/ TakeAnswer(c) \/ LoseAnswer(c) \/ ReadSession(c) \/ ReadAccount(c)
             \/ Invalidate(c) \/ Rotate(c) \/ CallExpired(c) \/ CheckLogout(c) \/ Logout(c)
             \/ StartReset(c) \/ Reset(c)
      PROVE  \E next : Continue(c, next) /\ (next.step = "failed" => next.at \notin {"link", "bind", "use"})
  BY <1>3 DEF Authenticate, FollowVerificationLink, CreateUserSession, TakeAnswer, LoseAnswer,
              ReadSession, ReadAccount, Invalidate, Rotate, CallExpired, CheckLogout, Logout,
              StartReset, Reset, Answer, Refused, Rest, Failed
<1>. QED
  BY <1>1, <1>2, <1>3 DEF SessionsNext

LEMMA BindingsOthers ==
  ASSUME RequestsOK, BindingsNext, \A c \in clients : ~Refreshing(c)
  PROVE  RequestsOK' /\ \A c \in clients : ~Refreshing(c)'
<1>1. PICK c \in clients : \/ CheckLink(c) \/ Bind(c) \/ GoogleCallback(c) \/ Use(c)
                          \/ CheckUnlink(c) \/ Unlink(c)
  BY DEF BindingsNext
<1>2. PICK next : Continue(c, next) /\ next.step \notin {"invalidate", "rotate"}
  <2>1. CASE CheckLink(c)
    <3>1. \/ \E g, u : Continue(c, [step |-> "bind", remote |-> g, user |-> u])
          \/ \E id : Continue(c, Failed("link", "twice", id))
          \/ \E b : Continue(c, [step |-> "use", binding |-> b])
          \/ Continue(c, Rest)
      BY <2>1 DEF CheckLink
    <3>. DEFINE Elsewhere(next) == Continue(c, next) /\ next.step \notin {"invalidate", "rotate"}
    <3>2. ASSUME NEW g, NEW u, Continue(c, [step |-> "bind", remote |-> g, user |-> u])
          PROVE  \E next : Elsewhere(next)
      BY <3>2
    <3>3. ASSUME NEW id, Continue(c, Failed("link", "twice", id)) PROVE \E next : Elsewhere(next)
      BY <3>3 DEF Failed
    <3>4. ASSUME NEW b, Continue(c, [step |-> "use", binding |-> b]) PROVE \E next : Elsewhere(next)
      BY <3>4
    <3>5. Continue(c, Rest) => \E next : Elsewhere(next)
      BY DEF Rest
    <3>. HIDE DEF Elsewhere
    <3>6. \E next : Elsewhere(next)
      BY <3>1, <3>2, <3>3, <3>4, <3>5
    <3>. QED
      BY <3>6 DEF Elsewhere
  <2>2. CASE GoogleCallback(c)
    <3>1. PICK b : Continue(c, [step |-> "use", binding |-> b])
      BY <2>2 DEF GoogleCallback
    <3>. QED
      BY <3>1
  <2>3. CASE CheckUnlink(c)
    <3>1. PICK b : Continue(c, [step |-> "unlink", binding |-> b])
      BY <2>3 DEF CheckUnlink
    <3>. QED
      BY <3>1
  <2>4. CASE Bind(c) \/ Use(c) \/ Unlink(c)
    BY <2>4 DEF Bind, Use, Unlink, Failed, Rest
  <2>. QED
    BY <1>1, <2>1, <2>2, <2>3, <2>4
<1>3. UNCHANGED clients
  BY DEF BindingsNext
<1>. QED
  BY <1>2, <1>3, OneGoes DEF Refreshing

-----------------------------------------------------------------------------
(* The topics together.                                                    *)

\* Of a topic that is not followed the rows stay as they are at first, and no
\* request looks like one of its own.
AccountsInv ==
  /\ RequestsOK
  /\ IF topic = "staff" THEN StaffInv ELSE StaffTyped /\ FirstAdministers /\ AloneStaffKept
  /\ IF topic = "sessions" THEN SessionsInv
     ELSE /\ SessionsOK /\ AloneResetEndsSessions /\ GoneStaysGone
          /\ \A c \in clients : ~Refreshing(c)
  /\ IF topic = "bindings" THEN BindingsInv
     ELSE /\ BindingsTyped /\ LinkedOnce
          /\ \A c \in clients : ~Unexplained(c)
  /\ IF topic = "addresses" THEN AddressesInv ELSE NoAddresses
  /\ IF topic = "throttle" THEN ThrottleInv ELSE NoFailures

LEMMA AccountsInit == Init => AccountsInv
<1>. SUFFICES ASSUME Init PROVE AccountsInv
  OBVIOUS
<1>1. RequestsOK /\ \A c \in clients : request[c] = Rest
  BY DEF Init, RequestsOK
<1>2. StaffInv /\ SessionsInv /\ BindingsInv /\ AddressesInv /\ ThrottleInv /\ NoFailures
  BY <1>1, StaffInitInv, SessionsInitInv, BindingsInitInv, AddressesInitInv, ThrottleInitInv DEF Init
<1>3. SessionsSafe
  BY <1>2, SessionsInvSafe
<1>4. \A c \in clients : ~Refreshing(c) /\ ~Unexplained(c)
  BY <1>1 DEF Refreshing, Unexplained, Rest
<1>5. NoAddresses
  BY DEF Init, AddressesInit, NoAddresses, Registered
<1>. QED
  BY <1>1, <1>2, <1>3, <1>4, <1>5 DEF AccountsInv, StaffInv, SessionsSafe, BindingsInv

\* The rows of a topic, while another one is followed.
LEMMA Untouched ==
  ASSUME UNCHANGED clients
  PROVE  /\ UNCHANGED staffVars /\ StaffTyped /\ FirstAdministers /\ AloneStaffKept
              => StaffTyped' /\ FirstAdministers' /\ AloneStaffKept'
         /\ UNCHANGED sessionVars /\ SessionsOK /\ AloneResetEndsSessions /\ GoneStaysGone
              => SessionsOK' /\ AloneResetEndsSessions' /\ GoneStaysGone'
         /\ UNCHANGED bindingVars /\ BindingsTyped /\ LinkedOnce => BindingsTyped' /\ LinkedOnce'
         /\ UNCHANGED addressVars /\ NoAddresses => NoAddresses'
         /\ UNCHANGED throttleVars /\ NoFailures => NoFailures'
<1>1. UNCHANGED staffVars /\ StaffTyped /\ FirstAdministers /\ AloneStaffKept
        => StaffTyped' /\ FirstAdministers' /\ AloneStaffKept'
  BY DEF staffVars, StaffTyped, FirstAdministers, AloneStaffKept, StaffOK, There, Alone
<1>2. UNCHANGED sessionVars /\ SessionsOK /\ AloneResetEndsSessions /\ GoneStaysGone
        => SessionsOK' /\ AloneResetEndsSessions' /\ GoneStaysGone'
  BY DEF sessionVars, SessionsOK, AloneResetEndsSessions, GoneStaysGone, Live, Alone
<1>3. UNCHANGED bindingVars /\ BindingsTyped /\ LinkedOnce => BindingsTyped' /\ LinkedOnce'
  BY DEF bindingVars, BindingsTyped, BindingsOK, LinkedOnce, Alone
<1>4. UNCHANGED addressVars /\ NoAddresses => NoAddresses'
  BY DEF addressVars, NoAddresses, Registered
<1>5. UNCHANGED throttleVars /\ NoFailures => NoFailures'
  BY DEF throttleVars, NoFailures
<1>. QED
  BY <1>1, <1>2, <1>3, <1>4, <1>5

LEMMA AccountsStep == AccountsInv /\ [Next]_vars => AccountsInv'
<1>. SUFFICES ASSUME AccountsInv, [Next]_vars PROVE AccountsInv'
  OBVIOUS
<1>1. CASE UNCHANGED vars
  <2>1. UNCHANGED <<topic, clients, request, account, sessions, cookie, access, drawn, spent, ended,
                    lost, staff, hired, bindings, made>>
    BY <1>1 DEF vars, sessionVars, staffVars, bindingVars
  <2>2. UNCHANGED <<sessionVars, staffVars, bindingVars, addressVars, throttleVars>>
    BY <1>1 DEF vars
  <2>3. RequestsOK' /\ \A c \in clients : Refreshing(c)' = Refreshing(c) /\ Unexplained(c)' = Unexplained(c)
    BY <2>1 DEF AccountsInv, RequestsOK, Refreshing, Unexplained
  <2>4. StaffInv => StaffInv'
    BY <2>1, <2>2, <2>3, Untouched DEF StaffInv, StaffCallOK, StaffCallFresh, There, Alone
  <2>5. SessionsInv => SessionsInv'
    BY <2>1, <2>3 DEF SessionsInv, SessionsTyped, SessionsOK, RowsSound, GoneStaysGone, Live,
       Jar, SessionCallTyped, Alone, AloneRows, AloneCall, Good
  <2>6. BindingsInv => BindingsInv'
    BY <2>1, <2>3 DEF BindingsInv, BindingsTyped, BindingsOK, LinkedOnce, AloneLinkAnswered,
       BindingCall, Found, Alone
  <2>7. AddressesInv => AddressesInv'
    <3>1. UNCHANGED <<accounts, links, resets, tokens, useless, proven, edits>>
      BY <2>2 DEF addressVars
    <3>2. Registered' = Registered /\ Entering' = Entering /\ Alone' = Alone
      BY <2>1, <3>1 DEF Registered, Entering, Alone
    <3>. QED
      BY <2>1, <2>3, <3>1, <3>2
      DEF AddressesInv, AddressesTyped, RoomLeft, LowerAndDistinct, ProvenRows, GoodTokens,
          AddressCallOK, AddressCallFresh
  <2>8. ThrottleInv => ThrottleInv'
    <3>1. UNCHANGED <<failures, wait>>
      BY <2>2 DEF throttleVars
    <3>2. Trying' = Trying /\ LockedOut' = LockedOut
      BY <2>1, <3>1 DEF Trying, At, LockedOut
    <3>. QED
      BY <2>1, <2>3, <3>1, <3>2 DEF ThrottleInv, FailuresOK, AttemptsBounded, WaitStands
  <2>. QED
    BY <2>1, <2>2, <2>3, <2>4, <2>5, <2>6, <2>7, <2>8, Untouched DEF AccountsInv
<1>2. CASE OnSessions
  <2>1. /\ UNCHANGED <<topic, staffVars, bindingVars, addressVars, throttleVars>>
        /\ topic = "sessions" /\ SessionsNext
    BY <1>2 DEF OnSessions
  <2>2. UNCHANGED clients
    BY <2>1 DEF SessionsNext, SetAccount, GoIdle
  <2>3. SessionsInv'
    BY <2>1, SessionsStep DEF AccountsInv
  <2>4. RequestsOK' /\ \A c \in clients : ~Unexplained(c)'
    BY <2>1, SessionsOthers DEF AccountsInv
  <2>. QED
    BY <2>1, <2>2, <2>3, <2>4, Untouched DEF AccountsInv
<1>3. CASE OnBindings
  <2>1. /\ UNCHANGED <<topic, staffVars, sessionVars, addressVars, throttleVars>>
        /\ topic = "bindings" /\ BindingsNext
    BY <1>3 DEF OnBindings
  <2>2. UNCHANGED clients
    BY <2>1 DEF BindingsNext
  <2>3. BindingsInv'
    BY <2>1, BindingsStep DEF AccountsInv
  <2>4. RequestsOK' /\ \A c \in clients : ~Refreshing(c)'
    BY <2>1, BindingsOthers DEF AccountsInv
  <2>. QED
    BY <2>1, <2>2, <2>3, <2>4, Untouched DEF AccountsInv
<1>4. ASSUME UNCHANGED <<topic, clients, sessionVars, bindingVars>>, topic \notin {"sessions", "bindings"},
             UNCHANGED request \/ \E c \in clients : \E next : Continue(c, next) /\ Other(next)
      PROVE  /\ RequestsOK'
             /\ SessionsOK' /\ AloneResetEndsSessions' /\ GoneStaysGone' /\ BindingsTyped' /\ LinkedOnce'
             /\ \A c \in clients : ~Refreshing(c)' /\ ~Unexplained(c)'
  <2>1. RequestsOK' /\ \A c \in clients : ~Refreshing(c)' /\ ~Unexplained(c)'
    BY <1>4, OtherGoes DEF AccountsInv, RequestsOK, Refreshing, Unexplained
  <2>. QED
    BY <1>4, <2>1, Untouched DEF AccountsInv
<1>5. CASE OnStaff
  <2>1. /\ UNCHANGED <<topic, sessionVars, bindingVars, addressVars, throttleVars>>
        /\ topic = "staff" /\ StaffNext
    BY <1>5 DEF OnStaff
  <2>2. UNCHANGED clients
    BY <2>1 DEF StaffNext
  <2>3. StaffInv'
    BY <2>1, StaffStep DEF AccountsInv
  <2>. QED
    BY <1>4, <2>1, <2>2, <2>3, StaffOthers, Untouched DEF AccountsInv
<1>6. CASE OnRoutes
  <2>1. /\ UNCHANGED <<topic, clients, request, sessionVars, bindingVars, staffVars, addressVars, throttleVars>>
        /\ topic = "routes"
    BY <1>6 DEF OnRoutes
  <2>. QED
    BY <1>4, <2>1, Untouched DEF AccountsInv
<1>7. CASE OnAddresses
  <2>1. /\ UNCHANGED <<topic, clients, sessionVars, bindingVars, staffVars, throttleVars>>
        /\ topic = "addresses" /\ AddressesNext
    BY <1>7 DEF OnAddresses, AddressesNext
  <2>2. AddressesInv'
    BY <2>1, AddressesStep DEF AccountsInv
  <2>. QED
    BY <1>4, <2>1, <2>2, AddressesOthers, Untouched DEF AccountsInv
<1>8. CASE OnThrottle(ThrottleNext)
  <2>1. /\ UNCHANGED <<topic, clients, sessionVars, bindingVars, staffVars, addressVars>>
        /\ topic = "throttle" /\ ThrottleNext
    BY <1>8 DEF OnThrottle
  <2>2. ThrottleInv'
    BY <2>1, ThrottleStep DEF AccountsInv
  <2>. QED
    BY <1>4, <2>1, <2>2, ThrottleOthers, Untouched DEF AccountsInv
<1>. QED
  BY <1>1, <1>2, <1>3, <1>5, <1>6, <1>7, <1>8 DEF Next

\* The invariant behind the theorems below.
THEOREM AccountsInductive == Spec => []AccountsInv
BY AccountsInit, AccountsStep, PTL DEF Spec

\* However many accounts and edits, and however requests race: the roles rest
\* with accounts that are there, the first administrator always among them.
THEOREM StaffSound == Spec => []StaffSafe
<1>1. AccountsInv => StaffSafe
  BY DEF AccountsInv, StaffInv, StaffTyped, FirstAdministers, StaffSafe, SomeoneAdministers,
         Administrators, Acting, Present
<1>. QED
  BY <1>1, AccountsInductive, PTL

\* Nothing that was played or is booked is purged, by whatever interleaving.
THEOREM PurgesSpare == Spec => PurgeSpares
<1>1. AccountsInv /\ [Next]_vars =>
        [\A u \in There \ There' :
           /\ staff[u].history \cap {"booked", "played"} = {}
           /\ Alone => "deleted" \in staff[u].is /\ staff[u].history = {}]_staffVars
  BY PurgeSparing
  DEF Next, AccountsInv, vars, OnSessions, OnThrottle, OnAddresses, OnStaff, OnBindings, OnRoutes
<1>. QED
  BY <1>1, AccountsInductive, PTL DEF Spec, PurgeSpares

\* However many sessions, secrets and resets: a secret is good for one
\* rotation, a session that was ended stays ended.
THEOREM SessionsSound == Spec => []SessionsSafe
<1>1. AccountsInv => SessionsSafe
  BY SessionsInvSafe
  DEF AccountsInv, Refreshing, SessionsSafe, AloneNoReuse, AloneSecretsSpent, At
<1>. QED
  BY <1>1, AccountsInductive, PTL

\* auth_service.py, check_login_throttle, for any limit and window and attempts
\* however they overlap: each client overshoots the limit by one at most, and
\* whoever waits as long as announced finds less than the limit in the window,
\* but for a fraction of a second.
THEOREM ThrottleSound == Spec => []ThrottleSafe
<1>1. AccountsInv => ThrottleSafe
  BY ThrottleInvSafe, NoFailuresSafe DEF AccountsInv
<1>. QED
  BY <1>1, AccountsInductive, PTL

\* auth_service.py, profile_service.py and user_service.py, however many addresses
\* are typed in and tokens issued: registrations never take addresses that
\* differ by case alone, an account is verified for an address whose mail was
\* answered, a reset token is good once and the only one of its address.
THEOREM AddressesSound == Spec => []AddressesSafe
<1>1. AccountsInv => AddressesSafe
  BY AddressesInvSafe, NoAddressesSafe DEF AccountsInv
<1>. QED
  BY <1>1, AccountsInductive, PTL

\* However often accounts are linked and unlinked: no Google account is linked
\* to two accounts, and what is refused is refused for a reason.
THEOREM BindingsSound == Spec => []BindingsSafe
<1>1. AccountsInv => BindingsSafe
  BY DEF AccountsInv, BindingsInv, BindingsTyped, BindingsSafe, AloneLinkAnswered, Unexplained
<1>. QED
  BY <1>1, AccountsInductive, PTL

-----------------------------------------------------------------------------
(* The table of routes.  A route is out of the way of a later one when the *)
(* methods, the lengths or a literal segment of the first tell them apart. *)

\* What stands in the table.
Words ==
  {"login", "refresh", "logout", "me", "register", "resend-verification-email", "verify-email",
   "forgot-password", "reset-password", "google", "callback", "link", "oauth2", ":id", ":type",
   "move", ":direction", "search", "composers", "available-positions", "setup", "available",
   "form", "cast", "booking-status", "my-booking-status", "billing", "requests-and-bookings",
   "message-to-cast", "recipients", "send", "form-options", "abilities", "deleted", "restore",
   "unlock", "set-password", "contactpersons", "message-to-contactperson", "users", "tables",
   ":name", "jobs", "backup", "trigger", "downsync", "environment", "fields-config", "defaults",
   "/", ":path", "auth", "coreelements", "artists", "ordinariumworks", "propriumworks",
   "performances", "fees", "userdirectory", "administrator", "profile", "support",
   "sent-emails", "request-logs", "sql-inspector", "scheduler", "statistics", "system",
   "shorturls", "scores", "go"}

Needs ==
  {"nothing", "session", "verified", "typed", "artistMaintain", "ordinariumworkMaintain",
   "propriumworkMaintain", "performanceMaintain", "performanceCast",
   "performanceChangeUserStatus", "performanceBilling", "feeMaintain", "userMaintain",
   "userAdministrate", "sentEmailView", "requestLogView", "sqlInspectorView", "schedulerView",
   "shorturlMaintain", "scoreMaintain"}

LEMMA WordsAre ==
  /\ "login" \in Words /\ "refresh" \in Words /\ "logout" \in Words
  /\ "me" \in Words /\ "register" \in Words /\ "resend-verification-email" \in Words
  /\ "verify-email" \in Words /\ "forgot-password" \in Words /\ "reset-password" \in Words
  /\ "google" \in Words /\ "callback" \in Words /\ "link" \in Words /\ "oauth2" \in Words
  /\ ":id" \in Words /\ ":type" \in Words /\ "move" \in Words /\ ":direction" \in Words
  /\ "search" \in Words /\ "composers" \in Words /\ "available-positions" \in Words
  /\ "setup" \in Words /\ "available" \in Words /\ "form" \in Words /\ "cast" \in Words
  /\ "booking-status" \in Words /\ "my-booking-status" \in Words /\ "billing" \in Words
  /\ "requests-and-bookings" \in Words /\ "message-to-cast" \in Words /\ "recipients" \in Words
  /\ "send" \in Words /\ "form-options" \in Words /\ "abilities" \in Words
  /\ "deleted" \in Words /\ "restore" \in Words /\ "unlock" \in Words
  /\ "set-password" \in Words /\ "contactpersons" \in Words
  /\ "message-to-contactperson" \in Words /\ "users" \in Words /\ "tables" \in Words
  /\ ":name" \in Words /\ "jobs" \in Words /\ "backup" \in Words /\ "trigger" \in Words
  /\ "downsync" \in Words /\ "environment" \in Words /\ "fields-config" \in Words
  /\ "defaults" \in Words /\ "/" \in Words /\ ":path" \in Words /\ "auth" \in Words
  /\ "coreelements" \in Words /\ "artists" \in Words /\ "ordinariumworks" \in Words
  /\ "propriumworks" \in Words /\ "performances" \in Words /\ "fees" \in Words
  /\ "userdirectory" \in Words /\ "administrator" \in Words /\ "profile" \in Words
  /\ "support" \in Words /\ "sent-emails" \in Words /\ "request-logs" \in Words
  /\ "sql-inspector" \in Words /\ "scheduler" \in Words /\ "statistics" \in Words
  /\ "system" \in Words /\ "shorturls" \in Words /\ "scores" \in Words /\ "go" \in Words
BY DEF Words

LEMMA NeedsAre ==
  /\ "nothing" \in Needs /\ "session" \in Needs /\ "verified" \in Needs
  /\ "typed" \in Needs /\ "artistMaintain" \in Needs /\ "ordinariumworkMaintain" \in Needs
  /\ "propriumworkMaintain" \in Needs /\ "performanceMaintain" \in Needs
  /\ "performanceCast" \in Needs /\ "performanceChangeUserStatus" \in Needs
  /\ "performanceBilling" \in Needs /\ "feeMaintain" \in Needs /\ "userMaintain" \in Needs
  /\ "userAdministrate" \in Needs /\ "sentEmailView" \in Needs /\ "requestLogView" \in Needs
  /\ "sqlInspectorView" \in Needs /\ "schedulerView" \in Needs /\ "shorturlMaintain" \in Needs
  /\ "scoreMaintain" \in Needs
BY DEF Needs

RouteRecord == [method : {"GET", "POST", "PUT", "DELETE"}, path : Seq(Words), needs : Needs]

\* What a literal segment is not.
Taken == Parameters \cup CoreelementTypes \cup {"any"}

\* No request fits both of two routes that differ where the first has a literal.
Misfit(r, s) ==
  \/ r.method # s.method
  \/ Len(r.path) # Len(s.path)
  \/ \E k \in 1..Len(r.path) : r.path[k] \notin Taken /\ r.path[k] # s.path[k]

\* A table whose routes are out of each other's way.
Kept(rs) == rs \in Seq(RouteRecord) /\ \A i, j \in 1..Len(rs) : i < j => Misfit(rs[i], rs[j])

\* A request has the literals of its route, and something for each parameter.
LEMMA ConcreteIs ==
  ASSUME NEW p \in Seq(Words), NEW path \in Concrete(p)
  PROVE  /\ DOMAIN path = 1..Len(p) /\ Len(path) = Len(p)
         /\ \A k \in 1..Len(p) :
              /\ p[k] \notin Parameters => path[k] = p[k]
              /\ p[k] \in Parameters => path[k] \in CoreelementTypes \cup {"any"}
<1>1. PICK t \in CoreelementTypes :
        path = [i \in DOMAIN p |-> CASE p[i] = ":type" -> t
                                     [] p[i] \in Parameters \ {":type"} -> "any"
                                     [] OTHER -> p[i]]
  BY Zenon DEF Concrete
<1>2. DOMAIN p = 1..Len(p) /\ Len(p) \in Nat
  OBVIOUS
<1>3. DOMAIN path = 1..Len(p)
  BY <1>1, <1>2
<1>4. Len(path) = Len(p)
  BY <1>2, <1>3
<1>5. ASSUME NEW k \in 1..Len(p)
      PROVE  /\ p[k] \notin Parameters => path[k] = p[k]
             /\ p[k] \in Parameters => path[k] \in CoreelementTypes \cup {"any"}
  BY <1>1, <1>2 DEF Parameters
<1>. QED
  BY <1>3, <1>4, <1>5

LEMMA FitsOwn ==
  ASSUME NEW r \in RouteRecord, NEW path \in Concrete(r.path)
  PROVE  Fits(r, r.method, path)
  BY ConcreteIs DEF Fits, RouteRecord

LEMMA MisfitNever ==
  ASSUME NEW r \in RouteRecord, NEW s \in RouteRecord, Misfit(r, s), NEW path \in Concrete(s.path)
  PROVE  ~Fits(r, s.method, path)
<1>. SUFFICES ASSUME Fits(r, s.method, path) PROVE FALSE
  OBVIOUS
<1>1. /\ r.method = s.method /\ Len(r.path) = Len(path)
      /\ \A i \in DOMAIN path : r.path[i] \in Parameters \/ r.path[i] = path[i]
  BY DEF Fits
<1>2. s.path \in Seq(Words) /\ r.path \in Seq(Words)
  BY DEF RouteRecord
<1>3. /\ DOMAIN path = 1..Len(s.path) /\ Len(path) = Len(s.path)
      /\ \A k \in 1..Len(s.path) :
              /\ s.path[k] \notin Parameters => path[k] = s.path[k]
              /\ s.path[k] \in Parameters => path[k] \in CoreelementTypes \cup {"any"}
  BY <1>2, ConcreteIs
<1>4. PICK k \in 1..Len(r.path) : r.path[k] \notin Taken /\ r.path[k] # s.path[k]
  BY <1>1, <1>3 DEF Misfit
<1>. QED
  BY <1>1, <1>3, <1>4 DEF Taken

\* Such a table dispatches as it is meant.
LEMMA DispatchIs ==
  ASSUME Kept(Routes), NEW i \in 1..Len(Routes), NEW path \in Concrete(Routes[i].path)
  PROVE  Dispatch(Routes[i].method, path) = i
<1>1. Routes \in Seq(RouteRecord) /\ DOMAIN Routes = 1..Len(Routes) /\ Len(Routes) \in Nat
  BY DEF Kept
<1>2. Fits(Routes[i], Routes[i].method, path)
  BY <1>1, FitsOwn
<1>3. ASSUME NEW j \in 1..i - 1 PROVE ~Fits(Routes[j], Routes[i].method, path)
  <2>1. j \in 1..Len(Routes) /\ j < i
    BY <1>1
  <2>2. Misfit(Routes[j], Routes[i]) /\ Routes[j] \in RouteRecord /\ Routes[i] \in RouteRecord
    BY <1>1, <2>1 DEF Kept
  <2>. QED
    BY <2>2, MisfitNever
<1>4. ASSUME NEW n \in 1..Len(Routes), Fits(Routes[n], Routes[i].method, path),
             \A j \in 1..n - 1 : ~Fits(Routes[j], Routes[i].method, path)
      PROVE  n = i
  <2>1. ~(n < i)
    BY <1>1, <1>3, <1>4
  <2>2. ~(i < n)
    BY <1>1, <1>2, <1>4
  <2>. QED
    BY <1>1, <2>1, <2>2
<1>. QED
  BY <1>1, <1>2, <1>3, <1>4, Zenon DEF Dispatch

-----------------------------------------------------------------------------
(* Tables under a prefix and one after the other.                          *)

LEMMA KeptJoined ==
  ASSUME NEW a, Kept(a), NEW b, Kept(b),
         \A i \in 1..Len(a), j \in 1..Len(b) : Misfit(a[i], b[j])
  PROVE  Kept(a \o b)
<1>1. a \in Seq(RouteRecord) /\ b \in Seq(RouteRecord) /\ Len(a) \in Nat /\ Len(b) \in Nat
  BY DEF Kept
<1>2. /\ a \o b \in Seq(RouteRecord) /\ Len(a \o b) = Len(a) + Len(b)
      /\ \A i \in 1..Len(a) + Len(b) : (a \o b)[i] = IF i <= Len(a) THEN a[i] ELSE b[i - Len(a)]
  BY <1>1, ConcatProperties
<1>3. ASSUME NEW i \in 1..Len(a \o b), NEW j \in 1..Len(a \o b), i < j
      PROVE  Misfit((a \o b)[i], (a \o b)[j])
  <2>1. CASE j <= Len(a)
    BY <1>1, <1>2, <1>3, <2>1 DEF Kept
  <2>2. CASE i <= Len(a) /\ ~(j <= Len(a))
    <3>1. (a \o b)[i] = a[i] /\ (a \o b)[j] = b[j - Len(a)] /\ j - Len(a) \in 1..Len(b) /\ i \in 1..Len(a)
      BY <1>1, <1>2, <2>2
    <3>. QED
      BY <3>1
  <2>3. CASE ~(i <= Len(a))
    <3>1. /\ (a \o b)[i] = b[i - Len(a)] /\ (a \o b)[j] = b[j - Len(a)]
          /\ i - Len(a) \in 1..Len(b) /\ j - Len(a) \in 1..Len(b) /\ i - Len(a) < j - Len(a)
      BY <1>1, <1>2, <1>3, <2>3
    <3>. QED
      BY <3>1 DEF Kept
  <2>. QED
    BY <2>1, <2>2, <2>3
<1>. QED
  BY <1>2, <1>3 DEF Kept

LEMMA RoutesAre ==
  ASSUME NEW rs \in Seq(RouteRecord) PROVE \A k \in 1..Len(rs) : rs[k] \in RouteRecord
OBVIOUS

\* A prefix changes the paths and nothing else, so whoever was out of the way still is.
LEMMA UnderIs ==
  ASSUME NEW prefix \in Seq(Words), NEW rs \in Seq(RouteRecord)
  PROVE  /\ Under(prefix, rs) \in Seq(RouteRecord) /\ Len(Under(prefix, rs)) = Len(rs)
         /\ \A i \in 1..Len(rs) :
              /\ Under(prefix, rs)[i].method = rs[i].method
              /\ Under(prefix, rs)[i].needs = rs[i].needs
              /\ Under(prefix, rs)[i].path = prefix \o rs[i].path
<1>1. DOMAIN rs = 1..Len(rs) /\ Len(rs) \in Nat
  OBVIOUS
<1>2. DOMAIN Under(prefix, rs) = 1..Len(rs)
  BY <1>1 DEF Under
<1>3. ASSUME NEW i \in 1..Len(rs)
      PROVE  /\ Under(prefix, rs)[i] \in RouteRecord
             /\ Under(prefix, rs)[i].method = rs[i].method
             /\ Under(prefix, rs)[i].needs = rs[i].needs
             /\ Under(prefix, rs)[i].path = prefix \o rs[i].path
  <2>1. rs[i] \in RouteRecord
    BY <1>1
  <2>2. Under(prefix, rs)[i] = [rs[i] EXCEPT !.path = prefix \o @]
    BY <1>1 DEF Under
  <2>3. rs[i].path \in Seq(Words)
    BY <2>1 DEF RouteRecord
  <2>4. prefix \o rs[i].path \in Seq(Words)
    BY <2>3
  <2>. QED
    BY <2>1, <2>2, <2>4 DEF RouteRecord
<1>4. Under(prefix, rs) = [i \in 1..Len(rs) |-> Under(prefix, rs)[i]]
  BY <1>1 DEF Under
<1>5. Under(prefix, rs) \in Seq(RouteRecord)
  BY <1>1, <1>3, <1>4
<1>6. Len(Under(prefix, rs)) = Len(rs)
  BY <1>1, <1>2, <1>5
<1>. QED
  BY <1>3, <1>5, <1>6

LEMMA UnderMisfit ==
  ASSUME NEW prefix \in Seq(Words), NEW r \in RouteRecord, NEW s \in RouteRecord, Misfit(r, s),
         NEW p, NEW q, p.method = r.method, p.path = prefix \o r.path,
         q.method = s.method, q.path = prefix \o s.path
  PROVE  Misfit(p, q)
<1>1. r.path \in Seq(Words) /\ s.path \in Seq(Words) /\ Len(prefix) \in Nat
  BY DEF RouteRecord
<1>2. /\ Len(p.path) = Len(prefix) + Len(r.path) /\ Len(q.path) = Len(prefix) + Len(s.path)
      /\ \A k \in 1..Len(r.path) : p.path[Len(prefix) + k] = r.path[k]
      /\ \A k \in 1..Len(s.path) : q.path[Len(prefix) + k] = s.path[k]
  BY <1>1
<1>3. CASE r.method # s.method \/ Len(r.path) # Len(s.path)
  BY <1>1, <1>2, <1>3 DEF Misfit
<1>4. CASE Len(r.path) = Len(s.path) /\ r.method = s.method
  <2>1. PICK k \in 1..Len(r.path) : r.path[k] \notin Taken /\ r.path[k] # s.path[k]
    BY <1>4 DEF Misfit
  <2>2. Len(prefix) + k \in 1..Len(p.path)
    BY <1>1, <1>2
  <2>. QED
    BY <1>2, <1>4, <2>1, <2>2 DEF Misfit
<1>. QED
  BY <1>3, <1>4

LEMMA UnderKept ==
  ASSUME NEW prefix \in Seq(Words), NEW rs, Kept(rs)
  PROVE  Kept(Under(prefix, rs))
<1>1. rs \in Seq(RouteRecord) /\ \A i \in 1..Len(rs) : rs[i] \in RouteRecord
  BY DEF Kept
<1>2. ASSUME NEW i \in 1..Len(rs), NEW j \in 1..Len(rs), i < j
      PROVE  Misfit(Under(prefix, rs)[i], Under(prefix, rs)[j])
  <2>1. Misfit(rs[i], rs[j]) /\ rs[i] \in RouteRecord /\ rs[j] \in RouteRecord
    BY <1>1, <1>2 DEF Kept
  <2>2. /\ Under(prefix, rs)[i].method = rs[i].method
        /\ Under(prefix, rs)[i].path = prefix \o rs[i].path
        /\ Under(prefix, rs)[j].method = rs[j].method
        /\ Under(prefix, rs)[j].path = prefix \o rs[j].path
    BY <1>1, UnderIs
  <2>. QED
    BY <2>1, <2>2, UnderMisfit
<1>. QED
  BY <1>1, <1>2, UnderIs DEF Kept

-----------------------------------------------------------------------------
(* The sections of the table, in order: a prefix and what its routes need. *)

Section(prefix, needs) == [prefix |-> prefix, needs |-> needs]

Sections ==
  << Section(<<"/">>, {"nothing"}), Section(<<"auth">>, {"nothing", "session", "verified"}),
     Section(<<"coreelements">>, {"typed"}), Section(<<"artists">>, {"artistMaintain"}),
     Section(<<"ordinariumworks">>, {"ordinariumworkMaintain"}),
     Section(<<"propriumworks">>, {"propriumworkMaintain"}),
     Section(<<"performances">>, {"verified", "performanceMaintain", "performanceCast",
                                  "performanceChangeUserStatus", "performanceBilling"}),
     Section(<<"fees">>, {"feeMaintain"}), Section(<<"users">>, {"userMaintain"}),
     Section(<<"userdirectory">>, {"userMaintain"}),
     Section(<<"administrator", "users">>, {"userAdministrate"}),
     Section(<<"profile">>, {"verified"}), Section(<<"support">>, {"verified"}),
     Section(<<"administrator", "sent-emails">>, {"sentEmailView"}),
     Section(<<"administrator", "request-logs">>, {"requestLogView"}),
     Section(<<"administrator", "sql-inspector">>, {"sqlInspectorView"}),
     Section(<<"administrator", "scheduler">>, {"schedulerView"}),
     Section(<<"statistics">>, {"verified"}), Section(<<"system">>, {"verified"}),
     Section(<<"shorturls">>, {"shorturlMaintain"}), Section(<<"scores">>, {"scoreMaintain"}),
     Section(<<"go">>, {"nothing"}) >>

\* The first two segments of a prefix.
Heads(n, len, x, y) ==
  /\ Len(Sections[n].prefix) = len /\ Sections[n].prefix[1] = x
  /\ len = 2 => Sections[n].prefix[2] = y

LEMMA SectionHeads ==
  /\ Heads(1, 1, "/", "x") /\ Heads(2, 1, "auth", "x")
  /\ Heads(3, 1, "coreelements", "x") /\ Heads(4, 1, "artists", "x")
  /\ Heads(5, 1, "ordinariumworks", "x") /\ Heads(6, 1, "propriumworks", "x")
  /\ Heads(7, 1, "performances", "x") /\ Heads(8, 1, "fees", "x") /\ Heads(9, 1, "users", "x")
  /\ Heads(10, 1, "userdirectory", "x") /\ Heads(11, 2, "administrator", "users")
  /\ Heads(12, 1, "profile", "x") /\ Heads(13, 1, "support", "x")
  /\ Heads(14, 2, "administrator", "sent-emails") /\ Heads(15, 2, "administrator", "request-logs")
  /\ Heads(16, 2, "administrator", "sql-inspector") /\ Heads(17, 2, "administrator", "scheduler")
  /\ Heads(18, 1, "statistics", "x") /\ Heads(19, 1, "system", "x") /\ Heads(20, 1, "shorturls", "x")
  /\ Heads(21, 1, "scores", "x") /\ Heads(22, 1, "go", "x")
BY DEF Heads, Sections, Section

LEMMA SectionsTyped == \A n \in 1..22 : Sections[n].prefix \in Seq(Words)
<1>. SUFFICES ASSUME NEW n \in 1..22 PROVE Sections[n].prefix \in Seq(Words)
  OBVIOUS
<1>1. \/ n = 1 \/ n = 2 \/ n = 3 \/ n = 4 \/ n = 5 \/ n = 6 \/ n = 7 \/ n = 8 \/ n = 9 \/ n = 10
      \/ n = 11 \/ n = 12 \/ n = 13 \/ n = 14 \/ n = 15 \/ n = 16 \/ n = 17 \/ n = 18 \/ n = 19
      \/ n = 20 \/ n = 21 \/ n = 22
  OBVIOUS
<1>2. /\ <<"/">> \in Seq(Words) /\ <<"auth">> \in Seq(Words) /\ <<"coreelements">> \in Seq(Words)
      /\ <<"artists">> \in Seq(Words) /\ <<"ordinariumworks">> \in Seq(Words)
      /\ <<"propriumworks">> \in Seq(Words) /\ <<"performances">> \in Seq(Words)
      /\ <<"fees">> \in Seq(Words) /\ <<"users">> \in Seq(Words)
      /\ <<"userdirectory">> \in Seq(Words) /\ <<"administrator", "users">> \in Seq(Words)
      /\ <<"profile">> \in Seq(Words) /\ <<"support">> \in Seq(Words)
      /\ <<"administrator", "sent-emails">> \in Seq(Words)
      /\ <<"administrator", "request-logs">> \in Seq(Words)
      /\ <<"administrator", "sql-inspector">> \in Seq(Words)
      /\ <<"administrator", "scheduler">> \in Seq(Words) /\ <<"statistics">> \in Seq(Words)
      /\ <<"system">> \in Seq(Words) /\ <<"shorturls">> \in Seq(Words)
      /\ <<"scores">> \in Seq(Words) /\ <<"go">> \in Seq(Words)
  <2>1. \A x \in Words : <<x>> \in Seq(Words) /\ <<"administrator", x>> \in Seq(Words)
    BY WordsAre
  <2>. QED
    BY <2>1, WordsAre
<1>3. /\ Sections[1].prefix = <<"/">> /\ Sections[2].prefix = <<"auth">>
      /\ Sections[3].prefix = <<"coreelements">> /\ Sections[4].prefix = <<"artists">>
      /\ Sections[5].prefix = <<"ordinariumworks">> /\ Sections[6].prefix = <<"propriumworks">>
      /\ Sections[7].prefix = <<"performances">> /\ Sections[8].prefix = <<"fees">>
      /\ Sections[9].prefix = <<"users">> /\ Sections[10].prefix = <<"userdirectory">>
      /\ Sections[11].prefix = <<"administrator", "users">> /\ Sections[12].prefix = <<"profile">>
      /\ Sections[13].prefix = <<"support">>
      /\ Sections[14].prefix = <<"administrator", "sent-emails">>
      /\ Sections[15].prefix = <<"administrator", "request-logs">>
      /\ Sections[16].prefix = <<"administrator", "sql-inspector">>
      /\ Sections[17].prefix = <<"administrator", "scheduler">>
      /\ Sections[18].prefix = <<"statistics">> /\ Sections[19].prefix = <<"system">>
      /\ Sections[20].prefix = <<"shorturls">> /\ Sections[21].prefix = <<"scores">>
      /\ Sections[22].prefix = <<"go">>
  BY DEF Sections, Section
<1>. QED
  BY <1>1, <1>2, <1>3

\* A segment tells two prefixes apart.
Apart(m, n) ==
  \E k \in 1..Len(Sections[m].prefix) :
    /\ k <= Len(Sections[n].prefix)
    /\ Sections[m].prefix[k] \notin Taken /\ Sections[m].prefix[k] # Sections[n].prefix[k]

LEMMA HeadsApart ==
  ASSUME NEW m, NEW n, NEW len, NEW x, NEW y, NEW len2, NEW x2, NEW y2,
         Heads(m, len, x, y), Heads(n, len2, x2, y2), len \in {1, 2}, len2 \in {1, 2},
         \/ x \notin Taken /\ x # x2
         \/ len = 2 /\ len2 = 2 /\ y \notin Taken /\ y # y2
  PROVE  Apart(m, n)
BY DEF Heads, Apart

LEMMA LiteralHeads ==
  \A x \in {"/", "auth", "coreelements", "artists", "ordinariumworks", "propriumworks",
            "performances", "fees", "users", "userdirectory", "administrator", "profile",
            "support", "sent-emails", "request-logs", "sql-inspector", "scheduler",
            "statistics", "system", "shorturls", "scores", "go"} : x \notin Taken
BY DEF Taken, Parameters, CoreelementTypes

\* All prefixes are told apart.
LEMMA SectionsApart == \A m, n \in 1..22 : m < n => Apart(m, n)
<1>. SUFFICES ASSUME NEW m \in 1..22, NEW n \in 1..22, m < n PROVE Apart(m, n)
  OBVIOUS
<1>1. \A k \in 1..22 : \/ k = 1 \/ k = 2 \/ k = 3 \/ k = 4 \/ k = 5 \/ k = 6 \/ k = 7 \/ k = 8
                       \/ k = 9 \/ k = 10 \/ k = 11 \/ k = 12 \/ k = 13 \/ k = 14 \/ k = 15
                       \/ k = 16 \/ k = 17 \/ k = 18 \/ k = 19 \/ k = 20 \/ k = 21 \/ k = 22
  OBVIOUS
<1>2. CASE m <= 10
  BY <1>1, <1>2, SectionHeads, LiteralHeads, HeadsApart
<1>3. CASE m > 10
  BY <1>1, <1>3, SectionHeads, LiteralHeads, HeadsApart
<1>. QED
  BY <1>2, <1>3

-----------------------------------------------------------------------------
(* Routes, by the length of their paths.                                   *)

\* A table that is in order and needs no more than this.
Meets(rs, needs) == Kept(rs) /\ \A i \in 1..Len(rs) : rs[i].needs \in needs

\* A route that needs this.
Needing(r, needs) == r \in RouteRecord /\ r.needs = needs

LEMMA RouteIs ==
  ASSUME NEW path \in Seq(Words), NEW needs \in Needs
  PROVE  /\ Needing(Get(path, needs), needs) /\ Needing(Post(path, needs), needs)
         /\ Needing(Put(path, needs), needs) /\ Needing(Delete_(path, needs), needs)
BY DEF Needing, RouteRecord, Get, Post, Put, Delete_, Route

LEMMA EmptyRoute ==
  ASSUME NEW needs \in Needs
  PROVE  Needing(Get(<< >>, needs), needs) /\ Needing(Post(<< >>, needs), needs) /\ Needing(Put(<< >>, needs), needs)
<1>1. << >> \in Seq(Words)
  OBVIOUS
<1>. QED
  BY <1>1, RouteIs

LEMMA ShortRoute ==
  ASSUME NEW a \in Words, NEW needs \in Needs
  PROVE  /\ Needing(Get(<<a>>, needs), needs) /\ Needing(Post(<<a>>, needs), needs)
         /\ Needing(Put(<<a>>, needs), needs) /\ Needing(Delete_(<<a>>, needs), needs)
<1>1. <<a>> \in Seq(Words)
  OBVIOUS
<1>. QED
  BY <1>1, RouteIs

LEMMA PairRoute ==
  ASSUME NEW a \in Words, NEW b \in Words, NEW needs \in Needs
  PROVE  /\ Needing(Get(<<a, b>>, needs), needs) /\ Needing(Post(<<a, b>>, needs), needs)
         /\ Needing(Put(<<a, b>>, needs), needs) /\ Needing(Delete_(<<a, b>>, needs), needs)
<1>1. <<a, b>> \in Seq(Words)
  OBVIOUS
<1>. QED
  BY <1>1, RouteIs

LEMMA LongRoute ==
  ASSUME NEW a \in Words, NEW b \in Words, NEW c \in Words, NEW d \in Words, NEW needs \in Needs
  PROVE  /\ Needing(Get(<<a, b, c>>, needs), needs) /\ Needing(Post(<<a, b, c>>, needs), needs)
         /\ Needing(Post(<<a, b, c, d>>, needs), needs)
<1>1. <<a, b, c>> \in Seq(Words) /\ <<a, b, c, d>> \in Seq(Words)
  OBVIOUS
<1>. QED
  BY <1>1, RouteIs

-----------------------------------------------------------------------------
(* Each router is in order and needs what its section says.                *)

\* A route's method, its length and the segments that tell it from the others
\* of its router.
Signed(r, method, len, x, y) ==
  /\ r.method = method /\ Len(r.path) = len
  /\ len >= 1 => r.path[1] = x
  /\ len >= 2 => r.path[2] = y

LEMMA SignsDiffer ==
  ASSUME NEW r, NEW s, NEW m, NEW len, NEW x, NEW y, NEW m2, NEW len2, NEW x2, NEW y2,
         Signed(r, m, len, x, y), Signed(s, m2, len2, x2, y2), len \in 0..3,
         \/ m # m2
         \/ len # len2
         \/ len >= 1 /\ x \notin Taken /\ x # x2
         \/ len >= 2 /\ y \notin Taken /\ y # y2
  PROVE  Misfit(r, s)
BY DEF Misfit, Signed

LEMMA RootMeets == Meets(RootRouter, {"nothing"})
<1>1. /\ RootRouter \in Seq(RouteRecord)
      /\ \A i \in 1..Len(RootRouter) : RootRouter[i].needs \in {"nothing"}
  BY ShortRoute, WordsAre, NeedsAre DEF RootRouter, Needing
<1>2. \A i, j \in 1..Len(RootRouter) : i < j => Misfit(RootRouter[i], RootRouter[j])
  BY DEF RootRouter, Misfit, Taken, Parameters, CoreelementTypes, Get, Route
<1>. QED
  BY <1>1, <1>2 DEF Meets, Kept

LEMMA AuthMeets == Meets(AuthRouter, {"nothing", "session", "verified"})
<1>1. /\ Needing(Post(<<"login">>, "nothing"), "nothing")
      /\ Needing(Post(<<"refresh">>, "nothing"), "nothing")
      /\ Needing(Post(<<"logout">>, "session"), "session")
      /\ Needing(Get(<<"me">>, "session"), "session")
      /\ Needing(Post(<<"register">>, "nothing"), "nothing")
      /\ Needing(Post(<<"resend-verification-email">>, "session"), "session")
      /\ Needing(Post(<<"verify-email">>, "nothing"), "nothing")
      /\ Needing(Post(<<"forgot-password">>, "nothing"), "nothing")
      /\ Needing(Post(<<"reset-password">>, "nothing"), "nothing")
  BY ShortRoute, WordsAre, NeedsAre
<1>2. /\ Needing(Post(<<"google", "callback">>, "nothing"), "nothing")
      /\ Needing(Post(<<"google", "link">>, "nothing"), "nothing")
      /\ Needing(Delete_(<<"oauth2", ":id">>, "verified"), "verified")
  BY PairRoute, WordsAre, NeedsAre
<1>3. AuthRouter \in Seq(RouteRecord)
  BY <1>1, <1>2 DEF AuthRouter, Needing
<1>4. \A i \in 1..Len(AuthRouter) : AuthRouter[i].needs \in
             {"nothing", "session", "verified"}
  BY DEF AuthRouter, Post, Get, Delete_, Route
<1>5. Len(AuthRouter) = 12
  BY DEF AuthRouter
<1>6. /\ Signed(AuthRouter[1], "POST", 1, "login", "-")
      /\ Signed(AuthRouter[2], "POST", 1, "refresh", "-")
      /\ Signed(AuthRouter[3], "POST", 1, "logout", "-")
      /\ Signed(AuthRouter[4], "GET", 1, "me", "-")
      /\ Signed(AuthRouter[5], "POST", 1, "register", "-")
      /\ Signed(AuthRouter[6], "POST", 1, "resend-verification-email", "-")
      /\ Signed(AuthRouter[7], "POST", 1, "verify-email", "-")
      /\ Signed(AuthRouter[8], "POST", 1, "forgot-password", "-")
      /\ Signed(AuthRouter[9], "POST", 1, "reset-password", "-")
      /\ Signed(AuthRouter[10], "POST", 2, "google", "callback")
      /\ Signed(AuthRouter[11], "POST", 2, "google", "link")
      /\ Signed(AuthRouter[12], "DELETE", 2, "oauth2", ":id")
  BY DEF AuthRouter, Signed, Post, Get, Delete_, Route
<1>7. \A w \in { "login", "refresh", "logout", "me", "register", "resend-verification-email",
             "verify-email", "forgot-password", "reset-password", "google", "callback", "link",
             "oauth2"} : w \notin Taken
  BY DEF Taken, Parameters, CoreelementTypes
<1>8. ASSUME NEW i \in 1..12, NEW j \in 1..12, i < j
      PROVE  Misfit(AuthRouter[i], AuthRouter[j])
  <2>1. i = 1 \/ i = 2 \/ i = 3 \/ i = 4 \/ i = 5 \/ i = 6 \/ i = 7 \/ i = 8 \/ i = 9 \/ i = 10
       \/ i = 11 \/ i = 12
    OBVIOUS
  <2>2. j = 1 \/ j = 2 \/ j = 3 \/ j = 4 \/ j = 5 \/ j = 6 \/ j = 7 \/ j = 8 \/ j = 9 \/ j = 10
       \/ j = 11 \/ j = 12
    OBVIOUS
  <2>. QED
    BY <1>6, <1>7, <1>8, <2>1, <2>2, SignsDiffer
<1>. QED
  BY <1>3, <1>4, <1>5, <1>8 DEF Meets, Kept

LEMMA CoreelementMeets == Meets(CoreelementRouter, {"typed"})
<1>1. /\ Needing(Get(<<":type">>, "typed"), "typed")
      /\ Needing(Post(<<":type">>, "typed"), "typed")
  BY ShortRoute, WordsAre, NeedsAre
<1>2. /\ Needing(Put(<<":type", ":id">>, "typed"), "typed")
      /\ Needing(Delete_(<<":type", ":id">>, "typed"), "typed")
  BY PairRoute, WordsAre, NeedsAre
<1>3. /\ Needing(Post(<<":type", ":id", "move", ":direction">>, "typed"), "typed")
  BY LongRoute, WordsAre, NeedsAre
<1>4. CoreelementRouter \in Seq(RouteRecord)
  BY <1>1, <1>2, <1>3 DEF CoreelementRouter, Needing
<1>5. \A i \in 1..Len(CoreelementRouter) : CoreelementRouter[i].needs \in
             {"typed"}
  BY DEF CoreelementRouter, Get, Post, Put, Delete_, Route
<1>6. \A i, j \in 1..Len(CoreelementRouter) : i < j => Misfit(CoreelementRouter[i], CoreelementRouter[j])
  BY DEF CoreelementRouter, Misfit, Taken, Parameters, CoreelementTypes, Get, Post, Put, Delete_,
     Route
<1>. QED
  BY <1>4, <1>5, <1>6 DEF Meets, Kept

LEMMA ArtistMeets == Meets(ArtistRouter, {"artistMaintain"})
<1>1. /\ ArtistRouter \in Seq(RouteRecord)
      /\ \A i \in 1..Len(ArtistRouter) : ArtistRouter[i].needs \in {"artistMaintain"}
  BY ShortRoute, EmptyRoute, WordsAre, NeedsAre DEF ArtistRouter, Needing
<1>2. \A i, j \in 1..Len(ArtistRouter) : i < j => Misfit(ArtistRouter[i], ArtistRouter[j])
  BY DEF ArtistRouter, Misfit, Taken, Parameters, CoreelementTypes, Get, Post, Put, Delete_, Route
<1>. QED
  BY <1>1, <1>2 DEF Meets, Kept

LEMMA OrdinariumworkMeets == Meets(OrdinariumworkRouter, {"ordinariumworkMaintain"})
<1>1. /\ Needing(Get(<<"search">>, "ordinariumworkMaintain"), "ordinariumworkMaintain")
      /\ Needing(Get(<<"available-positions">>, "ordinariumworkMaintain"), "ordinariumworkMaintain")
      /\ Needing(Get(<<":id">>, "ordinariumworkMaintain"), "ordinariumworkMaintain")
      /\ Needing(Put(<<":id">>, "ordinariumworkMaintain"), "ordinariumworkMaintain")
      /\ Needing(Delete_(<<":id">>, "ordinariumworkMaintain"), "ordinariumworkMaintain")
  BY ShortRoute, WordsAre, NeedsAre
<1>2. /\ Needing(Post(<< >>, "ordinariumworkMaintain"), "ordinariumworkMaintain")
  BY EmptyRoute, WordsAre, NeedsAre
<1>3. /\ Needing(Get(<<":id", "setup">>, "ordinariumworkMaintain"), "ordinariumworkMaintain")
  BY PairRoute, WordsAre, NeedsAre
<1>4. OrdinariumworkRouter \in Seq(RouteRecord)
  BY <1>1, <1>2, <1>3 DEF OrdinariumworkRouter, Needing
<1>5. \A i \in 1..Len(OrdinariumworkRouter) : OrdinariumworkRouter[i].needs \in
             {"ordinariumworkMaintain"}
  BY DEF OrdinariumworkRouter, Get, Post, Put, Delete_, Route
<1>6. Len(OrdinariumworkRouter) = 7
  BY DEF OrdinariumworkRouter
<1>7. /\ Signed(OrdinariumworkRouter[1], "GET", 1, "search", "-")
      /\ Signed(OrdinariumworkRouter[2], "POST", 0, "-", "-")
      /\ Signed(OrdinariumworkRouter[3], "GET", 1, "available-positions", "-")
      /\ Signed(OrdinariumworkRouter[4], "GET", 1, ":id", "-")
      /\ Signed(OrdinariumworkRouter[5], "GET", 2, ":id", "setup")
      /\ Signed(OrdinariumworkRouter[6], "PUT", 1, ":id", "-")
      /\ Signed(OrdinariumworkRouter[7], "DELETE", 1, ":id", "-")
  BY DEF OrdinariumworkRouter, Signed, Get, Post, Put, Delete_, Route
<1>8. \A w \in { "search", "available-positions", "setup"} : w \notin Taken
  BY DEF Taken, Parameters, CoreelementTypes
<1>9. ASSUME NEW i \in 1..7, NEW j \in 1..7, i < j
      PROVE  Misfit(OrdinariumworkRouter[i], OrdinariumworkRouter[j])
  <2>1. i = 1 \/ i = 2 \/ i = 3 \/ i = 4 \/ i = 5 \/ i = 6 \/ i = 7
    OBVIOUS
  <2>2. j = 1 \/ j = 2 \/ j = 3 \/ j = 4 \/ j = 5 \/ j = 6 \/ j = 7
    OBVIOUS
  <2>. QED
    BY <1>7, <1>8, <1>9, <2>1, <2>2, SignsDiffer
<1>. QED
  BY <1>4, <1>5, <1>6, <1>9 DEF Meets, Kept

LEMMA PropriumworkMeets == Meets(PropriumworkRouter, {"propriumworkMaintain"})
<1>1. /\ PropriumworkRouter \in Seq(RouteRecord)
      /\ \A i \in 1..Len(PropriumworkRouter) : PropriumworkRouter[i].needs \in {"propriumworkMaintain"}
  BY ShortRoute, EmptyRoute, WordsAre, NeedsAre DEF PropriumworkRouter, Needing
<1>2. \A i, j \in 1..Len(PropriumworkRouter) : i < j => Misfit(PropriumworkRouter[i], PropriumworkRouter[j])
  BY DEF PropriumworkRouter, Misfit, Taken, Parameters, CoreelementTypes, Get, Post, Put, Delete_,
     Route
<1>. QED
  BY <1>1, <1>2 DEF Meets, Kept

LEMMA PerformanceSigned ==
  /\ Signed(PerformanceRouter[1], "GET", 0, "-", "-")
  /\ Signed(PerformanceRouter[2], "GET", 1, "available", "-")
  /\ Signed(PerformanceRouter[3], "GET", 1, ":id", "-")
  /\ Signed(PerformanceRouter[4], "GET", 2, ":id", "form")
  /\ Signed(PerformanceRouter[5], "POST", 0, "-", "-")
  /\ Signed(PerformanceRouter[6], "PUT", 1, ":id", "-")
  /\ Signed(PerformanceRouter[7], "DELETE", 1, ":id", "-")
BY DEF PerformanceRouter, Signed, Get, Post, Put, Delete_, Route

LEMMA PerformanceMeets == Meets(PerformanceRouter,
  {"verified", "performanceMaintain", "performanceCast", "performanceChangeUserStatus", "performanceBilling"})
<1>1. /\ Needing(Get(<< >>, "verified"), "verified")
      /\ Needing(Post(<< >>, "performanceMaintain"), "performanceMaintain")
  BY EmptyRoute, WordsAre, NeedsAre
<1>2. /\ Needing(Get(<<"available">>, "performanceMaintain"), "performanceMaintain")
      /\ Needing(Get(<<":id">>, "verified"), "verified")
      /\ Needing(Put(<<":id">>, "performanceMaintain"), "performanceMaintain")
      /\ Needing(Delete_(<<":id">>, "performanceMaintain"), "performanceMaintain")
  BY ShortRoute, WordsAre, NeedsAre
<1>3. /\ Needing(Get(<<":id", "form">>, "performanceMaintain"), "performanceMaintain")
  BY PairRoute, WordsAre, NeedsAre
<1>4. PerformanceRouter \in Seq(RouteRecord)
  BY <1>1, <1>2, <1>3 DEF PerformanceRouter, Needing
<1>5. \A i \in 1..Len(PerformanceRouter) : PerformanceRouter[i].needs \in
             {"verified", "performanceMaintain", "performanceCast", "performanceChangeUserStatus", "performanceBilling"}
  BY DEF PerformanceRouter, Get, Post, Put, Delete_, Route
<1>6. Len(PerformanceRouter) = 7
  BY DEF PerformanceRouter
<1>8. \A w \in { "available", "form"} : w \notin Taken
  BY DEF Taken, Parameters, CoreelementTypes
<1>9. ASSUME NEW i \in 1..7, NEW j \in 1..7, i < j
      PROVE  Misfit(PerformanceRouter[i], PerformanceRouter[j])
  <2>1. i = 1 \/ i = 2 \/ i = 3 \/ i = 4 \/ i = 5 \/ i = 6 \/ i = 7
    OBVIOUS
  <2>2. j = 1 \/ j = 2 \/ j = 3 \/ j = 4 \/ j = 5 \/ j = 6 \/ j = 7
    OBVIOUS
  <2>. QED
    BY PerformanceSigned, <1>8, <1>9, <2>1, <2>2, SignsDiffer
<1>. QED
  BY <1>4, <1>5, <1>6, <1>9 DEF Meets, Kept

LEMMA BookingSigned ==
  /\ Signed(BookingRouter[1], "GET", 2, ":id", "cast")
  /\ Signed(BookingRouter[2], "POST", 2, ":id", "cast")
  /\ Signed(BookingRouter[3], "POST", 2, ":id", "booking-status")
  /\ Signed(BookingRouter[4], "GET", 2, ":id", "my-booking-status")
  /\ Signed(BookingRouter[5], "GET", 2, ":id", "billing")
  /\ Signed(BookingRouter[6], "GET", 2, ":id", "requests-and-bookings")
  /\ Signed(BookingRouter[7], "GET", 2, ":id", "message-to-cast")
  /\ Signed(BookingRouter[8], "GET", 3, ":id", "message-to-cast")
  /\ Signed(BookingRouter[9], "POST", 3, ":id", "message-to-cast")
BY DEF BookingRouter, Signed, Get, Post, Route

LEMMA BookingMeets == Meets(BookingRouter,
  {"verified", "performanceMaintain", "performanceCast", "performanceChangeUserStatus", "performanceBilling"})
<1>1. /\ Needing(Get(<<":id", "cast">>, "performanceCast"), "performanceCast")
      /\ Needing(Post(<<":id", "cast">>, "performanceCast"), "performanceCast")
      /\ Needing(Post(<<":id", "booking-status">>, "performanceChangeUserStatus"), "performanceChangeUserStatus")
      /\ Needing(Get(<<":id", "my-booking-status">>, "performanceChangeUserStatus"), "performanceChangeUserStatus")
      /\ Needing(Get(<<":id", "billing">>, "performanceBilling"), "performanceBilling")
      /\ Needing(Get(<<":id", "requests-and-bookings">>, "performanceMaintain"), "performanceMaintain")
      /\ Needing(Get(<<":id", "message-to-cast">>, "performanceMaintain"), "performanceMaintain")
  BY PairRoute, WordsAre, NeedsAre
<1>2.
      /\ Needing(Get(<<":id", "message-to-cast", "recipients">>, "performanceMaintain"), "performanceMaintain")
      /\ Needing(Post(<<":id", "message-to-cast", "send">>, "performanceMaintain"), "performanceMaintain")
  BY LongRoute, WordsAre, NeedsAre
<1>3. BookingRouter \in Seq(RouteRecord)
  BY <1>1, <1>2 DEF BookingRouter, Needing
<1>4. \A i \in 1..Len(BookingRouter) : BookingRouter[i].needs \in
             {"verified", "performanceMaintain", "performanceCast", "performanceChangeUserStatus", "performanceBilling"}
  BY DEF BookingRouter, Get, Post, Route
<1>5. Len(BookingRouter) = 9
  BY DEF BookingRouter
<1>7. \A w \in { "cast", "booking-status", "my-booking-status", "billing",
             "requests-and-bookings", "message-to-cast"} : w \notin Taken
  BY DEF Taken, Parameters, CoreelementTypes
<1>8. ASSUME NEW i \in 1..9, NEW j \in 1..9, i < j
      PROVE  Misfit(BookingRouter[i], BookingRouter[j])
  <2>1. i = 1 \/ i = 2 \/ i = 3 \/ i = 4 \/ i = 5 \/ i = 6 \/ i = 7 \/ i = 8 \/ i = 9
    OBVIOUS
  <2>2. j = 1 \/ j = 2 \/ j = 3 \/ j = 4 \/ j = 5 \/ j = 6 \/ j = 7 \/ j = 8 \/ j = 9
    OBVIOUS
  <2>. QED
    BY BookingSigned, <1>7, <1>8, <2>1, <2>2, SignsDiffer
<1>. QED
  BY <1>3, <1>4, <1>5, <1>8 DEF Meets, Kept

LEMMA FeeMeets == Meets(FeeRouter, {"feeMaintain"})
<1>1. /\ FeeRouter \in Seq(RouteRecord)
      /\ \A i \in 1..Len(FeeRouter) : FeeRouter[i].needs \in {"feeMaintain"}
  BY EmptyRoute, ShortRoute, WordsAre, NeedsAre DEF FeeRouter, Needing
<1>2. \A i, j \in 1..Len(FeeRouter) : i < j => Misfit(FeeRouter[i], FeeRouter[j])
  BY DEF FeeRouter, Misfit, Taken, Parameters, CoreelementTypes, Get, Post, Put, Delete_, Route
<1>. QED
  BY <1>1, <1>2 DEF Meets, Kept

LEMMA UserMeets == Meets(UserRouter, {"userMaintain"})
<1>1. /\ Needing(Get(<<"search">>, "userMaintain"), "userMaintain")
      /\ Needing(Get(<<"form-options">>, "userMaintain"), "userMaintain")
      /\ Needing(Get(<<":id">>, "userMaintain"), "userMaintain")
      /\ Needing(Put(<<":id">>, "userMaintain"), "userMaintain")
      /\ Needing(Delete_(<<":id">>, "userMaintain"), "userMaintain")
  BY ShortRoute, WordsAre, NeedsAre
<1>2. /\ Needing(Get(<<":id", "requests-and-bookings">>, "userMaintain"), "userMaintain")
  BY PairRoute, WordsAre, NeedsAre
<1>3. /\ Needing(Post(<< >>, "userMaintain"), "userMaintain")
  BY EmptyRoute, WordsAre, NeedsAre
<1>4. UserRouter \in Seq(RouteRecord)
  BY <1>1, <1>2, <1>3 DEF UserRouter, Needing
<1>5. \A i \in 1..Len(UserRouter) : UserRouter[i].needs \in
             {"userMaintain"}
  BY DEF UserRouter, Get, Post, Put, Delete_, Route
<1>6. Len(UserRouter) = 7
  BY DEF UserRouter
<1>7. /\ Signed(UserRouter[1], "GET", 1, "search", "-")
      /\ Signed(UserRouter[2], "GET", 1, "form-options", "-")
      /\ Signed(UserRouter[3], "GET", 1, ":id", "-")
      /\ Signed(UserRouter[4], "GET", 2, ":id", "requests-and-bookings")
      /\ Signed(UserRouter[5], "POST", 0, "-", "-") /\ Signed(UserRouter[6], "PUT", 1, ":id", "-")
      /\ Signed(UserRouter[7], "DELETE", 1, ":id", "-")
  BY DEF UserRouter, Signed, Get, Post, Put, Delete_, Route
<1>8. \A w \in { "search", "form-options", "requests-and-bookings"} : w \notin Taken
  BY DEF Taken, Parameters, CoreelementTypes
<1>9. ASSUME NEW i \in 1..7, NEW j \in 1..7, i < j
      PROVE  Misfit(UserRouter[i], UserRouter[j])
  <2>1. i = 1 \/ i = 2 \/ i = 3 \/ i = 4 \/ i = 5 \/ i = 6 \/ i = 7
    OBVIOUS
  <2>2. j = 1 \/ j = 2 \/ j = 3 \/ j = 4 \/ j = 5 \/ j = 6 \/ j = 7
    OBVIOUS
  <2>. QED
    BY <1>7, <1>8, <1>9, <2>1, <2>2, SignsDiffer
<1>. QED
  BY <1>4, <1>5, <1>6, <1>9 DEF Meets, Kept

LEMMA UserdirectoryMeets == Meets(UserdirectoryRouter, {"userMaintain"})
<1>1. /\ UserdirectoryRouter \in Seq(RouteRecord)
      /\ \A i \in 1..Len(UserdirectoryRouter) : UserdirectoryRouter[i].needs \in {"userMaintain"}
  BY ShortRoute, EmptyRoute, WordsAre, NeedsAre DEF UserdirectoryRouter, Needing
<1>2. \A i, j \in 1..Len(UserdirectoryRouter) : i < j => Misfit(UserdirectoryRouter[i], UserdirectoryRouter[j])
  BY DEF UserdirectoryRouter, Misfit, Taken, Parameters, CoreelementTypes, Get, Route
<1>. QED
  BY <1>1, <1>2 DEF Meets, Kept

LEMMA UserAdministrationMeets == Meets(UserAdministrationRouter, {"userAdministrate"})
<1>1. /\ Needing(Get(<<"search">>, "userAdministrate"), "userAdministrate")
      /\ Needing(Get(<<"deleted">>, "userAdministrate"), "userAdministrate")
      /\ Needing(Get(<<":id">>, "userAdministrate"), "userAdministrate")
      /\ Needing(Delete_(<<":id">>, "userAdministrate"), "userAdministrate")
  BY ShortRoute, WordsAre, NeedsAre
<1>2. /\ Needing(Post(<<":id", "restore">>, "userAdministrate"), "userAdministrate")
      /\ Needing(Post(<<":id", "unlock">>, "userAdministrate"), "userAdministrate")
      /\ Needing(Post(<<":id", "set-password">>, "userAdministrate"), "userAdministrate")
  BY PairRoute, WordsAre, NeedsAre
<1>3. UserAdministrationRouter \in Seq(RouteRecord)
  BY <1>1, <1>2 DEF UserAdministrationRouter, Needing
<1>4. \A i \in 1..Len(UserAdministrationRouter) : UserAdministrationRouter[i].needs \in
             {"userAdministrate"}
  BY DEF UserAdministrationRouter, Get, Post, Delete_, Route
<1>5. Len(UserAdministrationRouter) = 7
  BY DEF UserAdministrationRouter
<1>6. /\ Signed(UserAdministrationRouter[1], "GET", 1, "search", "-")
      /\ Signed(UserAdministrationRouter[2], "GET", 1, "deleted", "-")
      /\ Signed(UserAdministrationRouter[3], "GET", 1, ":id", "-")
      /\ Signed(UserAdministrationRouter[4], "POST", 2, ":id", "restore")
      /\ Signed(UserAdministrationRouter[5], "POST", 2, ":id", "unlock")
      /\ Signed(UserAdministrationRouter[6], "POST", 2, ":id", "set-password")
      /\ Signed(UserAdministrationRouter[7], "DELETE", 1, ":id", "-")
  BY DEF UserAdministrationRouter, Signed, Get, Post, Delete_, Route
<1>7. \A w \in { "search", "deleted", "restore", "unlock", "set-password"} : w \notin Taken
  BY DEF Taken, Parameters, CoreelementTypes
<1>8. ASSUME NEW i \in 1..7, NEW j \in 1..7, i < j
      PROVE  Misfit(UserAdministrationRouter[i], UserAdministrationRouter[j])
  <2>1. i = 1 \/ i = 2 \/ i = 3 \/ i = 4 \/ i = 5 \/ i = 6 \/ i = 7
    OBVIOUS
  <2>2. j = 1 \/ j = 2 \/ j = 3 \/ j = 4 \/ j = 5 \/ j = 6 \/ j = 7
    OBVIOUS
  <2>. QED
    BY <1>6, <1>7, <1>8, <2>1, <2>2, SignsDiffer
<1>. QED
  BY <1>3, <1>4, <1>5, <1>8 DEF Meets, Kept

LEMMA ProfileMeets == Meets(ProfileRouter, {"verified"})
<1>1. /\ ProfileRouter \in Seq(RouteRecord)
      /\ \A i \in 1..Len(ProfileRouter) : ProfileRouter[i].needs \in {"verified"}
  BY EmptyRoute, WordsAre, NeedsAre DEF ProfileRouter, Needing
<1>2. \A i, j \in 1..Len(ProfileRouter) : i < j => Misfit(ProfileRouter[i], ProfileRouter[j])
  BY DEF ProfileRouter, Misfit, Taken, Parameters, CoreelementTypes, Get, Put, Route
<1>. QED
  BY <1>1, <1>2 DEF Meets, Kept

LEMMA SupportMeets == Meets(SupportRouter, {"verified"})
<1>1. /\ SupportRouter \in Seq(RouteRecord)
      /\ \A i \in 1..Len(SupportRouter) : SupportRouter[i].needs \in {"verified"}
  BY ShortRoute, WordsAre, NeedsAre DEF SupportRouter, Needing
<1>2. \A i, j \in 1..Len(SupportRouter) : i < j => Misfit(SupportRouter[i], SupportRouter[j])
  BY DEF SupportRouter, Misfit, Taken, Parameters, CoreelementTypes, Get, Post, Route
<1>. QED
  BY <1>1, <1>2 DEF Meets, Kept

LEMMA SentEmailMeets == Meets(SentEmailRouter, {"sentEmailView"})
<1>1. /\ SentEmailRouter \in Seq(RouteRecord)
      /\ \A i \in 1..Len(SentEmailRouter) : SentEmailRouter[i].needs \in {"sentEmailView"}
  BY EmptyRoute, ShortRoute, WordsAre, NeedsAre DEF SentEmailRouter, Needing
<1>2. \A i, j \in 1..Len(SentEmailRouter) : i < j => Misfit(SentEmailRouter[i], SentEmailRouter[j])
  BY DEF SentEmailRouter, Misfit, Taken, Parameters, CoreelementTypes, Get, Route
<1>. QED
  BY <1>1, <1>2 DEF Meets, Kept

LEMMA RequestLogMeets == Meets(RequestLogRouter, {"requestLogView"})
<1>1. /\ RequestLogRouter \in Seq(RouteRecord)
      /\ \A i \in 1..Len(RequestLogRouter) : RequestLogRouter[i].needs \in {"requestLogView"}
  BY EmptyRoute, PairRoute, ShortRoute, WordsAre, NeedsAre DEF RequestLogRouter, Needing
<1>2. \A i, j \in 1..Len(RequestLogRouter) : i < j => Misfit(RequestLogRouter[i], RequestLogRouter[j])
  BY DEF RequestLogRouter, Misfit, Taken, Parameters, CoreelementTypes, Get, Route
<1>. QED
  BY <1>1, <1>2 DEF Meets, Kept

LEMMA SqlInspectorMeets == Meets(SqlInspectorRouter, {"sqlInspectorView"})
<1>1. /\ SqlInspectorRouter \in Seq(RouteRecord)
      /\ \A i \in 1..Len(SqlInspectorRouter) : SqlInspectorRouter[i].needs \in {"sqlInspectorView"}
  BY ShortRoute, PairRoute, WordsAre, NeedsAre DEF SqlInspectorRouter, Needing
<1>2. \A i, j \in 1..Len(SqlInspectorRouter) : i < j => Misfit(SqlInspectorRouter[i], SqlInspectorRouter[j])
  BY DEF SqlInspectorRouter, Misfit, Taken, Parameters, CoreelementTypes, Get, Route
<1>. QED
  BY <1>1, <1>2 DEF Meets, Kept

LEMMA SchedulerMeets == Meets(SchedulerRouter, {"schedulerView"})
<1>1. /\ SchedulerRouter \in Seq(RouteRecord)
      /\ \A i \in 1..Len(SchedulerRouter) : SchedulerRouter[i].needs \in {"schedulerView"}
  BY ShortRoute, PairRoute, WordsAre, NeedsAre DEF SchedulerRouter, Needing
<1>2. Len(SchedulerRouter) = 3
  BY DEF SchedulerRouter
<1>3. /\ Signed(SchedulerRouter[1], "GET", 1, "jobs", "-")
      /\ Signed(SchedulerRouter[2], "POST", 2, "backup", "trigger")
      /\ Signed(SchedulerRouter[3], "POST", 2, "downsync", "trigger")
  BY DEF SchedulerRouter, Signed, Get, Post, Route
<1>4. \A w \in { "jobs", "backup", "trigger", "downsync"} : w \notin Taken
  BY DEF Taken, Parameters, CoreelementTypes
<1>5. ASSUME NEW i \in 1..3, NEW j \in 1..3, i < j
      PROVE  Misfit(SchedulerRouter[i], SchedulerRouter[j])
  <2>1. i = 1 \/ i = 2 \/ i = 3
    OBVIOUS
  <2>2. j = 1 \/ j = 2 \/ j = 3
    OBVIOUS
  <2>. QED
    BY <1>3, <1>4, <1>5, <2>1, <2>2, SignsDiffer
<1>. QED
  BY <1>1, <1>2, <1>5 DEF Meets, Kept

LEMMA StatisticsMeets == Meets(StatisticsRouter, {"verified"})
<1>1. /\ StatisticsRouter \in Seq(RouteRecord)
      /\ \A i \in 1..Len(StatisticsRouter) : StatisticsRouter[i].needs \in {"verified"}
  BY EmptyRoute, WordsAre, NeedsAre DEF StatisticsRouter, Needing
<1>2. \A i, j \in 1..Len(StatisticsRouter) : i < j => Misfit(StatisticsRouter[i], StatisticsRouter[j])
  BY DEF StatisticsRouter, Misfit, Taken, Parameters, CoreelementTypes, Get, Route
<1>. QED
  BY <1>1, <1>2 DEF Meets, Kept

LEMMA EnvironmentMeets == Meets(EnvironmentRouter, {"verified"})
<1>1. /\ EnvironmentRouter \in Seq(RouteRecord)
      /\ \A i \in 1..Len(EnvironmentRouter) : EnvironmentRouter[i].needs \in {"verified"}
  BY ShortRoute, WordsAre, NeedsAre DEF EnvironmentRouter, Needing
<1>2. \A i, j \in 1..Len(EnvironmentRouter) : i < j => Misfit(EnvironmentRouter[i], EnvironmentRouter[j])
  BY DEF EnvironmentRouter, Misfit, Taken, Parameters, CoreelementTypes, Get, Route
<1>. QED
  BY <1>1, <1>2 DEF Meets, Kept

LEMMA ShorturlMeets == Meets(ShorturlRouter, {"shorturlMaintain"})
<1>1. /\ ShorturlRouter \in Seq(RouteRecord)
      /\ \A i \in 1..Len(ShorturlRouter) : ShorturlRouter[i].needs \in {"shorturlMaintain"}
  BY EmptyRoute, ShortRoute, WordsAre, NeedsAre DEF ShorturlRouter, Needing
<1>2. \A i, j \in 1..Len(ShorturlRouter) : i < j => Misfit(ShorturlRouter[i], ShorturlRouter[j])
  BY DEF ShorturlRouter, Misfit, Taken, Parameters, CoreelementTypes, Get, Post, Put, Delete_, Route
<1>. QED
  BY <1>1, <1>2 DEF Meets, Kept

LEMMA ScoreMeets == Meets(ScoreRouter, {"scoreMaintain"})
<1>1. /\ ScoreRouter \in Seq(RouteRecord)
      /\ \A i \in 1..Len(ScoreRouter) : ScoreRouter[i].needs \in {"scoreMaintain"}
  BY ShortRoute, EmptyRoute, WordsAre, NeedsAre DEF ScoreRouter, Needing
<1>2. \A i, j \in 1..Len(ScoreRouter) : i < j => Misfit(ScoreRouter[i], ScoreRouter[j])
  BY DEF ScoreRouter, Misfit, Taken, Parameters, CoreelementTypes, Get, Post, Put, Route
<1>. QED
  BY <1>1, <1>2 DEF Meets, Kept

LEMMA GoMeets == Meets(GoRouter, {"nothing"})
<1>1. /\ GoRouter \in Seq(RouteRecord)
      /\ \A i \in 1..Len(GoRouter) : GoRouter[i].needs \in {"nothing"}
  BY ShortRoute, WordsAre, NeedsAre DEF GoRouter, Needing
<1>2. \A i, j \in 1..Len(GoRouter) : i < j => Misfit(GoRouter[i], GoRouter[j])
  BY DEF GoRouter, Misfit, Taken, Parameters, CoreelementTypes, Get, Route
<1>. QED
  BY <1>1, <1>2 DEF Meets, Kept

-----------------------------------------------------------------------------
(* The whole table.                                                        *)

\* A route with this section's prefix and needs.
InSection(r, n) ==
  /\ Len(Sections[n].prefix) <= Len(r.path)
  /\ \A k \in 1..Len(Sections[n].prefix) : r.path[k] = Sections[n].prefix[k]
  /\ r.needs \in Sections[n].needs

\* A table of the sections from first to last.
Spans(rs, first, last) ==
  Kept(rs) /\ \A i \in 1..Len(rs) : \E n \in first..last : InSection(rs[i], n)

LEMMA SpansOne ==
  ASSUME NEW n \in 1..22, NEW rs, Meets(rs, Sections[n].needs)
  PROVE  Spans(Under(Sections[n].prefix, rs), n, n)
<1>. DEFINE prefix == Sections[n].prefix
            needs == Sections[n].needs
<1>5. prefix \in Seq(Words)
  BY SectionsTyped
<1>1. rs \in Seq(RouteRecord) /\ Kept(rs)
  BY DEF Meets, Kept
<1>2. Kept(Under(prefix, rs)) /\ Len(Under(prefix, rs)) = Len(rs)
  BY <1>1, <1>5, UnderKept, UnderIs
<1>3. Len(prefix) \in Nat
  BY <1>5
<1>6. \A i \in 1..Len(rs) : rs[i].needs \in needs
  BY DEF Meets
<1>. HIDE DEF prefix
<1>4. ASSUME NEW i \in 1..Len(rs) PROVE InSection(Under(prefix, rs)[i], n)
  <2>1. /\ Under(prefix, rs)[i].needs = rs[i].needs
        /\ Under(prefix, rs)[i].path = prefix \o rs[i].path
    BY <1>1, <1>5, UnderIs
  <2>2. rs[i].path \in Seq(Words)
    <3>1. rs[i] \in RouteRecord
      BY <1>1
    <3>. QED
      BY <3>1 DEF RouteRecord
  <2>3. /\ Len(prefix \o rs[i].path) = Len(prefix) + Len(rs[i].path) /\ Len(rs[i].path) \in Nat
        /\ \A k \in 1..Len(prefix) : (prefix \o rs[i].path)[k] = prefix[k]
    BY <1>5, <2>2
  <2>4. /\ Len(prefix) <= Len(Under(prefix, rs)[i].path)
        /\ \A k \in 1..Len(prefix) : Under(prefix, rs)[i].path[k] = prefix[k]
        /\ Under(prefix, rs)[i].needs \in needs
    BY <1>3, <1>6, <2>1, <2>3
  <2>. QED
    BY <2>4, Zenon DEF InSection, prefix
<1>. QED
  BY <1>2, <1>4 DEF Spans, prefix

\* Routes of different sections are out of each other's way.
LEMMA SectionsMisfit ==
  ASSUME NEW r \in RouteRecord, NEW s \in RouteRecord, NEW m \in 1..22, NEW n \in 1..22, m < n,
         InSection(r, m), InSection(s, n)
  PROVE  Misfit(r, s)
<1>1. PICK k \in 1..Len(Sections[m].prefix) :
        /\ k <= Len(Sections[n].prefix)
        /\ Sections[m].prefix[k] \notin Taken /\ Sections[m].prefix[k] # Sections[n].prefix[k]
  BY SectionsApart DEF Apart
<1>2. /\ Sections[m].prefix \in Seq(Words) /\ Sections[n].prefix \in Seq(Words)
      /\ r.path \in Seq(Words) /\ s.path \in Seq(Words)
  BY SectionsTyped DEF RouteRecord
<1>3. k \in 1..Len(r.path) /\ k \in 1..Len(Sections[n].prefix)
  BY <1>1, <1>2 DEF InSection
<1>4. r.path[k] = Sections[m].prefix[k] /\ s.path[k] = Sections[n].prefix[k]
  BY <1>1, <1>3 DEF InSection
<1>. QED
  BY <1>1, <1>3, <1>4 DEF Misfit

LEMMA SpansJoined ==
  ASSUME NEW a, NEW b, NEW first \in 1..22, NEW mid \in 1..22, NEW last \in 1..22, first <= mid, mid < last,
         Spans(a, first, mid), Spans(b, mid + 1, last)
  PROVE  Spans(a \o b, first, last)
<1>1. /\ a \in Seq(RouteRecord) /\ b \in Seq(RouteRecord) /\ Kept(a) /\ Kept(b)
      /\ Len(a) \in Nat /\ Len(b) \in Nat
  BY DEF Spans, Kept
<1>2. ASSUME NEW i \in 1..Len(a), NEW j \in 1..Len(b) PROVE Misfit(a[i], b[j])
  <2>1. PICK m \in first..mid : InSection(a[i], m)
    BY DEF Spans
  <2>2. PICK n \in mid + 1..last : InSection(b[j], n)
    BY DEF Spans
  <2>3. m \in 1..22 /\ n \in 1..22 /\ m < n /\ a[i] \in RouteRecord /\ b[j] \in RouteRecord
    BY <1>1
  <2>. QED
    BY <2>1, <2>2, <2>3, SectionsMisfit
<1>3. Kept(a \o b)
  BY <1>1, <1>2, KeptJoined
<1>4. ASSUME NEW i \in 1..Len(a \o b) PROVE \E n \in first..last : InSection((a \o b)[i], n)
  <2>1. /\ Len(a \o b) = Len(a) + Len(b)
        /\ (a \o b)[i] = IF i <= Len(a) THEN a[i] ELSE b[i - Len(a)]
    BY <1>1, ConcatProperties
  <2>2. CASE i <= Len(a)
    <3>1. PICK n \in first..mid : InSection(a[i], n)
      BY <1>1, <2>2 DEF Spans
    <3>2. n \in first..last
      OBVIOUS
    <3>. QED
      BY <2>1, <2>2, <3>1, <3>2
  <2>3. CASE ~(i <= Len(a))
    <3>1. i - Len(a) \in 1..Len(b)
      BY <1>1, <2>1, <2>3
    <3>2. PICK n \in mid + 1..last : InSection(b[i - Len(a)], n)
      BY <3>1 DEF Spans
    <3>3. n \in first..last
      OBVIOUS
    <3>. QED
      BY <2>1, <2>3, <3>2, <3>3
  <2>. QED
    BY <2>2, <2>3
<1>. QED
  BY <1>3, <1>4 DEF Spans

LEMMA RootSpans == Spans(RootRouter, 1, 1)
<1>1. Kept(RootRouter)
  BY RootMeets DEF Meets
<1>2. Len(RootRouter) = 1 /\ RootRouter[1].path = <<"/">> /\ RootRouter[1].needs = "nothing"
  BY DEF RootRouter, Get, Route
<1>3. Sections[1].prefix = <<"/">> /\ Sections[1].needs = {"nothing"}
  BY DEF Sections, Section
<1>4. InSection(RootRouter[1], 1)
  BY <1>2, <1>3 DEF InSection
<1>. QED
  BY <1>1, <1>2, <1>4 DEF Spans

\* The two routers under the same prefix.
LEMMA PerformancesSpan ==
  Spans(Under(<<"performances">>, PerformanceRouter) \o Under(<<"performances">>, BookingRouter), 7, 7)
<1>. DEFINE a == Under(<<"performances">>, PerformanceRouter)
            b == Under(<<"performances">>, BookingRouter)
<1>1. /\ Sections[7].prefix = <<"performances">>
      /\ Sections[7].needs = {"verified", "performanceMaintain", "performanceCast",
                               "performanceChangeUserStatus", "performanceBilling"}
  BY DEF Sections, Section
<1>2. <<"performances">> \in Seq(Words)
  BY WordsAre
<1>3. Spans(a, 7, 7) /\ Spans(b, 7, 7)
  <2>1. Meets(PerformanceRouter, Sections[7].needs) /\ Meets(BookingRouter, Sections[7].needs)
    BY <1>1, PerformanceMeets, BookingMeets, Zenon
  <2>2. /\ Spans(Under(Sections[7].prefix, PerformanceRouter), 7, 7)
        /\ Spans(Under(Sections[7].prefix, BookingRouter), 7, 7)
    BY <2>1, SpansOne
  <2>. QED
    BY <1>1, <2>2, Zenon
<1>4. /\ PerformanceRouter \in Seq(RouteRecord) /\ BookingRouter \in Seq(RouteRecord)
      /\ Len(PerformanceRouter) = 7 /\ Len(BookingRouter) = 9
  BY PerformanceMeets, BookingMeets DEF Meets, Kept, PerformanceRouter, BookingRouter
<1>5. ASSUME NEW i \in 1..7, NEW j \in 1..9 PROVE Misfit(PerformanceRouter[i], BookingRouter[j])
  <2>1. i = 1 \/ i = 2 \/ i = 3 \/ i = 4 \/ i = 5 \/ i = 6 \/ i = 7
    OBVIOUS
  <2>2. j = 1 \/ j = 2 \/ j = 3 \/ j = 4 \/ j = 5 \/ j = 6 \/ j = 7 \/ j = 8 \/ j = 9
    OBVIOUS
  <2>3. "form" \notin Taken
    BY DEF Taken, Parameters, CoreelementTypes
  <2>. QED
    BY <2>1, <2>2, <2>3, PerformanceSigned, BookingSigned, SignsDiffer
<1>6. ASSUME NEW i \in 1..Len(a), NEW j \in 1..Len(b) PROVE Misfit(a[i], b[j])
  <2>1. i \in 1..7 /\ j \in 1..9
    BY <1>2, <1>4, UnderIs
  <2>2. /\ a[i].method = PerformanceRouter[i].method
        /\ a[i].path = <<"performances">> \o PerformanceRouter[i].path
    <3>1. \A k \in 1..Len(PerformanceRouter) :
            /\ a[k].method = PerformanceRouter[k].method
            /\ a[k].path = <<"performances">> \o PerformanceRouter[k].path
      BY <1>2, <1>4, UnderIs, Zenon
    <3>. QED
      BY <1>4, <2>1, <3>1, Zenon
  <2>5. /\ b[j].method = BookingRouter[j].method
        /\ b[j].path = <<"performances">> \o BookingRouter[j].path
    <3>1. \A k \in 1..Len(BookingRouter) :
            /\ b[k].method = BookingRouter[k].method
            /\ b[k].path = <<"performances">> \o BookingRouter[k].path
      BY <1>2, <1>4, UnderIs, Zenon
    <3>. QED
      BY <1>4, <2>1, <3>1, Zenon
  <2>3. /\ PerformanceRouter[i] \in RouteRecord /\ BookingRouter[j] \in RouteRecord
        /\ Misfit(PerformanceRouter[i], BookingRouter[j])
    <3>1. /\ \A k \in 1..Len(PerformanceRouter) : PerformanceRouter[k] \in RouteRecord
          /\ \A k \in 1..Len(BookingRouter) : BookingRouter[k] \in RouteRecord
      BY <1>4, RoutesAre, Zenon
    <3>. QED
      BY <1>4, <1>5, <2>1, <3>1
  <2>. QED
    BY <1>2, <2>2, <2>3, <2>5, UnderMisfit
<1>. HIDE DEF a, b
<1>7. /\ a \in Seq(RouteRecord) /\ b \in Seq(RouteRecord) /\ Kept(a) /\ Kept(b)
      /\ Len(a) \in Nat /\ Len(b) \in Nat
  BY <1>3 DEF Spans, Kept
<1>8. Kept(a \o b)
  BY <1>6, <1>7, KeptJoined
<1>9. ASSUME NEW i \in 1..Len(a \o b) PROVE InSection((a \o b)[i], 7)
  <2>1. /\ Len(a \o b) = Len(a) + Len(b)
        /\ (a \o b)[i] = IF i <= Len(a) THEN a[i] ELSE b[i - Len(a)]
    BY <1>7, ConcatProperties
  <2>2. /\ \A k \in 1..Len(a) : InSection(a[k], 7)
        /\ \A k \in 1..Len(b) : InSection(b[k], 7)
    BY <1>3 DEF Spans
  <2>3. i <= Len(a) => i \in 1..Len(a)
    OBVIOUS
  <2>4. ~(i <= Len(a)) => i - Len(a) \in 1..Len(b)
    BY <1>7, <2>1
  <2>. QED
    BY <2>1, <2>2, <2>3, <2>4
<1>. QED
  BY <1>8, <1>9 DEF Spans, a, b

LEMMA SpansOf ==
  ASSUME NEW n \in 1..22, NEW prefix, NEW needs, NEW rs,
         Sections[n].prefix = prefix, Sections[n].needs = needs, Meets(rs, needs)
  PROVE  Spans(Under(prefix, rs), n, n)
<1>1. Meets(rs, Sections[n].needs)
  BY Zenon
<1>2. Spans(Under(Sections[n].prefix, rs), n, n)
  BY <1>1, SpansOne
<1>. QED
  BY <1>2, Zenon

\* Each router under its prefix.
LEMMA SectionsSpan ==
  /\ Spans(Under(<<"auth">>, AuthRouter), 2, 2)
  /\ Spans(Under(<<"coreelements">>, CoreelementRouter), 3, 3)
  /\ Spans(Under(<<"artists">>, ArtistRouter), 4, 4)
  /\ Spans(Under(<<"ordinariumworks">>, OrdinariumworkRouter), 5, 5)
  /\ Spans(Under(<<"propriumworks">>, PropriumworkRouter), 6, 6)
  /\ Spans(Under(<<"fees">>, FeeRouter), 8, 8)
  /\ Spans(Under(<<"users">>, UserRouter), 9, 9)
  /\ Spans(Under(<<"userdirectory">>, UserdirectoryRouter), 10, 10)
  /\ Spans(Under(<<"administrator", "users">>, UserAdministrationRouter), 11, 11)
  /\ Spans(Under(<<"profile">>, ProfileRouter), 12, 12)
  /\ Spans(Under(<<"support">>, SupportRouter), 13, 13)
  /\ Spans(Under(<<"administrator", "sent-emails">>, SentEmailRouter), 14, 14)
  /\ Spans(Under(<<"administrator", "request-logs">>, RequestLogRouter), 15, 15)
  /\ Spans(Under(<<"administrator", "sql-inspector">>, SqlInspectorRouter), 16, 16)
  /\ Spans(Under(<<"administrator", "scheduler">>, SchedulerRouter), 17, 17)
  /\ Spans(Under(<<"statistics">>, StatisticsRouter), 18, 18)
  /\ Spans(Under(<<"system">>, EnvironmentRouter), 19, 19)
  /\ Spans(Under(<<"shorturls">>, ShorturlRouter), 20, 20)
  /\ Spans(Under(<<"scores">>, ScoreRouter), 21, 21)
  /\ Spans(Under(<<"go">>, GoRouter), 22, 22)
<1>1. Spans(Under(<<"auth">>, AuthRouter), 2, 2)
  <2>1. Sections[2].prefix = <<"auth">> /\ Sections[2].needs = {"nothing", "session", "verified"} /\ 2 \in 1..22
    BY DEF Sections, Section
  <2>. QED
    BY <2>1, AuthMeets, SpansOf, Zenon
<1>2. Spans(Under(<<"coreelements">>, CoreelementRouter), 3, 3)
  <2>1. Sections[3].prefix = <<"coreelements">> /\ Sections[3].needs = {"typed"} /\ 3 \in 1..22
    BY DEF Sections, Section
  <2>. QED
    BY <2>1, CoreelementMeets, SpansOf, Zenon
<1>3. Spans(Under(<<"artists">>, ArtistRouter), 4, 4)
  <2>1. Sections[4].prefix = <<"artists">> /\ Sections[4].needs = {"artistMaintain"} /\ 4 \in 1..22
    BY DEF Sections, Section
  <2>. QED
    BY <2>1, ArtistMeets, SpansOf, Zenon
<1>4. Spans(Under(<<"ordinariumworks">>, OrdinariumworkRouter), 5, 5)
  <2>1. Sections[5].prefix = <<"ordinariumworks">> /\ Sections[5].needs = {"ordinariumworkMaintain"} /\ 5 \in 1..22
    BY DEF Sections, Section
  <2>. QED
    BY <2>1, OrdinariumworkMeets, SpansOf, Zenon
<1>5. Spans(Under(<<"propriumworks">>, PropriumworkRouter), 6, 6)
  <2>1. Sections[6].prefix = <<"propriumworks">> /\ Sections[6].needs = {"propriumworkMaintain"} /\ 6 \in 1..22
    BY DEF Sections, Section
  <2>. QED
    BY <2>1, PropriumworkMeets, SpansOf, Zenon
<1>6. Spans(Under(<<"fees">>, FeeRouter), 8, 8)
  <2>1. Sections[8].prefix = <<"fees">> /\ Sections[8].needs = {"feeMaintain"} /\ 8 \in 1..22
    BY DEF Sections, Section
  <2>. QED
    BY <2>1, FeeMeets, SpansOf, Zenon
<1>7. Spans(Under(<<"users">>, UserRouter), 9, 9)
  <2>1. Sections[9].prefix = <<"users">> /\ Sections[9].needs = {"userMaintain"} /\ 9 \in 1..22
    BY DEF Sections, Section
  <2>. QED
    BY <2>1, UserMeets, SpansOf, Zenon
<1>8. Spans(Under(<<"userdirectory">>, UserdirectoryRouter), 10, 10)
  <2>1. Sections[10].prefix = <<"userdirectory">> /\ Sections[10].needs = {"userMaintain"} /\ 10 \in 1..22
    BY DEF Sections, Section
  <2>. QED
    BY <2>1, UserdirectoryMeets, SpansOf, Zenon
<1>9. Spans(Under(<<"administrator", "users">>, UserAdministrationRouter), 11, 11)
  <2>1. Sections[11].prefix = <<"administrator", "users">> /\ Sections[11].needs =
        {"userAdministrate"}
          /\ 11 \in 1..22
    BY DEF Sections, Section
  <2>. QED
    BY <2>1, UserAdministrationMeets, SpansOf, Zenon
<1>10. Spans(Under(<<"profile">>, ProfileRouter), 12, 12)
  <2>1. Sections[12].prefix = <<"profile">> /\ Sections[12].needs = {"verified"} /\ 12 \in 1..22
    BY DEF Sections, Section
  <2>. QED
    BY <2>1, ProfileMeets, SpansOf, Zenon
<1>11. Spans(Under(<<"support">>, SupportRouter), 13, 13)
  <2>1. Sections[13].prefix = <<"support">> /\ Sections[13].needs = {"verified"} /\ 13 \in 1..22
    BY DEF Sections, Section
  <2>. QED
    BY <2>1, SupportMeets, SpansOf, Zenon
<1>12. Spans(Under(<<"administrator", "sent-emails">>, SentEmailRouter), 14, 14)
  <2>1. Sections[14].prefix = <<"administrator", "sent-emails">> /\ Sections[14].needs =
        {"sentEmailView"}
          /\ 14 \in 1..22
    BY DEF Sections, Section
  <2>. QED
    BY <2>1, SentEmailMeets, SpansOf, Zenon
<1>13. Spans(Under(<<"administrator", "request-logs">>, RequestLogRouter), 15, 15)
  <2>1. Sections[15].prefix = <<"administrator", "request-logs">> /\ Sections[15].needs =
        {"requestLogView"}
          /\ 15 \in 1..22
    BY DEF Sections, Section
  <2>. QED
    BY <2>1, RequestLogMeets, SpansOf, Zenon
<1>14. Spans(Under(<<"administrator", "sql-inspector">>, SqlInspectorRouter), 16, 16)
  <2>1. Sections[16].prefix = <<"administrator", "sql-inspector">> /\ Sections[16].needs =
        {"sqlInspectorView"}
          /\ 16 \in 1..22
    BY DEF Sections, Section
  <2>. QED
    BY <2>1, SqlInspectorMeets, SpansOf, Zenon
<1>15. Spans(Under(<<"administrator", "scheduler">>, SchedulerRouter), 17, 17)
  <2>1. Sections[17].prefix = <<"administrator", "scheduler">> /\ Sections[17].needs =
        {"schedulerView"}
          /\ 17 \in 1..22
    BY DEF Sections, Section
  <2>. QED
    BY <2>1, SchedulerMeets, SpansOf, Zenon
<1>16. Spans(Under(<<"statistics">>, StatisticsRouter), 18, 18)
  <2>1. Sections[18].prefix = <<"statistics">> /\ Sections[18].needs = {"verified"} /\ 18 \in 1..22
    BY DEF Sections, Section
  <2>. QED
    BY <2>1, StatisticsMeets, SpansOf, Zenon
<1>17. Spans(Under(<<"system">>, EnvironmentRouter), 19, 19)
  <2>1. Sections[19].prefix = <<"system">> /\ Sections[19].needs = {"verified"} /\ 19 \in 1..22
    BY DEF Sections, Section
  <2>. QED
    BY <2>1, EnvironmentMeets, SpansOf, Zenon
<1>18. Spans(Under(<<"shorturls">>, ShorturlRouter), 20, 20)
  <2>1. Sections[20].prefix = <<"shorturls">> /\ Sections[20].needs = {"shorturlMaintain"} /\ 20 \in 1..22
    BY DEF Sections, Section
  <2>. QED
    BY <2>1, ShorturlMeets, SpansOf, Zenon
<1>19. Spans(Under(<<"scores">>, ScoreRouter), 21, 21)
  <2>1. Sections[21].prefix = <<"scores">> /\ Sections[21].needs = {"scoreMaintain"} /\ 21 \in 1..22
    BY DEF Sections, Section
  <2>. QED
    BY <2>1, ScoreMeets, SpansOf, Zenon
<1>20. Spans(Under(<<"go">>, GoRouter), 22, 22)
  <2>1. Sections[22].prefix = <<"go">> /\ Sections[22].needs = {"nothing"} /\ 22 \in 1..22
    BY DEF Sections, Section
  <2>. QED
    BY <2>1, GoMeets, SpansOf, Zenon
<1>. QED
  BY <1>1, <1>2, <1>3, <1>4, <1>5, <1>6, <1>7, <1>8, <1>9, <1>10, <1>11, <1>12, <1>13, <1>14, <1>15,
     <1>16, <1>17, <1>18, <1>19, <1>20

\* The sections follow each other in the order of the prefixes.
LEMMA TableSpans == Spans(Routes, 1, 22)
<1>. DEFINE t2 == Under(<<"auth">>, AuthRouter)
            t3 == t2 \o Under(<<"coreelements">>, CoreelementRouter)
            t4 == t3 \o Under(<<"artists">>, ArtistRouter)
            t5 == t4 \o Under(<<"ordinariumworks">>, OrdinariumworkRouter)
            t6 == t5 \o Under(<<"propriumworks">>, PropriumworkRouter)
            t7a == t6 \o Under(<<"performances">>, PerformanceRouter)
            t7 == t7a \o Under(<<"performances">>, BookingRouter)
            t8 == t7 \o Under(<<"fees">>, FeeRouter)
            t9 == t8 \o Under(<<"users">>, UserRouter)
            t10 == t9 \o Under(<<"userdirectory">>, UserdirectoryRouter)
            t11 == t10 \o Under(<<"administrator", "users">>, UserAdministrationRouter)
            t12 == t11 \o Under(<<"profile">>, ProfileRouter)
            t13 == t12 \o Under(<<"support">>, SupportRouter)
            t14 == t13 \o Under(<<"administrator", "sent-emails">>, SentEmailRouter)
            t15 == t14 \o Under(<<"administrator", "request-logs">>, RequestLogRouter)
            t16 == t15 \o Under(<<"administrator", "sql-inspector">>, SqlInspectorRouter)
            t17 == t16 \o Under(<<"administrator", "scheduler">>, SchedulerRouter)
            t18 == t17 \o Under(<<"statistics">>, StatisticsRouter)
            t19 == t18 \o Under(<<"system">>, EnvironmentRouter)
            t20 == t19 \o Under(<<"shorturls">>, ShorturlRouter)
            t21 == t20 \o Under(<<"scores">>, ScoreRouter)
<1>1. ApiRouter = t21
  BY Zenon DEF ApiRouter
<1>. HIDE DEF t2, t3, t4, t5, t6, t7a, t7, t8, t9, t10, t11, t12, t13, t14, t15, t16, t17, t18, t19, t20, t21
<1>2. Spans(t2, 2, 2)
  BY SectionsSpan DEF t2
<1>3. Spans(t3, 2, 3)
  BY <1>2, SectionsSpan, SpansJoined DEF t3
<1>4. Spans(t4, 2, 4)
  BY <1>3, SectionsSpan, SpansJoined DEF t4
<1>5. Spans(t5, 2, 5)
  BY <1>4, SectionsSpan, SpansJoined DEF t5
<1>6. Spans(t6, 2, 6)
  BY <1>5, SectionsSpan, SpansJoined DEF t6
<1>7. Spans(t7, 2, 7)
  <2>. DEFINE p == Under(<<"performances">>, PerformanceRouter)
              b == Under(<<"performances">>, BookingRouter)
  <2>1. p \in Seq(RouteRecord) /\ b \in Seq(RouteRecord)
    <3>1. <<"performances">> \in Seq(Words)
      BY WordsAre
    <3>2. PerformanceRouter \in Seq(RouteRecord) /\ BookingRouter \in Seq(RouteRecord)
      BY PerformanceMeets, BookingMeets DEF Meets, Kept
    <3>. QED
      BY <3>1, <3>2, UnderIs
  <2>2. t6 \in Seq(RouteRecord)
    BY <1>6 DEF Spans, Kept
  <2>3. t7 = (t6 \o p) \o b
    BY Zenon DEF t7, t7a
  <2>4. Spans(p \o b, 7, 7)
    BY PerformancesSpan
  <2>. HIDE DEF p, b
  <2>5. t7 = t6 \o (p \o b)
    BY <2>1, <2>2, <2>3, ConcatAssociative
  <2>6. Spans(t6 \o (p \o b), 2, 7)
    BY <1>6, <2>4, SpansJoined
  <2>. QED
    BY <2>5, <2>6, Zenon
<1>8. Spans(t8, 2, 8)
  BY <1>7, SectionsSpan, SpansJoined DEF t8
<1>9. Spans(t9, 2, 9)
  BY <1>8, SectionsSpan, SpansJoined DEF t9
<1>10. Spans(t10, 2, 10)
  BY <1>9, SectionsSpan, SpansJoined DEF t10
<1>11. Spans(t11, 2, 11)
  BY <1>10, SectionsSpan, SpansJoined DEF t11
<1>12. Spans(t12, 2, 12)
  BY <1>11, SectionsSpan, SpansJoined DEF t12
<1>13. Spans(t13, 2, 13)
  BY <1>12, SectionsSpan, SpansJoined DEF t13
<1>14. Spans(t14, 2, 14)
  BY <1>13, SectionsSpan, SpansJoined DEF t14
<1>15. Spans(t15, 2, 15)
  BY <1>14, SectionsSpan, SpansJoined DEF t15
<1>16. Spans(t16, 2, 16)
  BY <1>15, SectionsSpan, SpansJoined DEF t16
<1>17. Spans(t17, 2, 17)
  BY <1>16, SectionsSpan, SpansJoined DEF t17
<1>18. Spans(t18, 2, 18)
  BY <1>17, SectionsSpan, SpansJoined DEF t18
<1>19. Spans(t19, 2, 19)
  BY <1>18, SectionsSpan, SpansJoined DEF t19
<1>20. Spans(t20, 2, 20)
  BY <1>19, SectionsSpan, SpansJoined DEF t20
<1>21. Spans(t21, 2, 21)
  BY <1>20, SectionsSpan, SpansJoined DEF t21
<1>22. Spans(RootRouter \o ApiRouter, 1, 21)
  BY <1>1, <1>21, RootSpans, SpansJoined
<1>. QED
  BY <1>22, SectionsSpan, SpansJoined DEF Routes

-----------------------------------------------------------------------------
(* A call of the interface.                                                *)

\* Nothing is asked, or a request of some route, answered by that route.
RoutesInv ==
  \/ asked = NoRequest /\ reply = NoReply
  \/ \E i \in 1..Len(Routes) : \E path \in Concrete(Routes[i].path) :
       /\ asked = [route |-> i, method |-> Routes[i].method, path |-> path]
       /\ \/ reply = NoReply
          \/ reply = [status |-> IF LetsIn(caller, Routes[i].needs, path) THEN "served" ELSE "refused",
                      route |-> i]

LEMMA RoutesInvInit == RoutesInit => RoutesInv
BY DEF RoutesInit, RoutesInv

LEMMA TableIs == Kept(Routes) /\ Routes \in Seq(RouteRecord) /\ Len(Routes) \in Nat /\ DOMAIN Routes = 1..Len(Routes)
BY TableSpans DEF Spans, Kept

LEMMA RoutesInvNext == RoutesInv /\ RoutesNext => RoutesInv'
<1>. SUFFICES ASSUME RoutesInv, RoutesNext PROVE RoutesInv'
  OBVIOUS
<1>1. CASE Ask
  <2>1. PICK i \in DOMAIN Routes : \E path \in Concrete(Routes[i].path) :
          asked' = [route |-> i, method |-> Routes[i].method, path |-> path]
    BY <1>1 DEF Ask
  <2>2. PICK path \in Concrete(Routes[i].path) :
          asked' = [route |-> i, method |-> Routes[i].method, path |-> path]
    BY <2>1
  <2>3. i \in 1..Len(Routes)
    BY TableIs
  <2>4. reply = NoReply
    BY <1>1, TableIs DEF RoutesInv, Ask, NoRequest
  <2>5. reply' = NoReply
    BY <1>1, <2>4 DEF Ask
  <2>. QED
    BY <2>2, <2>3, <2>5, Zenon DEF RoutesInv
<1>2. CASE Reply
  <2>1. PICK i \in 1..Len(Routes) : \E path \in Concrete(Routes[i].path) :
          asked = [route |-> i, method |-> Routes[i].method, path |-> path]
    BY <1>2 DEF RoutesInv, Reply
  <2>2. PICK path \in Concrete(Routes[i].path) :
          asked = [route |-> i, method |-> Routes[i].method, path |-> path]
    BY <2>1
  <2>3. asked.method = Routes[i].method /\ asked.path = path
    BY <2>2
  <2>4. Dispatch(asked.method, asked.path) = i
    BY <2>3, TableIs, DispatchIs
  <2>5. reply' = [status |-> IF LetsIn(caller, Routes[i].needs, path) THEN "served" ELSE "refused",
                  route |-> i]
    BY <1>2, <2>3, <2>4, Zenon DEF Reply
  <2>6. caller' = caller /\ asked' = asked
    BY <1>2 DEF Reply
  <2>. QED
    BY <2>2, <2>5, <2>6, Zenon DEF RoutesInv, LetsIn
<1>. QED
  BY <1>1, <1>2 DEF RoutesNext

\* The first segments of a route are its section's.
LEMMA RouteHead ==
  ASSUME NEW r, NEW n, NEW len, NEW x, NEW y,
         Heads(n, len, x, y), len \in {1, 2}, InSection(r, n), r.path \in Seq(Words)
  PROVE  /\ Len(r.path) >= len /\ r.path[1] = x /\ r.needs \in Sections[n].needs
         /\ len = 2 => r.path[2] = y
BY DEF Heads, InSection

\* What the sections say of a route, by where its path starts.
LEMMA RouteOfSection ==
  ASSUME NEW i \in 1..Len(Routes), NEW first, NEW needs, first = Routes[i].path[1], needs = Routes[i].needs
  PROVE  /\ Len(Routes[i].path) >= 1 /\ first \notin Taken
         /\ needs \in {"nothing", "session"} => first \in {"auth", "go", "/"}
         /\ first = "artists" => needs = "artistMaintain"
         /\ first = "ordinariumworks" => needs = "ordinariumworkMaintain"
         /\ first = "propriumworks" => needs = "propriumworkMaintain"
         /\ first = "fees" => needs = "feeMaintain"
         /\ first = "users" => needs = "userMaintain"
         /\ first = "shorturls" => needs = "shorturlMaintain"
         /\ first = "scores" => needs = "scoreMaintain"
         /\ first = "administrator" =>
              /\ Len(Routes[i].path) >= 2 /\ Routes[i].path[2] \notin Taken
              /\ Routes[i].path[2] = "users" => needs = "userAdministrate"
<1>1. PICK n \in 1..22 : InSection(Routes[i], n)
  BY TableSpans DEF Spans
<1>2. \/ n = 1 \/ n = 2 \/ n = 3 \/ n = 4 \/ n = 5 \/ n = 6 \/ n = 7 \/ n = 8 \/ n = 9 \/ n = 10
      \/ n = 11 \/ n = 12 \/ n = 13 \/ n = 14 \/ n = 15 \/ n = 16 \/ n = 17 \/ n = 18 \/ n = 19
      \/ n = 20 \/ n = 21 \/ n = 22
  OBVIOUS
<1>3. /\ needs \in Sections[1].needs => needs \in {"nothing"}
      /\ needs \in Sections[2].needs => needs \in {"nothing", "session", "verified"}
      /\ needs \in Sections[3].needs => needs \in {"typed"}
      /\ needs \in Sections[4].needs => needs \in {"artistMaintain"}
      /\ needs \in Sections[5].needs => needs \in {"ordinariumworkMaintain"}
      /\ needs \in Sections[6].needs => needs \in {"propriumworkMaintain"}
      /\ needs \in Sections[7].needs => needs \in {"verified", "performanceMaintain", "performanceCast", "performanceChangeUserStatus", "performanceBilling"}
      /\ needs \in Sections[8].needs => needs \in {"feeMaintain"}
      /\ needs \in Sections[9].needs => needs \in {"userMaintain"}
      /\ needs \in Sections[10].needs => needs \in {"userMaintain"}
      /\ needs \in Sections[11].needs => needs \in {"userAdministrate"}
      /\ needs \in Sections[12].needs => needs \in {"verified"}
      /\ needs \in Sections[13].needs => needs \in {"verified"}
      /\ needs \in Sections[14].needs => needs \in {"sentEmailView"}
      /\ needs \in Sections[15].needs => needs \in {"requestLogView"}
      /\ needs \in Sections[16].needs => needs \in {"sqlInspectorView"}
      /\ needs \in Sections[17].needs => needs \in {"schedulerView"}
      /\ needs \in Sections[18].needs => needs \in {"verified"}
      /\ needs \in Sections[19].needs => needs \in {"verified"}
      /\ needs \in Sections[20].needs => needs \in {"shorturlMaintain"}
      /\ needs \in Sections[21].needs => needs \in {"scoreMaintain"}
      /\ needs \in Sections[22].needs => needs \in {"nothing"}
  BY DEF Sections, Section
<1>4. Routes[i].path \in Seq(Words)
  BY TableIs, RoutesAre DEF RouteRecord
<1>11. n = 1 => first = "/" /\ needs \in {"nothing"}
  <2>. HAVE n = 1
  <2>1. InSection(Routes[i], 1) /\ Heads(1, 1, "/", "x")
    BY <1>1, SectionHeads
  <2>2. first = "/" /\ Len(Routes[i].path) >= 1
    BY <1>4, <2>1, RouteHead
  <2>3. needs \in Sections[1].needs
    BY <1>4, <2>1, RouteHead
  <2>. QED
    BY <1>3, <2>2, <2>3
<1>12. n = 2 => first = "auth" /\ needs \in {"nothing", "session", "verified"}
  <2>. HAVE n = 2
  <2>1. InSection(Routes[i], 2) /\ Heads(2, 1, "auth", "x")
    BY <1>1, SectionHeads
  <2>2. first = "auth" /\ Len(Routes[i].path) >= 1
    BY <1>4, <2>1, RouteHead
  <2>3. needs \in Sections[2].needs
    BY <1>4, <2>1, RouteHead
  <2>. QED
    BY <1>3, <2>2, <2>3
<1>13. n = 3 => first = "coreelements" /\ needs \in {"typed"}
  <2>. HAVE n = 3
  <2>1. InSection(Routes[i], 3) /\ Heads(3, 1, "coreelements", "x")
    BY <1>1, SectionHeads
  <2>2. first = "coreelements" /\ Len(Routes[i].path) >= 1
    BY <1>4, <2>1, RouteHead
  <2>3. needs \in Sections[3].needs
    BY <1>4, <2>1, RouteHead
  <2>. QED
    BY <1>3, <2>2, <2>3
<1>14. n = 4 => first = "artists" /\ needs \in {"artistMaintain"}
  <2>. HAVE n = 4
  <2>1. InSection(Routes[i], 4) /\ Heads(4, 1, "artists", "x")
    BY <1>1, SectionHeads
  <2>2. first = "artists" /\ Len(Routes[i].path) >= 1
    BY <1>4, <2>1, RouteHead
  <2>3. needs \in Sections[4].needs
    BY <1>4, <2>1, RouteHead
  <2>. QED
    BY <1>3, <2>2, <2>3
<1>15. n = 5 => first = "ordinariumworks" /\ needs \in {"ordinariumworkMaintain"}
  <2>. HAVE n = 5
  <2>1. InSection(Routes[i], 5) /\ Heads(5, 1, "ordinariumworks", "x")
    BY <1>1, SectionHeads
  <2>2. first = "ordinariumworks" /\ Len(Routes[i].path) >= 1
    BY <1>4, <2>1, RouteHead
  <2>3. needs \in Sections[5].needs
    BY <1>4, <2>1, RouteHead
  <2>. QED
    BY <1>3, <2>2, <2>3
<1>16. n = 6 => first = "propriumworks" /\ needs \in {"propriumworkMaintain"}
  <2>. HAVE n = 6
  <2>1. InSection(Routes[i], 6) /\ Heads(6, 1, "propriumworks", "x")
    BY <1>1, SectionHeads
  <2>2. first = "propriumworks" /\ Len(Routes[i].path) >= 1
    BY <1>4, <2>1, RouteHead
  <2>3. needs \in Sections[6].needs
    BY <1>4, <2>1, RouteHead
  <2>. QED
    BY <1>3, <2>2, <2>3
<1>17. n = 7 => first = "performances" /\ needs \in {"verified", "performanceMaintain", "performanceCast", "performanceChangeUserStatus", "performanceBilling"}
  <2>. HAVE n = 7
  <2>1. InSection(Routes[i], 7) /\ Heads(7, 1, "performances", "x")
    BY <1>1, SectionHeads
  <2>2. first = "performances" /\ Len(Routes[i].path) >= 1
    BY <1>4, <2>1, RouteHead
  <2>3. needs \in Sections[7].needs
    BY <1>4, <2>1, RouteHead
  <2>. QED
    BY <1>3, <2>2, <2>3
<1>18. n = 8 => first = "fees" /\ needs \in {"feeMaintain"}
  <2>. HAVE n = 8
  <2>1. InSection(Routes[i], 8) /\ Heads(8, 1, "fees", "x")
    BY <1>1, SectionHeads
  <2>2. first = "fees" /\ Len(Routes[i].path) >= 1
    BY <1>4, <2>1, RouteHead
  <2>3. needs \in Sections[8].needs
    BY <1>4, <2>1, RouteHead
  <2>. QED
    BY <1>3, <2>2, <2>3
<1>19. n = 9 => first = "users" /\ needs \in {"userMaintain"}
  <2>. HAVE n = 9
  <2>1. InSection(Routes[i], 9) /\ Heads(9, 1, "users", "x")
    BY <1>1, SectionHeads
  <2>2. first = "users" /\ Len(Routes[i].path) >= 1
    BY <1>4, <2>1, RouteHead
  <2>3. needs \in Sections[9].needs
    BY <1>4, <2>1, RouteHead
  <2>. QED
    BY <1>3, <2>2, <2>3
<1>20. n = 10 => first = "userdirectory" /\ needs \in {"userMaintain"}
  <2>. HAVE n = 10
  <2>1. InSection(Routes[i], 10) /\ Heads(10, 1, "userdirectory", "x")
    BY <1>1, SectionHeads
  <2>2. first = "userdirectory" /\ Len(Routes[i].path) >= 1
    BY <1>4, <2>1, RouteHead
  <2>3. needs \in Sections[10].needs
    BY <1>4, <2>1, RouteHead
  <2>. QED
    BY <1>3, <2>2, <2>3
<1>21. n = 11 => first = "administrator" /\ needs \in {"userAdministrate"}
                 /\ Len(Routes[i].path) >= 2 /\ Routes[i].path[2] = "users"
  <2>. HAVE n = 11
  <2>1. InSection(Routes[i], 11) /\ Heads(11, 2, "administrator", "users")
    BY <1>1, SectionHeads
  <2>2. first = "administrator" /\ Len(Routes[i].path) >= 2 /\ Routes[i].path[2] = "users"
    BY <1>4, <2>1, RouteHead
  <2>3. needs \in Sections[11].needs
    BY <1>4, <2>1, RouteHead
  <2>. QED
    BY <1>3, <2>2, <2>3
<1>22. n = 12 => first = "profile" /\ needs \in {"verified"}
  <2>. HAVE n = 12
  <2>1. InSection(Routes[i], 12) /\ Heads(12, 1, "profile", "x")
    BY <1>1, SectionHeads
  <2>2. first = "profile" /\ Len(Routes[i].path) >= 1
    BY <1>4, <2>1, RouteHead
  <2>3. needs \in Sections[12].needs
    BY <1>4, <2>1, RouteHead
  <2>. QED
    BY <1>3, <2>2, <2>3
<1>23. n = 13 => first = "support" /\ needs \in {"verified"}
  <2>. HAVE n = 13
  <2>1. InSection(Routes[i], 13) /\ Heads(13, 1, "support", "x")
    BY <1>1, SectionHeads
  <2>2. first = "support" /\ Len(Routes[i].path) >= 1
    BY <1>4, <2>1, RouteHead
  <2>3. needs \in Sections[13].needs
    BY <1>4, <2>1, RouteHead
  <2>. QED
    BY <1>3, <2>2, <2>3
<1>24. n = 14 => first = "administrator" /\ needs \in {"sentEmailView"}
                 /\ Len(Routes[i].path) >= 2 /\ Routes[i].path[2] = "sent-emails"
  <2>. HAVE n = 14
  <2>1. InSection(Routes[i], 14) /\ Heads(14, 2, "administrator", "sent-emails")
    BY <1>1, SectionHeads
  <2>2. first = "administrator" /\ Len(Routes[i].path) >= 2 /\ Routes[i].path[2] = "sent-emails"
    BY <1>4, <2>1, RouteHead
  <2>3. needs \in Sections[14].needs
    BY <1>4, <2>1, RouteHead
  <2>. QED
    BY <1>3, <2>2, <2>3
<1>25. n = 15 => first = "administrator" /\ needs \in {"requestLogView"}
                 /\ Len(Routes[i].path) >= 2 /\ Routes[i].path[2] = "request-logs"
  <2>. HAVE n = 15
  <2>1. InSection(Routes[i], 15) /\ Heads(15, 2, "administrator", "request-logs")
    BY <1>1, SectionHeads
  <2>2. first = "administrator" /\ Len(Routes[i].path) >= 2 /\ Routes[i].path[2] = "request-logs"
    BY <1>4, <2>1, RouteHead
  <2>3. needs \in Sections[15].needs
    BY <1>4, <2>1, RouteHead
  <2>. QED
    BY <1>3, <2>2, <2>3
<1>26. n = 16 => first = "administrator" /\ needs \in {"sqlInspectorView"}
                 /\ Len(Routes[i].path) >= 2 /\ Routes[i].path[2] = "sql-inspector"
  <2>. HAVE n = 16
  <2>1. InSection(Routes[i], 16) /\ Heads(16, 2, "administrator", "sql-inspector")
    BY <1>1, SectionHeads
  <2>2. first = "administrator" /\ Len(Routes[i].path) >= 2 /\ Routes[i].path[2] = "sql-inspector"
    BY <1>4, <2>1, RouteHead
  <2>3. needs \in Sections[16].needs
    BY <1>4, <2>1, RouteHead
  <2>. QED
    BY <1>3, <2>2, <2>3
<1>27. n = 17 => first = "administrator" /\ needs \in {"schedulerView"}
                 /\ Len(Routes[i].path) >= 2 /\ Routes[i].path[2] = "scheduler"
  <2>. HAVE n = 17
  <2>1. InSection(Routes[i], 17) /\ Heads(17, 2, "administrator", "scheduler")
    BY <1>1, SectionHeads
  <2>2. first = "administrator" /\ Len(Routes[i].path) >= 2 /\ Routes[i].path[2] = "scheduler"
    BY <1>4, <2>1, RouteHead
  <2>3. needs \in Sections[17].needs
    BY <1>4, <2>1, RouteHead
  <2>. QED
    BY <1>3, <2>2, <2>3
<1>28. n = 18 => first = "statistics" /\ needs \in {"verified"}
  <2>. HAVE n = 18
  <2>1. InSection(Routes[i], 18) /\ Heads(18, 1, "statistics", "x")
    BY <1>1, SectionHeads
  <2>2. first = "statistics" /\ Len(Routes[i].path) >= 1
    BY <1>4, <2>1, RouteHead
  <2>3. needs \in Sections[18].needs
    BY <1>4, <2>1, RouteHead
  <2>. QED
    BY <1>3, <2>2, <2>3
<1>29. n = 19 => first = "system" /\ needs \in {"verified"}
  <2>. HAVE n = 19
  <2>1. InSection(Routes[i], 19) /\ Heads(19, 1, "system", "x")
    BY <1>1, SectionHeads
  <2>2. first = "system" /\ Len(Routes[i].path) >= 1
    BY <1>4, <2>1, RouteHead
  <2>3. needs \in Sections[19].needs
    BY <1>4, <2>1, RouteHead
  <2>. QED
    BY <1>3, <2>2, <2>3
<1>30. n = 20 => first = "shorturls" /\ needs \in {"shorturlMaintain"}
  <2>. HAVE n = 20
  <2>1. InSection(Routes[i], 20) /\ Heads(20, 1, "shorturls", "x")
    BY <1>1, SectionHeads
  <2>2. first = "shorturls" /\ Len(Routes[i].path) >= 1
    BY <1>4, <2>1, RouteHead
  <2>3. needs \in Sections[20].needs
    BY <1>4, <2>1, RouteHead
  <2>. QED
    BY <1>3, <2>2, <2>3
<1>31. n = 21 => first = "scores" /\ needs \in {"scoreMaintain"}
  <2>. HAVE n = 21
  <2>1. InSection(Routes[i], 21) /\ Heads(21, 1, "scores", "x")
    BY <1>1, SectionHeads
  <2>2. first = "scores" /\ Len(Routes[i].path) >= 1
    BY <1>4, <2>1, RouteHead
  <2>3. needs \in Sections[21].needs
    BY <1>4, <2>1, RouteHead
  <2>. QED
    BY <1>3, <2>2, <2>3
<1>32. n = 22 => first = "go" /\ needs \in {"nothing"}
  <2>. HAVE n = 22
  <2>1. InSection(Routes[i], 22) /\ Heads(22, 1, "go", "x")
    BY <1>1, SectionHeads
  <2>2. first = "go" /\ Len(Routes[i].path) >= 1
    BY <1>4, <2>1, RouteHead
  <2>3. needs \in Sections[22].needs
    BY <1>4, <2>1, RouteHead
  <2>. QED
    BY <1>3, <2>2, <2>3
<1>40. Len(Routes[i].path) >= 1
  <2>1. \E len \in {1, 2} : \E x, y : Heads(n, len, x, y)
    BY <1>2, SectionHeads
  <2>. QED
    BY <1>1, <1>4, <2>1, RouteHead
<1>41. first \notin Taken
  BY <1>2, <1>11, <1>12, <1>13, <1>14, <1>15, <1>16, <1>17, <1>18, <1>19, <1>20, <1>21, <1>22, <1>23, <1>24, <1>25, <1>26, <1>27, <1>28, <1>29, <1>30, <1>31, <1>32, LiteralHeads
<1>42. first = "administrator" => Len(Routes[i].path) >= 2 /\ Routes[i].path[2] \notin Taken
  BY <1>2, <1>11, <1>12, <1>13, <1>14, <1>15, <1>16, <1>17, <1>18, <1>19, <1>20, <1>21, <1>22, <1>23, <1>24, <1>25, <1>26, <1>27, <1>28, <1>29, <1>30, <1>31, <1>32, LiteralHeads
<1>. QED
  BY <1>2, <1>40, <1>41, <1>42, <1>11, <1>12, <1>13, <1>14, <1>15, <1>16, <1>17, <1>18, <1>19, <1>20, <1>21, <1>22, <1>23, <1>24, <1>25, <1>26, <1>27, <1>28, <1>29, <1>30, <1>31, <1>32

\* A permission is granted to verified accounts whose roles or flag give it.
LEMMA LetsInPlain ==
  ASSUME NEW who, NEW path, NEW needs, needs \notin {"nothing", "session", "verified", "typed"}
  PROVE  LetsIn(who, needs, path) <=>
           who.account = "verified" /\ needs \in Permissions(who.roles, who.administrator)
BY DEF LetsIn

LEMMA LetsInOutside ==
  ASSUME NEW who, who.account # "verified", NEW path, NEW needs, LetsIn(who, needs, path)
  PROVE  needs \in {"nothing", "session"}
BY DEF LetsIn

\* Who may change works may see the artists, who administers may see accounts.
LEMMA PermissionsGo ==
  ASSUME NEW roles, NEW administrator
  PROVE  /\ "ordinariumworkMaintain" \in Permissions(roles, administrator)
              => "artistMaintain" \in Permissions(roles, administrator)
         /\ "propriumworkMaintain" \in Permissions(roles, administrator)
              => "artistMaintain" \in Permissions(roles, administrator)
         /\ "userAdministrate" \in Permissions(roles, administrator)
              => "userMaintain" \in Permissions(roles, administrator)
BY DEF Permissions

LEMMA RoutesInvSafe == RoutesInv => RoutesSafe
<1>. SUFFICES ASSUME RoutesInv PROVE RoutesSafe
  OBVIOUS
<1>1. CASE asked = NoRequest /\ reply = NoReply
  BY <1>1 DEF RoutesSafe, RoutesOK, EveryRouteReached, OutsideUntilVerified, FormsLoad, NoRequest, NoReply
<1>2. ASSUME NEW i \in 1..Len(Routes), NEW path \in Concrete(Routes[i].path),
             asked = [route |-> i, method |-> Routes[i].method, path |-> path],
             \/ reply = NoReply
             \/ reply = [status |-> IF LetsIn(caller, Routes[i].needs, path) THEN "served" ELSE "refused",
                         route |-> i]
      PROVE  RoutesSafe
  <2>1. RoutesOK
    BY <1>2, TableIs DEF RoutesOK, NoReply
  <2>2. EveryRouteReached
    BY <1>2 DEF EveryRouteReached
  <2>3. ASSUME reply.status = "served"
        PROVE  reply.route = i /\ LetsIn(caller, Routes[i].needs, path)
    BY <1>2, <2>3 DEF NoReply
  <2>4. OutsideUntilVerified
    BY <2>3, LetsInOutside, RouteOfSection DEF OutsideUntilVerified
  <2>5. asked.path = path /\ Routes[i].path \in Seq(Words)
    BY <1>2, TableIs, RoutesAre DEF RouteRecord
  <2>6. /\ path[1] = Routes[i].path[1]
        /\ path[1] = "administrator" => path[2] = Routes[i].path[2]
    <3>1. /\ Len(Routes[i].path) >= 1 /\ Routes[i].path[1] \notin Parameters
          /\ Routes[i].path[1] = "administrator" =>
               Len(Routes[i].path) >= 2 /\ Routes[i].path[2] \notin Parameters
      BY RouteOfSection DEF Taken
    <3>. QED
      BY <2>5, <3>1, ConcreteIs
  <2>7. ASSUME NEW r \in DOMAIN Routes, reply.status = "served",
               \/ Routes[r].path[1] = path[1]
                    /\ path[1] \in {"artists", "ordinariumworks", "propriumworks", "fees", "users",
                                    "shorturls", "scores"}
               \/ Routes[r].path = <<"artists", "composers">>
                    /\ path[1] \in {"ordinariumworks", "propriumworks"}
               \/ Routes[r].path[1] = "users" /\ path[1] = "administrator" /\ path[2] = "users"
        PROVE  LetsIn(caller, Routes[r].needs, Routes[r].path)
    <3>1. LetsIn(caller, Routes[i].needs, path) /\ r \in 1..Len(Routes)
      BY <2>3, <2>7, TableIs
    <3>2. CASE /\ Routes[r].path[1] = path[1]
               /\ path[1] \in {"artists", "ordinariumworks", "propriumworks", "fees", "users",
                               "shorturls", "scores"}
      <4>1. /\ Routes[r].needs = Routes[i].needs
            /\ Routes[i].needs \notin {"nothing", "session", "verified", "typed"}
        BY <2>6, <3>1, <3>2, RouteOfSection
      <4>. QED
        BY <3>1, <4>1, LetsInPlain
    <3>3. CASE /\ Routes[r].path = <<"artists", "composers">>
               /\ path[1] \in {"ordinariumworks", "propriumworks"}
      <4>1. /\ Routes[r].needs = "artistMaintain"
            /\ Routes[i].needs \in {"ordinariumworkMaintain", "propriumworkMaintain"}
        BY <2>6, <3>1, <3>3, RouteOfSection
      <4>. QED
        BY <3>1, <4>1, LetsInPlain, PermissionsGo
    <3>4. CASE Routes[r].path[1] = "users" /\ path[1] = "administrator" /\ path[2] = "users"
      <4>1. Routes[r].needs = "userMaintain"
        BY <3>1, <3>4, RouteOfSection
      <4>2. Routes[i].path[1] = "administrator" /\ Routes[i].path[2] = "users"
        BY <2>6, <3>4
      <4>3. Routes[i].needs = "userAdministrate"
        BY <4>2, RouteOfSection
      <4>. QED
        BY <3>1, <4>1, <4>3, LetsInPlain, PermissionsGo
    <3>. QED
      BY <2>7, <3>2, <3>3, <3>4
  <2>8. FormsLoad
    BY <2>5, <2>7, Zenon DEF FormsLoad
  <2>. QED
    BY <2>1, <2>2, <2>4, <2>8 DEF RoutesSafe
<1>. QED
  BY <1>1, <1>2, Zenon DEF RoutesInv

\* src/main.py and the routers, whatever is asked: the route a request was meant
\* for answers it, nobody who is not signed in or not verified is served
\* beyond the sessions and the short links, and whoever may open a form may
\* load what it offers.
THEOREM RoutesSound == Spec => []RoutesSafe
<1>1. Init => RoutesInv
  BY RoutesInvInit DEF Init
<1>2. RoutesInv /\ [Next]_vars => RoutesInv'
  <2>. SUFFICES ASSUME RoutesInv, [Next]_vars PROVE RoutesInv'
    OBVIOUS
  <2>1. CASE OnRoutes
    BY <2>1, RoutesInvNext DEF OnRoutes
  <2>2. CASE UNCHANGED routeVars
    BY <2>2, Zenon DEF routeVars, RoutesInv, LetsIn
  <2>3. OnRoutes \/ UNCHANGED routeVars
    BY DEF Next, vars, OnSessions, OnThrottle, OnAddresses, OnStaff, OnBindings
  <2>. QED
    BY <2>1, <2>2, <2>3
<1>. QED
  BY <1>1, <1>2, RoutesInvSafe, PTL DEF Spec
=============================================================================
