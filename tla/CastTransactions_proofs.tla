---------------------- MODULE CastTransactions_proofs ----------------------
(***************************************************************************)
(* Proofs about CastTransactions, for any number of requests in flight,    *)
(* users and positions: the tables stay consistent under every interleaving*)
(* of the statements (TablesConsistent), what one request decided no other *)
(* undoes (DecisionsKept), and each handler alone is Casting's action      *)
(* (AloneAsStated).                                                        *)
(*                                                                         *)
(* The argument.  Of two row versions of one user the younger was written  *)
(* by a transaction that has deleted the older: the unique key admits no   *)
(* other insertion.  Whoever has ended deletes nothing, so two committed   *)
(* versions are never of one user.  A transaction that has cleared the     *)
(* rejections has written every request, so a second one waits: between    *)
(* its look at the bookings and its commit no other save commits.  A       *)
(* withdrawn request is gone or locked until its transaction ends, and     *)
(* then there is none to write.                                            *)
(*                                                                         *)
(* A request that runs before any other starts leaves the bookings as the  *)
(* action of Casting states that stands for it (AloneAsStated): the        *)
(* invariant says at each of its statements what it sees of them.          *)
(***************************************************************************)
EXTENDS CastTransactions, FiniteSetTheorems, WellFoundedInduction, TLAPS

Version == [user : Users, pos : Positions, order : Nat, by : Tx \cup {Initial}]

Call == [step : Steps, left : SUBSET Positions, lists : [Positions -> Lists], queue : Lists,
         at : 0..NPositions, waits : SUBSET (Users \cup Version), then : Steps,
         doing : {"nothing", "save", "ask", "withdraw", "commit", "update"}]

Written == UNION {[S -> RequestStates] : S \in SUBSET Users}

Types ==
  /\ work \in Work
  /\ gone \in BOOLEAN
  /\ setup \subseteq Positions
  /\ rows \subseteq Version
  /\ dead \subseteq rows \X Tx
  /\ requests \in [Users -> RequestStates]
  /\ tx \in [Tx -> Call]
  /\ writes \in [Tx -> Written]

\* Where a request of kind k may stand, and what it holds there.
CallOK(k, c) ==
  /\ c.step \in {"members", "flush"} \/ (c.step = "wait" /\ c.then = "members")
       => c.at \in Positions
  /\ c.step = "wait" => c.then \in {"members", "purged"}
  /\ c.step \in {"wait", "remaining"} => c.waits \subseteq Version
  /\ c.step = "reject" => c.waits \subseteq Users
  /\ c.step \in {"clear", "booked", "reject"} => k = "save"
  /\ c.step = "ask" => k = "toggle" /\ c.doing = "ask"
  /\ c.step \in {"withdraw", "own", "remaining"} \/ c.doing = "withdraw" => k = "toggle"
  /\ c.step = "withdraw" => c.doing = "withdraw"
  /\ c.step = "drop" => k = "delete"
  /\ c.step = "start" => c.doing = "nothing"

CallsInv == \A t \in Tx : CallOK(work[t].kind, tx[t])

\* Who has not begun, or has ended, holds nothing.
IdleInv ==
  \A t \in Tx :
    /\ tx[t].step \in Ended \cup {"start", "drop", "withdraw"} =>
         DOMAIN writes[t] = {} /\ \A r \in rows : <<r, t>> \notin dead
    /\ tx[t].step \in {"start", "drop", "aborted"} => \A r \in rows : r.by # t

\* Of two versions of one user, the writer of one has deleted the other.
VersionsInv ==
  \A r, s \in rows : r.user = s.user /\ r # s =>
    \/ s.by \in Tx /\ <<r, s.by>> \in dead
    \/ r.by \in Tx /\ <<s, r.by>> \in dead

GoneInv ==
  gone => /\ rows = {}
          /\ \A u \in Users : requests[u] = "none"
          /\ \A t \in Tx : DOMAIN writes[t] = {}

\* u holds no booking that t sees.
NotCast(t, u) ==
  \A r \in rows : r.user = u /\ (r.by = t \/ Committed(r.by)) => <<r, t>> \in dead

AllSave == \A t \in Tx : work[t].kind = "save"

Asked == {u \in Users : requests[u] # "none"}

Locking == {"booked", "reject", "commit"}

\* From the clearing of the rejections to its commit a save holds every
\* request, and whom it rejects is not booked.
SavesInv ==
  AllSave =>
    /\ \A t \in Tx :
         /\ DOMAIN writes[t] = IF tx[t].step \in Locking THEN Asked ELSE {}
         /\ \A u \in DOMAIN writes[t] : writes[t][u] \in {"open", "rejected"}
         /\ \A o \in Tx \ {t} : DOMAIN writes[t] = {} \/ DOMAIN writes[o] = {}
         /\ tx[t].step = "reject" => \A u \in tx[t].waits \cap Asked : NotCast(t, u)
         /\ \A u \in DOMAIN writes[t] : writes[t][u] = "rejected" =>
              tx[t].step = "commit" /\ NotCast(t, u)
    /\ SavesRejectNobodyCast

\* The request is withdrawn.
Past(c) == c.doing = "withdraw" /\ c.step \notin {"withdraw", "aborted"}

WithdrawnInv ==
  \A t \in Tx : Past(tx[t]) /\ OnlyToggle(t) =>
    /\ Request(t, work[t].user) = "none"
    /\ \A o \in Tx \ {t} : work[t].user \notin DOMAIN writes[o]

IInv ==
  /\ Types
  /\ CallsInv
  /\ IdleInv
  /\ VersionsInv
  /\ GoneInv
  /\ SavesInv
  /\ WithdrawnInv

-----------------------------------------------------------------------------
(* Lists, and the work of a request. *)

LEMMA ListFacts ==
  ASSUME NEW l \in Lists
  PROVE  /\ l \in Seq(Users) /\ DOMAIN l = 1..Len(l) /\ Len(l) \in Nat
         /\ Len(l) <= Cardinality(Users) /\ Cardinality(Users) \in Nat
         /\ \A i \in DOMAIN l : l[i] \in Users
         /\ \A i, j \in DOMAIN l : l[i] = l[j] => i = j
         /\ Members(l) \subseteq Users
<1>1. Cardinality(Users) \in Nat BY UsersAssumption, FS_CardinalityType
<1>2. PICK n \in 0..Cardinality(Users) : l \in [1..n -> Users] BY DEF Lists
<1>3. n \in Nat /\ n <= Cardinality(Users) BY <1>1, <1>2
<1>4. l \in Seq(Users) /\ Len(l) = n /\ DOMAIN l = 1..n BY <1>2, <1>3
<1>5. \A i, j \in DOMAIN l : l[i] = l[j] => i = j BY DEF Lists
<1> QED BY <1>1, <1>2, <1>3, <1>4, <1>5 DEF Members

LEMMA ListIs ==
  ASSUME NEW l \in Seq(Users), Len(l) <= Cardinality(Users),
         \A i, j \in DOMAIN l : l[i] = l[j] => i = j
  PROVE  l \in Lists
<1>1. Cardinality(Users) \in Nat BY UsersAssumption, FS_CardinalityType
<1>2. Len(l) \in 0..Cardinality(Users) /\ l \in [1..Len(l) -> Users] BY <1>1
<1> QED BY <1>2 DEF Lists

LEMMA EmptyList == <<>> \in Lists /\ Members(<<>>) = {}
<1>1. Cardinality(Users) \in Nat BY UsersAssumption, FS_CardinalityType
<1> DEFINE e == <<>>
<1>2. e \in Seq(Users) /\ Len(e) = 0 /\ DOMAIN e = {} OBVIOUS
<1>3. Members(e) = {} BY <1>2 DEF Members
<1> HIDE DEF e
<1>4. Len(e) <= Cardinality(Users) BY <1>1, <1>2
<1>5. e \in Lists BY <1>2, <1>4, ListIs
<1> QED BY <1>3, <1>5 DEF e

LEMMA TailList ==
  ASSUME NEW l \in Lists, l # <<>>
  PROVE  Head(l) \in Users /\ Tail(l) \in Lists
<1>1. l \in Seq(Users) /\ Len(l) \in Nat /\ DOMAIN l = 1..Len(l)
      /\ Len(l) <= Cardinality(Users) /\ Cardinality(Users) \in Nat
  BY ListFacts
<1>2. Head(l) \in Users /\ Tail(l) \in Seq(Users) /\ Len(Tail(l)) = Len(l) - 1
  BY <1>1
<1>3. DOMAIN Tail(l) = 1..(Len(l) - 1) /\ \A i \in 1..(Len(l) - 1) : Tail(l)[i] = l[i + 1]
  BY <1>1, <1>2
<1>4. ASSUME NEW i \in DOMAIN Tail(l), NEW j \in DOMAIN Tail(l), Tail(l)[i] = Tail(l)[j]
      PROVE  i = j
  <2>1. i \in Nat /\ j \in Nat /\ i + 1 \in DOMAIN l /\ j + 1 \in DOMAIN l
        /\ l[i + 1] = l[j + 1]
    BY <1>1, <1>3, <1>4
  <2>2. i + 1 = j + 1 BY <2>1, ListFacts
  <2> QED BY <2>1, <2>2
<1>5. \A i, j \in DOMAIN Tail(l) : Tail(l)[i] = Tail(l)[j] => i = j BY <1>4
<1>6. Len(Tail(l)) <= Cardinality(Users) BY <1>1, <1>2
<1> DEFINE m == Tail(l)
<1>7. /\ m \in Seq(Users) /\ Len(m) <= Cardinality(Users)
      /\ \A i, j \in DOMAIN m : m[i] = m[j] => i = j
  BY <1>2, <1>5, <1>6
<1> HIDE DEF m
<1>8. m \in Lists BY <1>7, ListIs
<1> QED BY <1>2, <1>8 DEF m

\* The loops visit the least position first: there is one.
LEMMA LeastPosition ==
  ASSUME NEW left \in SUBSET Positions, left # {}
  PROVE  \E q \in left : \A o \in left : q <= o
<1> DEFINE below(n) == \A o \in left : n <= o
<1>1. left \subseteq Nat BY PositionsAssumption DEF Positions
<1>2. OpToRel(<, Nat) = {p \in Nat \X Nat : p[1] < p[2]} BY Zenon DEF OpToRel
<1>3. PICK n \in left : \A m \in left : <<m, n>> \notin OpToRel(<, Nat)
  BY <1>1, WFMin, NatLessThanWellFounded, Zenon
<1>4. \A m \in left : <<m, n>> \in Nat \X Nat BY <1>1
<1>5. \A m \in left : ~(<<m, n>>[1] < <<m, n>>[2]) BY <1>2, <1>3, <1>4, Zenon
<1>6. \A m \in left : ~(m < n) BY <1>5
<1> QED BY <1>1, <1>6

LEMMA WorkFacts ==
  ASSUME Types, NEW t \in Tx
  PROVE  /\ work[t].kind \in {"save", "toggle", "update", "delete"}
         /\ work[t].kind = "save" =>
              work[t].lists \in [Positions -> Lists] /\ work[t].rejected \subseteq Users
         /\ work[t].kind = "toggle" => work[t].user \in Users
         /\ work[t].kind = "update" => work[t].setup \subseteq Positions
         /\ tx[t] \in Call
BY WorkAssumption DEF Types

\* What is written to the requests, read as one table.
LEMMA WrittenFacts ==
  ASSUME Types, NEW t \in Tx
  PROVE  /\ DOMAIN writes[t] \subseteq Users
         /\ \A u \in DOMAIN writes[t] : writes[t][u] \in RequestStates
         /\ \A u \in Users : Request(t, u) \in RequestStates
<1>1. writes[t] \in Written BY DEF Types
<1>2. DOMAIN writes[t] \subseteq Users /\ \A u \in DOMAIN writes[t] : writes[t][u] \in RequestStates
  BY <1>1 DEF Written
<1> QED BY <1>2 DEF Types, Request

LEMMA WriteFacts ==
  ASSUME Types, NEW t \in Tx, NEW users \in SUBSET Users, NEW value \in RequestStates,
         Write(t, users, value)
  PROVE  /\ writes' \in [Tx -> Written]
         /\ \A o \in Tx \ {t} : writes'[o] = writes[o]
         /\ DOMAIN writes'[t] = DOMAIN writes[t] \cup users
         /\ \A u \in users : writes'[t][u] = value
         /\ \A u \in DOMAIN writes[t] \ users : writes'[t][u] = writes[t][u]
<1> DEFINE w == [u \in DOMAIN writes[t] \cup users |-> IF u \in users THEN value ELSE writes[t][u]]
<1>1. DOMAIN writes[t] \subseteq Users
      /\ \A u \in DOMAIN writes[t] : writes[t][u] \in RequestStates
  BY WrittenFacts
<1>2. w \in [DOMAIN writes[t] \cup users -> RequestStates] BY <1>1
<1>3. DOMAIN writes[t] \cup users \in SUBSET Users BY <1>1
<1>4. w \in Written BY <1>2, <1>3 DEF Written
<1>5. /\ DOMAIN w = DOMAIN writes[t] \cup users
      /\ \A u \in users : w[u] = value
      /\ \A u \in DOMAIN writes[t] \ users : w[u] = writes[t][u]
  OBVIOUS
<1>6. writes' = [writes EXCEPT ![t] = w] BY DEF Write
<1> HIDE DEF w
<1>7. writes'[t] = w /\ \A o \in Tx \ {t} : writes'[o] = writes[o]
  BY <1>6 DEF Types
<1> QED BY <1>4, <1>5, <1>6, <1>7 DEF Types

\* One request moves, the others stand still.
LEMMA Moved ==
  ASSUME Types, CallsInv, NEW t \in Tx, NEW next \in Call, tx' = [tx EXCEPT ![t] = next],
         CallOK(work[t].kind, next), UNCHANGED work
  PROVE  /\ tx' \in [Tx -> Call] /\ tx'[t] = next
         /\ \A o \in Tx \ {t} : tx'[o] = tx[o]
         /\ CallsInv'
<1>1. tx' \in [Tx -> Call] /\ tx'[t] = next /\ \A o \in Tx \ {t} : tx'[o] = tx[o]
  BY DEF Types
<1>2. \A o \in Tx : CallOK(work[o].kind, tx'[o]) BY <1>1 DEF CallsInv
<1> QED BY <1>1, <1>2 DEF CallsInv

-----------------------------------------------------------------------------
LEMMA InitInv == Init => IInv
<1> SUFFICES ASSUME Init PROVE IInv OBVIOUS
<1> DEFINE c0 == [step |-> "start", left |-> {}, lists |-> [p \in Positions |-> <<>>],
                  queue |-> <<>>, at |-> 0, waits |-> {}, then |-> "start", doing |-> "nothing"]
<1>1. /\ work \in Work /\ gone = FALSE /\ dead = {} /\ setup \subseteq Positions
      /\ requests \in [Users -> {"none", "open"}] /\ writes = [t \in Tx |-> Nothing]
      /\ tx = [t \in Tx |-> c0]
  BY DEF Init
<1>2. PICK at \in [Positions -> Lists] :
        /\ \A p, q \in Positions : p # q => Members(at[p]) \cap Members(at[q]) = {}
        /\ rows = OrderedRows(at)
  BY DEF Init
<1>3. ASSUME NEW r \in rows
      PROVE  \E p \in Positions : \E i \in DOMAIN at[p] :
               r = [user |-> at[p][i], pos |-> p, order |-> i - 1, by |-> Initial]
  BY <1>2 DEF OrderedRows
<1>4. ASSUME NEW r \in rows PROVE r \in Version /\ r.by = Initial
  <2>6. PICK p \in Positions : \E i \in DOMAIN at[p] :
          r = [user |-> at[p][i], pos |-> p, order |-> i - 1, by |-> Initial]
    BY <1>3
  <2>1. PICK i \in DOMAIN at[p] :
          r = [user |-> at[p][i], pos |-> p, order |-> i - 1, by |-> Initial]
    BY <2>6
  <2>2. at[p][i] \in Users /\ i \in 1..Len(at[p]) /\ Len(at[p]) \in Nat BY ListFacts
  <2>3. i - 1 \in Nat BY <2>2
  <2> QED BY <2>1, <2>2, <2>3 DEF Version
<1>5. c0 \in Call
  <2>1. <<>> \in Lists BY EmptyList
  <2>2. 0 \in 0..NPositions BY PositionsAssumption
  <2> QED BY <2>1, <2>2 DEF Call, Steps
<1>6. CallOK("save", c0) /\ CallOK("toggle", c0) /\ CallOK("update", c0) /\ CallOK("delete", c0)
      /\ c0.step = "start" /\ c0.doing = "nothing"
  BY DEF CallOK
<1>7. Nothing \in Written /\ DOMAIN Nothing = {}
  <2>1. Nothing \in [{} -> RequestStates] /\ DOMAIN Nothing = {} BY DEF Nothing
  <2> QED BY <2>1 DEF Written
<1> HIDE DEF c0
<1>8. Types BY <1>1, <1>4, <1>5, <1>7 DEF Types, RequestStates
<1>9. \A t \in Tx : tx[t] = c0 /\ writes[t] = Nothing BY <1>1
<1>10. CallsInv BY <1>6, <1>8, <1>9, WorkFacts DEF CallsInv
<1>11. IdleInv BY <1>1, <1>4, <1>7, <1>9, InitialAssumption DEF IdleInv
<1>12. ASSUME NEW r \in rows, NEW s \in rows, r.user = s.user PROVE r = s
  <2>6. PICK p \in Positions : \E i \in DOMAIN at[p] :
          r = [user |-> at[p][i], pos |-> p, order |-> i - 1, by |-> Initial]
    BY <1>3
  <2>1. PICK i \in DOMAIN at[p] :
          r = [user |-> at[p][i], pos |-> p, order |-> i - 1, by |-> Initial]
    BY <2>6
  <2>7. PICK q \in Positions : \E j \in DOMAIN at[q] :
          s = [user |-> at[q][j], pos |-> q, order |-> j - 1, by |-> Initial]
    BY <1>3
  <2>2. PICK j \in DOMAIN at[q] :
          s = [user |-> at[q][j], pos |-> q, order |-> j - 1, by |-> Initial]
    BY <2>7
  <2>3. at[p][i] = at[q][j] BY <1>12, <2>1, <2>2
  <2>4. p = q BY <1>2, <2>3 DEF Members
  <2>5. i = j BY <2>3, <2>4, ListFacts
  <2> QED BY <2>1, <2>2, <2>4, <2>5
<1>13. VersionsInv BY <1>12 DEF VersionsInv
<1>14. GoneInv BY <1>1 DEF GoneInv
<1>15. SavesInv
  BY <1>1, <1>6, <1>7, <1>9 DEF SavesInv, SavesRejectNobodyCast, Locking
<1>16. WithdrawnInv BY <1>6, <1>9 DEF WithdrawnInv, Past
<1> QED BY <1>8, <1>10, <1>11, <1>13, <1>14, <1>15, <1>16 DEF IInv

-----------------------------------------------------------------------------
(* How a request moves on. *)

\* A SELECT, or no statement at all.
Quiet(t, next) ==
  /\ next \in Call /\ CallOK(work[t].kind, next) /\ tx' = [tx EXCEPT ![t] = next]
  /\ UNCHANGED <<work, gone, setup, rows, dead, requests, writes>>
  /\ next.step \notin {"start", "committed"}
  /\ tx[t].step \notin Ended
  /\ next.step \in {"drop", "aborted", "withdraw"} => tx[t].step = "start"
  /\ Past(next) => Past(tx[t])
  /\ work[t].kind = "save" =>
       \/ tx[t].step \notin Locking /\ next.step \notin Locking
       \/ /\ tx[t].step = "booked" /\ next.step = "reject"
          /\ \A u \in next.waits : NotCast(t, u)

LEMMA QuietStarts ==
  ASSUME Types, CallsInv, NEW t \in Tx,
         StartSave(t) \/ StartToggle(t) \/ StartUpdate(t) \/ StartDelete(t)
  PROVE  \E next : Quiet(t, next)
<1> DEFINE c == tx[t]
<1>1. c \in Call /\ c.step = "start" /\ c.doing = "nothing" /\ CallOK(work[t].kind, c)
      /\ UNCHANGED <<work, gone, setup, rows, dead, requests, writes>>
  BY WorkFacts DEF CallsInv, CallOK, StartSave, StartToggle, StartUpdate, StartDelete
<1>2. CASE StartSave(t)
  <2> DEFINE next == [c EXCEPT !.step = "visit", !.left = setup, !.lists = work[t].lists,
                               !.doing = "save"]
  <2>1. work[t].kind = "save" /\ tx' = [tx EXCEPT ![t] = next] BY <1>2 DEF StartSave
  <2>2. next \in Call /\ next.step = "visit" /\ next.doing = "save"
    BY <1>1, <2>1, WorkFacts DEF Call, Types, Steps
  <2>3. CallOK(work[t].kind, next) BY <2>1, <2>2 DEF CallOK
  <2> HIDE DEF next
  <2>4. Quiet(t, next) BY <1>1, <2>1, <2>2, <2>3 DEF Quiet, Past, Locking, Ended
  <2> QED BY <2>4
<1>3. CASE StartToggle(t)
  <2> DEFINE step == IF setup = {} THEN "commit"
                     ELSE IF (\E r \in Visible(t) : r.user = work[t].user)
                             \/ requests[work[t].user] # "none"
                          THEN "withdraw" ELSE "ask"
             next == [c EXCEPT !.step = step, !.doing = step]
  <2>1. work[t].kind = "toggle" /\ tx' = [tx EXCEPT ![t] = next] BY <1>3 DEF StartToggle
  <2>2. step \in {"commit", "withdraw", "ask"} OBVIOUS
  <2> HIDE DEF step
  <2>3. next \in Call /\ next.step = step /\ next.doing = step
    BY <1>1, <2>2 DEF Call, Steps
  <2>4. CallOK(work[t].kind, next) BY <2>1, <2>2, <2>3 DEF CallOK
  <2> HIDE DEF next
  <2>5. Quiet(t, next) BY <1>1, <2>1, <2>2, <2>3, <2>4 DEF Quiet, Past, Locking, Ended
  <2> QED BY <2>5
<1>4. CASE StartUpdate(t)
  <2> DEFINE next == [c EXCEPT !.step = "purge", !.left = setup \ work[t].setup,
                               !.doing = "update"]
  <2>1. work[t].kind = "update" /\ tx' = [tx EXCEPT ![t] = next] BY <1>4 DEF StartUpdate
  <2>2. next \in Call /\ next.step = "purge" /\ next.doing = "update"
    BY <1>1, <2>1 DEF Call, Types, Steps
  <2>3. CallOK(work[t].kind, next) BY <2>1, <2>2 DEF CallOK
  <2> HIDE DEF next
  <2>4. Quiet(t, next) BY <1>1, <2>1, <2>2, <2>3 DEF Quiet, Past, Locking, Ended
  <2> QED BY <2>4
<1>5. CASE StartDelete(t)
  <2> DEFINE step == IF Visible(t) # {} \/ \E u \in Users : requests[u] # "none"
                     THEN "aborted" ELSE "drop"
             next == [c EXCEPT !.step = step]
  <2>1. work[t].kind = "delete" /\ tx' = [tx EXCEPT ![t] = next] BY <1>5 DEF StartDelete
  <2>2. step \in {"aborted", "drop"} OBVIOUS
  <2> HIDE DEF step
  <2>3. next \in Call /\ next.step = step /\ next.doing = "nothing"
    BY <1>1, <2>2 DEF Call, Steps, Ended
  <2>4. CallOK(work[t].kind, next) BY <2>1, <2>2, <2>3 DEF CallOK
  <2> HIDE DEF next
  <2>5. Quiet(t, next) BY <1>1, <2>1, <2>2, <2>3, <2>4 DEF Quiet, Past, Locking, Ended
  <2> QED BY <2>5
<1> QED BY <1>2, <1>3, <1>4, <1>5

LEMMA QuietReads ==
  ASSUME Types, CallsInv, NEW t \in Tx,
         \/ NoMemberLeft(t) \/ AllVisited(t) \/ ReadBooked(t) \/ ReadOwn(t)
         \/ ReadRemaining(t) \/ (Purged(t) /\ ~gone) \/ ReadCast(t)
  PROVE  \E next : Quiet(t, next)
<1> DEFINE c == tx[t]
<1>1. c \in Call /\ CallOK(work[t].kind, c) BY WorkFacts DEF CallsInv
<1>2. CASE NoMemberLeft(t)
  <2> DEFINE next == [c EXCEPT !.step = "flush"]
  <2>1. c.step = "members" /\ tx' = [tx EXCEPT ![t] = next]
        /\ UNCHANGED <<work, gone, setup, rows, dead, requests, writes>>
    BY <1>2 DEF NoMemberLeft
  <2>2. next \in Call /\ next.step = "flush" /\ next.doing = c.doing /\ next.at = c.at
    BY <1>1 DEF Call, Steps
  <2>3. CallOK(work[t].kind, next) BY <1>1, <2>1, <2>2 DEF CallOK
  <2> HIDE DEF next
  <2>4. Quiet(t, next) BY <2>1, <2>2, <2>3 DEF Quiet, Past, Locking, Ended
  <2> QED BY <2>4
<1>3. CASE AllVisited(t)
  <2> DEFINE step == IF work[t].kind = "save" THEN "clear" ELSE "commit"
             next == [c EXCEPT !.step = step]
  <2>1. c.step = "visit" /\ tx' = [tx EXCEPT ![t] = next]
        /\ UNCHANGED <<work, gone, setup, rows, dead, requests, writes>>
    BY <1>3 DEF AllVisited
  <2>2. step \in {"clear", "commit"} /\ (work[t].kind = "save" <=> step = "clear") OBVIOUS
  <2> HIDE DEF step
  <2>3. next \in Call /\ next.step = step /\ next.doing = c.doing
    BY <1>1, <2>2 DEF Call, Steps
  <2>4. CallOK(work[t].kind, next) BY <1>1, <2>1, <2>2, <2>3 DEF CallOK
  <2> HIDE DEF next
  <2>5. Quiet(t, next) BY <2>1, <2>2, <2>3, <2>4 DEF Quiet, Past, Locking, Ended
  <2> QED BY <2>5
<1>4. CASE ReadBooked(t)
  <2> DEFINE waits == work[t].rejected \ {r.user : r \in Visible(t)}
             next == [c EXCEPT !.step = "reject", !.waits = waits]
  <2>1. c.step = "booked" /\ tx' = [tx EXCEPT ![t] = next]
        /\ UNCHANGED <<work, gone, setup, rows, dead, requests, writes>>
    BY <1>4 DEF ReadBooked
  <2>2. work[t].kind = "save" BY <1>1, <2>1 DEF CallOK
  <2>3. waits \subseteq Users BY <2>2, WorkFacts
  <2>4. \A u \in waits : NotCast(t, u) BY DEF NotCast, Visible
  <2> HIDE DEF waits
  <2>5. next \in Call /\ next.step = "reject" /\ next.doing = c.doing /\ next.waits = waits
    BY <1>1, <2>3 DEF Call, Steps
  <2>6. CallOK(work[t].kind, next) BY <1>1, <2>1, <2>2, <2>3, <2>5 DEF CallOK
  <2> HIDE DEF next
  <2>7. Quiet(t, next) BY <2>1, <2>4, <2>5, <2>6 DEF Quiet, Past, Locking, Ended
  <2> QED BY <2>7
<1>5. CASE ReadOwn(t)
  <2> DEFINE own == {r \in Visible(t) : r.user = work[t].user}
             step == IF own = {} THEN "commit" ELSE "remaining"
             next == [c EXCEPT !.step = step, !.waits = own]
  <2>1. c.step = "own" /\ tx' = [tx EXCEPT ![t] = next]
        /\ UNCHANGED <<work, gone, setup, rows, dead, requests, writes>>
    BY <1>5 DEF ReadOwn
  <2>2. own \subseteq Version BY DEF Visible, Types
  <2>3. step \in {"commit", "remaining"} OBVIOUS
  <2> HIDE DEF step, own
  <2>4. next \in Call /\ next.step = step /\ next.doing = c.doing /\ next.waits = own
    BY <1>1, <2>2, <2>3 DEF Call, Steps
  <2>5. work[t].kind = "toggle" BY <1>1, <2>1 DEF CallOK
  <2>6. CallOK(work[t].kind, next) BY <1>1, <2>2, <2>3, <2>4, <2>5 DEF CallOK
  <2> HIDE DEF next
  <2>7. Quiet(t, next) BY <2>1, <2>3, <2>4, <2>5, <2>6 DEF Quiet, Past, Locking, Ended
  <2> QED BY <2>7
<1>6. CASE ReadRemaining(t)
  <2>1. c.step = "remaining" /\ UNCHANGED <<work, gone, setup, rows, dead, requests, writes>>
    BY <1>6 DEF ReadRemaining
  <2>2. PICK own \in c.waits, list \in Lists :
          tx' = [tx EXCEPT ![t] = [c EXCEPT !.step = "visit", !.left = {own.pos}, !.waits = {},
                                            !.lists[own.pos] = list]]
    BY <1>6 DEF ReadRemaining
  <2>3. own \in Version /\ own.pos \in Positions BY <1>1, <2>1 DEF CallOK, Version
  <2> DEFINE lists == [c.lists EXCEPT ![own.pos] = list]
             next == [c EXCEPT !.step = "visit", !.left = {own.pos}, !.waits = {},
                               !.lists = lists]
  <2>4. tx' = [tx EXCEPT ![t] = next] BY <2>2
  <2>5. lists \in [Positions -> Lists] BY <1>1, <2>3 DEF Call
  <2> HIDE DEF lists
  <2>6. next \in Call /\ next.step = "visit" /\ next.doing = c.doing
    BY <1>1, <2>3, <2>5 DEF Call, Steps
  <2>7. CallOK(work[t].kind, next) BY <1>1, <2>6 DEF CallOK
  <2>8. work[t].kind = "toggle" BY <1>1, <2>1 DEF CallOK
  <2> HIDE DEF next
  <2>9. Quiet(t, next) BY <2>1, <2>4, <2>6, <2>7, <2>8 DEF Quiet, Past, Locking, Ended
  <2> QED BY <2>9
<1>7. CASE Purged(t) /\ ~gone
  <2> DEFINE next == [c EXCEPT !.step = "purge"]
  <2>1. c.step = "purged" /\ tx' = [tx EXCEPT ![t] = next]
        /\ UNCHANGED <<work, gone, setup, rows, dead, requests, writes>>
    BY <1>7 DEF Purged
  <2>2. next \in Call /\ next.step = "purge" /\ next.doing = c.doing
    BY <1>1 DEF Call, Steps
  <2>3. CallOK(work[t].kind, next) BY <1>1, <2>1, <2>2 DEF CallOK
  <2> HIDE DEF next
  <2>4. Quiet(t, next) BY <2>1, <2>2, <2>3 DEF Quiet, Past, Locking, Ended
  <2> QED BY <2>4
<1>8. CASE ReadCast(t)
  <2>1. PICK lists \in [Positions -> Lists] :
          tx' = [tx EXCEPT ![t] = [c EXCEPT !.step = "visit", !.lists = lists,
                                            !.left = work[t].setup \cap setup]]
    BY <1>8 DEF ReadCast
  <2> DEFINE next == [c EXCEPT !.step = "visit", !.lists = lists,
                               !.left = work[t].setup \cap setup]
  <2>2. c.step = "purge" /\ tx' = [tx EXCEPT ![t] = next]
        /\ UNCHANGED <<work, gone, setup, rows, dead, requests, writes>>
    BY <1>8, <2>1 DEF ReadCast
  <2>3. next \in Call /\ next.step = "visit" /\ next.doing = c.doing
    BY <1>1 DEF Call, Steps, Types
  <2>4. CallOK(work[t].kind, next) BY <1>1, <2>2, <2>3 DEF CallOK
  <2> HIDE DEF next
  <2>5. Quiet(t, next) BY <2>2, <2>3, <2>4 DEF Quiet, Past, Locking, Ended
  <2> QED BY <2>5
<1> QED BY <1>2, <1>3, <1>4, <1>5, <1>6, <1>7, <1>8

\* A step that writes no request and commits nothing: the saves stay coherent.
LEMMA SavesStay ==
  ASSUME Types, SavesInv, NEW t \in Tx,
         UNCHANGED <<work, requests, writes>>, CommittedRows' = CommittedRows,
         \A o \in Tx \ {t} : tx'[o] = tx[o],
         \A o \in Tx, u \in Users :
           (o # t \/ tx'[t].step \in Locking) /\ NotCast(o, u) => NotCast(o, u)',
         work[t].kind = "save" =>
           \/ tx[t].step \notin Locking /\ tx'[t].step \notin Locking
           \/ /\ tx[t].step = "booked" /\ tx'[t].step = "reject"
              /\ \A u \in tx'[t].waits : NotCast(t, u)
  PROVE  SavesInv'
<1>1. CASE ~AllSave BY <1>1 DEF SavesInv, AllSave
<1>2. CASE AllSave
  <2>1. AllSave' BY <1>2 DEF AllSave
  <2>2. SavesRejectNobodyCast' BY <1>2 DEF SavesInv, SavesRejectNobodyCast, AllSave
  <2>3. Asked' = Asked /\ Asked \subseteq Users BY DEF Asked
  <2>4. \A o \in Tx : DOMAIN writes[o] \subseteq Users BY WrittenFacts
  <2>5. \A o \in Tx :
          /\ DOMAIN writes[o] = IF tx[o].step \in Locking THEN Asked ELSE {}
          /\ \A u \in DOMAIN writes[o] : writes[o][u] \in {"open", "rejected"}
          /\ \A x \in Tx \ {o} : DOMAIN writes[o] = {} \/ DOMAIN writes[x] = {}
          /\ tx[o].step = "reject" => \A u \in tx[o].waits \cap Asked : NotCast(o, u)
          /\ \A u \in DOMAIN writes[o] : writes[o][u] = "rejected" =>
               tx[o].step = "commit" /\ NotCast(o, u)
    BY <1>2 DEF SavesInv
  <2>6. ASSUME NEW o \in Tx
        PROVE  /\ DOMAIN writes[o] = IF tx'[o].step \in Locking THEN Asked ELSE {}
               /\ tx'[o].step = "reject" => \A u \in tx'[o].waits \cap Asked : NotCast(o, u)'
               /\ \A u \in DOMAIN writes[o] : writes[o][u] = "rejected" =>
                    tx'[o].step = "commit" /\ NotCast(o, u)'
    <3>1. CASE o # t BY <2>3, <2>4, <2>5, <3>1
    <3>2. CASE o = t
      <4>1. CASE tx[t].step \notin Locking /\ tx'[t].step \notin Locking
        <5>1. DOMAIN writes[t] = {} BY <2>5, <4>1
        <5>2. tx'[t].step # "reject" BY <4>1 DEF Locking
        <5> QED BY <3>2, <4>1, <5>1, <5>2
      <4>2. CASE /\ tx[t].step = "booked" /\ tx'[t].step = "reject"
                 /\ \A u \in tx'[t].waits : NotCast(t, u)
        <5>1. tx[t].step \in Locking /\ tx'[t].step \in Locking BY <4>2 DEF Locking
        <5>2. \A u \in DOMAIN writes[t] : writes[t][u] # "rejected" BY <2>5, <4>2
        <5> QED BY <2>3, <2>5, <3>2, <4>2, <5>1, <5>2
      <4> QED BY <1>2, <4>1, <4>2 DEF AllSave
    <3> QED BY <3>1, <3>2
  <2>7. \A o \in Tx : writes'[o] = writes[o] OBVIOUS
  <2> QED BY <2>1, <2>2, <2>3, <2>5, <2>6, <2>7 DEF SavesInv
<1> QED BY <1>1, <1>2

LEMMA QuietStep == ASSUME IInv, NEW t \in Tx, NEW next, Quiet(t, next) PROVE IInv'
<1> USE DEF IInv
<1>1. /\ next \in Call /\ CallOK(work[t].kind, next) /\ tx' = [tx EXCEPT ![t] = next]
      /\ UNCHANGED <<work, gone, setup, rows, dead, requests, writes>>
      /\ next.step \notin {"start", "committed"}
      /\ tx[t].step \notin Ended
      /\ next.step \in {"drop", "aborted", "withdraw"} => tx[t].step = "start"
      /\ Past(next) => Past(tx[t])
  BY DEF Quiet
<1>2. /\ tx' \in [Tx -> Call] /\ tx'[t] = next
      /\ \A o \in Tx \ {t} : tx'[o] = tx[o]
      /\ CallsInv'
  BY <1>1, Moved
<1>3. Types' BY <1>1, <1>2 DEF Types
<1>4. IdleInv' BY <1>1, <1>2 DEF IdleInv, Ended
<1>5. VersionsInv' /\ GoneInv' BY <1>1 DEF VersionsInv, GoneInv
<1>6. \A w \in Tx \cup {Initial} : Committed(w)' <=> Committed(w)
  BY <1>1, <1>2, InitialAssumption DEF Committed, Ended
<1>7. \A o \in Tx, u \in Users : NotCast(o, u) => NotCast(o, u)'
  BY <1>1, <1>6 DEF NotCast, Types, Version
<1>10. CommittedRows' = CommittedRows BY <1>1, <1>6 DEF CommittedRows, Types, Version
<1>11. work[t].kind = "save" =>
         \/ tx[t].step \notin Locking /\ next.step \notin Locking
         \/ /\ tx[t].step = "booked" /\ next.step = "reject"
            /\ \A u \in next.waits : NotCast(t, u)
  BY DEF Quiet
<1>8. SavesInv' BY <1>1, <1>2, <1>7, <1>10, <1>11, SavesStay
<1>9. WithdrawnInv' BY <1>1, <1>2 DEF WithdrawnInv, OnlyToggle, Request
<1> QED BY <1>2, <1>3, <1>4, <1>5, <1>8, <1>9

-----------------------------------------------------------------------------
\* A DELETE, or what remains of it after a wait.
Deletes(t, next) ==
  /\ next \in Call /\ CallOK(work[t].kind, next) /\ tx' = [tx EXCEPT ![t] = next]
  /\ UNCHANGED <<work, gone, setup, rows, requests, writes>>
  /\ dead \subseteq dead' /\ dead' \subseteq dead \cup (rows \X {t})
  /\ tx[t].step \in {"visit", "members", "purge", "wait"}
  /\ next.step \in {"members", "purged", "wait"} /\ next.doing = tx[t].doing

LEMMA DeleteMoves ==
  ASSUME Types, CallsInv, NEW t \in Tx, tx[t].step \in {"visit", "members", "purge"},
         NEW targets \in SUBSET rows, NEW n \in Call,
         n.step \in {"members", "purged"}, n.step = "members" => n.at \in Positions,
         n.doing = tx[t].doing,
         Delete(t, targets, n), UNCHANGED <<work, gone, setup, rows, requests, writes>>
  PROVE  \E next : Deletes(t, next)
<1> DEFINE free == {r \in targets : Deleters(t, r) = {}}
           waiting == [n EXCEPT !.step = "wait", !.then = n.step, !.waits = targets \ free]
           next == IF free = targets THEN n ELSE waiting
<1>1. dead' = dead \cup (free \X {t}) /\ tx' = [tx EXCEPT ![t] = next] BY DEF Delete
<1>2. free \subseteq rows /\ targets \ free \subseteq Version BY DEF Types
<1> HIDE DEF free
<1>3. waiting \in Call /\ waiting.step = "wait" /\ waiting.then = n.step
      /\ waiting.waits = targets \ free /\ waiting.at = n.at /\ waiting.doing = n.doing
  BY <1>2 DEF Call, Steps
<1>4. n.doing = "withdraw" => work[t].kind = "toggle" BY DEF CallsInv, CallOK
<1>5. CallOK(work[t].kind, n) BY <1>4 DEF CallOK
<1> HIDE DEF waiting
<1>6. CallOK(work[t].kind, waiting) BY <1>2, <1>3, <1>4 DEF CallOK
<1>7. next \in Call /\ CallOK(work[t].kind, next) /\ next.step \in {"members", "purged", "wait"}
      /\ next.doing = tx[t].doing
  BY <1>3, <1>5, <1>6
<1> HIDE DEF next
<1>8. dead \subseteq dead' /\ dead' \subseteq dead \cup (rows \X {t}) BY <1>1, <1>2
<1>9. Deletes(t, next) BY <1>1, <1>7, <1>8 DEF Deletes
<1> QED BY <1>9

LEMMA DeletesAre ==
  ASSUME Types, CallsInv, NEW t \in Tx,
         Visit(t) \/ DeleteMember(t) \/ Purge(t) \/ Resume(t)
  PROVE  \E next : Deletes(t, next)
<1> DEFINE c == tx[t]
<1>1. c \in Call /\ CallOK(work[t].kind, c) BY WorkFacts DEF CallsInv
<1>2. CASE Visit(t)
  <2> DEFINE p == CHOOSE q \in c.left : \A o \in c.left : q <= o
             n == [c EXCEPT !.step = "members", !.at = p, !.left = @ \ {p}, !.queue = c.lists[p]]
             targets == {r \in Visible(t) : r.pos = p}
  <2>1. c.step = "visit" /\ c.left # {} /\ Delete(t, targets, n)
        /\ UNCHANGED <<work, gone, setup, rows, requests, writes>>
    BY <1>2 DEF Visit
  <2>2. \E q \in c.left : \A o \in c.left : q <= o
    BY <1>1, <2>1, LeastPosition DEF Call, Positions
  <2>3. p \in Positions BY <1>1, <2>2 DEF Call
  <2>4. targets \in SUBSET rows BY DEF Visible
  <2> HIDE DEF p, targets
  <2>5. p \in 0..NPositions BY <2>3, PositionsAssumption DEF Positions
  <2>6. n \in Call /\ n.step = "members" /\ n.at = p /\ n.doing = c.doing
    BY <1>1, <2>3, <2>5 DEF Call, Steps
  <2> HIDE DEF n
  <2> QED BY <2>1, <2>3, <2>4, <2>6, DeleteMoves
<1>3. CASE DeleteMember(t)
  <2> DEFINE n == [c EXCEPT !.queue = Tail(@)]
             targets == {r \in Visible(t) : r.user = Head(c.queue)}
  <2>1. c.step = "members" /\ c.queue # <<>> /\ Delete(t, targets, n)
        /\ UNCHANGED <<work, gone, setup, rows, requests, writes>>
    BY <1>3 DEF DeleteMember
  <2>2. targets \in SUBSET rows BY DEF Visible
  <2>3. Tail(c.queue) \in Lists BY <1>1, <2>1, TailList DEF Call
  <2>4. n \in Call /\ n.step = "members" /\ n.at = c.at /\ n.doing = c.doing
    BY <1>1, <2>1, <2>3 DEF Call
  <2>5. c.at \in Positions BY <1>1, <2>1 DEF CallOK
  <2> HIDE DEF n, targets
  <2> QED BY <2>1, <2>2, <2>4, <2>5, DeleteMoves
<1>4. CASE Purge(t)
  <2>1. PICK p \in c.left :
          Delete(t, {r \in Visible(t) : r.pos = p}, [c EXCEPT !.step = "purged", !.left = @ \ {p}])
    BY <1>4 DEF Purge
  <2> DEFINE n == [c EXCEPT !.step = "purged", !.left = @ \ {p}]
             targets == {r \in Visible(t) : r.pos = p}
  <2>2. c.step = "purge" /\ Delete(t, targets, n)
        /\ UNCHANGED <<work, gone, setup, rows, requests, writes>>
    BY <1>4, <2>1 DEF Purge
  <2>3. targets \in SUBSET rows BY DEF Visible
  <2>4. n \in Call /\ n.step = "purged" /\ n.doing = c.doing BY <1>1 DEF Call, Steps
  <2> HIDE DEF n, targets
  <2> QED BY <2>2, <2>3, <2>4, DeleteMoves
<1>5. CASE Resume(t)
  <2> DEFINE next == [c EXCEPT !.step = c.then, !.waits = {}]
  <2>1. c.step = "wait" /\ tx' = [tx EXCEPT ![t] = next]
        /\ dead' = dead \cup ((c.waits \cap rows) \X {t})
        /\ UNCHANGED <<work, gone, setup, rows, requests, writes>>
    BY <1>5, <1>1 DEF Resume, Types
  <2>2. c.then \in {"members", "purged"} BY <1>1, <2>1 DEF CallOK
  <2>3. next \in Call /\ next.step = c.then /\ next.doing = c.doing /\ next.at = c.at
    BY <1>1, <2>2 DEF Call
  <2>4. CallOK(work[t].kind, next) BY <1>1, <2>1, <2>2, <2>3 DEF CallOK
  <2> HIDE DEF next
  <2>5. Deletes(t, next) BY <2>1, <2>2, <2>3, <2>4 DEF Deletes
  <2> QED BY <2>5
<1> QED BY <1>2, <1>3, <1>4, <1>5

LEMMA DeletesStep == ASSUME IInv, NEW t \in Tx, NEW next, Deletes(t, next) PROVE IInv'
<1> USE DEF IInv
<1>1. /\ next \in Call /\ CallOK(work[t].kind, next) /\ tx' = [tx EXCEPT ![t] = next]
      /\ UNCHANGED <<work, gone, setup, rows, requests, writes>>
      /\ dead \subseteq dead' /\ dead' \subseteq dead \cup (rows \X {t})
      /\ tx[t].step \in {"visit", "members", "purge", "wait"}
      /\ next.step \in {"members", "purged", "wait"} /\ next.doing = tx[t].doing
  BY DEF Deletes
<1>2. /\ tx' \in [Tx -> Call] /\ tx'[t] = next
      /\ \A o \in Tx \ {t} : tx'[o] = tx[o]
      /\ CallsInv'
  BY <1>1, Moved
<1>3. Types' BY <1>1, <1>2 DEF Types
<1>4. IdleInv'
  <2>1. \A o \in Tx \ {t}, r \in rows : <<r, o>> \in dead' => <<r, o>> \in dead BY <1>1
  <2> QED BY <1>1, <1>2, <2>1 DEF IdleInv, Ended
<1>5. VersionsInv' /\ GoneInv' BY <1>1 DEF VersionsInv, GoneInv
<1>6. \A w \in Tx \cup {Initial} : Committed(w)' <=> Committed(w)
  BY <1>1, <1>2, InitialAssumption DEF Committed
<1>7. \A o \in Tx, u \in Users : NotCast(o, u) => NotCast(o, u)'
  BY <1>1, <1>6 DEF NotCast, Types, Version
<1>10. CommittedRows' = CommittedRows BY <1>1, <1>6 DEF CommittedRows, Types, Version
<1>11. tx[t].step \notin Locking /\ next.step \notin Locking BY <1>1 DEF Locking
<1>8. SavesInv' BY <1>1, <1>2, <1>7, <1>10, <1>11, SavesStay
<1>9. WithdrawnInv'
  <2>1. Past(next) => Past(tx[t]) BY <1>1 DEF Past
  <2> QED BY <1>1, <1>2, <2>1 DEF WithdrawnInv, OnlyToggle, Request
<1> QED BY <1>2, <1>3, <1>4, <1>5, <1>8, <1>9

-----------------------------------------------------------------------------
\* The flush: what it inserts clashes with nothing it has not deleted.
LEMMA FlushStep ==
  ASSUME IInv, NEW t \in Tx, Flush(t), ~Abort(t) PROVE IInv'
<1> USE DEF IInv
<1> DEFINE c == tx[t]
           list == c.lists[c.at]
           new == {[user |-> list[i], pos |-> c.at, order |-> i - 1, by |-> t] : i \in DOMAIN list}
           next == [c EXCEPT !.step = "visit"]
<1>1. /\ c.step = "flush" /\ rows' = rows \cup new /\ tx' = [tx EXCEPT ![t] = next]
      /\ UNCHANGED <<work, gone, setup, dead, requests, writes>>
      /\ gone => list = <<>>
      /\ Clashes(t) = {}
  BY DEF Flush
<1>2. c \in Call /\ CallOK(work[t].kind, c) BY WorkFacts DEF CallsInv
<1>3. c.at \in Positions BY <1>1, <1>2 DEF CallOK
<1>4. list \in Lists BY <1>2, <1>3 DEF Call
<1>5. next \in Call /\ next.step = "visit" /\ next.doing = c.doing BY <1>2 DEF Call, Steps
<1>6. CallOK(work[t].kind, next) BY <1>1, <1>2, <1>5 DEF CallOK
<1> HIDE DEF next
<1>7. /\ tx' \in [Tx -> Call] /\ tx'[t] = next
      /\ \A o \in Tx \ {t} : tx'[o] = tx[o]
      /\ CallsInv'
  BY <1>1, <1>5, <1>6, Moved
<1>8. ASSUME NEW r \in new PROVE r \in Version /\ r.by = t /\ r.user \in Members(list)
  <2>1. PICK i \in DOMAIN list :
          r = [user |-> list[i], pos |-> c.at, order |-> i - 1, by |-> t]
    OBVIOUS
  <2>2. list[i] \in Users /\ i \in 1..Len(list) /\ Len(list) \in Nat BY <1>4, ListFacts
  <2>3. i - 1 \in Nat BY <2>2
  <2>4. list[i] \in Members(list) BY DEF Members
  <2> QED BY <1>3, <2>1, <2>2, <2>3, <2>4 DEF Version
<1>9. ASSUME NEW r \in new, NEW s \in new, r.user = s.user PROVE r = s
  <2>1. PICK i \in DOMAIN list :
          r = [user |-> list[i], pos |-> c.at, order |-> i - 1, by |-> t]
    OBVIOUS
  <2>2. PICK j \in DOMAIN list :
          s = [user |-> list[j], pos |-> c.at, order |-> j - 1, by |-> t]
    OBVIOUS
  <2>3. i = j BY <1>4, <1>9, <2>1, <2>2, ListFacts
  <2> QED BY <2>1, <2>2, <2>3
<1>10. \A r \in rows, s \in new : r.user = s.user => <<r, t>> \in dead
  BY <1>1, <1>8 DEF Clashes
<1>11. gone => new = {} BY <1>1
<1> HIDE DEF new, list
<1>12. Types' BY <1>1, <1>7, <1>8 DEF Types
<1>13. IdleInv'
  <2>1. \A r \in new, o \in Tx : <<r, o>> \in dead => r \in rows BY DEF Types
  <2> QED BY <1>1, <1>5, <1>7, <1>8, <2>1 DEF IdleInv, Ended
<1>14. VersionsInv'
  <2> SUFFICES ASSUME NEW r \in rows \cup new, NEW s \in rows \cup new, r.user = s.user, r # s
               PROVE  \/ s.by \in Tx /\ <<r, s.by>> \in dead
                      \/ r.by \in Tx /\ <<s, r.by>> \in dead
    BY <1>1 DEF VersionsInv
  <2>1. CASE r \in rows /\ s \in rows BY <2>1 DEF VersionsInv
  <2>2. CASE r \in rows /\ s \in new BY <2>2, <1>8, <1>10
  <2>3. CASE r \in new /\ s \in rows BY <2>3, <1>8, <1>10
  <2>4. CASE r \in new /\ s \in new BY <2>4, <1>9
  <2> QED BY <2>1, <2>2, <2>3, <2>4
<1>15. GoneInv' BY <1>1, <1>11 DEF GoneInv
<1>16. \A w \in Tx \cup {Initial} : Committed(w)' <=> Committed(w)
  BY <1>1, <1>5, <1>7, InitialAssumption DEF Committed
<1>17. ~Committed(t) BY <1>1, InitialAssumption DEF Committed
<1>18. \A o \in Tx \ {t}, u \in Users : NotCast(o, u) => NotCast(o, u)'
  BY <1>1, <1>8, <1>16, <1>17 DEF NotCast, Types, Version
<1>21. CommittedRows' = CommittedRows
  BY <1>1, <1>8, <1>16, <1>17 DEF CommittedRows, Types, Version
<1>22. tx[t].step \notin Locking /\ next.step \notin Locking BY <1>1, <1>5 DEF Locking
<1>19. SavesInv' BY <1>1, <1>7, <1>18, <1>21, <1>22, SavesStay
<1>20. WithdrawnInv'
  <2>1. Past(next) => Past(tx[t]) BY <1>1, <1>5 DEF Past
  <2> QED BY <1>1, <1>7, <2>1 DEF WithdrawnInv, OnlyToggle, Request
<1> QED BY <1>7, <1>12, <1>13, <1>14, <1>15, <1>19, <1>20

-----------------------------------------------------------------------------
(* What is written to booking_requests. *)

\* Whose request is withdrawn is out of reach of a statement on the requests
\* that are there: it is none, or its row is locked.
LEMMA WithdrawnIsLocked ==
  ASSUME Types, IdleInv, CallsInv, WithdrawnInv, NEW t \in Tx, NEW o \in Tx \ {t},
         Past(tx[o]), OnlyToggle(o), requests[work[o].user] # "none"
  PROVE  work[o].user \in Users /\ Running(o) /\ work[o].user \in DOMAIN writes[o]
<1>1. work[o].user \in Users BY WorkFacts DEF CallsInv, CallOK, Past
<1>2. Request(o, work[o].user) = "none" BY DEF WithdrawnInv
<1>3. work[o].user \in DOMAIN writes[o] BY <1>2 DEF Request
<1>4. Running(o) BY <1>3 DEF IdleInv, Running
<1> QED BY <1>1, <1>3, <1>4

\* What every such statement keeps, the saves apart.
LEMMA WritesKeep ==
  ASSUME IInv, NEW t \in Tx, NEW next \in Call, tx' = [tx EXCEPT ![t] = next],
         CallOK(work[t].kind, next),
         NEW users \in SUBSET Users, NEW value \in RequestStates, Write(t, users, value),
         UNCHANGED <<work, gone, setup, rows, dead, requests>>,
         tx[t].step \notin Ended \cup {"start", "drop"},
         next.step \in {"booked", "commit", "own"},
         gone => users = {},
         \A o \in Tx \ {t} : Past(tx[o]) /\ OnlyToggle(o) => work[o].user \notin users,
         Past(next) /\ OnlyToggle(t) =>
           /\ Request(t, work[t].user)' = "none"
           /\ \A o \in Tx \ {t} : work[t].user \notin DOMAIN writes[o]
  PROVE  /\ Types' /\ CallsInv' /\ IdleInv' /\ VersionsInv' /\ GoneInv' /\ WithdrawnInv'
         /\ tx'[t] = next /\ \A o \in Tx \ {t} : tx'[o] = tx[o]
         /\ \A u \in Users, o \in Tx : NotCast(o, u) => NotCast(o, u)'
         /\ CommittedRows' = CommittedRows
<1> USE DEF IInv
<1>1. /\ tx' \in [Tx -> Call] /\ tx'[t] = next
      /\ \A o \in Tx \ {t} : tx'[o] = tx[o]
      /\ CallsInv'
  BY Moved
<1>2. /\ writes' \in [Tx -> Written]
      /\ \A o \in Tx \ {t} : writes'[o] = writes[o]
      /\ DOMAIN writes'[t] = DOMAIN writes[t] \cup users
  BY WriteFacts
<1>3. Types' BY <1>1, <1>2 DEF Types
<1>4. IdleInv' BY <1>1, <1>2 DEF IdleInv, Ended
<1>5. VersionsInv' BY DEF VersionsInv
<1>6. GoneInv' BY <1>2 DEF GoneInv
<1>7. \A w \in Tx \cup {Initial} : Committed(w)' <=> Committed(w)
  BY <1>1, InitialAssumption DEF Committed, Ended
<1>8. \A u \in Users, o \in Tx : NotCast(o, u) => NotCast(o, u)'
  BY <1>7 DEF NotCast, Types, Version
<1>9. CommittedRows' = CommittedRows BY <1>7 DEF CommittedRows, Types, Version
<1>10. WithdrawnInv'
  <2> SUFFICES ASSUME NEW o \in Tx, Past(tx'[o]), OnlyToggle(o)
               PROVE  /\ Request(o, work[o].user)' = "none"
                      /\ \A x \in Tx \ {o} : work[o].user \notin DOMAIN writes'[x]
    BY DEF WithdrawnInv, OnlyToggle
  <2>1. CASE o = t BY <2>1, <1>1, <1>2
  <2>2. CASE o # t
    <3>1. work[o].user \notin users BY <2>2, <1>1
    <3>2. Request(o, work[o].user) = "none"
          /\ \A x \in Tx \ {o} : work[o].user \notin DOMAIN writes[x]
      BY <2>2, <1>1 DEF WithdrawnInv
    <3> QED BY <2>2, <3>1, <3>2, <1>2 DEF Request
  <2> QED BY <2>1, <2>2
<1> QED BY <1>1, <1>3, <1>4, <1>5, <1>6, <1>8, <1>9, <1>10

LEMMA ClearStep == ASSUME IInv, NEW t \in Tx, ClearRejections(t) PROVE IInv'
<1> USE DEF IInv
<1> DEFINE c == tx[t]
           next == [c EXCEPT !.step = "booked"]
<1>1. /\ c.step = "clear" /\ Write(t, Asked, "open") /\ tx' = [tx EXCEPT ![t] = next]
      /\ UNCHANGED <<work, gone, setup, rows, dead, requests>>
      /\ Blockers(t) = {}
  BY DEF ClearRejections, Asked
<1>2. Writers(t, Asked) = {} BY <1>1 DEF Blockers, Asked
<1>3. c \in Call /\ CallOK(work[t].kind, c) BY WorkFacts DEF CallsInv
<1>4. next \in Call /\ next.step = "booked" /\ next.doing = c.doing BY <1>3 DEF Call, Steps
<1>5. CallOK(work[t].kind, next) /\ ~Past(next) BY <1>1, <1>3, <1>4 DEF CallOK, Past
<1>6. Asked \in SUBSET Users /\ "open" \in RequestStates BY DEF Asked, RequestStates
<1>7. gone => Asked = {} BY DEF GoneInv, Asked
<1>8. ASSUME NEW o \in Tx \ {t}, Past(tx[o]), OnlyToggle(o) PROVE work[o].user \notin Asked
  <2> SUFFICES ASSUME work[o].user \in Asked PROVE FALSE OBVIOUS
  <2>1. Running(o) /\ work[o].user \in DOMAIN writes[o]
    BY <1>8, WithdrawnIsLocked DEF Asked
  <2> QED BY <1>2, <2>1 DEF Writers
<1>9. tx[t].step \notin Ended \cup {"start", "drop"} /\ next.step \in {"booked", "commit", "own"}
  BY <1>1, <1>4 DEF Ended
<1> HIDE DEF next
<1>10. /\ Types' /\ CallsInv' /\ IdleInv' /\ VersionsInv' /\ GoneInv' /\ WithdrawnInv'
       /\ tx'[t] = next /\ \A o \in Tx \ {t} : tx'[o] = tx[o]
       /\ \A u \in Users, o \in Tx : NotCast(o, u) => NotCast(o, u)'
       /\ CommittedRows' = CommittedRows
  BY <1>1, <1>4, <1>5, <1>6, <1>7, <1>8, <1>9, WritesKeep
<1>11. /\ \A o \in Tx \ {t} : writes'[o] = writes[o]
       /\ DOMAIN writes'[t] = DOMAIN writes[t] \cup Asked
       /\ \A u \in Asked : writes'[t][u] = "open"
  BY <1>1, <1>6, WriteFacts
<1>13. (AllSave' => AllSave) /\ Asked' = Asked BY <1>1 DEF AllSave, Asked
<1>12. SavesInv'
  <2> SUFFICES ASSUME AllSave
               PROVE  /\ \A o \in Tx :
                           /\ DOMAIN writes'[o] = IF tx'[o].step \in Locking THEN Asked ELSE {}
                           /\ \A u \in DOMAIN writes'[o] : writes'[o][u] \in {"open", "rejected"}
                           /\ \A x \in Tx \ {o} : DOMAIN writes'[o] = {} \/ DOMAIN writes'[x] = {}
                           /\ tx'[o].step = "reject" => \A u \in tx'[o].waits \cap Asked : NotCast(o, u)'
                           /\ \A u \in DOMAIN writes'[o] : writes'[o][u] = "rejected" =>
                                tx'[o].step = "commit" /\ NotCast(o, u)'
                      /\ SavesRejectNobodyCast'
    BY <1>13 DEF SavesInv
  <2>1. SavesRejectNobodyCast'
    BY <1>1, <1>10 DEF SavesInv, SavesRejectNobodyCast, AllSave
  <2>2. DOMAIN writes[t] = {} /\ next.step \in Locking
    BY <1>1, <1>4 DEF SavesInv, Locking
  <2>3. DOMAIN writes'[t] = Asked /\ \A u \in DOMAIN writes'[t] : writes'[t][u] = "open"
    BY <1>11, <2>2
  <2>4. ASSUME NEW o \in Tx \ {t} PROVE DOMAIN writes[o] = {} \/ Asked = {}
    <3> SUFFICES ASSUME DOMAIN writes[o] # {} PROVE Asked = {} OBVIOUS
    <3>1. Running(o) BY DEF IdleInv, Running
    <3>2. DOMAIN writes[o] = Asked BY DEF SavesInv
    <3> QED BY <1>2, <3>1, <3>2 DEF Writers
  <2>5. ASSUME NEW o \in Tx \ {t}
        PROVE  /\ DOMAIN writes'[o] = IF tx'[o].step \in Locking THEN Asked ELSE {}
               /\ \A u \in DOMAIN writes'[o] : writes'[o][u] \in {"open", "rejected"}
               /\ \A x \in Tx \ {o} : DOMAIN writes'[o] = {} \/ DOMAIN writes'[x] = {}
               /\ tx'[o].step = "reject" => \A u \in tx'[o].waits \cap Asked : NotCast(o, u)'
               /\ \A u \in DOMAIN writes'[o] : writes'[o][u] = "rejected" =>
                    tx'[o].step = "commit" /\ NotCast(o, u)'
    <3>1. writes'[o] = writes[o] /\ tx'[o] = tx[o] BY <1>10, <1>11
    <3>2. DOMAIN writes[o] \subseteq Users BY WrittenFacts
    <3>3. \A x \in Tx \ {o} : DOMAIN writes'[o] = {} \/ DOMAIN writes'[x] = {}
      <4> SUFFICES ASSUME NEW x \in Tx \ {o} PROVE DOMAIN writes[o] = {} \/ DOMAIN writes'[x] = {}
        BY <3>1
      <4>1. CASE x = t BY <4>1, <2>3, <2>4
      <4>2. CASE x # t BY <4>2, <1>11 DEF SavesInv
      <4> QED BY <4>1, <4>2
    <3> QED BY <3>1, <3>2, <3>3, <1>6, <1>10 DEF SavesInv
  <2>6. \A x \in Tx \ {t} : DOMAIN writes'[t] = {} \/ DOMAIN writes'[x] = {}
    BY <1>11, <2>3, <2>4
  <2> QED BY <1>4, <1>10, <2>1, <2>2, <2>3, <2>5, <2>6
<1> QED BY <1>10, <1>12

LEMMA RejectStep == ASSUME IInv, NEW t \in Tx, Reject(t) PROVE IInv'
<1> USE DEF IInv
<1> DEFINE c == tx[t]
           users == {u \in c.waits : Request(t, u) # "none"}
           next == [c EXCEPT !.step = "commit", !.waits = {}]
<1>1. /\ c.step = "reject" /\ Write(t, users, "rejected") /\ tx' = [tx EXCEPT ![t] = next]
      /\ UNCHANGED <<work, gone, setup, rows, dead, requests>>
      /\ Blockers(t) = {}
  BY DEF Reject
<1>2. Writers(t, users) = {} BY <1>1 DEF Blockers
<1>3. c \in Call /\ CallOK(work[t].kind, c) BY WorkFacts DEF CallsInv
<1>4. next \in Call /\ next.step = "commit" /\ next.doing = c.doing BY <1>3 DEF Call, Steps
<1>5. CallOK(work[t].kind, next) /\ ~Past(next) BY <1>1, <1>3, <1>4 DEF CallOK, Past
<1>6. users \in SUBSET Users /\ "rejected" \in RequestStates
  BY <1>1, <1>3 DEF CallOK, RequestStates
<1>7. gone => users = {} BY <1>6 DEF GoneInv, Request
<1>8. ASSUME NEW o \in Tx \ {t}, Past(tx[o]), OnlyToggle(o) PROVE work[o].user \notin users
  <2> SUFFICES ASSUME work[o].user \in users PROVE FALSE OBVIOUS
  <2>1. work[o].user \notin DOMAIN writes[t] BY <1>8 DEF WithdrawnInv
  <2>2. requests[work[o].user] # "none" BY <2>1 DEF Request
  <2>3. Running(o) /\ work[o].user \in DOMAIN writes[o]
    BY <1>8, <2>2, WithdrawnIsLocked
  <2> QED BY <1>2, <2>3 DEF Writers
<1>9. tx[t].step \notin Ended \cup {"start", "drop"} /\ next.step \in {"booked", "commit", "own"}
  BY <1>1, <1>4 DEF Ended
<1> HIDE DEF next
<1>10. /\ Types' /\ CallsInv' /\ IdleInv' /\ VersionsInv' /\ GoneInv' /\ WithdrawnInv'
       /\ tx'[t] = next /\ \A o \in Tx \ {t} : tx'[o] = tx[o]
       /\ \A u \in Users, o \in Tx : NotCast(o, u) => NotCast(o, u)'
       /\ CommittedRows' = CommittedRows
  <2> HIDE DEF users
  <2> QED BY <1>1, <1>4, <1>5, <1>6, <1>7, <1>8, <1>9, WritesKeep
<1>11. /\ \A o \in Tx \ {t} : writes'[o] = writes[o]
       /\ DOMAIN writes'[t] = DOMAIN writes[t] \cup users
       /\ \A u \in users : writes'[t][u] = "rejected"
       /\ \A u \in DOMAIN writes[t] \ users : writes'[t][u] = writes[t][u]
  <2> HIDE DEF users
  <2> QED BY <1>1, <1>6, WriteFacts
<1>13. (AllSave' => AllSave) /\ Asked' = Asked BY <1>1 DEF AllSave, Asked
<1>12. SavesInv'
  <2> SUFFICES ASSUME AllSave
               PROVE  /\ \A o \in Tx :
                           /\ DOMAIN writes'[o] = IF tx'[o].step \in Locking THEN Asked ELSE {}
                           /\ \A u \in DOMAIN writes'[o] : writes'[o][u] \in {"open", "rejected"}
                           /\ \A x \in Tx \ {o} : DOMAIN writes'[o] = {} \/ DOMAIN writes'[x] = {}
                           /\ tx'[o].step = "reject" => \A u \in tx'[o].waits \cap Asked : NotCast(o, u)'
                           /\ \A u \in DOMAIN writes'[o] : writes'[o][u] = "rejected" =>
                                tx'[o].step = "commit" /\ NotCast(o, u)'
                      /\ SavesRejectNobodyCast'
    BY <1>13 DEF SavesInv
  <2>1. SavesRejectNobodyCast'
    BY <1>1, <1>10 DEF SavesInv, SavesRejectNobodyCast, AllSave
  <2>2. /\ DOMAIN writes[t] = Asked /\ next.step \in Locking
        /\ \A u \in DOMAIN writes[t] : writes[t][u] = "open"
        /\ \A u \in c.waits \cap Asked : NotCast(t, u)
    BY <1>1, <1>4 DEF SavesInv, Locking
  <2>3. users \subseteq Asked BY <1>6, <2>2 DEF Request, Asked
  <2>4. /\ DOMAIN writes'[t] = DOMAIN writes[t]
        /\ \A u \in DOMAIN writes'[t] : writes'[t][u] \in {"open", "rejected"}
        /\ \A u \in DOMAIN writes'[t] : writes'[t][u] = "rejected" => NotCast(t, u)
    BY <1>11, <2>2, <2>3
  <2>5. \A u \in DOMAIN writes'[t] : writes'[t][u] = "rejected" => NotCast(t, u)'
    BY <1>10, <2>2, <2>4 DEF Asked
  <2>6. \A o \in Tx : DOMAIN writes'[o] = DOMAIN writes[o] BY <1>11, <2>4
  <2>7. ASSUME NEW o \in Tx \ {t}
        PROVE  /\ DOMAIN writes'[o] = IF tx'[o].step \in Locking THEN Asked ELSE {}
               /\ \A u \in DOMAIN writes'[o] : writes'[o][u] \in {"open", "rejected"}
               /\ tx'[o].step = "reject" => \A u \in tx'[o].waits \cap Asked : NotCast(o, u)'
               /\ \A u \in DOMAIN writes'[o] : writes'[o][u] = "rejected" =>
                    tx'[o].step = "commit" /\ NotCast(o, u)'
    <3>1. writes'[o] = writes[o] /\ tx'[o] = tx[o] BY <1>10, <1>11
    <3>2. DOMAIN writes[o] \subseteq Users /\ Asked \subseteq Users BY WrittenFacts DEF Asked
    <3> QED BY <3>1, <3>2, <1>10 DEF SavesInv
  <2>8. \A o \in Tx : \A x \in Tx \ {o} : DOMAIN writes'[o] = {} \/ DOMAIN writes'[x] = {}
    BY <2>6 DEF SavesInv
  <2> QED BY <1>4, <1>10, <2>1, <2>2, <2>4, <2>5, <2>7, <2>8
<1> QED BY <1>10, <1>12

LEMMA AskStep == ASSUME IInv, NEW t \in Tx, Ask(t), ~Abort(t) PROVE IInv'
<1> USE DEF IInv
<1> DEFINE c == tx[t]
           next == [c EXCEPT !.step = "commit"]
           users == {work[t].user}
<1>1. /\ c.step = "ask" /\ Write(t, users, "open") /\ tx' = [tx EXCEPT ![t] = next]
      /\ UNCHANGED <<work, gone, setup, rows, dead, requests>>
      /\ ~gone
  BY DEF Ask
<1>2. c \in Call /\ CallOK(work[t].kind, c) BY WorkFacts DEF CallsInv
<1>3. work[t].kind = "toggle" /\ c.doing = "ask" BY <1>1, <1>2 DEF CallOK
<1>4. next \in Call /\ next.step = "commit" /\ next.doing = c.doing BY <1>2 DEF Call, Steps
<1>5. CallOK(work[t].kind, next) /\ ~Past(next) BY <1>1, <1>2, <1>3, <1>4 DEF CallOK, Past
<1>6. users \in SUBSET Users /\ "open" \in RequestStates BY <1>3, WorkFacts DEF RequestStates
<1>7. \A o \in Tx \ {t} : Past(tx[o]) /\ OnlyToggle(o) => work[o].user \notin users
  BY <1>3 DEF OnlyToggle
<1>8. tx[t].step \notin Ended \cup {"start", "drop"} /\ next.step \in {"booked", "commit", "own"}
  BY <1>1, <1>4 DEF Ended
<1> HIDE DEF next, users
<1>9. Types' /\ CallsInv' /\ IdleInv' /\ VersionsInv' /\ GoneInv' /\ WithdrawnInv'
  BY <1>1, <1>4, <1>5, <1>6, <1>7, <1>8, WritesKeep
<1>10. SavesInv' BY <1>1, <1>3 DEF SavesInv, AllSave
<1> QED BY <1>9, <1>10

LEMMA WithdrawStep == ASSUME IInv, NEW t \in Tx, Withdraw(t) PROVE IInv'
<1> USE DEF IInv
<1> DEFINE c == tx[t]
           next == [c EXCEPT !.step = "own"]
           users == {u \in {work[t].user} : requests[u] # "none"}
<1>1. /\ c.step = "withdraw" /\ Write(t, users, "none") /\ tx' = [tx EXCEPT ![t] = next]
      /\ UNCHANGED <<work, gone, setup, rows, dead, requests>>
      /\ Blockers(t) = {}
  BY DEF Withdraw
<1>2. Writers(t, {work[t].user}) = {} BY <1>1 DEF Blockers
<1>3. c \in Call /\ CallOK(work[t].kind, c) BY WorkFacts DEF CallsInv
<1>4. work[t].kind = "toggle" /\ work[t].user \in Users /\ c.doing = "withdraw"
  BY <1>1, <1>3, WorkFacts DEF CallOK
<1>5. next \in Call /\ next.step = "own" /\ next.doing = c.doing BY <1>3 DEF Call, Steps
<1>6. CallOK(work[t].kind, next) BY <1>1, <1>3, <1>4, <1>5 DEF CallOK
<1>7. users \in SUBSET Users /\ "none" \in RequestStates BY <1>4 DEF RequestStates
<1>8. gone => users = {} BY <1>4 DEF GoneInv
<1>9. \A o \in Tx \ {t} : Past(tx[o]) /\ OnlyToggle(o) => work[o].user \notin users
  BY <1>4 DEF OnlyToggle
<1>10. \A o \in Tx \ {t} : work[t].user \notin DOMAIN writes[o]
  BY <1>2 DEF Writers, IdleInv, Running
<1>11. DOMAIN writes[t] = {} BY <1>1 DEF IdleInv
<1>12. users = IF requests[work[t].user] # "none" THEN {work[t].user} ELSE {} OBVIOUS
<1>13. tx[t].step \notin Ended \cup {"start", "drop"} /\ next.step \in {"booked", "commit", "own"}
  BY <1>1, <1>5 DEF Ended
<1> HIDE DEF next, users
<1>18. /\ DOMAIN writes'[t] = DOMAIN writes[t] \cup users
       /\ \A u \in users : writes'[t][u] = "none"
  BY <1>1, <1>7, WriteFacts
<1>14. DOMAIN writes'[t] = users /\ \A u \in users : writes'[t][u] = "none"
  BY <1>11, <1>18
<1>15. Request(t, work[t].user)' = "none" BY <1>1, <1>12, <1>14 DEF Request
<1>16. Types' /\ CallsInv' /\ IdleInv' /\ VersionsInv' /\ GoneInv' /\ WithdrawnInv'
  BY <1>1, <1>5, <1>6, <1>7, <1>8, <1>9, <1>10, <1>13, <1>15, WritesKeep
<1>17. SavesInv' BY <1>1, <1>4 DEF SavesInv, AllSave
<1> QED BY <1>16, <1>17

-----------------------------------------------------------------------------
(* The end of a request. *)

LEMMA AbortStep == ASSUME IInv, NEW t \in Tx, Abort(t), tx[t].step \notin Ended PROVE IInv'
<1> USE DEF IInv
<1> DEFINE c == tx[t]
           next == [c EXCEPT !.step = "aborted", !.waits = {}]
<1>1. /\ tx' = [tx EXCEPT ![t] = next]
      /\ rows' = {r \in rows : r.by # t}
      /\ dead' = {d \in dead : d[2] # t /\ d[1].by # t}
      /\ writes' = [writes EXCEPT ![t] = Nothing]
      /\ UNCHANGED <<work, gone, setup, requests>>
  BY DEF Abort
<1>2. c \in Call /\ CallOK(work[t].kind, c) BY WorkFacts DEF CallsInv
<1>3. next \in Call /\ next.step = "aborted" /\ next.doing = c.doing
  BY <1>2 DEF Call, Steps, Ended
<1>4. CallOK(work[t].kind, next) BY <1>2, <1>3 DEF CallOK
<1> HIDE DEF next
<1>5. /\ tx' \in [Tx -> Call] /\ tx'[t] = next
      /\ \A o \in Tx \ {t} : tx'[o] = tx[o]
      /\ CallsInv'
  BY <1>1, <1>3, <1>4, Moved
<1>6. Nothing \in Written /\ DOMAIN Nothing = {}
  <2>1. Nothing \in [{} -> RequestStates] /\ DOMAIN Nothing = {} BY DEF Nothing
  <2> QED BY <2>1 DEF Written
<1>7. /\ writes' \in [Tx -> Written] /\ DOMAIN writes'[t] = {}
      /\ \A o \in Tx \ {t} : writes'[o] = writes[o]
  BY <1>1, <1>6 DEF Types
<1>8. dead' \subseteq rows' \X Tx
  <2>1. \A d \in dead : d[1] \in rows /\ d[2] \in Tx /\ d = <<d[1], d[2]>> BY DEF Types
  <2> QED BY <1>1, <2>1
<1>9. rows' \subseteq rows /\ dead' \subseteq dead BY <1>1
<1>10. \A r \in rows', o \in Tx \ {t} : <<r, o>> \in dead => <<r, o>> \in dead' BY <1>1
<1>11. \A r \in rows' : <<r, t>> \notin dead' /\ r.by # t BY <1>1
<1>12. Types' BY <1>1, <1>5, <1>7, <1>8, <1>9 DEF Types
<1>13. IdleInv'
  <2> SUFFICES ASSUME NEW o \in Tx
               PROVE  /\ tx'[o].step \in Ended \cup {"start", "drop", "withdraw"} =>
                           DOMAIN writes'[o] = {} /\ \A r \in rows' : <<r, o>> \notin dead'
                      /\ tx'[o].step \in {"start", "drop", "aborted"} => \A r \in rows' : r.by # o
    BY DEF IdleInv
  <2>1. CASE o = t BY <2>1, <1>7, <1>11
  <2>2. CASE o # t BY <2>2, <1>5, <1>7, <1>9 DEF IdleInv
  <2> QED BY <2>1, <2>2
<1>14. VersionsInv' BY <1>1, <1>9, <1>10, <1>11 DEF VersionsInv
<1>15. GoneInv' BY <1>1, <1>7, <1>9 DEF GoneInv
<1>16. \A w \in Tx \cup {Initial} : Committed(w)' <=> Committed(w)
  BY <1>3, <1>5, InitialAssumption DEF Committed, Ended
<1>17. ~Committed(t) BY InitialAssumption DEF Committed, Ended
<1>18. CommittedRows' = CommittedRows
  BY <1>1, <1>16, <1>17 DEF CommittedRows, Types, Version
<1>19. \A o \in Tx \ {t}, u \in Users : NotCast(o, u) => NotCast(o, u)'
  BY <1>9, <1>10, <1>16 DEF NotCast, Types, Version
<1>20. (AllSave' => AllSave) /\ Asked' = Asked BY <1>1 DEF AllSave, Asked
<1>21. SavesInv'
  <2> SUFFICES ASSUME AllSave
               PROVE  /\ \A o \in Tx :
                           /\ DOMAIN writes'[o] = IF tx'[o].step \in Locking THEN Asked ELSE {}
                           /\ \A u \in DOMAIN writes'[o] : writes'[o][u] \in {"open", "rejected"}
                           /\ \A x \in Tx \ {o} : DOMAIN writes'[o] = {} \/ DOMAIN writes'[x] = {}
                           /\ tx'[o].step = "reject" => \A u \in tx'[o].waits \cap Asked : NotCast(o, u)'
                           /\ \A u \in DOMAIN writes'[o] : writes'[o][u] = "rejected" =>
                                tx'[o].step = "commit" /\ NotCast(o, u)'
                      /\ SavesRejectNobodyCast'
    BY <1>20 DEF SavesInv
  <2>1. SavesRejectNobodyCast'
    BY <1>1, <1>18 DEF SavesInv, SavesRejectNobodyCast, AllSave
  <2>2. next.step \notin Locking BY <1>3 DEF Locking
  <2>3. \A o \in Tx : \A x \in Tx \ {o} : DOMAIN writes'[o] = {} \/ DOMAIN writes'[x] = {}
    BY <1>7 DEF SavesInv
  <2>4. ASSUME NEW o \in Tx \ {t}
        PROVE  /\ DOMAIN writes'[o] = IF tx'[o].step \in Locking THEN Asked ELSE {}
               /\ \A u \in DOMAIN writes'[o] : writes'[o][u] \in {"open", "rejected"}
               /\ tx'[o].step = "reject" => \A u \in tx'[o].waits \cap Asked : NotCast(o, u)'
               /\ \A u \in DOMAIN writes'[o] : writes'[o][u] = "rejected" =>
                    tx'[o].step = "commit" /\ NotCast(o, u)'
    <3>1. writes'[o] = writes[o] /\ tx'[o] = tx[o] BY <1>5, <1>7
    <3>2. DOMAIN writes[o] \subseteq Users /\ Asked \subseteq Users BY WrittenFacts DEF Asked
    <3> QED BY <3>1, <3>2, <1>19 DEF SavesInv
  <2> QED BY <1>3, <1>5, <1>7, <2>1, <2>2, <2>3, <2>4
<1>22. WithdrawnInv'
  <2>1. ~Past(next) BY <1>3 DEF Past
  <2> QED BY <1>1, <1>5, <1>7, <2>1 DEF WithdrawnInv, OnlyToggle, Request
<1> QED BY <1>5, <1>12, <1>13, <1>14, <1>15, <1>21, <1>22

LEMMA CommitStep == ASSUME IInv, NEW t \in Tx, Commit(t) PROVE IInv'
<1> USE DEF IInv
<1> DEFINE c == tx[t]
           next == [c EXCEPT !.step = "committed"]
<1>1. /\ c.step = "commit" /\ tx' = [tx EXCEPT ![t] = next]
      /\ rows' = {r \in rows : <<r, t>> \notin dead}
      /\ dead' = {d \in dead : d[2] # t /\ <<d[1], t>> \notin dead}
      /\ requests' = [u \in Users |-> Request(t, u)]
      /\ writes' = [writes EXCEPT ![t] = Nothing]
      /\ setup' = IF work[t].kind = "update" THEN work[t].setup ELSE setup
      /\ UNCHANGED <<work, gone>>
  BY DEF Commit
<1>2. c \in Call /\ CallOK(work[t].kind, c) BY WorkFacts DEF CallsInv
<1>3. next \in Call /\ next.step = "committed" /\ next.doing = c.doing
  BY <1>2 DEF Call, Steps, Ended
<1>4. CallOK(work[t].kind, next) BY <1>1, <1>2, <1>3 DEF CallOK
<1> HIDE DEF next
<1>5. /\ tx' \in [Tx -> Call] /\ tx'[t] = next
      /\ \A o \in Tx \ {t} : tx'[o] = tx[o]
      /\ CallsInv'
  BY <1>1, <1>3, <1>4, Moved
<1>6. Nothing \in Written /\ DOMAIN Nothing = {}
  <2>1. Nothing \in [{} -> RequestStates] /\ DOMAIN Nothing = {} BY DEF Nothing
  <2> QED BY <2>1 DEF Written
<1>7. /\ writes' \in [Tx -> Written] /\ DOMAIN writes'[t] = {}
      /\ \A o \in Tx \ {t} : writes'[o] = writes[o]
  BY <1>1, <1>6 DEF Types
<1>8. dead' \subseteq rows' \X Tx
  <2>1. \A d \in dead : d[1] \in rows /\ d[2] \in Tx /\ d = <<d[1], d[2]>> BY DEF Types
  <2> QED BY <1>1, <2>1
<1>9. rows' \subseteq rows /\ dead' \subseteq dead BY <1>1
<1>10. \A r \in rows', o \in Tx \ {t} : <<r, o>> \in dead => <<r, o>> \in dead' BY <1>1
<1>11. \A r \in rows' : <<r, t>> \notin dead /\ <<r, t>> \notin dead' BY <1>1
<1>12. requests' \in [Users -> RequestStates] /\ \A u \in Users : requests'[u] = Request(t, u)
  BY <1>1, WrittenFacts
<1>13. Types'
  <2>1. setup' \subseteq Positions BY <1>1, WorkFacts DEF Types
  <2> QED BY <1>1, <1>5, <1>7, <1>8, <1>9, <1>12, <2>1 DEF Types
<1>14. IdleInv'
  <2> SUFFICES ASSUME NEW o \in Tx
               PROVE  /\ tx'[o].step \in Ended \cup {"start", "drop", "withdraw"} =>
                           DOMAIN writes'[o] = {} /\ \A r \in rows' : <<r, o>> \notin dead'
                      /\ tx'[o].step \in {"start", "drop", "aborted"} => \A r \in rows' : r.by # o
    BY DEF IdleInv
  <2>1. CASE o = t BY <2>1, <1>3, <1>5, <1>7, <1>11
  <2>2. CASE o # t BY <2>2, <1>5, <1>7, <1>9 DEF IdleInv
  <2> QED BY <2>1, <2>2
<1>15. VersionsInv' BY <1>9, <1>10, <1>11 DEF VersionsInv
<1>16. GoneInv' BY <1>1, <1>7, <1>9, <1>12 DEF GoneInv, Request
<1>17. AllSave' => AllSave BY <1>1 DEF AllSave
<1>18. SavesInv'
  <2> SUFFICES ASSUME AllSave
               PROVE  /\ \A o \in Tx :
                           /\ DOMAIN writes'[o] = IF tx'[o].step \in Locking THEN Asked' ELSE {}
                           /\ \A u \in DOMAIN writes'[o] : writes'[o][u] \in {"open", "rejected"}
                           /\ \A x \in Tx \ {o} : DOMAIN writes'[o] = {} \/ DOMAIN writes'[x] = {}
                           /\ tx'[o].step = "reject" => \A u \in tx'[o].waits \cap Asked' : NotCast(o, u)'
                           /\ \A u \in DOMAIN writes'[o] : writes'[o][u] = "rejected" =>
                                tx'[o].step = "commit" /\ NotCast(o, u)'
                      /\ SavesRejectNobodyCast'
    BY <1>17 DEF SavesInv
  <2>1. /\ DOMAIN writes[t] = Asked
        /\ \A u \in Asked : writes[t][u] \in {"open", "rejected"}
        /\ \A u \in Asked : writes[t][u] = "rejected" => NotCast(t, u)
        /\ \A o \in Tx \ {t} : Asked = {} \/ DOMAIN writes[o] = {}
    BY <1>1 DEF SavesInv, Locking
  <2>2. \A u \in Users : requests'[u] = IF u \in Asked THEN writes[t][u] ELSE "none"
    BY <2>1, <1>12 DEF Request, Asked
  <2>3. Asked' = Asked BY <2>1, <2>2 DEF Asked
  <2>4. SavesRejectNobodyCast'
    <3> SUFFICES ASSUME NEW u \in Users, requests'[u] = "rejected", NEW r \in rows',
                        Committed(r.by)', r.user = u
                 PROVE  FALSE
      BY DEF SavesRejectNobodyCast, CommittedRows
    <3>1. u \in Asked /\ writes[t][u] = "rejected" BY <2>2
    <3>2. r \in rows /\ r.by \in Tx \cup {Initial} BY <1>9 DEF Types, Version
    <3>3. r.by = t \/ Committed(r.by) BY <3>2, <1>5 DEF Committed
    <3>4. <<r, t>> \in dead BY <2>1, <3>1, <3>2, <3>3 DEF NotCast
    <3> QED BY <3>4, <1>11
  <2>5. next.step \notin Locking BY <1>3 DEF Locking
  <2>6. \A o \in Tx : \A x \in Tx \ {o} : DOMAIN writes'[o] = {} \/ DOMAIN writes'[x] = {}
    BY <1>7 DEF SavesInv
  <2>7. ASSUME NEW o \in Tx \ {t}
        PROVE  /\ DOMAIN writes'[o] = IF tx'[o].step \in Locking THEN Asked ELSE {}
               /\ tx'[o].step = "reject" => tx'[o].waits \cap Asked = {}
               /\ DOMAIN writes'[o] = {}
    <3>1. writes'[o] = writes[o] /\ tx'[o] = tx[o] BY <1>5, <1>7
    <3>2. DOMAIN writes[o] = IF tx[o].step \in Locking THEN Asked ELSE {} BY DEF SavesInv
    <3>3. DOMAIN writes[o] = {} BY <2>1, <3>2
    <3> QED BY <3>1, <3>2, <3>3 DEF Locking
  <2> QED BY <1>3, <1>5, <1>7, <2>3, <2>4, <2>5, <2>6, <2>7
<1>19. WithdrawnInv'
  <2> SUFFICES ASSUME NEW o \in Tx, Past(tx'[o]), OnlyToggle(o)
               PROVE  /\ Request(o, work[o].user)' = "none"
                      /\ \A x \in Tx \ {o} : work[o].user \notin DOMAIN writes'[x]
    BY <1>1 DEF WithdrawnInv, OnlyToggle
  <2>1. Past(tx[o])
    <3>1. CASE o = t BY <3>1, <1>1, <1>3, <1>5 DEF Past
    <3>2. CASE o # t BY <3>2, <1>5
    <3> QED BY <3>1, <3>2
  <2>2. /\ Request(o, work[o].user) = "none"
        /\ \A x \in Tx \ {o} : work[o].user \notin DOMAIN writes[x]
    BY <2>1 DEF WithdrawnInv
  <2>3. work[o].user \in Users BY <2>1, WorkFacts DEF CallsInv, CallOK, Past
  <2>4. \A x \in Tx \ {o} : work[o].user \notin DOMAIN writes'[x] BY <2>2, <1>7
  <2>5. CASE o = t BY <2>2, <2>3, <2>5, <1>1, <1>7, <1>12 DEF Request
  <2>6. CASE o # t
    <3>1. requests'[work[o].user] = requests[work[o].user]
      BY <2>2, <2>3, <2>6, <1>12 DEF Request
    <3> QED BY <2>2, <2>4, <2>6, <3>1, <1>1, <1>7 DEF Request
  <2> QED BY <2>4, <2>5, <2>6
<1> QED BY <1>5, <1>13, <1>14, <1>15, <1>16, <1>18, <1>19

LEMMA DropStep == ASSUME IInv, NEW t \in Tx, Drop(t), ~Abort(t) PROVE IInv'
<1> USE DEF IInv
<1> DEFINE c == tx[t]
           next == [c EXCEPT !.step = "committed"]
<1>1. /\ c.step = "drop" /\ tx' = [tx EXCEPT ![t] = next]
      /\ gone' = TRUE /\ setup' = {} /\ rows = {} /\ \A u \in Users : requests[u] = "none"
      /\ UNCHANGED <<work, rows, dead, requests, writes>>
      /\ Blockers(t) = {}
  BY DEF Drop
<1>2. \A o \in Tx \ {t} : Running(o) => ~Touched(o) BY <1>1 DEF Blockers
<1>3. c \in Call /\ CallOK(work[t].kind, c) BY WorkFacts DEF CallsInv
<1>4. work[t].kind = "delete" /\ c.doing # "withdraw" BY <1>1, <1>3 DEF CallOK
<1>5. next \in Call /\ next.step = "committed" /\ next.doing = c.doing
  BY <1>3 DEF Call, Steps, Ended
<1>6. CallOK(work[t].kind, next) BY <1>1, <1>3, <1>5 DEF CallOK
<1> HIDE DEF next
<1>7. /\ tx' \in [Tx -> Call] /\ tx'[t] = next
      /\ \A o \in Tx \ {t} : tx'[o] = tx[o]
      /\ CallsInv'
  BY <1>1, <1>5, <1>6, Moved
<1>8. Types' BY <1>1, <1>7 DEF Types
<1>9. IdleInv' BY <1>1, <1>7 DEF IdleInv
<1>10. VersionsInv' BY <1>1 DEF VersionsInv
<1>11. ASSUME NEW o \in Tx PROVE DOMAIN writes[o] = {}
  <2>1. CASE o # t /\ Running(o)
    <3>1. writes[o] = Nothing BY <2>1, <1>2 DEF Touched
    <3> QED BY <3>1 DEF Nothing
  <2>2. CASE o = t \/ ~Running(o) BY <2>2, <1>1 DEF IdleInv, Running
  <2> QED BY <2>1, <2>2
<1>12. GoneInv' BY <1>1, <1>11 DEF GoneInv
<1>13. SavesInv' BY <1>1, <1>4 DEF SavesInv, AllSave
<1>14. WithdrawnInv'
  <2>1. ~Past(next) BY <1>4, <1>5 DEF Past
  <2> QED BY <1>1, <1>7, <2>1 DEF WithdrawnInv, OnlyToggle, Request
<1> QED BY <1>7, <1>8, <1>9, <1>10, <1>12, <1>13, <1>14

LEMMA NextInv == IInv /\ [Next]_vars => IInv'
<1> SUFFICES ASSUME IInv, [Next]_vars PROVE IInv' OBVIOUS
<1>1. CASE UNCHANGED vars
  <2> USE <1>1 DEF vars
  <2>1. Types' /\ CallsInv' BY DEF IInv, Types, CallsInv
  <2>2. IdleInv' /\ VersionsInv' /\ GoneInv' BY DEF IInv, IdleInv, VersionsInv, GoneInv
  <2>3. SavesInv'
    BY DEF IInv, SavesInv, AllSave, Asked, NotCast, Committed, SavesRejectNobodyCast, CommittedRows
  <2>4. WithdrawnInv' BY DEF IInv, WithdrawnInv, OnlyToggle, Request
  <2> QED BY <2>1, <2>2, <2>3, <2>4 DEF IInv
<1>2. ASSUME NEW t \in Tx, Handler(t) PROVE IInv'
  <2> USE <1>2
  <2>1. CASE StartSave(t) \/ StartToggle(t) \/ StartUpdate(t) \/ StartDelete(t)
    BY <2>1, QuietStarts, QuietStep DEF IInv
  <2>2. CASE \/ NoMemberLeft(t) \/ AllVisited(t) \/ ReadBooked(t) \/ ReadOwn(t)
             \/ ReadRemaining(t) \/ (Purged(t) /\ ~gone) \/ ReadCast(t)
    BY <2>2, QuietReads, QuietStep DEF IInv
  <2>3. CASE Visit(t) \/ DeleteMember(t) \/ Purge(t) \/ Resume(t)
    BY <2>3, DeletesAre, DeletesStep DEF IInv
  <2>4. CASE NotFound(t) BY <2>4, AbortStep DEF NotFound, Ended
  <2>5. CASE Victim(t) BY <2>5, AbortStep DEF Victim, Deadlocked, Running
  <2>6. CASE Flush(t)
    <3>1. CASE Abort(t) BY <2>6, <3>1, AbortStep DEF Flush, Ended
    <3>2. CASE ~Abort(t) BY <2>6, <3>2, FlushStep
    <3> QED BY <3>1, <3>2
  <2>7. CASE Ask(t)
    <3>1. CASE Abort(t) BY <2>7, <3>1, AbortStep DEF Ask, Ended
    <3>2. CASE ~Abort(t) BY <2>7, <3>2, AskStep
    <3> QED BY <3>1, <3>2
  <2>8. CASE Purged(t) /\ gone BY <2>8, AbortStep DEF Purged, Ended
  <2>9. CASE Drop(t)
    <3>1. CASE Abort(t) BY <2>9, <3>1, AbortStep DEF Drop, Ended
    <3>2. CASE ~Abort(t) BY <2>9, <3>2, DropStep
    <3> QED BY <3>1, <3>2
  <2>10. CASE ClearRejections(t) BY <2>10, ClearStep
  <2>11. CASE Reject(t) BY <2>11, RejectStep
  <2>12. CASE Withdraw(t) BY <2>12, WithdrawStep
  <2>13. CASE Commit(t) BY <2>13, CommitStep
  <2> QED
    BY <2>1, <2>2, <2>3, <2>4, <2>5, <2>6, <2>7, <2>8, <2>9, <2>10, <2>11, <2>12, <2>13
    DEF Handler
<1> QED BY <1>1, <1>2 DEF Next, Finished

\* What the proofs rest on, in every reachable state.
THEOREM TransactionsInductive == Spec => []IInv
<1>1. Init => IInv BY InitInv
<1>2. IInv /\ [Next]_vars => IInv' BY NextInv
<1> QED BY <1>1, <1>2, PTL DEF Spec

-----------------------------------------------------------------------------
\* booking_service.py and performance_service.py, any number of requests at
\* once: a user never holds two bookings of a performance, and a performance
\* deleted leaves neither bookings nor requests.
THEOREM TablesAreConsistent == Spec => []TablesConsistent
<1>1. ASSUME IInv PROVE TablesConsistent
  <2> USE <1>1 DEF IInv
  <2>1. TypeOK
    <3>1. \A t \in Tx : /\ tx[t].step \in Steps /\ tx[t].left \subseteq Positions
                        /\ tx[t].lists \in [Positions -> Lists] /\ tx[t].queue \in Lists
                        /\ writes[t] \in Written
      BY DEF Types, Call
    <3> QED BY <3>1 DEF Types, TypeOK, Version, Written
  <2>2. OneBookingPerUser
    <3> SUFFICES ASSUME NEW r \in CommittedRows, NEW s \in CommittedRows, r.user = s.user, r # s
                 PROVE  FALSE
      BY DEF OneBookingPerUser
    <3>1. r \in rows /\ s \in rows /\ Committed(r.by) /\ Committed(s.by) BY DEF CommittedRows
    <3>2. \A w \in Tx, x \in rows : Committed(w) => <<x, w>> \notin dead
      BY InitialAssumption DEF Committed, IdleInv, Ended
    <3> QED BY <3>1, <3>2 DEF VersionsInv
  <2>3. DeletedLeavesNothing BY DEF DeletedLeavesNothing, GoneInv, CommittedRows
  <2> QED BY <2>1, <2>2, <2>3 DEF TablesConsistent
<1> QED BY <1>1, TransactionsInductive, PTL

\* booking_service.py: saves that run into each other leave nobody cast and
\* rejected, and a request withdrawn does not come back with a save.
THEOREM DecisionsAreKept == Spec => []DecisionsKept
<1>1. ASSUME IInv PROVE DecisionsKept
  <2> USE <1>1 DEF IInv
  <2>1. SavesRejectNobodyCast BY DEF SavesInv, AllSave, SavesRejectNobodyCast
  <2>2. WithdrawnStaysWithdrawn
    <3> SUFFICES ASSUME NEW t \in Tx, tx[t].step = "committed", tx[t].doing = "withdraw",
                        OnlyToggle(t)
                 PROVE  requests[work[t].user] = "none"
      BY DEF WithdrawnStaysWithdrawn
    <3>1. Request(t, work[t].user) = "none" BY DEF WithdrawnInv, Past
    <3>2. DOMAIN writes[t] = {} BY DEF IdleInv, Ended
    <3> QED BY <3>1, <3>2 DEF Request
  <2> QED BY <2>1, <2>2 DEF DecisionsKept
<1> QED BY <1>1, TransactionsInductive, PTL

-----------------------------------------------------------------------------
(* A request that nobody disturbs: the others have not begun.  It is the   *)
(* loop of CastLoop over versions of rows: after some positions, what the  *)
(* request sees of the bookings is Looped of the rows it began with, the   *)
(* lists it was handed and the positions it has visited.                   *)

Lone(t) == \A o \in Tx \ {t} : tx[o].step = "start"

\* The bookings at the start, and as t sees them.
Old == Plain(before)

Seen(t) == Plain({r \in rows : <<r, t>> \notin dead})

\* The loop of a request: the positions it visits, the rows it starts from and
\* the lists it was handed.
Span(t) ==
  IF work[t].kind = "save" THEN setup
  ELSE IF work[t].kind = "update" THEN work[t].setup \cap setup
  ELSE PositionsOf(Old, work[t].user)

Base(t) == IF work[t].kind = "update" THEN {b \in Old : b.pos \in work[t].setup} ELSE Old

Handed(t) ==
  IF work[t].kind = "save" THEN CastsOf(work[t].lists)
  ELSE IF work[t].kind = "update" THEN CurrentCasts(Old)
  ELSE WithoutUser(Old, work[t].user)

Looping == {"visit", "members", "flush"}

\* The position whose bookings are being replaced.
Now(t) == IF tx[t].step \in {"members", "flush"} THEN {tx[t].at} ELSE {}

\* The positions done with.
Visited(t) == Span(t) \ (tx[t].left \cup Now(t))

\* The rows after some positions of a loop have been visited.
Looped(base, casts, visited) ==
  (UNION {{b \in RowsFor(p, casts[p]) : \A q \in visited : q > p => b.user \notin DOMAIN casts[q]} :
            p \in visited})
    \cup {b \in base : b.pos \notin visited /\ \A q \in visited : b.user \notin DOMAIN casts[q]}

\* Bookings the keys of the table and the lists admit.
SoundRows(some) ==
  /\ some \subseteq Row
  /\ \A b, c \in some : b.user = c.user => b = c
  /\ \A b, c \in some : b.pos = c.pos /\ b.order = c.order => b = c

\* A list as CastEngine has it.
AsCast(list) == [u \in Members(list) |-> (CHOOSE i \in DOMAIN list : list[i] = u) - 1]

\* What a request does is what it was asked for, and it never waits.
Doing(t) ==
  LET c == tx[t]
      k == work[t].kind
  IN  /\ c.doing = "save" => k = "save"
      /\ c.doing = "update" => k = "update"
      /\ c.step \notin {"start", "aborted"} =>
           /\ k = "save" => c.doing = "save"
           /\ k = "update" => c.doing = "update"
           /\ k = "delete" => c.doing = "nothing" /\ c.step \in {"drop", "committed"}
           /\ k = "toggle" /\ c.step \in Looping \cup {"withdraw", "own", "remaining"} =>
                c.doing = "withdraw"
      /\ c.step \in {"purge", "purged"} => k = "update"
      /\ c.step # "wait"

\* Nothing is written yet.
Reading(t) ==
  tx[t].step \in {"start", "drop", "ask", "withdraw", "own", "remaining"} =>
    /\ Seen(t) = Old
    /\ \A r \in rows : r.by = Initial
    /\ tx[t].step = "remaining" => tx[t].waits = {r \in Visible(t) : r.user = work[t].user} /\ tx[t].waits # {}

\* An update deletes the positions that go before it reads the lists.
Purging(t) ==
  tx[t].step \in {"purge", "purged"} =>
    /\ tx[t].left \subseteq setup \ work[t].setup
    /\ Seen(t) = {b \in Old : b.pos \in tx[t].left \cup work[t].setup}
    /\ \A r \in rows : r.by = Initial

\* In the loop: between two positions, or inside one.
Visiting(t) ==
  LET c == tx[t]
      seen == Looped(Base(t), Handed(t), Visited(t))
  IN  c.step \in Looping =>
        /\ c.left \cup Now(t) \subseteq Span(t)
        /\ \A p \in Now(t), q \in c.left : p < q
        /\ \A v \in Visited(t), q \in c.left \cup Now(t) : v < q
        /\ \A p \in Span(t) : AsCast(c.lists[p]) = Handed(t)[p]
        /\ \A r \in rows : r.by = Initial \/ r.pos \in Visited(t)
        /\ c.step = "visit" => Seen(t) = seen
        /\ c.step = "members" =>
             /\ Members(c.queue) \subseteq Members(c.lists[c.at])
             /\ Seen(t) = {b \in seen : b.pos # c.at /\ b.user \notin Members(c.lists[c.at]) \ Members(c.queue)}
        /\ c.step = "flush" =>
             Seen(t) = {b \in seen : b.pos # c.at /\ b.user \notin Members(c.lists[c.at])}

\* Every position is visited.
Through(t) ==
  tx[t].step \in {"clear", "booked", "reject", "commit"} =>
    Seen(t) = IF tx[t].doing \in {"save", "withdraw", "update"}
              THEN Looped(Base(t), Handed(t), Span(t)) ELSE Old

\* What it leaves is what Casting states.
Stated(t) ==
  LET c == tx[t]
  IN  c.step = "committed" =>
        /\ c.doing = "save" => Plain(rows) = RowsAfterSave(Old, Quantities(setup), CastsOf(work[t].lists))
        /\ c.doing = "withdraw" =>
             Plain(rows) = Rewritten(Old, PositionsOf(Old, work[t].user), WithoutUser(Old, work[t].user))
        /\ c.doing = "update" =>
             Plain(rows) = Rewritten(Old, Positions, VisitedCasts(Quantities(setup), CurrentCasts(Old)))
        /\ c.doing \notin {"save", "withdraw", "update"} => Plain(rows) = Old

\* The inductive invariant.
LoneInv(t) ==
  /\ tx[t].step \notin Ended => \A b \in Old : b.pos \in setup
  /\ Doing(t) /\ Reading(t) /\ Purging(t) /\ Visiting(t) /\ Through(t) /\ Stated(t)

AloneInv == SoundRows(Old) /\ \A t \in Tx : Lone(t) => LoneInv(t)

-----------------------------------------------------------------------------
(* A list of the rows of one position in their order is its cast.          *)

LEMMA SoundFinite ==
  ASSUME NEW here, SoundRows(here)
  PROVE  IsFiniteSet(here)
<1> DEFINE f == [b \in here |-> b.user]
<1>1. f \in [here -> Users] BY DEF SoundRows, Row
<1>2. f \in Injection(here, Users) BY <1>1 DEF SoundRows, Injection, IsInjective
<1> QED BY <1>2, FS_Injection, UsersAssumption

LEMMA SoundSubset ==
  ASSUME NEW some, SoundRows(some), NEW here \in SUBSET some
  PROVE  SoundRows(here)
BY DEF SoundRows

\* The rows before a row.
Before(here, b) == {c \in here : c.order < b.order}

LEMMA IndexIsBefore ==
  ASSUME NEW here, SoundRows(here), NEW b \in here
  PROVE  CastOf(here)[b.user] = Cardinality(Before(here, b))
<1>1. {c \in here : \E own \in here : own.user = b.user /\ c.order < own.order} = Before(here, b)
  BY DEF Before, SoundRows
<1> QED BY <1>1 DEF Index, CastOf

Sorted(l, here) ==
  /\ l \in Lists /\ Members(l) = {b.user : b \in here}
  /\ \A i, j \in DOMAIN l : i < j => \E b, c \in here : b.user = l[i] /\ c.user = l[j] /\ b.order < c.order

LEMMA SortedIndices ==
  ASSUME NEW here, SoundRows(here), NEW l, Sorted(l, here), NEW i \in DOMAIN l,
         NEW b \in here, b.user = l[i]
  PROVE  CastOf(here)[b.user] = i - 1
<1> DEFINE row(u) == CHOOSE c \in here : c.user = u
           g == [j \in 1..(i - 1) |-> row(l[j])]
<1>1. /\ l \in Lists /\ Members(l) = {c.user : c \in here}
      /\ DOMAIN l = 1..Len(l) /\ Len(l) \in Nat
      /\ \A j, k \in DOMAIN l : l[j] = l[k] => j = k
  BY ListFacts DEF Sorted
<1>2. ASSUME NEW j \in DOMAIN l PROVE row(l[j]) \in here /\ row(l[j]).user = l[j]
  <2>1. \E c \in here : c.user = l[j] BY <1>1 DEF Members
  <2> QED BY <2>1
<1>3. ASSUME NEW j \in DOMAIN l, NEW k \in DOMAIN l, j < k PROVE row(l[j]).order < row(l[k]).order
  <2>1. PICK c \in here, d \in here : c.user = l[j] /\ d.user = l[k] /\ c.order < d.order
    BY <1>3 DEF Sorted
  <2>2. c = row(l[j]) /\ d = row(l[k]) BY <1>2, <2>1 DEF SoundRows
  <2> QED BY <2>1, <2>2
<1>4. b = row(l[i]) BY <1>2 DEF SoundRows
<1>5. i \in Nat /\ i - 1 \in Nat /\ \A j \in 1..(i - 1) : j \in DOMAIN l /\ j < i BY <1>1
<1>6. \A c \in here : c.order \in Nat BY DEF SoundRows, Row
<1>7. ASSUME NEW j \in 1..(i - 1) PROVE g[j] \in Before(here, b)
  BY <1>2, <1>3, <1>4, <1>5 DEF Before
<1>8. ASSUME NEW j \in 1..(i - 1), NEW k \in 1..(i - 1), g[j] = g[k] PROVE j = k
  <2>1. j \in DOMAIN l /\ k \in DOMAIN l BY <1>5
  <2>2. row(l[j]) = row(l[k]) BY <1>8
  <2>3. l[j] = l[k] BY <1>2, <2>1, <2>2
  <2> QED BY <1>1, <2>1, <2>3
<1>9. ASSUME NEW c \in Before(here, b) PROVE \E j \in 1..(i - 1) : g[j] = c
  <2>1. c \in here /\ c.order < b.order BY DEF Before
  <2>2. c.user \in Members(l) BY <1>1, <2>1
  <2>3. PICK k \in DOMAIN l : l[k] = c.user BY <2>2 DEF Members
  <2>4. row(l[k]) = c BY <1>2, <2>1, <2>3 DEF SoundRows
  <2> HIDE DEF row
  <2>5. k # i /\ ~(i < k) BY <1>3, <1>4, <1>6, <2>1, <2>3, <2>4
  <2>6. k \in 1..(i - 1) BY <1>1, <1>5, <2>5
  <2>7. g[k] = row(l[k]) BY <2>6
  <2> QED BY <2>4, <2>6, <2>7
<1>10. g \in Bijection(1..(i - 1), Before(here, b))
  <2>1. g \in [1..(i - 1) -> Before(here, b)] BY <1>7
  <2> QED BY <2>1, <1>8, <1>9 DEF Bijection, Injection, IsInjective, Surjection
<1>11. IsFiniteSet(1..(i - 1)) /\ Cardinality(1..(i - 1)) = i - 1 BY <1>5, FS_Interval
<1>12. Cardinality(Before(here, b)) = i - 1 BY <1>10, <1>11, FS_Bijection DEF ExistsBijection
<1> QED BY <1>12, IndexIsBefore

LEMMA SortedIsCast ==
  ASSUME NEW here, SoundRows(here), NEW l, Sorted(l, here)
  PROVE  AsCast(l) = CastOf(here)
<1>1. Members(l) = {b.user : b \in here} BY DEF Sorted
<1>3. ASSUME NEW u \in Members(l)
      PROVE  (CHOOSE i \in DOMAIN l : l[i] = u) - 1 = CastOf(here)[u]
  <2>1. PICK b \in here : b.user = u BY <1>1
  <2>2. \E i \in DOMAIN l : l[i] = u BY DEF Members
  <2>3. PICK i \in DOMAIN l : i = CHOOSE j \in DOMAIN l : l[j] = u BY <2>2
  <2>4. l[i] = u BY <2>2, <2>3
  <2>5. CastOf(here)[b.user] = i - 1 BY <2>1, <2>4, SortedIndices
  <2> QED BY <2>1, <2>3, <2>5
<1>4. CastOf(here) = [u \in Members(l) |-> CastOf(here)[u]] BY <1>1 DEF CastOf
<1>5. AsCast(l) = [u \in Members(l) |-> CastOf(here)[u]] BY <1>3 DEF AsCast
<1> QED BY <1>4, <1>5

\* What a SELECT in order returns, ties or not.
LEMMA OrderedIsCast ==
  ASSUME NEW some, SoundRows(Plain(some)), NEW p, \A b \in Plain(some) : b.pos = p,
         NEW l \in Lists, Ordered(some, l)
  PROVE  AsCast(l) = CastOf(Plain(some))
<1> DEFINE here == Plain(some)
<1>1. \A r \in some : [user |-> r.user, pos |-> r.pos, order |-> r.order] \in here BY DEF Plain
<1>2. \A b \in here : \E r \in some : b = [user |-> r.user, pos |-> r.pos, order |-> r.order]
  BY DEF Plain
<1> HIDE DEF here
<1>6. ASSUME NEW r \in some PROVE r.user \in {b.user : b \in here}
  <2>1. PICK b \in here : b = [user |-> r.user, pos |-> r.pos, order |-> r.order] BY <1>1
  <2>2. b.user = r.user BY <2>1
  <2> QED BY <2>2
<1>7. \A b \in here : b.user \in {r.user : r \in some} BY <1>2
<1>3. {r.user : r \in some} = {b.user : b \in here} BY <1>6, <1>7
<1>4. ASSUME NEW i \in DOMAIN l, NEW j \in DOMAIN l, i < j
      PROVE  \E b, c \in here : b.user = l[i] /\ c.user = l[j] /\ b.order < c.order
  <2>1. PICK r \in some, s \in some : r.user = l[i] /\ s.user = l[j] /\ r.order <= s.order
    BY <1>4 DEF Ordered
  <2>2. PICK b \in here : b = [user |-> r.user, pos |-> r.pos, order |-> r.order] BY <1>1
  <2>3. PICK c \in here : c = [user |-> s.user, pos |-> s.pos, order |-> s.order] BY <1>1
  <2>4. l[i] # l[j] BY <1>4, ListFacts
  <2>5. b.user # c.user /\ b.pos = c.pos /\ b.order <= c.order BY <2>1, <2>2, <2>3, <2>4 DEF here
  <2>6. b.order # c.order /\ b.order \in Nat /\ c.order \in Nat BY <2>5 DEF SoundRows, Row, here
  <2> QED BY <2>1, <2>2, <2>3, <2>5, <2>6
<1>5. Sorted(l, here) BY <1>3, <1>4 DEF Sorted, Ordered
<1> QED BY <1>5, SortedIsCast DEF here
-----------------------------------------------------------------------------
(* The loop over the positions.                                            *)

LEMMA LoopedIs ==
  ASSUME NEW base, NEW casts, NEW visited, NEW b
  PROVE  b \in Looped(base, casts, visited) <=>
           \/ \E p \in visited : /\ b \in RowsFor(p, casts[p])
                                 /\ \A q \in visited : q > p => b.user \notin DOMAIN casts[q]
           \/ b \in base /\ b.pos \notin visited /\ \A q \in visited : b.user \notin DOMAIN casts[q]
BY DEF Looped

LEMMA RowsForIs ==
  ASSUME NEW p, NEW cast, NEW b \in RowsFor(p, cast)
  PROVE  b.pos = p /\ b.user \in DOMAIN cast
BY DEF RowsFor

\* A step of the loop visits the next position.
LEMMA LoopedNext ==
  ASSUME NEW base, NEW casts, NEW visited \in SUBSET Positions, NEW p \in Positions,
         \A v \in visited : v < p
  PROVE  {b \in Looped(base, casts, visited) : b.pos # p /\ b.user \notin DOMAIN casts[p]}
           \cup RowsFor(p, casts[p]) = Looped(base, casts, visited \cup {p})
<1> DEFINE former == Looped(base, casts, visited)
            latter == Looped(base, casts, visited \cup {p})
<1>0. Positions \subseteq Nat
  BY PositionsAssumption DEF Positions
<1>1. ASSUME NEW b \in RowsFor(p, casts[p]) PROVE b \in latter
  <2>1. \A q \in visited \cup {p} : ~(q > p)
    BY <1>0
  <2> QED BY <2>1, LoopedIs
<1>2. ASSUME NEW b \in former, b.pos # p, b.user \notin DOMAIN casts[p] PROVE b \in latter
  <2>1. CASE \E r \in visited : /\ b \in RowsFor(r, casts[r])
                                /\ \A q \in visited : q > r => b.user \notin DOMAIN casts[q]
    BY <1>2, <2>1, LoopedIs
  <2>2. CASE b \in base /\ b.pos \notin visited /\ \A q \in visited : b.user \notin DOMAIN casts[q]
    BY <1>2, <2>2, LoopedIs
  <2> QED BY <2>1, <2>2, LoopedIs
<1>3. ASSUME NEW b \in latter
      PROVE  \/ b \in RowsFor(p, casts[p])
             \/ b \in former /\ b.pos # p /\ b.user \notin DOMAIN casts[p]
  <2>1. CASE \E r \in visited \cup {p} :
               /\ b \in RowsFor(r, casts[r])
               /\ \A q \in visited \cup {p} : q > r => b.user \notin DOMAIN casts[q]
    <3>1. PICK r \in visited \cup {p} :
               /\ b \in RowsFor(r, casts[r])
               /\ \A q \in visited \cup {p} : q > r => b.user \notin DOMAIN casts[q]
      BY <2>1
    <3>2. CASE r # p
      <4>1. r \in visited /\ r < p /\ p > r
        BY <1>0, <3>2
      <4>2. b.pos = r
        BY <3>1, RowsForIs
      <4> QED BY <3>1, <3>2, <4>1, <4>2, LoopedIs
    <3> QED BY <3>1, <3>2
  <2>2. CASE b \in base /\ b.pos \notin visited \cup {p}
               /\ \A q \in visited \cup {p} : b.user \notin DOMAIN casts[q]
    BY <2>2, LoopedIs
  <2> QED BY <2>1, <2>2, LoopedIs
<1> HIDE DEF former, latter
<1>4. {b \in former : b.pos # p /\ b.user \notin DOMAIN casts[p]} \cup RowsFor(p, casts[p]) = latter
  BY <1>1, <1>2, <1>3
<1> QED BY <1>4 DEF former, latter

LEMMA LoopedNone ==
  ASSUME NEW base, NEW casts
  PROVE  Looped(base, casts, {}) = base
BY DEF Looped

LEMMA LoopedAll ==
  ASSUME NEW base, NEW casts, NEW s
  PROVE  Looped(base, casts, InSetup(s)) = RowsAfterSave(base, s, casts)
BY DEF Looped, RowsAfterSave, PlacedAt

\* Lists of users who hold a booking at that position already: nobody is moved.
LEMMA LoopedAtHome ==
  ASSUME NEW some, SoundRows(some), NEW casts, NEW visited \in SUBSET Positions,
         \A p \in visited : DOMAIN casts[p] \subseteq {b.user : b \in RowsAt(some, p)}
  PROVE  Looped(some, casts, visited) =
           {b \in some : b.pos \notin visited} \cup (UNION {RowsFor(p, casts[p]) : p \in visited})
<1> DEFINE plain == {b \in some : b.pos \notin visited} \cup (UNION {RowsFor(p, casts[p]) : p \in visited})
<1>1. ASSUME NEW p \in visited, NEW u \in DOMAIN casts[p]
      PROVE  \A b \in some : b.user = u => b.pos = p
  BY DEF RowsAt, SoundRows
<1>2. ASSUME NEW b, b \in some, b.pos \notin visited
      PROVE  \A q \in visited : b.user \notin DOMAIN casts[q]
  BY <1>1, <1>2
<1>3. ASSUME NEW p \in visited, NEW b \in RowsFor(p, casts[p])
      PROVE  \A q \in visited : q > p => b.user \notin DOMAIN casts[q]
  <2>1. b.user \in DOMAIN casts[p] BY RowsForIs
  <2>2. PICK r \in some : r.user = b.user /\ r.pos = p BY <2>1 DEF RowsAt
  <2>3. \A q \in visited : b.user \in DOMAIN casts[q] => q = p BY <1>1, <2>2
  <2>4. p \in Nat BY PositionsAssumption DEF Positions
  <2> QED BY <2>3, <2>4
<1>4. \A b : b \in Looped(some, casts, visited) <=> b \in plain
  BY <1>2, <1>3, LoopedIs
<1> QED BY <1>4
-----------------------------------------------------------------------------
(* A request that nobody disturbs.                                         *)

LEMMA PlainIs ==
  ASSUME NEW some, NEW b
  PROVE  b \in Plain(some) <=> \E r \in some : b = [user |-> r.user, pos |-> r.pos, order |-> r.order]
BY DEF Plain

LEMMA LoneFacts ==
  ASSUME IInv, NEW t \in Tx, Lone(t)
  PROVE  /\ rows \subseteq Version /\ \A r \in rows : r.by \in {t, Initial} /\ Deleters(t, r) = {}
         /\ \A d \in dead : d[1] \in rows /\ d[2] = t /\ d = <<d[1], t>>
         /\ Visible(t) = {r \in rows : <<r, t>> \notin dead}
         /\ \A r, s \in Visible(t) : r.user = s.user => r = s
         /\ Seen(t) = Plain(Visible(t))
<1> USE DEF IInv
<1>1. rows \subseteq Version /\ dead \subseteq rows \X Tx BY DEF Types
<1>2. \A o \in Tx \ {t}, r \in rows : <<r, o>> \notin dead /\ r.by # o
  BY DEF Lone, IdleInv
<1>3. \A r \in rows : r.by \in {t, Initial} BY <1>1, <1>2 DEF Version
<1>4. \A r \in rows : Deleters(t, r) = {} BY <1>2 DEF Deleters
<1>5. ASSUME NEW d \in dead PROVE d[1] \in rows /\ d[2] = t /\ d = <<d[1], t>>
  <2>1. d[1] \in rows /\ d[2] \in Tx /\ d = <<d[1], d[2]>> BY <1>1
  <2> QED BY <1>2, <2>1
<1>6. Visible(t) = {r \in rows : <<r, t>> \notin dead} BY <1>3 DEF Visible, Committed
<1>7. \A r, s \in Visible(t) : r.user = s.user => r = s
  <2> SUFFICES ASSUME NEW r \in Visible(t), NEW s \in Visible(t), r.user = s.user, r # s
               PROVE  FALSE
    OBVIOUS
  <2>1. r \in rows /\ s \in rows /\ <<r, t>> \notin dead /\ <<s, t>> \notin dead BY <1>6
  <2>2. (s.by \in Tx /\ <<r, s.by>> \in dead) \/ (r.by \in Tx /\ <<s, r.by>> \in dead)
    BY <2>1 DEF VersionsInv
  <2> QED BY <1>3, <2>1, <2>2, InitialAssumption
<1>8. Seen(t) = Plain(Visible(t)) BY <1>6 DEF Seen
<1> QED BY <1>1, <1>3, <1>4, <1>5, <1>6, <1>7, <1>8

\* Whoever takes a step has begun.
LEMMA StepBegins ==
  ASSUME IInv, NEW s \in Tx, Handler(s)
  PROVE  /\ tx'[s].step # "start" /\ \A o \in Tx \ {s} : tx'[o] = tx[o]
         /\ UNCHANGED <<work, before>>
<1> USE DEF IInv
<1>1. tx \in [Tx -> Call] BY DEF Types
<1>2. \E next : tx' = [tx EXCEPT ![s] = next] /\ next.step # "start"
  <2>1. CASE StartSave(s) \/ StartToggle(s) \/ StartUpdate(s) \/ StartDelete(s)
    BY <2>1, QuietStarts DEF Quiet
  <2>2. CASE \/ NoMemberLeft(s) \/ AllVisited(s) \/ ReadBooked(s) \/ ReadOwn(s)
             \/ ReadRemaining(s) \/ (Purged(s) /\ ~gone) \/ ReadCast(s)
    BY <2>2, QuietReads DEF Quiet
  <2>3. CASE Visit(s) \/ DeleteMember(s) \/ Purge(s) \/ Resume(s)
    BY <2>3, DeletesAre DEF Deletes
  <2>4. CASE Abort(s)
    <3> DEFINE next == [tx[s] EXCEPT !.step = "aborted", !.waits = {}]
    <3>1. tx' = [tx EXCEPT ![s] = next] BY <2>4, <1>1 DEF Abort
    <3>2. next.step # "start" BY <1>1 DEF Call
    <3> QED BY <3>1, <3>2
  <2>5. CASE Flush(s) /\ ~Abort(s)
    <3> DEFINE next == [tx[s] EXCEPT !.step = "visit"]
    <3>1. tx' = [tx EXCEPT ![s] = next] BY <2>5, <1>1 DEF Flush
    <3>2. next.step # "start" BY <1>1 DEF Call
    <3> QED BY <3>1, <3>2
  <2>6. CASE (Ask(s) \/ Reject(s)) /\ ~Abort(s)
    <3>1. tx' = [tx EXCEPT ![s] = [@ EXCEPT !.step = "commit"]]
            \/ tx' = [tx EXCEPT ![s] = [@ EXCEPT !.step = "commit", !.waits = {}]]
      BY <2>6, <1>1 DEF Ask, Reject
    <3>2. [tx[s] EXCEPT !.step = "commit"].step # "start"
            /\ [tx[s] EXCEPT !.step = "commit", !.waits = {}].step # "start"
      BY <1>1 DEF Call
    <3> QED BY <3>1, <3>2
  <2>7. CASE (Drop(s) /\ ~Abort(s)) \/ Commit(s)
    <3> DEFINE next == [tx[s] EXCEPT !.step = "committed"]
    <3>1. tx' = [tx EXCEPT ![s] = next] BY <2>7, <1>1 DEF Drop, Commit
    <3>2. next.step # "start" BY <1>1 DEF Call
    <3> QED BY <3>1, <3>2
  <2>8. CASE ClearRejections(s)
    <3> DEFINE next == [tx[s] EXCEPT !.step = "booked"]
    <3>1. tx' = [tx EXCEPT ![s] = next] BY <2>8, <1>1 DEF ClearRejections
    <3>2. next.step # "start" BY <1>1 DEF Call
    <3> QED BY <3>1, <3>2
  <2>9. CASE Withdraw(s)
    <3> DEFINE next == [tx[s] EXCEPT !.step = "own"]
    <3>1. tx' = [tx EXCEPT ![s] = next] BY <2>9, <1>1 DEF Withdraw
    <3>2. next.step # "start" BY <1>1 DEF Call
    <3> QED BY <3>1, <3>2
  <2> QED
    BY <2>1, <2>2, <2>3, <2>4, <2>5, <2>6, <2>7, <2>8, <2>9
    DEF Handler, NotFound, Victim, Purged
<1>3. UNCHANGED <<work, before>>
  BY DEF Handler, StartSave, StartToggle, StartUpdate, StartDelete, NotFound, Visit, DeleteMember,
         NoMemberLeft, Flush, AllVisited, ClearRejections, ReadBooked, Reject, Ask, Withdraw, ReadOwn,
         ReadRemaining, Purge, Purged, ReadCast, Drop, Resume, Commit, Victim, Abort
<1> QED BY <1>1, <1>2, <1>3

LEMMA StaysLone ==
  ASSUME IInv, NEW s \in Tx, Handler(s), NEW t \in Tx, Lone(t)'
  PROVE  s = t /\ Lone(t)
<1>1. tx'[s].step # "start" /\ \A o \in Tx \ {s} : tx'[o] = tx[o] BY StepBegins
<1> QED BY <1>1 DEF Lone
-----------------------------------------------------------------------------
(* What its statements do to the bookings it sees.                         *)

\* The rows of the start, and what follows from the request's work.
LEMMA Framed ==
  ASSUME NEW t \in Tx, UNCHANGED <<work, before>>
  PROVE  /\ UNCHANGED <<Old, Base(t), Handed(t)>>
         /\ setup' = setup => UNCHANGED Span(t)
BY DEF Old, Base, Handed, Span

LEMMA SeenUnchanged ==
  ASSUME NEW t \in Tx, UNCHANGED <<rows, dead>>
  PROVE  Seen(t)' = Seen(t)
BY DEF Seen

LEMMA SeenDeleted ==
  ASSUME IInv, NEW t \in Tx, Lone(t), NEW targets \in SUBSET Visible(t), NEW next,
         Delete(t, targets, next), UNCHANGED rows
  PROVE  /\ tx' = [tx EXCEPT ![t] = next]
         /\ Seen(t)' = Plain(Visible(t) \ targets)
<1> DEFINE free == {r \in targets : Deleters(t, r) = {}}
<1>1. targets \subseteq rows BY LoneFacts
<1>2. free = targets BY <1>1, LoneFacts
<1>3. tx' = [tx EXCEPT ![t] = next] BY <1>2 DEF Delete
<1>4. dead' = dead \cup (targets \X {t}) BY <1>2 DEF Delete
<1>5. {r \in rows : <<r, t>> \notin dead'} = Visible(t) \ targets
  <2>1. Visible(t) = {r \in rows : <<r, t>> \notin dead} BY LoneFacts
  <2>2. \A r : <<r, t>> \in targets \X {t} <=> r \in targets OBVIOUS
  <2> QED BY <1>4, <2>1, <2>2
<1>6. Seen(t)' = Plain({r \in rows : <<r, t>> \notin dead'}) BY DEF Seen
<1> QED BY <1>3, <1>5, <1>6

LEMMA WithoutPosition ==
  ASSUME NEW some, NEW p
  PROVE  Plain(some \ {r \in some : r.pos = p}) = {b \in Plain(some) : b.pos # p}
<1>1. ASSUME NEW b
      PROVE  b \in Plain(some \ {r \in some : r.pos = p}) <=> b \in {c \in Plain(some) : c.pos # p}
  <2>1. b \in Plain(some) /\ b.pos # p <=>
          \E r \in some : b = [user |-> r.user, pos |-> r.pos, order |-> r.order] /\ r.pos # p
    BY PlainIs
  <2> QED BY <2>1, PlainIs
<1> QED BY <1>1

LEMMA WithoutHolder ==
  ASSUME NEW some, NEW u
  PROVE  Plain(some \ {r \in some : r.user = u}) = {b \in Plain(some) : b.user # u}
<1>1. ASSUME NEW b
      PROVE  b \in Plain(some \ {r \in some : r.user = u}) <=> b \in {c \in Plain(some) : c.user # u}
  <2>1. b \in Plain(some) /\ b.user # u <=>
          \E r \in some : b = [user |-> r.user, pos |-> r.pos, order |-> r.order] /\ r.user # u
    BY PlainIs
  <2> QED BY <2>1, PlainIs
<1> QED BY <1>1

LEMMA AtPosition ==
  ASSUME NEW some, NEW p
  PROVE  Plain({r \in some : r.pos = p}) = RowsAt(Plain(some), p)
<1>1. ASSUME NEW b
      PROVE  b \in Plain({r \in some : r.pos = p}) <=> b \in RowsAt(Plain(some), p)
  <2>1. b \in Plain(some) /\ b.pos = p <=>
          \E r \in some : b = [user |-> r.user, pos |-> r.pos, order |-> r.order] /\ r.pos = p
    BY PlainIs
  <2> QED BY <2>1, PlainIs DEF RowsAt
<1> QED BY <1>1

LEMMA PlainJoined ==
  ASSUME NEW some, NEW more
  PROVE  Plain(some \cup more) = Plain(some) \cup Plain(more)
<1>1. ASSUME NEW b PROVE b \in Plain(some \cup more) <=> b \in Plain(some) \cup Plain(more)
  BY PlainIs
<1> QED BY <1>1

\* The rows of a list.
LEMMA PlainList ==
  ASSUME NEW l \in Lists, NEW p, NEW t
  PROVE  Plain({[user |-> l[i], pos |-> p, order |-> i - 1, by |-> t] : i \in DOMAIN l})
           = RowsFor(p, AsCast(l))
<1> DEFINE new == {[user |-> l[i], pos |-> p, order |-> i - 1, by |-> t] : i \in DOMAIN l}
           at(u) == CHOOSE i \in DOMAIN l : l[i] = u
<1>1. \A u \in Members(l) : at(u) \in DOMAIN l /\ l[at(u)] = u BY DEF Members
<1>2. \A i \in DOMAIN l : l[i] \in Members(l) /\ at(l[i]) = i
  <2> TAKE i \in DOMAIN l
  <2>1. l[i] \in Members(l) BY DEF Members
  <2> QED BY <1>1, <2>1, ListFacts
<1>3. DOMAIN AsCast(l) = Members(l) /\ \A u \in Members(l) : AsCast(l)[u] = at(u) - 1 BY DEF AsCast
<1> HIDE DEF at
<1>4. ASSUME NEW b \in Plain(new) PROVE b \in RowsFor(p, AsCast(l))
  <2>1. PICK i \in DOMAIN l : b = [user |-> l[i], pos |-> p, order |-> i - 1] BY DEF Plain
  <2>2. b = [user |-> l[i], pos |-> p, order |-> AsCast(l)[l[i]]] BY <1>2, <1>3, <2>1
  <2> QED BY <1>2, <1>3, <2>2 DEF RowsFor
<1>5. ASSUME NEW b \in RowsFor(p, AsCast(l)) PROVE b \in Plain(new)
  <2>1. PICK u \in Members(l) : b = [user |-> u, pos |-> p, order |-> AsCast(l)[u]]
    BY <1>3 DEF RowsFor
  <2>2. /\ at(u) \in DOMAIN l
        /\ b = [user |-> l[at(u)], pos |-> p, order |-> at(u) - 1]
    BY <1>1, <1>3, <2>1
  <2>3. [user |-> l[at(u)], pos |-> p, order |-> at(u) - 1, by |-> t] \in new BY <2>2
  <2> HIDE DEF new
  <2> QED BY <2>2, <2>3, PlainIs
<1> QED BY <1>4, <1>5
-----------------------------------------------------------------------------
(* The steps of a request that nobody disturbs.                            *)

\* Who stands at one stage has nothing to say of the others.
LEMMA Staged ==
  ASSUME NEW t \in Tx, Doing(t)', tx'[t].step \notin Ended => \A b \in Old' : b.pos \in setup',
         \/ tx'[t].step \in Looping /\ Visiting(t)'
         \/ tx'[t].step \in {"start", "drop", "ask", "withdraw", "own", "remaining"} /\ Reading(t)'
         \/ tx'[t].step \in {"purge", "purged"} /\ Purging(t)'
         \/ tx'[t].step \in {"clear", "booked", "reject", "commit"} /\ Through(t)'
         \/ tx'[t].step = "committed" /\ Stated(t)'
         \/ tx'[t].step = "aborted"
  PROVE  LoneInv(t)'
<1>1. CASE tx'[t].step \in Looping /\ Visiting(t)'
  BY <1>1 DEF LoneInv, Looping, Reading, Purging, Through, Stated
<1>2. CASE tx'[t].step \in {"start", "drop", "ask", "withdraw", "own", "remaining"} /\ Reading(t)'
  BY <1>2 DEF LoneInv, Looping, Visiting, Purging, Through, Stated
<1>3. CASE tx'[t].step \in {"purge", "purged"} /\ Purging(t)'
  BY <1>3 DEF LoneInv, Looping, Visiting, Reading, Through, Stated
<1>4. CASE tx'[t].step \in {"clear", "booked", "reject", "commit"} /\ Through(t)'
  BY <1>4 DEF LoneInv, Looping, Visiting, Reading, Purging, Stated
<1>5. CASE tx'[t].step = "committed" /\ Stated(t)'
  BY <1>5 DEF LoneInv, Looping, Visiting, Reading, Purging, Through
<1>6. CASE tx'[t].step = "aborted"
  BY <1>6 DEF LoneInv, Looping, Visiting, Reading, Purging, Through, Stated
<1> QED BY <1>1, <1>2, <1>3, <1>4, <1>5, <1>6

\* What a step leaves alone.
LEMMA Stood ==
  ASSUME IInv, NEW t \in Tx, LoneInv(t), tx[t].step \notin Ended, UNCHANGED <<work, before, setup>>
  PROVE  /\ Old' = Old /\ Base(t)' = Base(t) /\ Handed(t)' = Handed(t) /\ Span(t)' = Span(t)
         /\ \A b \in Old' : b.pos \in setup'
BY Framed DEF LoneInv

LEMMA LoneSave ==
  ASSUME IInv, NEW t \in Tx, Lone(t), LoneInv(t), StartSave(t)
  PROVE  LoneInv(t)'
<1>1. /\ work[t].kind = "save" /\ tx[t].step = "start"
      /\ tx' = [tx EXCEPT ![t] = [@ EXCEPT !.step = "visit", !.left = setup, !.lists = work[t].lists,
                                           !.doing = "save"]]
      /\ UNCHANGED <<work, before, setup, rows, dead>>
  BY DEF StartSave
<1>2. /\ tx'[t].step = "visit" /\ tx'[t].left = setup /\ tx'[t].lists = work[t].lists
      /\ tx'[t].doing = "save"
  BY <1>1 DEF IInv, Types, Call
<1>3. /\ Old' = Old /\ Base(t)' = Base(t) /\ Handed(t)' = Handed(t) /\ Span(t)' = Span(t)
      /\ \A b \in Old' : b.pos \in setup'
  BY <1>1, Stood DEF Ended
<1>4. Seen(t) = Old /\ \A r \in rows : r.by = Initial BY <1>1 DEF LoneInv, Reading
<1>5. Base(t) = Old /\ Span(t) = setup /\ Handed(t) = CastsOf(work[t].lists)
  BY <1>1 DEF Base, Span, Handed
<1>6. Now(t)' = {} /\ Visited(t)' = {} BY <1>2, <1>3, <1>5 DEF Now, Visited
<1>7. ASSUME NEW p \in setup PROVE AsCast(tx'[t].lists[p]) = Handed(t)[p]
  <2>1. p \in Positions BY DEF IInv, Types
  <2> QED BY <1>2, <1>5, <2>1 DEF AsCast, CastsOf
<1>8. Seen(t)' = Looped(Base(t)', Handed(t)', Visited(t)')
  BY <1>1, <1>3, <1>4, <1>5, <1>6, SeenUnchanged, LoopedNone
<1>9. Visiting(t)'
  BY <1>1, <1>2, <1>3, <1>4, <1>5, <1>6, <1>7, <1>8 DEF Visiting
<1>10. Doing(t)' BY <1>1, <1>2 DEF Doing, Looping
<1> QED BY <1>2, <1>3, <1>9, <1>10, Staged DEF Looping

LEMMA LoneToggle ==
  ASSUME IInv, NEW t \in Tx, Lone(t), LoneInv(t), StartToggle(t)
  PROVE  LoneInv(t)'
<1>1. /\ work[t].kind = "toggle" /\ tx[t].step = "start"
      /\ UNCHANGED <<work, before, setup, rows, dead>>
  BY DEF StartToggle
<1>2. tx'[t].step \in {"commit", "withdraw", "ask"} /\ tx'[t].doing = tx'[t].step
  BY DEF StartToggle, IInv, Types, Call
<1>3. /\ Old' = Old /\ \A b \in Old' : b.pos \in setup'
  BY <1>1, Stood DEF Ended
<1>4. Seen(t)' = Old' /\ \A r \in rows' : r.by = Initial
  BY <1>1, <1>3, SeenUnchanged DEF LoneInv, Reading
<1>5. Doing(t)' BY <1>1, <1>2 DEF Doing, Looping
<1>6. CASE tx'[t].step = "commit"
  <2>1. Through(t)' BY <1>2, <1>4, <1>6 DEF Through
  <2> QED BY <1>3, <1>5, <1>6, <2>1, Staged
<1>7. CASE tx'[t].step \in {"withdraw", "ask"}
  <2>1. Reading(t)' BY <1>4, <1>7 DEF Reading
  <2> QED BY <1>3, <1>5, <1>7, <2>1, Staged
<1> QED BY <1>2, <1>6, <1>7

LEMMA LoneUpdate ==
  ASSUME IInv, NEW t \in Tx, Lone(t), LoneInv(t), StartUpdate(t)
  PROVE  LoneInv(t)'
<1>1. /\ work[t].kind = "update" /\ tx[t].step = "start"
      /\ UNCHANGED <<work, before, setup, rows, dead>>
  BY DEF StartUpdate
<1>2. /\ tx'[t].step = "purge" /\ tx'[t].left = setup \ work[t].setup
      /\ tx'[t].doing = "update"
  BY DEF StartUpdate, IInv, Types, Call
<1>3. /\ Old' = Old /\ \A b \in Old' : b.pos \in setup'
  BY <1>1, Stood DEF Ended
<1>4. Seen(t)' = Old' /\ \A r \in rows' : r.by = Initial
  BY <1>1, <1>3, SeenUnchanged DEF LoneInv, Reading
<1>5. Old' = {b \in Old' : b.pos \in tx'[t].left \cup work'[t].setup}
  <2>1. \A b \in Old' : b.pos \in tx'[t].left \cup work'[t].setup BY <1>1, <1>2, <1>3
  <2> QED BY <2>1
<1>6. Purging(t)' BY <1>1, <1>2, <1>4, <1>5 DEF Purging
<1>7. Doing(t)' BY <1>1, <1>2 DEF Doing, Looping
<1> QED BY <1>2, <1>3, <1>6, <1>7, Staged

LEMMA LoneDelete ==
  ASSUME IInv, NEW t \in Tx, Lone(t), LoneInv(t), StartDelete(t)
  PROVE  LoneInv(t)'
<1>1. /\ work[t].kind = "delete" /\ tx[t].step = "start" /\ tx[t].doing = "nothing"
      /\ UNCHANGED <<work, before, setup, rows, dead>>
  BY DEF StartDelete, IInv, CallsInv, CallOK
<1>2. tx'[t].step \in {"aborted", "drop"} /\ tx'[t].doing = "nothing"
  BY <1>1 DEF StartDelete, IInv, Types, Call
<1>3. /\ Old' = Old /\ \A b \in Old' : b.pos \in setup'
  BY <1>1, Stood DEF Ended
<1>4. Seen(t)' = Old' /\ \A r \in rows' : r.by = Initial
  BY <1>1, <1>3, SeenUnchanged DEF LoneInv, Reading
<1>5. Doing(t)' BY <1>1, <1>2 DEF Doing, Looping
<1>6. Reading(t)' BY <1>2, <1>4 DEF Reading
<1> QED BY <1>2, <1>3, <1>5, <1>6, Staged
-----------------------------------------------------------------------------
(* The steps of its loop.                                                  *)

LEMMA LoneVisit ==
  ASSUME IInv, NEW t \in Tx, Lone(t), LoneInv(t), Visit(t)
  PROVE  LoneInv(t)'
<1> DEFINE p == CHOOSE q \in tx[t].left : \A o \in tx[t].left : q <= o
           next == [tx[t] EXCEPT !.step = "members", !.at = p, !.left = @ \ {p},
                                 !.queue = tx[t].lists[p]]
           targets == {r \in Visible(t) : r.pos = p}
<1>1. /\ tx[t].step = "visit" /\ tx[t].left # {} /\ Delete(t, targets, next)
      /\ UNCHANGED <<work, before, setup, rows>>
  BY DEF Visit
<1>2. tx[t] \in Call /\ tx[t].left \subseteq Positions /\ Positions \subseteq Nat
  BY PositionsAssumption DEF IInv, Types, Call, Positions
<1>3. p \in tx[t].left /\ \A o \in tx[t].left : p <= o BY <1>1, <1>2, LeastPosition
<1> HIDE DEF p
<1>4. /\ next.step = "members" /\ next.at = p /\ next.left = tx[t].left \ {p}
      /\ next.queue = tx[t].lists[p] /\ next.lists = tx[t].lists /\ next.doing = tx[t].doing
  BY <1>2 DEF Call
<1> HIDE DEF next
<1>5. tx' = [tx EXCEPT ![t] = next] /\ Seen(t)' = Plain(Visible(t) \ targets)
  BY <1>1, SeenDeleted
<1>6. tx'[t] = next BY <1>5 DEF IInv, Types
<1>7. Seen(t)' = {b \in Seen(t) : b.pos # p}
  <2>1. Seen(t) = Plain(Visible(t)) BY LoneFacts
  <2>2. Plain(Visible(t) \ targets) = {b \in Plain(Visible(t)) : b.pos # p} BY WithoutPosition
  <2> QED BY <1>5, <2>1, <2>2
<1>8. /\ Old' = Old /\ Base(t)' = Base(t) /\ Handed(t)' = Handed(t) /\ Span(t)' = Span(t)
      /\ \A b \in Old' : b.pos \in setup'
  BY <1>1, Stood DEF Ended
<1>9. Now(t) = {} /\ Now(t)' = {p} BY <1>1, <1>4, <1>6 DEF Now
<1>10. tx'[t].left \cup Now(t)' = tx[t].left \cup Now(t) /\ Visited(t)' = Visited(t)
  <2>1. tx'[t].left \cup Now(t)' = tx[t].left BY <1>3, <1>4, <1>6, <1>9
  <2> QED BY <2>1, <1>8, <1>9 DEF Visited
<1>11. /\ tx[t].left \cup Now(t) \subseteq Span(t)
       /\ \A v \in Visited(t), q \in tx[t].left \cup Now(t) : v < q
       /\ \A q \in Span(t) : AsCast(tx[t].lists[q]) = Handed(t)[q]
       /\ \A r \in rows : r.by = Initial \/ r.pos \in Visited(t)
       /\ Seen(t) = Looped(Base(t), Handed(t), Visited(t))
  BY <1>1 DEF LoneInv, Visiting, Looping
<1>12. \A q \in tx'[t].left : p < q
  <2>1. tx'[t].left = tx[t].left \ {p} BY <1>4, <1>6
  <2>2. p \in Nat /\ \A q \in tx[t].left : q \in Nat BY <1>2, <1>3
  <2> QED BY <1>3, <2>1, <2>2
<1>13. Members(tx'[t].queue) = Members(tx'[t].lists[tx'[t].at]) BY <1>4, <1>6
<1>14. Seen(t)' = {b \in Looped(Base(t)', Handed(t)', Visited(t)') :
                     b.pos # tx'[t].at
                       /\ b.user \notin Members(tx'[t].lists[tx'[t].at]) \ Members(tx'[t].queue)}
  BY <1>4, <1>6, <1>7, <1>8, <1>10, <1>11, <1>13
<1>15. Visiting(t)'
  BY <1>1, <1>4, <1>6, <1>8, <1>9, <1>10, <1>11, <1>12, <1>13, <1>14 DEF Visiting
<1>16. Doing(t)' BY <1>1, <1>4, <1>6 DEF LoneInv, Doing, Looping
<1> QED BY <1>4, <1>6, <1>8, <1>15, <1>16, Staged DEF Looping

\* The head of a list and its tail name different users.
LEMMA HeadTail ==
  ASSUME NEW l \in Lists, l # <<>>
  PROVE  /\ Members(l) = {Head(l)} \cup Members(Tail(l))
         /\ Head(l) \notin Members(Tail(l))
<1>1. /\ l \in Seq(Users) /\ DOMAIN l = 1..Len(l) /\ Len(l) \in Nat
      /\ \A i, j \in DOMAIN l : l[i] = l[j] => i = j
  BY ListFacts
<1>2. /\ Len(l) >= 1 /\ Head(l) = l[1] /\ DOMAIN Tail(l) = 1..(Len(l) - 1)
      /\ \A i \in 1..(Len(l) - 1) : Tail(l)[i] = l[i + 1]
  BY <1>1
<1> DEFINE m == Tail(l)
           h == Head(l)
<1>3. h = l[1] /\ DOMAIN m = 1..(Len(l) - 1) /\ \A i \in 1..(Len(l) - 1) : m[i] = l[i + 1]
  BY <1>2
<1> HIDE DEF m, h
<1>4. ASSUME NEW u \in Members(l) PROVE u \in {h} \cup Members(m)
  <2>1. PICK i \in 1..Len(l) : l[i] = u BY <1>1 DEF Members
  <2>2. CASE i = 1 BY <1>3, <2>1, <2>2
  <2>3. CASE i # 1
    <3>1. i - 1 \in 1..(Len(l) - 1) /\ (i - 1) + 1 = i BY <1>1, <2>3
    <3>2. m[i - 1] = u BY <1>3, <2>1, <3>1
    <3> QED BY <1>3, <3>1, <3>2 DEF Members
  <2> QED BY <2>2, <2>3
<1>5. ASSUME NEW u \in Members(m) PROVE u \in Members(l) /\ u # h
  <2>1. PICK i \in 1..(Len(l) - 1) : m[i] = u BY <1>3 DEF Members
  <2>2. i + 1 \in 1..Len(l) /\ i + 1 # 1 /\ l[i + 1] = u /\ 1 \in 1..Len(l) BY <1>1, <1>2, <1>3, <2>1
  <2> QED BY <1>1, <1>3, <2>2 DEF Members
<1>6. h \in Members(l)
  <2>1. 1 \in DOMAIN l BY <1>1, <1>2
  <2> QED BY <1>3, <2>1 DEF Members
<1> QED BY <1>4, <1>5, <1>6 DEF m, h

LEMMA LoneDeleteMember ==
  ASSUME IInv, NEW t \in Tx, Lone(t), LoneInv(t), DeleteMember(t)
  PROVE  LoneInv(t)'
<1> DEFINE u == Head(tx[t].queue)
           rest == Tail(tx[t].queue)
           next == [tx[t] EXCEPT !.queue = rest]
           targets == {r \in Visible(t) : r.user = u}
<1>1. /\ tx[t].step = "members" /\ tx[t].queue # <<>> /\ Delete(t, targets, next)
      /\ UNCHANGED <<work, before, setup, rows>>
  <2>1. [tx[t] EXCEPT !.queue = Tail(@)] = next OBVIOUS
  <2> QED BY <2>1 DEF DeleteMember
<1>2. tx[t] \in Call /\ tx[t].queue \in Lists BY DEF IInv, Types, Call
<1>3. Members(tx[t].queue) = {u} \cup Members(rest) /\ u \notin Members(rest)
  BY <1>1, <1>2, HeadTail
<1> HIDE DEF u, rest
<1>4. /\ next.step = "members" /\ next.at = tx[t].at /\ next.left = tx[t].left
      /\ next.queue = rest /\ next.lists = tx[t].lists /\ next.doing = tx[t].doing
  BY <1>1, <1>2 DEF Call
<1> HIDE DEF next
<1>5. tx' = [tx EXCEPT ![t] = next] /\ Seen(t)' = Plain(Visible(t) \ targets)
  BY <1>1, SeenDeleted
<1>6. tx'[t] = next BY <1>5 DEF IInv, Types
<1>7. Seen(t)' = {b \in Seen(t) : b.user # u}
  <2>1. Seen(t) = Plain(Visible(t)) BY LoneFacts
  <2>2. Plain(Visible(t) \ targets) = {b \in Plain(Visible(t)) : b.user # u} BY WithoutHolder
  <2> QED BY <1>5, <2>1, <2>2
<1>8. /\ Old' = Old /\ Base(t)' = Base(t) /\ Handed(t)' = Handed(t) /\ Span(t)' = Span(t)
      /\ \A b \in Old' : b.pos \in setup'
  BY <1>1, Stood DEF Ended
<1>9. Now(t)' = Now(t) /\ Visited(t)' = Visited(t)
  <2>1. Now(t)' = Now(t) BY <1>1, <1>4, <1>6 DEF Now
  <2> QED BY <2>1, <1>4, <1>6, <1>8 DEF Visited
<1>10. /\ tx[t].left \cup Now(t) \subseteq Span(t)
       /\ \A q \in Now(t), o \in tx[t].left : q < o
       /\ \A v \in Visited(t), q \in tx[t].left \cup Now(t) : v < q
       /\ \A q \in Span(t) : AsCast(tx[t].lists[q]) = Handed(t)[q]
       /\ \A r \in rows : r.by = Initial \/ r.pos \in Visited(t)
       /\ Members(tx[t].queue) \subseteq Members(tx[t].lists[tx[t].at])
       /\ Seen(t) = {b \in Looped(Base(t), Handed(t), Visited(t)) :
                       b.pos # tx[t].at
                         /\ b.user \notin Members(tx[t].lists[tx[t].at]) \ Members(tx[t].queue)}
  BY <1>1 DEF LoneInv, Visiting, Looping
<1>11. Seen(t)' = {b \in Looped(Base(t)', Handed(t)', Visited(t)') :
                     b.pos # tx'[t].at
                       /\ b.user \notin Members(tx'[t].lists[tx'[t].at]) \ Members(tx'[t].queue)}
  <2>1. \A v : v \in Members(tx[t].lists[tx[t].at]) \ Members(rest) <=>
                 v = u \/ v \in Members(tx[t].lists[tx[t].at]) \ Members(tx[t].queue)
    BY <1>3, <1>10
  <2> QED BY <2>1, <1>4, <1>6, <1>7, <1>8, <1>9, <1>10
<1>12. Visiting(t)'
  BY <1>1, <1>3, <1>4, <1>6, <1>8, <1>9, <1>10, <1>11 DEF Visiting
<1>13. Doing(t)' BY <1>1, <1>4, <1>6 DEF LoneInv, Doing, Looping
<1> QED BY <1>4, <1>6, <1>8, <1>12, <1>13, Staged DEF Looping

LEMMA LoneNoMember ==
  ASSUME IInv, NEW t \in Tx, Lone(t), LoneInv(t), NoMemberLeft(t)
  PROVE  LoneInv(t)'
<1>1. /\ tx[t].step = "members" /\ tx[t].queue = <<>> /\ tx' = [tx EXCEPT ![t].step = "flush"]
      /\ UNCHANGED <<work, before, setup, rows, dead>>
  BY DEF NoMemberLeft
<1>2. /\ tx'[t].step = "flush" /\ tx'[t].at = tx[t].at /\ tx'[t].left = tx[t].left
      /\ tx'[t].lists = tx[t].lists /\ tx'[t].doing = tx[t].doing
  BY <1>1 DEF IInv, Types, Call
<1>3. /\ Old' = Old /\ Base(t)' = Base(t) /\ Handed(t)' = Handed(t) /\ Span(t)' = Span(t)
      /\ \A b \in Old' : b.pos \in setup'
  BY <1>1, Stood DEF Ended
<1>4. Now(t)' = Now(t) /\ Visited(t)' = Visited(t)
  <2>1. Now(t)' = Now(t) BY <1>1, <1>2 DEF Now
  <2> QED BY <2>1, <1>2, <1>3 DEF Visited
<1>5. Members(tx[t].queue) = {} BY <1>1, EmptyList
<1>6. /\ tx[t].left \cup Now(t) \subseteq Span(t)
      /\ \A q \in Now(t), o \in tx[t].left : q < o
      /\ \A v \in Visited(t), q \in tx[t].left \cup Now(t) : v < q
      /\ \A q \in Span(t) : AsCast(tx[t].lists[q]) = Handed(t)[q]
      /\ \A r \in rows : r.by = Initial \/ r.pos \in Visited(t)
      /\ Seen(t) = {b \in Looped(Base(t), Handed(t), Visited(t)) :
                      b.pos # tx[t].at
                        /\ b.user \notin Members(tx[t].lists[tx[t].at]) \ Members(tx[t].queue)}
  BY <1>1 DEF LoneInv, Visiting, Looping
<1>7. Seen(t)' = {b \in Looped(Base(t)', Handed(t)', Visited(t)') :
                    b.pos # tx'[t].at /\ b.user \notin Members(tx'[t].lists[tx'[t].at])}
  BY <1>1, <1>2, <1>3, <1>4, <1>5, <1>6, SeenUnchanged
<1>8. Visiting(t)' BY <1>1, <1>2, <1>3, <1>4, <1>6, <1>7 DEF Visiting
<1>9. Doing(t)' BY <1>1, <1>2 DEF LoneInv, Doing, Looping
<1> QED BY <1>2, <1>3, <1>8, <1>9, Staged DEF Looping

LEMMA LoneFlush ==
  ASSUME IInv, NEW t \in Tx, Lone(t), LoneInv(t), Flush(t), ~Abort(t)
  PROVE  LoneInv(t)'
<1> DEFINE p == tx[t].at
           list == tx[t].lists[p]
           new == {[user |-> list[i], pos |-> p, order |-> i - 1, by |-> t] : i \in DOMAIN list}
<1>1. /\ tx[t].step = "flush" /\ rows' = rows \cup new /\ tx' = [tx EXCEPT ![t].step = "visit"]
      /\ UNCHANGED <<work, before, setup, dead>>
  BY DEF Flush
<1>2. p \in Positions /\ list \in Lists /\ dead \subseteq rows \X Tx
  BY <1>1 DEF IInv, Types, Call, CallsInv, CallOK
<1>3. /\ tx'[t].step = "visit" /\ tx'[t].left = tx[t].left
      /\ tx'[t].lists = tx[t].lists /\ tx'[t].doing = tx[t].doing
  BY <1>1 DEF IInv, Types, Call
<1>4. /\ Old' = Old /\ Base(t)' = Base(t) /\ Handed(t)' = Handed(t) /\ Span(t)' = Span(t)
      /\ \A b \in Old' : b.pos \in setup'
  BY <1>1, Stood DEF Ended
<1>5. Now(t) = {p} /\ Now(t)' = {} BY <1>1, <1>3 DEF Now
<1>6. /\ tx[t].left \cup Now(t) \subseteq Span(t)
      /\ \A q \in Now(t), o \in tx[t].left : q < o
      /\ \A v \in Visited(t), q \in tx[t].left \cup Now(t) : v < q
      /\ \A q \in Span(t) : AsCast(tx[t].lists[q]) = Handed(t)[q]
      /\ \A r \in rows : r.by = Initial \/ r.pos \in Visited(t)
      /\ Seen(t) = {b \in Looped(Base(t), Handed(t), Visited(t)) :
                      b.pos # p /\ b.user \notin Members(list)}
  BY <1>1 DEF LoneInv, Visiting, Looping
<1>7. Positions \subseteq Nat /\ Span(t) \subseteq Positions
  BY PositionsAssumption, WorkFacts DEF Positions, Span, PositionsOf, IInv, Types
<1>8. p \notin tx[t].left /\ p \notin Visited(t) /\ Visited(t) \in SUBSET Positions
      /\ \A v \in Visited(t) : v < p
  <2>1. p \in Nat /\ p \in Now(t) BY <1>2, <1>5, <1>7
  <2>2. p \notin tx[t].left /\ \A v \in Visited(t) : v < p
    <3> HIDE DEF p
    <3> QED BY <1>6, <2>1
  <2>3. Visited(t) \subseteq Span(t) /\ p \notin Visited(t) BY <2>1 DEF Visited
  <2> QED BY <1>7, <2>2, <2>3
<1>9. Visited(t)' = Visited(t) \cup {p}
  BY <1>3, <1>4, <1>5, <1>6, <1>8 DEF Visited
<1>10. \A r \in new : r.pos = p /\ r.by = t OBVIOUS
<1>11. {r \in rows' : <<r, t>> \notin dead'} = Visible(t) \cup new
  <2>1. \A r \in new : r \notin rows BY <1>6, <1>8, <1>10, InitialAssumption
  <2>2. \A r \in new : <<r, t>> \notin dead BY <1>2, <2>1
  <2>3. Visible(t) = {r \in rows : <<r, t>> \notin dead} BY LoneFacts
  <2> HIDE DEF new
  <2> QED BY <1>1, <2>2, <2>3
<1>12. Plain(new) = RowsFor(p, Handed(t)[p]) /\ DOMAIN Handed(t)[p] = Members(list)
  <2>1. AsCast(list) = Handed(t)[p] BY <1>5, <1>6
  <2>2. Plain(new) = RowsFor(p, AsCast(list)) BY <1>2, PlainList
  <2>3. DOMAIN AsCast(list) = Members(list) BY DEF AsCast
  <2> QED BY <2>1, <2>2, <2>3
<1> HIDE DEF new, list, p
<1>13. Seen(t)' = Seen(t) \cup RowsFor(p, Handed(t)[p])
  <2>1. Seen(t)' = Plain({r \in rows' : <<r, t>> \notin dead'}) BY DEF Seen
  <2>2. Seen(t) = Plain(Visible(t)) BY LoneFacts
  <2>3. Plain(Visible(t) \cup new) = Plain(Visible(t)) \cup Plain(new) BY PlainJoined
  <2> QED BY <1>11, <1>12, <2>1, <2>2, <2>3
<1>14. Seen(t)' = Looped(Base(t)', Handed(t)', Visited(t)')
  <2>1. Seen(t) = {b \in Looped(Base(t), Handed(t), Visited(t)) :
                     b.pos # p /\ b.user \notin DOMAIN Handed(t)[p]}
    BY <1>6, <1>12
  <2>2. Seen(t)' = Looped(Base(t), Handed(t), Visited(t) \cup {p})
    BY <1>2, <1>8, <1>13, <2>1, LoopedNext
  <2> QED BY <2>2, <1>4, <1>9
<1>15. \A r \in rows' : r.by = Initial \/ r.pos \in Visited(t)' BY <1>1, <1>6, <1>9, <1>10
<1>16. \A v \in Visited(t)', q \in tx'[t].left \cup Now(t)' : v < q
  BY <1>3, <1>5, <1>6, <1>9
<1>17. Visiting(t)'
  BY <1>3, <1>4, <1>5, <1>6, <1>14, <1>15, <1>16 DEF Visiting
<1>18. Doing(t)' BY <1>1, <1>3 DEF LoneInv, Doing, Looping
<1> QED BY <1>3, <1>4, <1>17, <1>18, Staged DEF Looping

LEMMA LoneAllVisited ==
  ASSUME IInv, NEW t \in Tx, Lone(t), LoneInv(t), AllVisited(t)
  PROVE  LoneInv(t)'
<1>1. /\ tx[t].step = "visit" /\ tx[t].left = {}
      /\ UNCHANGED <<work, before, setup, rows, dead>>
  BY DEF AllVisited
<1>2. /\ tx'[t].step = IF work[t].kind = "save" THEN "clear" ELSE "commit"
      /\ tx'[t].doing = tx[t].doing
  BY DEF AllVisited, IInv, Types, Call
<1>3. /\ Old' = Old /\ Base(t)' = Base(t) /\ Handed(t)' = Handed(t) /\ Span(t)' = Span(t)
      /\ \A b \in Old' : b.pos \in setup'
  BY <1>1, Stood DEF Ended
<1>4. Visited(t) = Span(t) BY <1>1 DEF Visited, Now
<1>5. Seen(t) = Looped(Base(t), Handed(t), Visited(t)) BY <1>1 DEF LoneInv, Visiting, Looping
<1>6. tx[t].doing \in {"save", "withdraw", "update"}
  BY <1>1, WorkFacts DEF LoneInv, Doing, Looping, Ended, IInv
<1>7. Through(t)' BY <1>1, <1>2, <1>3, <1>4, <1>5, <1>6, SeenUnchanged DEF Through
<1>8. Doing(t)' BY <1>1, <1>2 DEF LoneInv, Doing, Looping, Ended
<1> QED BY <1>2, <1>3, <1>7, <1>8, Staged
-----------------------------------------------------------------------------
(* Its steps before and after the loop.                                    *)

LEMMA LoneThrough ==
  ASSUME IInv, NEW t \in Tx, Lone(t), LoneInv(t),
         ClearRejections(t) \/ ReadBooked(t) \/ Reject(t)
  PROVE  LoneInv(t)'
<1>1. /\ tx[t].step \in {"clear", "booked", "reject"}
      /\ UNCHANGED <<work, before, setup, rows, dead>>
  BY DEF ClearRejections, ReadBooked, Reject
<1>2. tx'[t].step \in {"booked", "reject", "commit"} /\ tx'[t].doing = tx[t].doing
  <2>1. CASE ClearRejections(t) BY <2>1 DEF ClearRejections, IInv, Types, Call
  <2>2. CASE ReadBooked(t) BY <2>2 DEF ReadBooked, IInv, Types, Call
  <2>3. CASE Reject(t) BY <2>3 DEF Reject, IInv, Types, Call
  <2> QED BY <2>1, <2>2, <2>3
<1>3. /\ Old' = Old /\ Base(t)' = Base(t) /\ Handed(t)' = Handed(t) /\ Span(t)' = Span(t)
      /\ \A b \in Old' : b.pos \in setup'
  BY <1>1, Stood DEF Ended
<1>4. work[t].kind = "save" BY <1>1 DEF IInv, CallsInv, CallOK
<1>5. Through(t)' BY <1>1, <1>2, <1>3, SeenUnchanged DEF LoneInv, Through
<1>6. Doing(t)' BY <1>1, <1>2, <1>4 DEF LoneInv, Doing, Looping, Ended
<1> QED BY <1>2, <1>3, <1>5, <1>6, Staged

LEMMA LoneAsk ==
  ASSUME IInv, NEW t \in Tx, Lone(t), LoneInv(t), Ask(t), ~Abort(t)
  PROVE  LoneInv(t)'
<1>1. /\ tx[t].step = "ask" /\ UNCHANGED <<work, before, setup, rows, dead>>
  BY DEF Ask
<1>2. tx'[t].step = "commit" /\ tx'[t].doing = tx[t].doing
  BY DEF Ask, IInv, Types, Call
<1>3. /\ Old' = Old /\ \A b \in Old' : b.pos \in setup'
  BY <1>1, Stood DEF Ended
<1>4. work[t].kind = "toggle" /\ tx[t].doing = "ask" BY <1>1 DEF IInv, CallsInv, CallOK
<1>5. Seen(t) = Old BY <1>1 DEF LoneInv, Reading
<1>6. Through(t)' BY <1>1, <1>2, <1>3, <1>4, <1>5, SeenUnchanged DEF Through
<1>7. Doing(t)' BY <1>1, <1>2, <1>4 DEF Doing, Looping
<1> QED BY <1>2, <1>3, <1>6, <1>7, Staged

LEMMA LoneWithdraw ==
  ASSUME IInv, NEW t \in Tx, Lone(t), LoneInv(t), Withdraw(t)
  PROVE  LoneInv(t)'
<1>1. /\ tx[t].step = "withdraw" /\ UNCHANGED <<work, before, setup, rows, dead>>
  BY DEF Withdraw
<1>2. tx'[t].step = "own" /\ tx'[t].doing = tx[t].doing
  BY DEF Withdraw, IInv, Types, Call
<1>3. /\ Old' = Old /\ \A b \in Old' : b.pos \in setup'
  BY <1>1, Stood DEF Ended
<1>4. work[t].kind = "toggle" /\ tx[t].doing = "withdraw" BY <1>1 DEF IInv, CallsInv, CallOK
<1>5. Seen(t) = Old /\ \A r \in rows : r.by = Initial BY <1>1 DEF LoneInv, Reading
<1>6. Reading(t)' BY <1>1, <1>2, <1>3, <1>5, SeenUnchanged DEF Reading
<1>7. Doing(t)' BY <1>1, <1>2, <1>4 DEF Doing, Looping
<1> QED BY <1>2, <1>3, <1>6, <1>7, Staged

LEMMA LoneReadOwn ==
  ASSUME IInv, NEW t \in Tx, Lone(t), LoneInv(t), ReadOwn(t)
  PROVE  LoneInv(t)'
<1> DEFINE own == {r \in Visible(t) : r.user = work[t].user}
<1>1. /\ tx[t].step = "own" /\ UNCHANGED <<work, before, setup, rows, dead>>
  BY DEF ReadOwn
<1>2. /\ tx'[t].step = IF own = {} THEN "commit" ELSE "remaining"
      /\ tx'[t].waits = own /\ tx'[t].doing = tx[t].doing
  BY DEF ReadOwn, IInv, Types, Call
<1>3. /\ Old' = Old /\ Base(t)' = Base(t) /\ Handed(t)' = Handed(t) /\ Span(t)' = Span(t)
      /\ \A b \in Old' : b.pos \in setup'
  BY <1>1, Stood DEF Ended
<1>4. work[t].kind = "toggle" /\ tx[t].doing = "withdraw"
  BY <1>1 DEF IInv, CallsInv, CallOK, LoneInv, Doing, Ended
<1>5. Seen(t) = Old /\ \A r \in rows : r.by = Initial BY <1>1 DEF LoneInv, Reading
<1>6. Doing(t)' BY <1>1, <1>2, <1>4 DEF Doing, Looping
<1>7. CASE own = {}
  <2>1. \A b \in Old : b.user # work[t].user
    BY <1>5, <1>7, LoneFacts, PlainIs
  <2>2. Span(t) = {} BY <1>4, <2>1 DEF Span, PositionsOf
  <2>3. Base(t) = Old BY <1>4 DEF Base
  <2>4. Seen(t)' = Looped(Base(t)', Handed(t)', Span(t)')
    BY <1>1, <1>3, <1>5, <2>2, <2>3, SeenUnchanged, LoopedNone
  <2>5. Through(t)' BY <1>2, <1>4, <2>4 DEF Through
  <2> QED BY <1>2, <1>3, <1>6, <1>7, <2>5, Staged
<1>8. CASE own # {}
  <2>1. Visible(t)' = Visible(t) BY <1>1, <1>5 DEF Visible, Committed
  <2>2. tx'[t].waits = {r \in Visible(t)' : r.user = work'[t].user} /\ tx'[t].waits # {}
    BY <1>1, <1>2, <1>8, <2>1
  <2>3. Reading(t)' BY <1>1, <1>2, <1>3, <1>5, <1>8, <2>2, SeenUnchanged DEF Reading
  <2> QED BY <1>2, <1>3, <1>6, <1>8, <2>3, Staged
<1> QED BY <1>7, <1>8

LEMMA LoneReadRemaining ==
  ASSUME IInv, SoundRows(Old), NEW t \in Tx, Lone(t), LoneInv(t), ReadRemaining(t)
  PROVE  LoneInv(t)'
<1>1. /\ tx[t].step = "remaining" /\ UNCHANGED <<work, before, setup, rows, dead>>
  BY DEF ReadRemaining
<1>2. PICK own \in tx[t].waits : \E list \in Lists :
        /\ Ordered({r \in Visible(t) : r.pos = own.pos /\ r # own}, list)
        /\ tx' = [tx EXCEPT ![t] = [@ EXCEPT !.step = "visit", !.left = {own.pos}, !.waits = {},
                                             !.lists[own.pos] = list]]
  BY DEF ReadRemaining
<1>3. PICK list \in Lists :
        /\ Ordered({r \in Visible(t) : r.pos = own.pos /\ r # own}, list)
        /\ tx' = [tx EXCEPT ![t] = [@ EXCEPT !.step = "visit", !.left = {own.pos}, !.waits = {},
                                             !.lists[own.pos] = list]]
  BY <1>2
<1> DEFINE p == own.pos
           u == work[t].user
           others == {r \in Visible(t) : r.pos = p /\ r # own}
<1>4. /\ Seen(t) = Old /\ \A r \in rows : r.by = Initial
      /\ own \in Visible(t) /\ own.user = u
  BY <1>1, <1>2 DEF LoneInv, Reading
<1>5. own \in rows /\ p \in Positions /\ Seen(t) = Plain(Visible(t))
  <2>1. /\ rows \subseteq Version /\ Visible(t) = {r \in rows : <<r, t>> \notin dead}
        /\ Seen(t) = Plain(Visible(t))
    BY LoneFacts
  <2>2. own \in rows BY <1>4, <2>1
  <2> QED BY <2>1, <2>2 DEF Version
<1>6. /\ tx'[t].step = "visit" /\ tx'[t].left = {p} /\ tx'[t].lists[p] = list
      /\ tx'[t].doing = tx[t].doing
  BY <1>3, <1>5 DEF IInv, Types, Call
<1>7. /\ Old' = Old /\ Base(t)' = Base(t) /\ Handed(t)' = Handed(t) /\ Span(t)' = Span(t)
      /\ \A b \in Old' : b.pos \in setup'
  BY <1>1, Stood DEF Ended
<1>8. work[t].kind = "toggle" /\ tx[t].doing = "withdraw"
  BY <1>1 DEF IInv, CallsInv, CallOK, LoneInv, Doing, Ended
<1>9. PICK b \in Old : b = [user |-> own.user, pos |-> own.pos, order |-> own.order]
  <2>1. [user |-> own.user, pos |-> own.pos, order |-> own.order] \in Plain(Visible(t))
    BY <1>4, PlainIs
  <2> QED BY <1>4, <1>5, <2>1
<1>10. b.user = u /\ b.pos = p BY <1>4, <1>9
<1>11. PositionsOf(Old, u) = {p}
  <2>1. \A c \in Old : c.user = u => c = b BY <1>10 DEF SoundRows
  <2> QED BY <1>5, <1>10, <2>1 DEF PositionsOf
<1>12. Base(t) = Old /\ Span(t) = {p} /\ Handed(t) = WithoutUser(Old, u)
  BY <1>8, <1>11 DEF Base, Span, Handed
<1>13. Plain(others) = {c \in RowsAt(Old, p) : c.user # u}
  <2>1. ASSUME NEW c \in Plain(others) PROVE c \in Old /\ c.pos = p /\ c.user # u
    <3>1. PICK r \in others : c = [user |-> r.user, pos |-> r.pos, order |-> r.order] BY PlainIs
    <3>2. r \in Visible(t) /\ r # own /\ r.pos = p BY <3>1
    <3>3. r.user # u BY <1>4, <3>2, LoneFacts
    <3>4. c \in Plain(Visible(t)) BY <3>1, <3>2, PlainIs
    <3> QED BY <1>4, <1>5, <3>1, <3>2, <3>3, <3>4
  <2>2. ASSUME NEW c \in Old, c.pos = p, c.user # u PROVE c \in Plain(others)
    <3>1. PICK r \in Visible(t) : c = [user |-> r.user, pos |-> r.pos, order |-> r.order]
      BY <1>4, <1>5, PlainIs
    <3>2. r \in others BY <1>4, <2>2, <3>1
    <3> QED BY <3>1, <3>2, PlainIs
  <2> HIDE DEF others
  <2> QED BY <2>1, <2>2 DEF RowsAt
<1>14. AsCast(list) = CastOf(Plain(others))
  <2>1. SoundRows(Plain(others)) BY <1>13, SoundSubset DEF RowsAt
  <2>2. \A c \in Plain(others) : c.pos = p BY <1>13 DEF RowsAt
  <2> QED BY <1>3, <2>1, <2>2, OrderedIsCast
<1>15. \A q \in Span(t) : AsCast(tx'[t].lists[q]) = Handed(t)[q]
  BY <1>5, <1>6, <1>12, <1>13, <1>14 DEF WithoutUser
<1>16. Now(t)' = {} /\ Visited(t)' = {} BY <1>6, <1>7, <1>12 DEF Now, Visited
<1>17. Seen(t)' = Looped(Base(t)', Handed(t)', Visited(t)')
  BY <1>1, <1>4, <1>7, <1>12, <1>16, SeenUnchanged, LoopedNone
<1>18. Visiting(t)' BY <1>1, <1>4, <1>6, <1>7, <1>12, <1>15, <1>16, <1>17 DEF Visiting
<1>19. Doing(t)' BY <1>1, <1>6, <1>8 DEF Doing, Looping
<1> QED BY <1>6, <1>7, <1>18, <1>19, Staged DEF Looping

LEMMA LonePurge ==
  ASSUME IInv, NEW t \in Tx, Lone(t), LoneInv(t), Purge(t)
  PROVE  LoneInv(t)'
<1>1. PICK p \in tx[t].left :
        Delete(t, {r \in Visible(t) : r.pos = p}, [tx[t] EXCEPT !.step = "purged", !.left = @ \ {p}])
  BY DEF Purge
<1> DEFINE next == [tx[t] EXCEPT !.step = "purged", !.left = @ \ {p}]
           targets == {r \in Visible(t) : r.pos = p}
<1>2. /\ tx[t].step = "purge" /\ Delete(t, targets, next)
      /\ UNCHANGED <<work, before, setup, rows>>
  BY <1>1 DEF Purge
<1>3. /\ next.step = "purged" /\ next.left = tx[t].left \ {p} /\ next.doing = tx[t].doing
  BY DEF IInv, Types, Call
<1> HIDE DEF next
<1>4. tx' = [tx EXCEPT ![t] = next] /\ Seen(t)' = Plain(Visible(t) \ targets)
  BY <1>2, SeenDeleted
<1>5. tx'[t] = next BY <1>4 DEF IInv, Types
<1>6. Seen(t)' = {b \in Seen(t) : b.pos # p}
  <2>1. Seen(t) = Plain(Visible(t)) BY LoneFacts
  <2>2. Plain(Visible(t) \ targets) = {b \in Plain(Visible(t)) : b.pos # p} BY WithoutPosition
  <2> QED BY <1>4, <2>1, <2>2
<1>7. /\ Old' = Old /\ \A b \in Old' : b.pos \in setup'
  BY <1>2, Stood DEF Ended
<1>8. /\ tx[t].left \subseteq setup \ work[t].setup
      /\ Seen(t) = {b \in Old : b.pos \in tx[t].left \cup work[t].setup}
      /\ \A r \in rows : r.by = Initial
      /\ work[t].kind = "update"
  BY <1>2 DEF LoneInv, Purging, Doing
<1>9. Seen(t)' = {b \in Old' : b.pos \in tx'[t].left \cup work'[t].setup}
  BY <1>1, <1>2, <1>3, <1>5, <1>6, <1>7, <1>8
<1>10. Purging(t)' BY <1>2, <1>3, <1>5, <1>8, <1>9 DEF Purging
<1>11. Doing(t)' BY <1>2, <1>3, <1>5, <1>8 DEF LoneInv, Doing, Looping, Ended
<1> QED BY <1>3, <1>5, <1>7, <1>10, <1>11, Staged

LEMMA LonePurged ==
  ASSUME IInv, NEW t \in Tx, Lone(t), LoneInv(t), Purged(t), ~Abort(t)
  PROVE  LoneInv(t)'
<1>1. /\ tx[t].step = "purged" /\ UNCHANGED <<work, before, setup, rows, dead>>
  BY DEF Purged
<1>2. tx'[t].step = "purge" /\ tx'[t].left = tx[t].left /\ tx'[t].doing = tx[t].doing
  BY DEF Purged, IInv, Types, Call
<1>3. /\ Old' = Old /\ \A b \in Old' : b.pos \in setup'
  BY <1>1, Stood DEF Ended
<1>4. Purging(t)' BY <1>1, <1>2, <1>3, SeenUnchanged DEF LoneInv, Purging
<1>5. Doing(t)' BY <1>1, <1>2 DEF LoneInv, Doing, Looping, Ended
<1> QED BY <1>2, <1>3, <1>4, <1>5, Staged

LEMMA LoneReadCast ==
  ASSUME IInv, SoundRows(Old), NEW t \in Tx, Lone(t), LoneInv(t), ReadCast(t)
  PROVE  LoneInv(t)'
<1>1. /\ tx[t].step = "purge" /\ tx[t].left = {} /\ UNCHANGED <<work, before, setup, rows, dead>>
  BY DEF ReadCast
<1>2. PICK lists \in [Positions -> Lists] :
        /\ \A p \in Positions : Ordered({r \in Visible(t) : r.pos = p /\ p \in work[t].setup}, lists[p])
        /\ tx' = [tx EXCEPT ![t] = [@ EXCEPT !.step = "visit", !.lists = lists,
                                             !.left = work[t].setup \cap setup]]
  BY DEF ReadCast
<1>3. /\ tx'[t].step = "visit" /\ tx'[t].left = work[t].setup \cap setup /\ tx'[t].lists = lists
      /\ tx'[t].doing = tx[t].doing
  BY <1>2 DEF IInv, Types, Call
<1>4. /\ Old' = Old /\ Base(t)' = Base(t) /\ Handed(t)' = Handed(t) /\ Span(t)' = Span(t)
      /\ \A b \in Old' : b.pos \in setup'
  BY <1>1, Stood DEF Ended
<1>5. /\ work[t].kind = "update" /\ \A r \in rows : r.by = Initial
      /\ Seen(t) = {b \in Old : b.pos \in work[t].setup}
  BY <1>1 DEF LoneInv, Purging, Doing
<1>6. /\ Base(t) = Seen(t) /\ Span(t) = work[t].setup \cap setup /\ Handed(t) = CurrentCasts(Old)
  BY <1>5 DEF Base, Span, Handed
<1>7. ASSUME NEW p \in Span(t) PROVE AsCast(tx'[t].lists[p]) = Handed(t)[p]
  <2> DEFINE here == {r \in Visible(t) : r.pos = p}
  <2>1. p \in Positions /\ p \in work[t].setup BY <1>6 DEF IInv, Types
  <2>2. {r \in Visible(t) : r.pos = p /\ p \in work[t].setup} = here BY <2>1
  <2>3. Ordered(here, lists[p]) /\ lists[p] \in Lists BY <1>2, <2>1, <2>2
  <2>4. Plain(here) = RowsAt(Seen(t), p)
    <3>1. Seen(t) = Plain(Visible(t)) BY LoneFacts
    <3> QED BY <3>1, AtPosition
  <2>5. RowsAt(Seen(t), p) = RowsAt(Old, p) BY <1>5, <2>1 DEF RowsAt
  <2>6. SoundRows(Plain(here)) /\ \A b \in Plain(here) : b.pos = p
    BY <2>4, <2>5, SoundSubset DEF RowsAt
  <2> HIDE DEF here
  <2>7. AsCast(lists[p]) = CastOf(Plain(here)) BY <2>3, <2>6, OrderedIsCast
  <2> QED BY <1>3, <1>6, <2>1, <2>4, <2>5, <2>7 DEF CurrentCasts
<1>8. Now(t)' = {} /\ Visited(t)' = {} BY <1>3, <1>4, <1>6 DEF Now, Visited
<1>9. Seen(t)' = Looped(Base(t)', Handed(t)', Visited(t)')
  BY <1>1, <1>4, <1>6, <1>8, SeenUnchanged, LoopedNone
<1>10. Visiting(t)' BY <1>1, <1>3, <1>4, <1>5, <1>6, <1>7, <1>8, <1>9 DEF Visiting
<1>11. Doing(t)' BY <1>1, <1>3, <1>5 DEF LoneInv, Doing, Looping, Ended
<1> QED BY <1>3, <1>4, <1>10, <1>11, Staged DEF Looping
-----------------------------------------------------------------------------
(* Its end.                                                                *)

LEMMA QuantitiesSetup ==
  ASSUME NEW at \in SUBSET Positions
  PROVE  InSetup(Quantities(at)) = at
BY DEF InSetup, Quantities

\* A cast read from rows names who holds them.
LEMMA CastHolders ==
  ASSUME NEW here
  PROVE  DOMAIN CastOf(here) = {b.user : b \in here}
BY DEF CastOf

\* The loop of an update, over the positions it keeps.
LEMMA LoopedUpdate ==
  ASSUME NEW some, SoundRows(some), NEW from \in SUBSET Positions, NEW after \in SUBSET Positions,
         \A b \in some : b.pos \in from
  PROVE  Looped({b \in some : b.pos \in after}, CurrentCasts(some), after \cap from)
           = Rewritten(some, Positions, VisitedCasts(Quantities(after), CurrentCasts(some)))
<1> DEFINE base == {b \in some : b.pos \in after}
           casts == CurrentCasts(some)
           visited == after \cap from
           kept == VisitedCasts(Quantities(after), casts)
<1>1. SoundRows(base) BY SoundSubset
<1>2. ASSUME NEW p \in Positions PROVE DOMAIN casts[p] = {b.user : b \in RowsAt(some, p)}
  BY CastHolders DEF CurrentCasts
<1>3. ASSUME NEW p \in visited PROVE DOMAIN casts[p] \subseteq {b.user : b \in RowsAt(base, p)}
  <2>1. RowsAt(some, p) = RowsAt(base, p) BY DEF RowsAt
  <2> QED BY <1>2, <2>1
<1>4. \A p \in Positions : kept[p] = IF p \in after THEN casts[p] ELSE EmptyCast
  BY QuantitiesSetup DEF VisitedCasts
<1>5. ASSUME NEW p \in Positions, p \notin visited PROVE RowsFor(p, kept[p]) = {}
  <2>1. CASE p \notin after
    <3>1. kept[p] = EmptyCast BY <1>4, <2>1
    <3>2. DOMAIN EmptyCast = {} BY DEF EmptyCast
    <3> QED BY <3>1, <3>2 DEF RowsFor
  <2>2. CASE p \in after
    <3>1. RowsAt(some, p) = {} BY <1>5, <2>2 DEF RowsAt
    <3>2. kept[p] = casts[p] /\ DOMAIN casts[p] = {} BY <1>2, <1>4, <2>2, <3>1
    <3> QED BY <3>2 DEF RowsFor
  <2> QED BY <2>1, <2>2
<1>6. {b \in base : b.pos \notin visited} = {} OBVIOUS
<1>7. {b \in some : b.pos \notin Positions} = {} OBVIOUS
<1>8. \A p \in visited : p \in Positions /\ kept[p] = casts[p] BY <1>4
<1> HIDE DEF casts, kept
<1>9. (UNION {RowsFor(p, casts[p]) : p \in visited}) = (UNION {RowsFor(p, kept[p]) : p \in Positions})
  <2>1. ASSUME NEW b, NEW p \in visited, b \in RowsFor(p, casts[p])
        PROVE  \E q \in Positions : b \in RowsFor(q, kept[q])
    BY <1>8, <2>1
  <2>2. ASSUME NEW b, NEW p \in Positions, b \in RowsFor(p, kept[p])
        PROVE  \E q \in visited : b \in RowsFor(q, casts[q])
    <3>1. p \in visited BY <1>5, <2>2
    <3> QED BY <1>8, <2>2, <3>1
  <2> QED BY <2>1, <2>2
<1> HIDE DEF base, visited
<1>10. visited \in SUBSET Positions BY DEF visited
<1>11. Looped(base, casts, visited) =
         {b \in base : b.pos \notin visited} \cup (UNION {RowsFor(p, casts[p]) : p \in visited})
  BY <1>1, <1>3, <1>10, LoopedAtHome
<1>12. Looped(base, casts, visited) = Rewritten(some, Positions, kept)
  BY <1>6, <1>7, <1>9, <1>11 DEF Rewritten
<1> QED BY <1>12 DEF base, visited, casts, kept

LEMMA LoneCommit ==
  ASSUME IInv, SoundRows(Old), NEW t \in Tx, Lone(t), LoneInv(t), Commit(t)
  PROVE  LoneInv(t)'
<1>1. /\ tx[t].step = "commit" /\ rows' = {r \in rows : <<r, t>> \notin dead}
      /\ setup' = (IF work[t].kind = "update" THEN work[t].setup ELSE setup)
      /\ UNCHANGED <<work, before>>
  BY DEF Commit
<1>2. tx'[t].step = "committed" /\ tx'[t].doing = tx[t].doing
  BY DEF Commit, IInv, Types, Call
<1>3. Old' = Old BY <1>1 DEF Old
<1>4. Plain(rows') = Seen(t) BY <1>1 DEF Seen
<1>5. /\ \A b \in Old : b.pos \in setup
      /\ Seen(t) = IF tx[t].doing \in {"save", "withdraw", "update"}
                   THEN Looped(Base(t), Handed(t), Span(t)) ELSE Old
  BY <1>1 DEF LoneInv, Through, Ended
<1>6. setup \subseteq Positions BY DEF IInv, Types
<1>7. ASSUME tx[t].doing = "save"
      PROVE  Plain(rows') = RowsAfterSave(Old, Quantities(setup'), CastsOf(work[t].lists))
  <2>1. work[t].kind = "save" BY <1>7 DEF LoneInv, Doing
  <2>2. Base(t) = Old /\ Handed(t) = CastsOf(work[t].lists) /\ Span(t) = setup /\ setup' = setup
    BY <1>1, <2>1 DEF Base, Handed, Span
  <2>3. InSetup(Quantities(setup)) = setup BY <1>6, QuantitiesSetup
  <2>4. Looped(Old, CastsOf(work[t].lists), InSetup(Quantities(setup)))
          = RowsAfterSave(Old, Quantities(setup), CastsOf(work[t].lists))
    BY LoopedAll
  <2> QED BY <1>4, <1>5, <1>7, <2>2, <2>3, <2>4
<1>8. ASSUME tx[t].doing = "withdraw"
      PROVE  Plain(rows') = Rewritten(Old, PositionsOf(Old, work[t].user), WithoutUser(Old, work[t].user))
  <2> DEFINE u == work[t].user
             at == PositionsOf(Old, u)
             casts == WithoutUser(Old, u)
  <2>1. work[t].kind = "toggle" BY <1>8 DEF IInv, CallsInv, CallOK
  <2>2. Base(t) = Old /\ Handed(t) = casts /\ Span(t) = at BY <2>1 DEF Base, Handed, Span
  <2>3. at \in SUBSET Positions BY DEF PositionsOf
  <2>4. ASSUME NEW p \in at PROVE DOMAIN casts[p] \subseteq {b.user : b \in RowsAt(Old, p)}
    <3>1. casts[p] = CastOf({b \in RowsAt(Old, p) : b.user # u}) BY <2>3 DEF WithoutUser
    <3>2. DOMAIN casts[p] = {b.user : b \in {c \in RowsAt(Old, p) : c.user # u}}
      BY <3>1, CastHolders
    <3> QED BY <3>2
  <2> HIDE DEF at, casts
  <2>5. Looped(Old, casts, at) =
          {b \in Old : b.pos \notin at} \cup (UNION {RowsFor(p, casts[p]) : p \in at})
    BY <2>3, <2>4, LoopedAtHome
  <2>6. Plain(rows') = Rewritten(Old, at, casts)
    BY <1>4, <1>5, <1>8, <2>2, <2>5 DEF Rewritten
  <2> QED BY <2>6 DEF at, casts
<1>9. ASSUME tx[t].doing = "update"
      PROVE  Plain(rows') = Rewritten(Old, Positions, VisitedCasts(Quantities(setup'), CurrentCasts(Old)))
  <2>1. work[t].kind = "update" /\ work[t].setup \subseteq Positions
    BY <1>9, WorkFacts DEF LoneInv, Doing, IInv
  <2>2. /\ Base(t) = {b \in Old : b.pos \in work[t].setup} /\ Handed(t) = CurrentCasts(Old)
        /\ Span(t) = work[t].setup \cap setup /\ setup' = work[t].setup
    BY <1>1, <2>1 DEF Base, Handed, Span
  <2>3. Looped({b \in Old : b.pos \in work[t].setup}, CurrentCasts(Old), work[t].setup \cap setup)
          = Rewritten(Old, Positions, VisitedCasts(Quantities(work[t].setup), CurrentCasts(Old)))
    BY <1>5, <1>6, <2>1, LoopedUpdate
  <2> QED BY <1>4, <1>5, <1>9, <2>2, <2>3
<1>10. tx[t].doing \notin {"save", "withdraw", "update"} => Plain(rows') = Old BY <1>4, <1>5
<1>11. Stated(t)' BY <1>1, <1>2, <1>3, <1>7, <1>8, <1>9, <1>10 DEF Stated
<1>12. Doing(t)' BY <1>1, <1>2 DEF LoneInv, Doing, Looping, Ended
<1> QED BY <1>2, <1>11, <1>12, Staged DEF Ended

LEMMA LoneDrop ==
  ASSUME IInv, NEW t \in Tx, Lone(t), LoneInv(t), Drop(t), ~Abort(t)
  PROVE  LoneInv(t)'
<1>1. /\ tx[t].step = "drop" /\ rows = {} /\ UNCHANGED <<work, before, rows, dead>>
  BY DEF Drop
<1>2. tx'[t].step = "committed" /\ tx'[t].doing = tx[t].doing
  BY DEF Drop, IInv, Types, Call
<1>3. work[t].kind = "delete" /\ tx[t].doing = "nothing"
  BY <1>1 DEF IInv, CallsInv, CallOK, LoneInv, Doing, Ended
<1>4. Seen(t) = Old BY <1>1 DEF LoneInv, Reading
<1>5. Seen(t) = Plain(rows) BY <1>1 DEF Seen
<1>6. Plain(rows') = Old' BY <1>1, <1>4, <1>5 DEF Old
<1>7. Stated(t)' BY <1>2, <1>3, <1>6 DEF Stated
<1>8. Doing(t)' BY <1>1, <1>2, <1>3 DEF Doing, Looping
<1> QED BY <1>2, <1>7, <1>8, Staged DEF Ended

LEMMA LoneAbort ==
  ASSUME IInv, NEW t \in Tx, LoneInv(t), Abort(t)
  PROVE  LoneInv(t)'
<1>1. tx'[t].step = "aborted" /\ tx'[t].doing = tx[t].doing /\ work' = work
  BY DEF Abort, IInv, Types, Call
<1>2. Doing(t)' BY <1>1 DEF LoneInv, Doing, Looping
<1> QED BY <1>1, <1>2, Staged DEF Ended

-----------------------------------------------------------------------------
LEMMA LoneInit == Init => AloneInv
<1> SUFFICES ASSUME Init PROVE AloneInv OBVIOUS
<1>0. IInv BY InitInv
<1>1. /\ before = rows /\ dead = {} /\ \A t \in Tx : tx[t].step = "start" /\ tx[t].doing = "nothing"
  BY DEF Init
<1>2. PICK at \in [Positions -> Lists] :
        /\ \A p, q \in Positions : p # q => Members(at[p]) \cap Members(at[q]) = {}
        /\ \A p \in Positions \ setup : at[p] = <<>>
        /\ rows = OrderedRows(at)
  BY DEF Init
<1>3. ASSUME NEW b \in Old
      PROVE  \E p \in Positions : \E i \in DOMAIN at[p] : b = [user |-> at[p][i], pos |-> p, order |-> i - 1]
  <2>1. PICK r \in OrderedRows(at) : b = [user |-> r.user, pos |-> r.pos, order |-> r.order]
    BY <1>1, <1>2, PlainIs DEF Old
  <2>2. PICK p \in Positions : \E i \in DOMAIN at[p] :
          r = [user |-> at[p][i], pos |-> p, order |-> i - 1, by |-> Initial]
    BY DEF OrderedRows
  <2>3. PICK i \in DOMAIN at[p] : r = [user |-> at[p][i], pos |-> p, order |-> i - 1, by |-> Initial]
    BY <2>2
  <2> QED BY <2>1, <2>3
<1>4. ASSUME NEW r \in rows PROVE r.by = Initial
  BY <1>2 DEF OrderedRows
<1>5. ASSUME NEW p \in Positions, NEW i \in DOMAIN at[p]
      PROVE  at[p][i] \in Users /\ at[p][i] \in Members(at[p]) /\ i \in Int /\ i - 1 \in Nat
  BY ListFacts DEF Members
<1>6. Old \subseteq Row
  <2> SUFFICES ASSUME NEW b \in Old PROVE b \in Row OBVIOUS
  <2>1. PICK p \in Positions : \E i \in DOMAIN at[p] : b = [user |-> at[p][i], pos |-> p, order |-> i - 1]
    BY <1>3
  <2>2. PICK i \in DOMAIN at[p] : b = [user |-> at[p][i], pos |-> p, order |-> i - 1] BY <2>1
  <2> QED BY <1>5, <2>2 DEF Row
<1>7. ASSUME NEW b \in Old, NEW c \in Old, b.user = c.user \/ (b.pos = c.pos /\ b.order = c.order)
      PROVE  b = c
  <2>1. PICK p \in Positions : \E i \in DOMAIN at[p] : b = [user |-> at[p][i], pos |-> p, order |-> i - 1]
    BY <1>3
  <2>2. PICK i \in DOMAIN at[p] : b = [user |-> at[p][i], pos |-> p, order |-> i - 1] BY <2>1
  <2>3. PICK q \in Positions : \E j \in DOMAIN at[q] : c = [user |-> at[q][j], pos |-> q, order |-> j - 1]
    BY <1>3
  <2>4. PICK j \in DOMAIN at[q] : c = [user |-> at[q][j], pos |-> q, order |-> j - 1] BY <2>3
  <2>5. CASE b.user = c.user
    <3>1. at[p][i] = at[q][j] BY <2>2, <2>4, <2>5
    <3>2. p = q BY <1>2, <1>5, <3>1
    <3>3. i = j BY <3>1, <3>2, ListFacts
    <3> QED BY <2>2, <2>4, <3>2, <3>3
  <2>6. CASE b.pos = c.pos /\ b.order = c.order
    <3>1. p = q /\ i - 1 = j - 1 BY <2>2, <2>4, <2>6
    <3>2. i = j BY <1>5, <3>1
    <3> QED BY <2>2, <2>4, <3>1, <3>2
  <2> QED BY <1>7, <2>5, <2>6
<1>8. ASSUME NEW b \in Old PROVE b.pos \in setup
  <2>1. PICK p \in Positions : \E i \in DOMAIN at[p] : b = [user |-> at[p][i], pos |-> p, order |-> i - 1]
    BY <1>3
  <2>2. PICK i \in DOMAIN at[p] : b = [user |-> at[p][i], pos |-> p, order |-> i - 1] BY <2>1
  <2>3. at[p] # <<>> BY <1>5, EmptyList
  <2> QED BY <1>2, <2>2, <2>3
<1>9. SoundRows(Old) BY <1>6, <1>7 DEF SoundRows
<1>10. ASSUME NEW t \in Tx PROVE LoneInv(t)
  <2>1. tx[t].step = "start" /\ tx[t].doing = "nothing" BY <1>1
  <2>2. Seen(t) = Old BY <1>1 DEF Seen, Old
  <2>3. Reading(t) BY <1>4, <2>1, <2>2 DEF Reading
  <2>4. Doing(t) BY <2>1 DEF Doing, Looping
  <2> QED BY <1>8, <2>1, <2>3, <2>4 DEF LoneInv, Purging, Visiting, Looping, Through, Stated
<1> QED BY <1>9, <1>10 DEF AloneInv

LEMMA LoneStep ==
  ASSUME IInv, SoundRows(Old), NEW t \in Tx, Lone(t), LoneInv(t), Handler(t)
  PROVE  LoneInv(t)'
<1>1. ~Resume(t)
  <2>1. tx[t].step # "wait" BY DEF LoneInv, Doing
  <2> QED BY <2>1 DEF Resume
<1>2. Flush(t) => LoneInv(t)' BY LoneFlush, LoneAbort
<1>3. Ask(t) => LoneInv(t)' BY LoneAsk, LoneAbort
<1>4. Purged(t) => LoneInv(t)' BY LonePurged, LoneAbort
<1>5. Drop(t) => LoneInv(t)' BY LoneDrop, LoneAbort
<1>6. NotFound(t) \/ Victim(t) => LoneInv(t)' BY LoneAbort DEF NotFound, Victim
<1> QED
  BY <1>1, <1>2, <1>3, <1>4, <1>5, <1>6, LoneSave, LoneToggle, LoneUpdate, LoneDelete, LoneVisit,
     LoneDeleteMember, LoneNoMember, LoneAllVisited, LoneThrough, LoneWithdraw, LoneReadOwn,
     LoneReadRemaining, LonePurge, LoneReadCast, LoneCommit
  DEF Handler

LEMMA LoneNext == IInv /\ AloneInv /\ [Next]_vars => AloneInv'
<1> SUFFICES ASSUME IInv, AloneInv, [Next]_vars PROVE AloneInv' OBVIOUS
<1>1. CASE UNCHANGED vars
  <2>1. UNCHANGED <<work, before, tx, setup, rows, dead>> BY <1>1 DEF vars
  <2>2. SoundRows(Old)' BY <2>1 DEF AloneInv, SoundRows, Old
  <2>3. ASSUME NEW t \in Tx, Lone(t)' PROVE LoneInv(t)'
    <3>1. Lone(t) BY <2>1, <2>3 DEF Lone
    <3>2. LoneInv(t) BY <3>1 DEF AloneInv
    <3>3. /\ Old' = Old /\ Base(t)' = Base(t) /\ Handed(t)' = Handed(t) /\ Span(t)' = Span(t)
          /\ Seen(t)' = Seen(t)
      BY <2>1, Framed, SeenUnchanged
    <3>4. Now(t)' = Now(t) /\ Visited(t)' = Visited(t) BY <2>1, <3>3 DEF Now, Visited
    <3>5. Visible(t)' = Visible(t) BY <2>1 DEF Visible, Committed
    <3>6. Doing(t)' BY <2>1, <3>2 DEF LoneInv, Doing
    <3>7. Reading(t)' BY <2>1, <3>2, <3>3, <3>5 DEF LoneInv, Reading
    <3>8. Purging(t)' BY <2>1, <3>2, <3>3 DEF LoneInv, Purging
    <3>9. Visiting(t)' BY <2>1, <3>2, <3>3, <3>4 DEF LoneInv, Visiting
    <3>10. Through(t)' BY <2>1, <3>2, <3>3 DEF LoneInv, Through
    <3>11. Stated(t)' BY <2>1, <3>2, <3>3 DEF LoneInv, Stated
    <3> QED BY <2>1, <3>2, <3>3, <3>6, <3>7, <3>8, <3>9, <3>10, <3>11 DEF LoneInv
  <2> QED BY <2>2, <2>3 DEF AloneInv
<1>2. ASSUME NEW s \in Tx, Handler(s) PROVE AloneInv'
  <2>1. UNCHANGED before BY <1>2, StepBegins
  <2>2. SoundRows(Old)' BY <2>1 DEF AloneInv, SoundRows, Old
  <2>3. ASSUME NEW t \in Tx, Lone(t)' PROVE LoneInv(t)'
    <3>1. s = t /\ Lone(t) BY <1>2, <2>3, StaysLone
    <3> QED BY <1>2, <3>1, LoneStep DEF AloneInv
  <2> QED BY <2>2, <2>3 DEF AloneInv
<1> QED BY <1>1, <1>2 DEF Next, Finished

\* A handler that runs before any other starts changes the bookings as the
\* action of Casting does that stands for the whole of it (save_cast,
\* change_user_request_status, reconcile_setup_change, delete_performance).
THEOREM AloneIsAsStated == Spec => []AloneAsStated
<1>1. AloneInv => AloneAsStated
  <2> SUFFICES ASSUME AloneInv, NEW t \in Tx, tx[t].step = "committed", Lone(t)
               PROVE  LET old == Plain(before)
                      IN  Plain(rows) =
                            CASE tx[t].doing = "save"     -> RowsAfterSave(old, Quantities(setup), CastsOf(work[t].lists))
                              [] tx[t].doing = "withdraw" -> Rewritten(old, PositionsOf(old, work[t].user),
                                                                       WithoutUser(old, work[t].user))
                              [] tx[t].doing = "update"   -> Rewritten(old, Positions,
                                                                       VisitedCasts(Quantities(setup), CurrentCasts(old)))
                              [] OTHER                    -> old
    BY DEF AloneAsStated, Lone
  <2>1. Stated(t) BY DEF AloneInv, LoneInv
  <2>2. /\ tx[t].doing = "save" => Plain(rows) = RowsAfterSave(Old, Quantities(setup), CastsOf(work[t].lists))
        /\ tx[t].doing = "withdraw" =>
             Plain(rows) = Rewritten(Old, PositionsOf(Old, work[t].user), WithoutUser(Old, work[t].user))
        /\ tx[t].doing = "update" =>
             Plain(rows) = Rewritten(Old, Positions, VisitedCasts(Quantities(setup), CurrentCasts(Old)))
        /\ tx[t].doing \notin {"save", "withdraw", "update"} => Plain(rows) = Old
    BY <2>1 DEF Stated
  <2> QED BY <2>2 DEF Old
<1> QED BY <1>1, LoneInit, LoneNext, TransactionsInductive, PTL DEF Spec
=============================================================================
