-------------------------- MODULE CastTransactions --------------------------
(***************************************************************************)
(* The handlers of module Casting, interleaved statement by statement.     *)
(* Every request has a database session of its own; PostgreSQL runs it     *)
(* under READ COMMITTED, no service takes a lock on purpose, and the       *)
(* session commits once at the end.                                        *)
(*                                                                         *)
(* A SELECT sees what is committed when it runs, and the transaction's own *)
(* writes.  A DELETE or UPDATE picks its rows the same way, waits for      *)
(* every picked row another transaction has deleted or written and skips   *)
(* those gone by then; rows that appear while it waits are not its own.    *)
(* An INSERT waits for a doubtful row with its key and fails on a          *)
(* committed one.  A circle of waiting transactions loses one of them.     *)
(*                                                                         *)
(* Left out, with the quantities they need: the log and the statuses.      *)
(***************************************************************************)
EXTENDS CastEngine, Sequences

CONSTANTS
  Tx,       \* the requests in flight
  Initial,  \* the writer of the rows that are there at the start
  Work      \* what they may be asked to do: a set of functions from Tx to
            \* [kind, lists, rejected], [kind, user], [kind, setup], [kind]

VARIABLES
  work,      \* the element of Work under way
  before,    \* the rows at the start
  tx,        \* per request: [step, left, lists, queue, at, waits, then, doing]
  gone,      \* the performance is deleted
  setup,     \* the positions of the performance
  rows,      \* row versions of bookings: [user, pos, order, by]
  dead,      \* <<row, t>>: deleted by t, which has not ended
  requests,  \* booking_requests, committed
  writes     \* per request in flight: what it wrote to booking_requests

vars == <<work, before, tx, gone, setup, rows, dead, requests, writes>>

Members(list) == {list[i] : i \in DOMAIN list}

Lists == {l \in UNION {[1..n -> Users] : n \in 0..Cardinality(Users)} :
            \A i, j \in DOMAIN l : l[i] = l[j] => i = j}

ASSUME InitialAssumption == Initial \notin Tx

ASSUME WorkAssumption ==
  \A w \in Work, t \in Tx :
    \/ w[t].kind = "save" /\ w[t].lists \in [Positions -> Lists] /\ w[t].rejected \subseteq Users
    \/ w[t].kind = "toggle" /\ w[t].user \in Users
    \/ w[t].kind = "update" /\ w[t].setup \subseteq Positions
    \/ w[t].kind = "delete"

Nothing == [u \in {} |-> "none"]

RequestStates == {"none", "open", "rejected"}

Ended == {"committed", "aborted"}

Steps == {"start", "visit", "members", "flush", "clear", "booked", "reject",
          "ask", "withdraw", "own", "remaining", "purge", "purged", "read",
          "count", "drop", "wait", "commit"} \cup Ended

Running(t) == tx[t].step \notin Ended

Committed(writer) == writer = Initial \/ tx[writer].step = "committed"

TypeOK ==
  /\ work \in Work
  /\ gone \in BOOLEAN
  /\ setup \subseteq Positions
  /\ rows \subseteq [user : Users, pos : Positions, order : Nat, by : Tx \cup {Initial}]
  /\ dead \subseteq rows \X Tx
  /\ requests \in [Users -> RequestStates]
  /\ \A t \in Tx :
       /\ tx[t].step \in Steps
       /\ tx[t].left \subseteq Positions
       /\ tx[t].lists \in [Positions -> Lists]
       /\ tx[t].queue \in Lists
       /\ writes[t] \in UNION {[S -> RequestStates] : S \in SUBSET Users}

-----------------------------------------------------------------------------
(* The rows of one performance to start with: lists without gaps.          *)
OrderedRows(at) ==
  UNION {{[user |-> at[p][i], pos |-> p, order |-> i - 1, by |-> Initial] : i \in DOMAIN at[p]} :
           p \in Positions}

Init ==
  /\ work \in Work
  /\ setup \in SUBSET Positions \ {{}}
  /\ \E at \in [Positions -> Lists] :
       /\ \A p, q \in Positions : p # q => Members(at[p]) \cap Members(at[q]) = {}
       /\ \A p \in Positions \ setup : at[p] = <<>>
       /\ rows = OrderedRows(at)
  /\ before = rows
  /\ gone = FALSE
  /\ dead = {}
  /\ requests \in [Users -> {"none", "open"}]
  /\ writes = [t \in Tx |-> Nothing]
  /\ tx = [t \in Tx |-> [step |-> "start", left |-> {}, lists |-> [p \in Positions |-> <<>>],
                         queue |-> <<>>, at |-> 0, waits |-> {}, then |-> "start",
                         doing |-> "nothing"]]

-----------------------------------------------------------------------------
(* What a statement of t sees and meets.                                   *)

Visible(t) == {r \in rows : (r.by = t \/ Committed(r.by)) /\ <<r, t>> \notin dead}

Request(t, u) == IF u \in DOMAIN writes[t] THEN writes[t][u] ELSE requests[u]

Deleters(t, r) == {o \in Tx \ {t} : <<r, o>> \in dead}

Writers(t, users) == {o \in Tx \ {t} : Running(o) /\ users \cap DOMAIN writes[o] # {}}

\* UNIQUE (performance_id, user_id): the row versions in the way of an
\* insertion.
Clashes(t) == {r \in rows : r.user \in Members(tx[t].lists[tx[t].at]) /\ <<r, t>> \notin dead}

Touched(o) ==
  \/ \E r \in rows : r.by = o \/ <<r, o>> \in dead
  \/ writes[o] # Nothing
  \/ work[o].kind = "update" /\ tx[o].step # "start"

\* The transactions the next statement of t waits for.
Blockers(t) ==
  CASE tx[t].step = "wait"     -> UNION {Deleters(t, r) : r \in tx[t].waits \cap rows}
    [] tx[t].step = "flush"    ->
         UNION {Deleters(t, r) \cup ({r.by} \ {o \in Tx \cup {Initial} : Committed(o)}) :
                  r \in Clashes(t)}
    [] tx[t].step = "clear"    -> Writers(t, {u \in Users : requests[u] # "none"})
    [] tx[t].step = "reject"   ->
         Writers(t, {u \in tx[t].waits : Request(t, u) # "none"})
    [] tx[t].step \in {"ask", "withdraw"} -> Writers(t, {work[t].user})
    [] tx[t].step = "drop"     -> {o \in Tx \ {t} : Running(o) /\ Touched(o)}
    [] OTHER                   -> {}

\* t goes on as "next" once it has deleted the rows "targets".
Delete(t, targets, next) ==
  LET free == {r \in targets : Deleters(t, r) = {}}
  IN  /\ dead' = dead \cup (free \X {t})
      /\ tx' = [tx EXCEPT ![t] =
                  IF free = targets THEN next
                  ELSE [next EXCEPT !.step = "wait", !.then = next.step,
                                    !.waits = targets \ free]]

Resume(t) ==
  /\ tx[t].step = "wait" /\ Blockers(t) = {}
  /\ dead' = dead \cup ((tx[t].waits \cap rows) \X {t})
  /\ tx' = [tx EXCEPT ![t].step = tx[t].then, ![t].waits = {}]
  /\ UNCHANGED <<work, before, gone, setup, rows, requests, writes>>

Write(t, users, value) ==
  writes' = [writes EXCEPT ![t] = [u \in DOMAIN writes[t] \cup users |->
                                     IF u \in users THEN value ELSE writes[t][u]]]

\* The mutant rolls back and starts again.
AbortRetry(t) ==
  /\ tx' = [tx EXCEPT ![t] = [@ EXCEPT !.step = "start", !.waits = {}]]
  /\ rows' = {r \in rows : r.by # t}
  /\ dead' = {d \in dead : d[2] # t /\ d[1].by # t}
  /\ writes' = [writes EXCEPT ![t] = Nothing]
  /\ UNCHANGED <<work, before, gone, setup, requests>>

\* An error ends the request; closing the session rolls it back.
Abort(t) ==
  /\ tx' = [tx EXCEPT ![t] = [@ EXCEPT !.step = "aborted", !.waits = {}]]
  /\ rows' = {r \in rows : r.by # t}
  /\ dead' = {d \in dead : d[2] # t /\ d[1].by # t}
  /\ writes' = [writes EXCEPT ![t] = Nothing]
  /\ UNCHANGED <<work, before, gone, setup, requests>>

Commit(t) ==
  /\ tx[t].step = "commit"
  /\ tx' = [tx EXCEPT ![t].step = "committed"]
  /\ rows' = {r \in rows : <<r, t>> \notin dead}
  /\ dead' = {d \in dead : d[2] # t /\ <<d[1], t>> \notin dead}
  /\ requests' = [u \in Users |-> Request(t, u)]
  /\ writes' = [writes EXCEPT ![t] = Nothing]
  /\ setup' = IF work[t].kind = "update" THEN work[t].setup ELSE setup
  /\ UNCHANGED <<work, before, gone>>

-----------------------------------------------------------------------------
(* _save_cast_item of the positions left, each with its list.              *)

\* DELETE of the position's bookings.
Visit(t) ==
  /\ tx[t].step = "visit" /\ tx[t].left # {}
  /\ LET p == CHOOSE q \in tx[t].left : \A o \in tx[t].left : q <= o
     IN  Delete(t, {r \in Visible(t) : r.pos = p},
                [tx[t] EXCEPT !.step = "members", !.at = p, !.left = @ \ {p},
                              !.queue = tx[t].lists[p]])
  /\ UNCHANGED <<work, before, gone, setup, rows, requests, writes>>

\* DELETE of a member's booking, wherever it is.
DeleteMember(t) ==
  /\ tx[t].step = "members" /\ tx[t].queue # <<>>
  /\ Delete(t, {r \in Visible(t) : r.user = Head(tx[t].queue)},
            [tx[t] EXCEPT !.queue = Tail(@)])
  /\ UNCHANGED <<work, before, gone, setup, rows, requests, writes>>

NoMemberLeft(t) ==
  /\ tx[t].step = "members" /\ tx[t].queue = <<>>
  /\ tx' = [tx EXCEPT ![t].step = "flush"]
  /\ UNCHANGED <<work, before, gone, setup, rows, dead, requests, writes>>

\* The flush: the insertions, checked against the keys.
Flush(t) ==
  LET list == tx[t].lists[tx[t].at]
      failed == \/ gone /\ (list # <<>> \/ work[t].kind = "update")
                \/ Clashes(t) # {}
  IN  /\ tx[t].step = "flush" /\ Blockers(t) = {}
      /\ \/ failed /\ Abort(t)
         \/ /\ ~failed
            /\ rows' = rows \cup {[user |-> list[i], pos |-> tx[t].at, order |-> i - 1, by |-> t] :
                                    i \in DOMAIN list}
            /\ tx' = [tx EXCEPT ![t].step = "visit"]
            /\ UNCHANGED <<work, before, gone, setup, dead, requests, writes>>

\* Where a handler goes after its last position.
AllVisited(t) ==
  /\ tx[t].step = "visit" /\ tx[t].left = {}
  /\ tx' = [tx EXCEPT ![t].step = IF work[t].kind = "save" THEN "clear" ELSE "commit"]
  /\ UNCHANGED <<work, before, gone, setup, rows, dead, requests, writes>>

-----------------------------------------------------------------------------
(* save_cast *)

StartSave(t) ==
  /\ work[t].kind = "save" /\ tx[t].step = "start" /\ ~gone
  /\ tx' = [tx EXCEPT ![t] = [@ EXCEPT !.step = "visit", !.left = setup,
                                       !.lists = work[t].lists, !.doing = "save"]]
  /\ UNCHANGED <<work, before, gone, setup, rows, dead, requests, writes>>

\* _apply_notbooked: UPDATE every request of the performance ...
ClearRejections(t) ==
  /\ tx[t].step = "clear" /\ Blockers(t) = {}
  /\ Write(t, {u \in Users : requests[u] # "none"}, "open")
  /\ tx' = [tx EXCEPT ![t].step = "booked"]
  /\ UNCHANGED <<work, before, gone, setup, rows, dead, requests>>

\* The mutant reads the bookings before the rejections are cleared.
ReadBookedAsSent(t) ==
  /\ tx[t].step = "booked"
  /\ tx' = [tx EXCEPT ![t] = [@ EXCEPT !.step = "reject", !.waits = work[t].rejected]]
  /\ UNCHANGED <<work, before, gone, setup, rows, dead, requests, writes>>

\* ... SELECT who is booked ...
ReadBooked(t) ==
  /\ tx[t].step = "booked"
  /\ tx' = [tx EXCEPT ![t] =
              [@ EXCEPT !.step = "reject",
                        !.waits = work[t].rejected \ {r.user : r \in Visible(t)}]]
  /\ UNCHANGED <<work, before, gone, setup, rows, dead, requests, writes>>

\* ... UPDATE the others that were listed.
Reject(t) ==
  /\ tx[t].step = "reject" /\ Blockers(t) = {}
  /\ Write(t, {u \in tx[t].waits : Request(t, u) # "none"}, "rejected")
  /\ tx' = [tx EXCEPT ![t] = [@ EXCEPT !.step = "commit", !.waits = {}]]
  /\ UNCHANGED <<work, before, gone, setup, rows, dead, requests>>

-----------------------------------------------------------------------------
(* change_user_request_status; everybody is qualified for every position. *)

StartToggle(t) ==
  LET u == work[t].user
      cast == \E r \in Visible(t) : r.user = u
      next == IF setup = {} THEN "commit"
              ELSE IF cast \/ requests[u] # "none" THEN "withdraw" ELSE "ask"
  IN  /\ work[t].kind = "toggle" /\ tx[t].step = "start" /\ ~gone
      /\ tx' = [tx EXCEPT ![t] = [@ EXCEPT !.step = next, !.doing = next]]
      /\ UNCHANGED <<work, before, gone, setup, rows, dead, requests, writes>>

\* _request_booking: the SELECT or the unique key finds a second request.
Ask(t) ==
  LET failed == gone \/ requests[work[t].user] # "none"
  IN  /\ tx[t].step = "ask" /\ Blockers(t) = {}
      /\ \/ failed /\ Abort(t)
         \/ /\ ~failed
            /\ Write(t, {work[t].user}, "open")
            /\ tx' = [tx EXCEPT ![t].step = "commit"]
            /\ UNCHANGED <<work, before, gone, setup, rows, dead, requests>>

\* _cancel_booking_or_request: DELETE the request ...
Withdraw(t) ==
  /\ tx[t].step = "withdraw" /\ Blockers(t) = {}
  /\ Write(t, {u \in {work[t].user} : requests[u] # "none"}, "none")
  /\ tx' = [tx EXCEPT ![t].step = "own"]
  /\ UNCHANGED <<work, before, gone, setup, rows, dead, requests>>

\* ... SELECT the user's booking ...
ReadOwn(t) ==
  /\ tx[t].step = "own"
  /\ LET own == {r \in Visible(t) : r.user = work[t].user}
     IN  tx' = [tx EXCEPT ![t] = [@ EXCEPT !.step = IF own = {} THEN "commit" ELSE "remaining",
                                           !.waits = own]]
  /\ UNCHANGED <<work, before, gone, setup, rows, dead, requests, writes>>

\* A list of these rows in their order; ties in any.
Ordered(some, list) ==
  /\ Len(list) = Cardinality(some)
  /\ Members(list) = {r.user : r \in some}
  /\ \A i, j \in DOMAIN list :
       i < j => \E r, s \in some : r.user = list[i] /\ s.user = list[j] /\ r.order <= s.order

\* The mutant reads the own row with them.
ReadRemainingWithOwn(t) ==
  /\ tx[t].step = "remaining"
  /\ \E own \in tx[t].waits, list \in Lists :
       /\ Ordered({r \in Visible(t) : r.pos = own.pos}, list)
       /\ tx' = [tx EXCEPT ![t] = [@ EXCEPT !.step = "visit", !.left = {own.pos}, !.waits = {},
                                            !.lists[own.pos] = list]]
  /\ UNCHANGED <<work, before, gone, setup, rows, dead, requests, writes>>

\* ... and the other rows of its position, then save that list.
ReadRemaining(t) ==
  /\ tx[t].step = "remaining"
  /\ \E own \in tx[t].waits, list \in Lists :
       /\ Ordered({r \in Visible(t) : r.pos = own.pos /\ r # own}, list)
       /\ tx' = [tx EXCEPT ![t] = [@ EXCEPT !.step = "visit", !.left = {own.pos}, !.waits = {},
                                            !.lists[own.pos] = list]]
  /\ UNCHANGED <<work, before, gone, setup, rows, dead, requests, writes>>

-----------------------------------------------------------------------------
(* update_performance with reconcile_setup_change; at most one of them runs. *)

StartUpdate(t) ==
  /\ work[t].kind = "update" /\ tx[t].step = "start" /\ ~gone
  /\ tx' = [tx EXCEPT ![t] = [@ EXCEPT !.step = "purge", !.left = setup \ work[t].setup,
                                       !.doing = "update"]]
  /\ UNCHANGED <<work, before, gone, setup, rows, dead, requests, writes>>

\* The bookings of a removed position go, whoever holds them.
Purge(t) ==
  /\ tx[t].step = "purge"
  /\ \E p \in tx[t].left :
       Delete(t, {r \in Visible(t) : r.pos = p},
              [tx[t] EXCEPT !.step = "purged", !.left = @ \ {p}])
  /\ UNCHANGED <<work, before, gone, setup, rows, requests, writes>>

\* ... and a flush follows.  The performance's own row is written with it.
Purged(t) ==
  /\ tx[t].step = "purged"
  /\ \/ gone /\ Abort(t)
     \/ /\ ~gone
        /\ tx' = [tx EXCEPT ![t].step = "purge"]
        /\ UNCHANGED <<work, before, gone, setup, rows, dead, requests, writes>>

\* The lists of the positions kept are read at once.
ReadCast(t) ==
  /\ tx[t].step = "purge" /\ tx[t].left = {}
  /\ \E lists \in [Positions -> Lists] :
       /\ \A p \in Positions : Ordered({r \in Visible(t) : r.pos = p /\ p \in work[t].setup}, lists[p])
       /\ tx' = [tx EXCEPT ![t] = [@ EXCEPT !.step = "visit", !.lists = lists,
                                            !.left = work[t].setup \cap setup]]
  /\ UNCHANGED <<work, before, gone, setup, rows, dead, requests, writes>>

-----------------------------------------------------------------------------
(* delete_performance: count, then DELETE with the foreign keys' RESTRICT. *)

StartDelete(t) ==
  LET used == Visible(t) # {} \/ \E u \in Users : requests[u] # "none"
  IN  /\ work[t].kind = "delete" /\ tx[t].step = "start" /\ ~gone
      /\ tx' = [tx EXCEPT ![t].step = IF used THEN "aborted" ELSE "drop"]
      /\ UNCHANGED <<work, before, gone, setup, rows, dead, requests, writes>>

\* Mutant: no foreign key guards the DELETE.
DropUnguarded(t) ==
  /\ tx[t].step = "drop" /\ Blockers(t) = {}
  /\ gone' = TRUE
  /\ setup' = {}
  /\ tx' = [tx EXCEPT ![t].step = "committed"]
  /\ UNCHANGED <<work, before, rows, dead, requests, writes>>

Drop(t) ==
  LET used == rows # {} \/ \E u \in Users : requests[u] # "none"
  IN  /\ tx[t].step = "drop" /\ Blockers(t) = {}
      /\ \/ used /\ Abort(t)
         \/ /\ ~used
            /\ gone' = TRUE
            /\ setup' = {}
            /\ tx' = [tx EXCEPT ![t].step = "committed"]
            /\ UNCHANGED <<work, before, rows, dead, requests, writes>>

-----------------------------------------------------------------------------
\* 404: the performance is gone when the request starts.
NotFound(t) ==
  /\ tx[t].step = "start" /\ gone
  /\ Abort(t)

\* PostgreSQL ends a circle of waiting transactions by aborting one.
Deadlocked(t) ==
  \E circle \in SUBSET Tx :
    t \in circle /\ \A o \in circle : Running(o) /\ Blockers(o) \cap circle # {}

Victim(t) == Deadlocked(t) /\ Abort(t)

Handler(t) ==
  \/ StartSave(t) \/ StartToggle(t) \/ StartUpdate(t) \/ StartDelete(t) \/ NotFound(t)
  \/ Visit(t) \/ DeleteMember(t) \/ NoMemberLeft(t) \/ Flush(t) \/ AllVisited(t)
  \/ ClearRejections(t) \/ ReadBooked(t) \/ Reject(t)
  \/ Ask(t) \/ Withdraw(t) \/ ReadOwn(t) \/ ReadRemaining(t)
  \/ Purge(t) \/ Purged(t) \/ ReadCast(t)
  \/ Drop(t) \/ Resume(t) \/ Commit(t) \/ Victim(t)

Finished == (\A t \in Tx : ~Running(t)) /\ UNCHANGED vars

Next == (\E t \in Tx : Handler(t)) \/ Finished

\* Each request has a thread of its own.
Spec == Init /\ [][Next]_vars /\ \A t \in Tx : WF_vars(Handler(t))

-----------------------------------------------------------------------------
CommittedRows == {r \in rows : Committed(r.by)}

\* A user holds one booking, whatever is in flight.
OneBookingPerUser ==
  \A r, s \in CommittedRows : r.user = s.user => r = s

\* A performance is not deleted under a booking or a request that commits
\* meanwhile, and nothing is added to one that is gone.
DeletedLeavesNothing ==
  gone => CommittedRows = {} /\ \A u \in Users : requests[u] = "none"

\* Constraints, locks and conflicts keep the tables whole under any
\* interleaving.
TablesConsistent == TypeOK /\ OneBookingPerUser /\ DeletedLeavesNothing

\* Two saves at once leave nobody cast and rejected: they meet at the rows of
\* the requests, after their casts are written.
SavesRejectNobodyCast ==
  (\A t \in Tx : work[t].kind = "save") =>
    \A u \in Users : requests[u] = "rejected" => ~\E r \in CommittedRows : r.user = u

OnlyToggle(t) == \A o \in Tx \ {t} : work[o].kind = "toggle" => work[o].user # work[t].user

\* A withdrawn request does not come back with a save that started before.
WithdrawnStaysWithdrawn ==
  \A t \in Tx :
    tx[t].step = "committed" /\ tx[t].doing = "withdraw" /\ OnlyToggle(t) =>
      requests[work[t].user] = "none"

\* What one request decided, no other that ran into it undoes.
DecisionsKept == SavesRejectNobodyCast /\ WithdrawnStaysWithdrawn

\* No request waits for ever: it commits, or fails and leaves nothing.
EveryRequestEnds == \A t \in Tx : <>~Running(t)

\* A handler that commits before any other starts does what Casting's action
\* does.
Quantities(at) == [p \in Positions |-> IF p \in at THEN 1 ELSE 0]

Plain(versions) == {[user |-> r.user, pos |-> r.pos, order |-> r.order] : r \in versions}

CastsOf(lists) ==
  [p \in Positions |-> [u \in Members(lists[p]) |-> (CHOOSE i \in DOMAIN lists[p] : lists[p][i] = u) - 1]]

AloneAsStated ==
  \A t \in Tx :
    tx[t].step = "committed" /\ (\A o \in Tx \ {t} : tx[o].step = "start") =>
      LET old == Plain(before)
      IN  Plain(rows) =
            CASE tx[t].doing = "save"     -> RowsAfterSave(old, Quantities(setup), CastsOf(work[t].lists))
              [] tx[t].doing = "withdraw" -> Rewritten(old, PositionsOf(old, work[t].user),
                                                       WithoutUser(old, work[t].user))
              [] tx[t].doing = "update"   -> Rewritten(old, Positions,
                                                       VisitedCasts(Quantities(setup), CurrentCasts(old)))
              [] OTHER                    -> old

-----------------------------------------------------------------------------
\* "rebuilds the remaining cast list for the user's (former) position
\* (without them)": who cancelled holds no booking, unless a save names them.
CancelTakesEffect ==
  \A t \in Tx :
    tx[t].step = "committed" /\ tx[t].doing = "withdraw" /\ OnlyToggle(t) =>
      ~\E r \in CommittedRows : r.user = work[t].user

\* "purges bookings on removed positions".
BookedOnSetup == \A r \in CommittedRows : r.pos \in setup
=============================================================================
