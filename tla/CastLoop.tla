------------------------------ MODULE CastLoop ------------------------------
(***************************************************************************)
(* The loops of booking_service run step by step, one call of              *)
(* _save_cast_item at a time: _apply_cast over the positions of the setup, *)
(* reconcile_setup_change over the removed and then the remaining ones,    *)
(* cancel_auth_user_booking on one.  Module CastEngine states what a whole *)
(* loop does in closed form; the two are compared when the loop is done.   *)
(*                                                                         *)
(* Here a list is a sequence, as in the code, and the log is the sequence  *)
(* of entries in the order they are inserted.                              *)
(***************************************************************************)
EXTENDS CastEngine, Sequences

CONSTANTS
  LoopQuantity,  \* bound on a position's quantity
  Omitted        \* payload value: the request has no item for this position

VARIABLES
  given,    \* the input: [kind, rows, setup, newSetup, payload, user]
  step,     \* where the handler is
  flushed,  \* bookings as the transaction sees them
  lists,    \* the cast lists the loop was handed
  left,     \* positions the current loop has not visited
  entries   \* booking_logs rows inserted so far

loopVars == <<given, step, flushed, lists, left, entries>>

LoopSetups == [Positions -> 0..LoopQuantity]

Members(list) == {list[i] : i \in DOMAIN list}

IsList(list) == \A i, j \in DOMAIN list : list[i] = list[j] => i = j

Lists == {l \in UNION {[1..n -> Users] : n \in 0..Cardinality(Users)} : IsList(l)}

ASSUME OmittedAssumption == Omitted \notin Lists /\ Omitted \notin Nat

\* The function from members to 0-based index CastEngine uses for a list.
AsCast(list) == [u \in Members(list) |-> (CHOOSE i \in DOMAIN list : list[i] = u) - 1]

\* SELECT ... ORDER BY "order" of rows of one position, as a list of users.
InOrder(here) ==
  CHOOSE l \in [1..Cardinality(here) -> {b.user : b \in here}] :
    \A i, j \in 1..Cardinality(here) :
      i < j => \E b, c \in here : b.user = l[i] /\ c.user = l[j] /\ b.order < c.order

Select(p) == InOrder(RowsAt(flushed, p))

-----------------------------------------------------------------------------
Entry(u, type, p) == [user |-> u, type |-> type, pos |-> p]

\* The entries of those list members that get one, in the list's order.
Logged(seq, types, p) ==
  LET hits == {i \in DOMAIN seq : types[i] # "none"}
      inTurn == CHOOSE h \in [1..Cardinality(hits) -> hits] :
                  \A j, k \in 1..Cardinality(hits) : j < k => h[j] < h[k]
  IN  [k \in 1..Cardinality(hits) |-> Entry(seq[inTurn[k]], types[inTurn[k]], p)]

\* _diff_cast_transitions: first the dropouts, then the new list in order.
DiffCastTransitions(old, new, quantity, oldQuantity, p) ==
  LET reference == IF oldQuantity = Omitted THEN quantity ELSE oldQuantity
      OldIndex(u) == (CHOOSE i \in DOMAIN old : old[i] = u) - 1
      dropped == [i \in DOMAIN old |-> IF old[i] \notin Members(new) THEN "unbook" ELSE "none"]
      judged  == [i \in DOMAIN new |->
        IF new[i] \notin Members(old)
        THEN IF i - 1 < quantity THEN "book" ELSE "unbook"
        ELSE IF OldIndex(new[i]) < reference /\ i - 1 >= quantity THEN "unbook"
        ELSE IF ~(OldIndex(new[i]) < reference) /\ i - 1 < quantity THEN "book"
        ELSE "none"]
  IN  Logged(old, dropped, p) \o Logged(new, judged, p)

\* Mutant: only this position's rows are deleted.
SaveCastItemHereOnly(p, new, quantity, oldQuantity) ==
  LET old == Select(p)
  IN  IF new = Omitted
      THEN flushed' = {b \in flushed : b.pos # p} /\ entries' = entries
      ELSE /\ flushed' = {b \in flushed : b.pos # p} \cup RowsFor(p, AsCast(new))
           /\ entries' = entries \o DiffCastTransitions(old, new, quantity, oldQuantity, p)

\* _save_cast_item.  Its DELETE of a member's bookings elsewhere runs before
\* the flush, so it never hits a row this call inserts.
SaveCastItem(p, new, quantity, oldQuantity) ==
  LET old == Select(p)
      all == [i \in DOMAIN old |-> "unbook"]
  IN  IF new = Omitted
      THEN /\ flushed' = {b \in flushed : b.pos # p}
           /\ entries' = entries \o Logged(old, all, p)
      ELSE /\ flushed' = {b \in flushed : b.pos # p /\ b.user \notin Members(new)}
                        \cup RowsFor(p, AsCast(new))
           /\ entries' = entries \o DiffCastTransitions(old, new, quantity, oldQuantity, p)

-----------------------------------------------------------------------------
\* Rows the service can have left: one per user, distinct places.
PossibleRows(setup) ==
  {r \in {{[user |-> u, pos |-> place[u][1], order |-> place[u][2]] : u \in DOMAIN place} :
             place \in UNION {[S -> InSetup(setup) \X (0..(Cardinality(Users) - 1))] :
                               S \in SUBSET Users}} :
     \A b, c \in r : b.pos = c.pos /\ b.order = c.order => b = c}

GivenSave(s) ==
  \E r \in PossibleRows(s), l \in [Positions -> Lists \cup {Omitted}] :
    given = [kind |-> "save", rows |-> r, setup |-> s, newSetup |-> s,
             payload |-> l, user |-> Omitted]

GivenUpdate(s) ==
  \E r \in PossibleRows(s), n \in LoopSetups :
    given = [kind |-> "update", rows |-> r, setup |-> s, newSetup |-> n,
             payload |-> <<>>, user |-> Omitted]

GivenCancel(s) ==
  \E r \in PossibleRows(s), u \in Users :
    /\ \E b \in r : b.user = u
    /\ given = [kind |-> "cancel", rows |-> r, setup |-> s, newSetup |-> s,
                payload |-> <<>>, user |-> u]

LoopInit ==
  /\ \E s \in LoopSetups : GivenSave(s) \/ GivenUpdate(s) \/ GivenCancel(s)
  /\ step = "start"
  /\ flushed = given.rows
  /\ lists = <<>>
  /\ left = {}
  /\ entries = <<>>

\* save_cast -> _apply_cast
StartSave ==
  /\ step = "start" /\ given.kind = "save"
  /\ step' = "loop"
  /\ lists' = given.payload
  /\ left' = InSetup(given.setup)
  /\ UNCHANGED <<given, flushed, entries>>

\* Mutant: the removed positions are not purged.
StartUpdateUnpurged ==
  /\ step = "start" /\ given.kind = "update"
  /\ step' = "purge"
  /\ left' = {}
  /\ UNCHANGED <<given, flushed, lists, entries>>

\* update_performance -> reconcile_setup_change: the removed positions
\* first, in the order a Python set yields them ...
StartUpdate ==
  /\ step = "start" /\ given.kind = "update"
  /\ step' = "purge"
  /\ left' = InSetup(given.setup) \ InSetup(given.newSetup)
  /\ UNCHANGED <<given, flushed, lists, entries>>

PurgeRemoved(p) ==
  /\ step = "purge" /\ p \in left
  /\ SaveCastItem(p, Omitted, given.newSetup[p], Omitted)
  /\ left' = left \ {p}
  /\ UNCHANGED <<given, step, lists>>

\* ... then the lists as they are now are read once and visited in turn.
ReadCurrentCast ==
  /\ step = "purge" /\ left = {}
  /\ step' = "loop"
  /\ lists' = [p \in Positions |-> Select(p)]
  /\ left' = InSetup(given.newSetup)
  /\ UNCHANGED <<given, flushed, entries>>

VisitNext ==
  /\ step = "loop"
  /\ \E p \in left :
       /\ \A q \in left : p <= q
       /\ LET oldQuantity == IF given.kind = "update" /\ given.setup[p] > 0
                             THEN given.setup[p] ELSE Omitted
          IN  SaveCastItem(p, lists[p], given.newSetup[p], oldQuantity)
       /\ left' = left \ {p}
  /\ UNCHANGED <<given, step, lists>>

EndLoop ==
  /\ step = "loop" /\ left = {}
  /\ step' = "done"
  /\ UNCHANGED <<given, flushed, lists, left, entries>>

\* cancel_auth_user_booking
Cancel ==
  /\ step = "start" /\ given.kind = "cancel"
  /\ \E b \in flushed :
       /\ b.user = given.user
       /\ SaveCastItem(b.pos, InOrder(RowsAt(flushed, b.pos) \ {b}), given.setup[b.pos], Omitted)
  /\ step' = "done"
  /\ UNCHANGED <<given, lists, left>>

Finished == step = "done" /\ UNCHANGED loopVars

LoopNext ==
  \/ StartSave
  \/ StartUpdate
  \/ \E p \in Positions : PurgeRemoved(p)
  \/ ReadCurrentCast
  \/ VisitNext
  \/ EndLoop
  \/ Cancel
  \/ Finished

LoopSpec == LoopInit /\ [][LoopNext]_loopVars

-----------------------------------------------------------------------------
\* The closed forms: lists before and after, and the rows left.
PayloadCasts ==
  [p \in Positions |-> IF given.payload[p] = Omitted THEN EmptyCast
                       ELSE AsCast(given.payload[p])]

OldCasts ==
  CASE given.kind = "save" -> SeenCasts(given.rows, given.setup, PayloadCasts)
    [] OTHER -> VisitedCasts(given.setup, CurrentCasts(given.rows))

NewCasts ==
  CASE given.kind = "save" -> VisitedCasts(given.setup, PayloadCasts)
    [] given.kind = "update" -> VisitedCasts(given.newSetup, OldCasts)
    [] OTHER -> WithoutUser(given.rows, given.user)

ClosedRows ==
  CASE given.kind = "save" -> RowsAfterSave(given.rows, given.setup, PayloadCasts)
    [] given.kind = "update" -> Rewritten(given.rows, InSetup(given.setup), NewCasts)
    [] OTHER -> Rewritten(given.rows, PositionsOf(given.rows, given.user), NewCasts)

EntriesOf(u) == {i \in DOMAIN entries : entries[i].user = u}

LoopTypeOK ==
  /\ flushed \subseteq Row
  /\ step \in {"start", "purge", "loop", "done"}
  /\ left \subseteq Positions
  /\ \A i \in DOMAIN entries :
       entries[i] \in [user : Users, type : LogTypes, pos : Positions]

\* The bookings a handler leaves are the ones CastEngine says.
RowsAsStated == step = "done" => flushed = ClosedRows

\* The log entries are, too: their types and the one inserted last.
LogAsStated ==
  step = "done" =>
    \A u \in Users :
      LET mine == EntriesOf(u)
          newest == CHOOSE i \in mine : \A j \in mine : j <= i
      IN  LogAfter(NoLog, OldCasts, NewCasts, given.newSetup, given.setup, u) =
            IF mine = {} THEN NoLog
            ELSE [last |-> entries[newest].type, types |-> {entries[i].type : i \in mine}]

\* No flush inside the loop meets the unique constraint: at every step a
\* user has one row (the intermediate states matter, each call flushes).
EveryFlushUnique == \A b, c \in flushed : b.user = c.user => b = c

\* The loop of statements with a flush each goes through and leaves the
\* bookings CastEngine states.
LoopRows == EveryFlushUnique /\ RowsAsStated

\* It inserts the log entries CastEngine states, for positions and users there
\* are.
LoopLog == LoopTypeOK /\ LogAsStated
=============================================================================
