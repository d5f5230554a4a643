----------------------------- MODULE CastEngine -----------------------------
(***************************************************************************)
(* The diff/log engine behind every cast mutation of one performance       *)
(* (app/services/booking_service.py), as operators without state.          *)
(*                                                                         *)
(* A position stands for one (position_type, position_id) key.  Positions  *)
(* are numbered in the order get_setup lists them -- instruments, voices,  *)
(* choirjobs, each by (order, id) -- which is the order the loops of       *)
(* _apply_cast and reconcile_setup_change visit them.                      *)
(*                                                                         *)
(* A setup maps every position to its quantity, 0 for a position the       *)
(* performance does not have (the code's quantities.get(key, 0); the       *)
(* request schema admits no quantity below 1).                             *)
(*                                                                         *)
(* A cast list without repetitions is the function from its members to     *)
(* their 0-based index.  A list naming a user twice inserts two rows with  *)
(* the same (performance_id, user_id) in one flush, and the unique         *)
(* constraint aborts the transaction: it changes nothing, so it is left    *)
(* out.  Fees are carried along unchanged by the code and left out.        *)
(***************************************************************************)
EXTENDS Integers, FiniteSets

CONSTANTS
  Users,        \* users that may be cast or may ask to be
  NPositions    \* number of positions any setup draws from

ASSUME UsersAssumption == IsFiniteSet(Users)
ASSUME PositionsAssumption == NPositions \in Nat

Positions == 1..NPositions

\* A bookings row of the performance: who, on which position, sort_order.
Row == [user : Users, pos : Positions, order : Nat]

IsCast(c) ==
  /\ \A u, v \in DOMAIN c : c[u] = c[v] => u = v
  /\ {c[u] : u \in DOMAIN c} = 0..(Cardinality(DOMAIN c) - 1)

Casts == {c \in UNION {[S -> 0..(Cardinality(Users) - 1)] : S \in SUBSET Users} :
            IsCast(c)}

EmptyCast == [u \in {} |-> 0]

-----------------------------------------------------------------------------
(* Reading the cast list of a position: its rows in the order of "order".  *)

RowsAt(rows, p) == {b \in rows : b.pos = p}

Index(rows, u) ==
  Cardinality({b \in rows : \E own \in rows : own.user = u /\ b.order < own.order})

CastOf(rows) == [u \in {b.user : b \in rows} |-> Index(rows, u)]

CurrentCasts(rows) == [p \in Positions |-> CastOf(RowsAt(rows, p))]

RowsFor(p, cast) ==
  {[user |-> u, pos |-> p, order |-> cast[u]] : u \in DOMAIN cast}

-----------------------------------------------------------------------------
(* _diff_cast_transitions, one user at a time: which entry, if any, the    *)
(* change of a position's list from old to new writes about user u.        *)

\* Mutants: both lists judged against the new quantity.
BooksNewQuantity(old, new, quantity, reference, u) ==
  /\ u \in DOMAIN new
  /\ new[u] < quantity
  /\ u \in DOMAIN old => old[u] >= quantity

UnbooksNewQuantity(old, new, quantity, reference, u) ==
  \/ u \in DOMAIN old /\ u \notin DOMAIN new
  \/ /\ u \in DOMAIN new
     /\ new[u] >= quantity
     /\ u \in DOMAIN old => old[u] < quantity

Books(old, new, quantity, reference, u) ==
  /\ u \in DOMAIN new
  /\ new[u] < quantity
  /\ u \in DOMAIN old => old[u] >= reference

Unbooks(old, new, quantity, reference, u) ==
  \/ u \in DOMAIN old /\ u \notin DOMAIN new
  \/ /\ u \in DOMAIN new
     /\ new[u] >= quantity
     /\ u \in DOMAIN old => old[u] < reference

-----------------------------------------------------------------------------
(* booking_logs.  What later readers tell apart is, per user, the entries  *)
(* the latest transaction wrote about them: they share one created_at (the *)
(* column default now() is constant inside a transaction), so "types" are  *)
(* the entries tied for the newest; "last" is the one inserted last.       *)

LogTypes == {"book", "unbook"}

LogState == [last : LogTypes \cup {"none"}, types : SUBSET LogTypes]

NoLog == [last |-> "none", types |-> {}]

\* The log of user u after one transaction that rewrote the lists "old" into
\* "new" position by position, with the quantities before ("reference") and
\* after ("quantity").
LogAfter(logged, old, new, quantity, reference, u) ==
  LET booked   == {p \in Positions : Books(old[p], new[p], quantity[p], reference[p], u)}
      unbooked == {p \in Positions : Unbooks(old[p], new[p], quantity[p], reference[p], u)}
      touched  == booked \cup unbooked
  IN  IF touched = {}
      THEN logged
      ELSE [last  |-> IF \E p \in booked : \A q \in touched : q <= p
                      THEN "book" ELSE "unbook",
            types |-> {t \in LogTypes : \/ t = "book" /\ booked # {}
                                        \/ t = "unbook" /\ unbooked # {}}]

-----------------------------------------------------------------------------
(* _apply_cast in closed form.  The loop rewrites the positions of the     *)
(* setup in turn; before inserting a member it deletes any booking that    *)
(* member has on this performance.  So a position's step no longer sees    *)
(* the rows of users named at an earlier position, and a user named        *)
(* several times keeps the last place only.  An omitted position and an    *)
(* empty list have the same effect; a position outside the setup is not    *)
(* visited.  CastLoop checks this form against the loop.                   *)

InSetup(setup) == {p \in Positions : setup[p] > 0}

VisitedCasts(setup, casts) ==
  [p \in Positions |-> IF p \in InSetup(setup) THEN casts[p] ELSE EmptyCast]

SeenAt(rows, setup, casts, p) ==
  {b \in RowsAt(rows, p) :
     \A q \in InSetup(setup) : q < p => b.user \notin DOMAIN casts[q]}

SeenCasts(rows, setup, casts) ==
  VisitedCasts(setup, [p \in Positions |-> CastOf(SeenAt(rows, setup, casts, p))])

\* Mutant: no DELETE of a member's booking elsewhere.
PlacedAtEverywhere(setup, casts, p) == RowsFor(p, casts[p])

PlacedAt(setup, casts, p) ==
  {b \in RowsFor(p, casts[p]) :
     \A q \in InSetup(setup) : q > p => b.user \notin DOMAIN casts[q]}

RowsAfterSave(rows, setup, casts) ==
  (UNION {PlacedAt(setup, casts, p) : p \in InSetup(setup)})
    \cup {b \in rows : /\ b.pos \notin InSetup(setup)
                       /\ \A q \in InSetup(setup) : b.user \notin DOMAIN casts[q]}

(* Mutant: the dropouts' rows go, the others keep their order.             *)
RewrittenOldOrders(rows, at, casts) ==
  {b \in rows : b.pos \in at => b.user \in DOMAIN casts[b.pos]}

(* The lists of the positions in "at" rewritten to "casts": the rows'      *)
(* order becomes the index (reconcile_setup_change, a cancellation).       *)
Rewritten(rows, at, casts) ==
  {b \in rows : b.pos \notin at} \cup (UNION {RowsFor(p, casts[p]) : p \in at})

(* cancel_auth_user_booking: the lists without one user.                   *)
PositionsOf(rows, u) == {p \in Positions : \E b \in rows : b.user = u /\ b.pos = p}

WithoutUser(rows, u) ==
  [p \in Positions |-> CastOf({b \in RowsAt(rows, p) : b.user # u})]
=============================================================================
