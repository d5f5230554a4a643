--------------------------- MODULE Casting_proofs ---------------------------
(***************************************************************************)
(* Proofs about Casting and CastLoop, for any finite set of users, any     *)
(* number of positions and any bound on the quantities.                    *)
(***************************************************************************)
EXTENDS Casting, CastLoop, TLAPS, FiniteSetTheorems, SequenceTheorems, WellFoundedInduction

\* Rows as the database can hold them: typed, one per user, distinct places.
SoundRows(rows) ==
  /\ rows \subseteq Row
  /\ \A b, c \in rows : b.user = c.user => b = c
  /\ \A b, c \in rows : b.pos = c.pos /\ b.order = c.order => b = c

\* A list: distinct users at distinct indices.
SoundCast(c) ==
  /\ DOMAIN c \subseteq Users
  /\ \A u \in DOMAIN c : c[u] \in Nat
  /\ \A u, v \in DOMAIN c : c[u] = c[v] => u = v

-----------------------------------------------------------------------------
(* Reading a list: the indices "ORDER BY order" yields.                    *)

\* One row per user: finitely many rows.
LEMMA RowsFinite ==
  ASSUME NEW rows, SoundRows(rows)
  PROVE  IsFiniteSet(rows)
<1>. DEFINE f == [b \in rows |-> b.user]
<1>1. f \in [rows -> Users]
  BY DEF SoundRows, Row
<1>2. f \in Injection(rows, Users)
  BY <1>1 DEF SoundRows, Injection, IsInjective
<1>. QED
  BY <1>2, FS_Injection, UsersAssumption

LEMMA CountBelow ==
  ASSUME NEW n \in Nat
  PROVE  IsFiniteSet(0..(n - 1)) /\ Cardinality(0..(n - 1)) = n
<1>1. n - 1 \in Int /\ 0 \in Int
  OBVIOUS
<1>2. IsFiniteSet(0..(n - 1)) /\ Cardinality(0..(n - 1)) = IF 0 > n - 1 THEN 0 ELSE (n - 1) - 0 + 1
  BY <1>1, FS_Interval
<1>. QED
  BY <1>2

\* The members before a row in its list.
Before(rows, b) == {c \in rows : c.order < b.order}

LEMMA IndexIsBefore ==
  ASSUME NEW rows, SoundRows(rows), NEW b \in rows
  PROVE  Index(rows, b.user) = Cardinality(Before(rows, b))
<1>1. {c \in rows : \E own \in rows : own.user = b.user /\ c.order < own.order}
        = Before(rows, b)
  BY DEF Before, SoundRows
<1>. QED
  BY <1>1 DEF Index

\* What reading the list of one position returns: its users, at distinct
\* indices, none beyond the row's own order.
LEMMA CastOfRows ==
  ASSUME NEW rows, SoundRows(rows), NEW p, \A b \in rows : b.pos = p
  PROVE  /\ SoundCast(CastOf(rows))
         /\ DOMAIN CastOf(rows) = {b.user : b \in rows}
         /\ \A b \in rows : CastOf(rows)[b.user] <= b.order
<1>1. DOMAIN CastOf(rows) = {b.user : b \in rows}
  BY DEF CastOf
<1>2. \A b \in rows : /\ CastOf(rows)[b.user] = Cardinality(Before(rows, b))
                      /\ IsFiniteSet(Before(rows, b))
                      /\ CastOf(rows)[b.user] \in Nat
  <2>. TAKE b \in rows
  <2>1. CastOf(rows)[b.user] = Cardinality(Before(rows, b))
    BY IndexIsBefore DEF CastOf
  <2>2. IsFiniteSet(Before(rows, b))
    BY RowsFinite, FS_Subset DEF Before
  <2>. QED
    BY <2>1, <2>2, FS_CardinalityType
<1>3. \A b \in rows : CastOf(rows)[b.user] <= b.order
  <2>. TAKE b \in rows
  <2>. DEFINE f == [c \in Before(rows, b) |-> c.order]
  <2>1. b.order \in Nat /\ \A c \in rows : c.order \in Nat
    BY DEF SoundRows, Row
  <2>2. f \in [Before(rows, b) -> 0..(b.order - 1)]
    BY <2>1 DEF Before
  <2>3. f \in Injection(Before(rows, b), 0..(b.order - 1))
    BY <2>2 DEF SoundRows, Before, Injection, IsInjective
  <2>4. IsFiniteSet(0..(b.order - 1)) /\ Cardinality(0..(b.order - 1)) = b.order
    BY <2>1, CountBelow
  <2>5. Cardinality(Before(rows, b)) <= Cardinality(0..(b.order - 1))
    BY <2>3, <2>4, FS_Injection
  <2>. QED
    BY <2>4, <2>5, <1>2
<1>4. ASSUME NEW b \in rows, NEW c \in rows, b.order < c.order
      PROVE  CastOf(rows)[b.user] # CastOf(rows)[c.user]
  <2>1. b.order \in Nat /\ c.order \in Nat /\ \A d \in rows : d.order \in Nat
    BY DEF SoundRows, Row
  <2>2. Before(rows, b) \in SUBSET Before(rows, c)
    BY <1>4, <2>1 DEF Before
  <2>3. b \in Before(rows, c) /\ b \notin Before(rows, b)
    BY <1>4, <2>1 DEF Before
  <2>4. Cardinality(Before(rows, c)) # Cardinality(Before(rows, b))
    BY <1>2, <2>2, <2>3, FS_Subset
  <2>. QED
    BY <1>2, <2>4
<1>5. ASSUME NEW u \in DOMAIN CastOf(rows), NEW v \in DOMAIN CastOf(rows),
             CastOf(rows)[u] = CastOf(rows)[v]
      PROVE  u = v
  <2>1. PICK b \in rows : b.user = u
    BY <1>1
  <2>2. PICK c \in rows : c.user = v
    BY <1>1
  <2>3. b.order \in Nat /\ c.order \in Nat
    BY DEF SoundRows, Row
  <2>4. ~(b.order < c.order) /\ ~(c.order < b.order)
    BY <1>4, <1>5, <2>1, <2>2
  <2>5. b.order = c.order
    BY <2>3, <2>4
  <2>. QED
    BY <2>1, <2>2, <2>5 DEF SoundRows
<1>6. SoundCast(CastOf(rows))
  <2>1. DOMAIN CastOf(rows) \subseteq Users
    BY <1>1 DEF SoundRows, Row
  <2>2. \A u \in DOMAIN CastOf(rows) : CastOf(rows)[u] \in Nat
    BY <1>1, <1>2
  <2>. QED
    BY <1>5, <2>1, <2>2 DEF SoundCast
<1>. QED
  BY <1>1, <1>3, <1>6

LEMMA SoundSubset ==
  ASSUME NEW rows, SoundRows(rows), NEW sub \in SUBSET rows
  PROVE  SoundRows(sub)
BY DEF SoundRows

\* The same for the lists of all positions.
LEMMA CurrentCastsSound ==
  ASSUME NEW rows, SoundRows(rows), NEW p \in Positions
  PROVE  /\ SoundCast(CurrentCasts(rows)[p])
         /\ DOMAIN CurrentCasts(rows)[p] = {b.user : b \in RowsAt(rows, p)}
         /\ \A b \in RowsAt(rows, p) : CurrentCasts(rows)[p][b.user] <= b.order
<1>1. RowsAt(rows, p) \in SUBSET rows /\ \A b \in RowsAt(rows, p) : b.pos = p
  BY DEF RowsAt
<1>2. SoundRows(RowsAt(rows, p))
  BY <1>1, SoundSubset
<1>. QED
  BY <1>1, <1>2, CastOfRows DEF CurrentCasts

-----------------------------------------------------------------------------
(* Writing lists.                                                          *)

LEMMA RowsForSound ==
  ASSUME NEW p \in Positions, NEW c, SoundCast(c)
  PROVE  /\ RowsFor(p, c) \subseteq Row
         /\ \A b \in RowsFor(p, c) : /\ b.pos = p
                                     /\ b.user \in DOMAIN c
                                     /\ b.order = c[b.user]
         /\ \A u \in DOMAIN c : [user |-> u, pos |-> p, order |-> c[u]] \in RowsFor(p, c)
BY DEF RowsFor, SoundCast, Row

\* Rewriting positions with lists of users they already hold keeps the rows
\* sound and moves nobody.
LEMMA RewrittenSound ==
  ASSUME NEW rows, SoundRows(rows), NEW at \in SUBSET Positions, NEW casts,
         \A p \in at : /\ SoundCast(casts[p])
                       /\ DOMAIN casts[p] \subseteq {b.user : b \in RowsAt(rows, p)}
  PROVE  /\ SoundRows(Rewritten(rows, at, casts))
         /\ \A b \in Rewritten(rows, at, casts) :
              \/ b \in rows /\ b.pos \notin at
              \/ /\ b.pos \in at
                 /\ b \in RowsFor(b.pos, casts[b.pos])
                 /\ \E c \in rows : c.user = b.user /\ c.pos = b.pos
<1>. DEFINE new == Rewritten(rows, at, casts)
<1>1. \A b \in new : \/ b \in rows /\ b.pos \notin at
                     \/ \E p \in at : b \in RowsFor(p, casts[p])
  BY DEF Rewritten
<1>2. \A b \in new : \/ b \in rows /\ b.pos \notin at
                     \/ /\ b.pos \in at
                        /\ b \in RowsFor(b.pos, casts[b.pos])
                        /\ b.user \in DOMAIN casts[b.pos]
                        /\ b.order = casts[b.pos][b.user]
                        /\ b \in Row
                        /\ \E c \in rows : c.user = b.user /\ c.pos = b.pos
  <2>. TAKE b \in new
  <2>1. ASSUME NEW p \in at, b \in RowsFor(p, casts[p])
        PROVE  /\ b.pos = p
               /\ b.user \in DOMAIN casts[p]
               /\ b.order = casts[p][b.user]
               /\ b \in Row
    BY <2>1, RowsForSound
  <2>2. ASSUME NEW p \in at, b.user \in DOMAIN casts[p]
        PROVE  \E c \in rows : c.user = b.user /\ c.pos = p
    BY <2>2 DEF RowsAt
  <2>. QED
    BY <1>1, <2>1, <2>2
<1>3. new \subseteq Row
  BY <1>2 DEF SoundRows
<1>4. ASSUME NEW b \in new, NEW c \in new, b.user = c.user
      PROVE  b = c
  <2>1. PICK d \in rows : d.user = b.user /\ d.pos = b.pos
    BY <1>2
  <2>2. PICK e \in rows : e.user = c.user /\ e.pos = c.pos
    BY <1>2
  <2>3. b.pos = c.pos
    BY <1>4, <2>1, <2>2 DEF SoundRows
  <2>4. CASE b.pos \in at
    <3>1. b.order = casts[b.pos][b.user] /\ c.order = casts[b.pos][b.user]
      BY <1>2, <1>4, <2>3, <2>4
    <3>. QED
      BY <1>3, <1>4, <2>3, <3>1 DEF Row
  <2>5. CASE b.pos \notin at
    BY <1>2, <1>4, <2>3, <2>5 DEF SoundRows
  <2>. QED
    BY <2>4, <2>5
<1>5. ASSUME NEW b \in new, NEW c \in new, b.pos = c.pos, b.order = c.order
      PROVE  b = c
  <2>1. CASE b.pos \in at
    <3>1. b.user = c.user
      BY <1>2, <1>5, <2>1 DEF SoundCast
    <3>. QED
      BY <1>4, <3>1
  <2>2. CASE b.pos \notin at
    BY <1>2, <1>5, <2>2 DEF SoundRows
  <2>. QED
    BY <2>1, <2>2
<1>. QED
  BY <1>2, <1>3, <1>4, <1>5 DEF SoundRows

\* Saving a whole cast keeps the rows sound, however often the lists repeat
\* a user: the last place wins.
LEMMA SavedSound ==
  ASSUME NEW rows, SoundRows(rows), NEW s, NEW casts,
         \A p \in Positions : SoundCast(casts[p])
  PROVE  /\ SoundRows(RowsAfterSave(rows, s, casts))
         /\ \A b \in RowsAfterSave(rows, s, casts) :
              b.pos \in InSetup(s) \/ b \in rows
<1>. DEFINE new == RowsAfterSave(rows, s, casts)
            Named(b) == \E p \in InSetup(s) : b.user \in DOMAIN casts[p]
<1>1. InSetup(s) \subseteq Positions
  BY DEF InSetup
<1>2. \A b \in new :
        \/ /\ b.pos \in InSetup(s)
           /\ b.user \in DOMAIN casts[b.pos]
           /\ b.order = casts[b.pos][b.user]
           /\ b \in Row
           /\ \A q \in InSetup(s) : q > b.pos => b.user \notin DOMAIN casts[q]
        \/ /\ b \in rows
           /\ b.pos \notin InSetup(s)
           /\ ~Named(b)
  <2>. TAKE b \in new
  <2>1. CASE b \in rows /\ b.pos \notin InSetup(s) /\ ~Named(b)
    BY <2>1
  <2>2. ASSUME NEW p \in InSetup(s), b \in PlacedAt(s, casts, p)
        PROVE  /\ b.pos = p
               /\ b.user \in DOMAIN casts[p]
               /\ b.order = casts[p][b.user]
               /\ b \in Row
               /\ \A q \in InSetup(s) : q > b.pos => b.user \notin DOMAIN casts[q]
    <3>1. b \in RowsFor(p, casts[p])
      BY <2>2 DEF PlacedAt
    <3>. QED
      BY <1>1, <2>2, <3>1, RowsForSound DEF PlacedAt
  <2>3. \/ \E p \in InSetup(s) : b \in PlacedAt(s, casts, p)
        \/ b \in rows /\ b.pos \notin InSetup(s) /\ ~Named(b)
    <3>. DEFINE placed == UNION {PlacedAt(s, casts, p) : p \in InSetup(s)}
                kept   == {c \in rows : /\ c.pos \notin InSetup(s)
                                        /\ \A q \in InSetup(s) : c.user \notin DOMAIN casts[q]}
    <3>1. new = placed \cup kept
      BY DEF RowsAfterSave
    <3>2. b \in placed \/ b \in kept
      BY <3>1
    <3>. QED
      BY <3>2
  <2>4. CASE \E p \in InSetup(s) : b \in PlacedAt(s, casts, p)
    <3>1. PICK p \in InSetup(s) : b \in PlacedAt(s, casts, p)
      BY <2>4
    <3>. QED
      BY <2>2, <3>1
  <2>. QED
    BY <2>1, <2>3, <2>4
<1>3. new \subseteq Row
  BY <1>2 DEF SoundRows
<1>4. ASSUME NEW b \in new, NEW c \in new, b.user = c.user
      PROVE  b = c
  <2>1. CASE b.pos \notin InSetup(s) \/ c.pos \notin InSetup(s)
    BY <1>2, <1>4, <2>1 DEF SoundRows
  <2>2. CASE b.pos \in InSetup(s) /\ c.pos \in InSetup(s)
    <3>1. b.pos \in Int /\ c.pos \in Int
      BY <1>1, <2>2 DEF Positions
    <3>2. ~(b.pos < c.pos) /\ ~(c.pos < b.pos)
      BY <1>2, <1>4, <2>2
    <3>3. b.pos = c.pos
      BY <3>1, <3>2
    <3>4. b.order = c.order
      BY <1>2, <1>4, <2>2, <3>3
    <3>. QED
      BY <1>3, <1>4, <3>3, <3>4 DEF Row
  <2>. QED
    BY <2>1, <2>2
<1>5. ASSUME NEW b \in new, NEW c \in new, b.pos = c.pos, b.order = c.order
      PROVE  b = c
  <2>1. CASE b.pos \in InSetup(s)
    <3>1. b.user = c.user
      BY <1>1, <1>2, <1>5, <2>1 DEF SoundCast
    <3>. QED
      BY <1>4, <3>1
  <2>2. CASE b.pos \notin InSetup(s)
    BY <1>2, <1>5, <2>2 DEF SoundRows
  <2>. QED
    BY <2>1, <2>2
<1>. QED
  BY <1>2, <1>3, <1>4, <1>5 DEF SoundRows

-----------------------------------------------------------------------------
(* The log.                                                                *)

\* An entry tells the newest change: "book" is on top only if it was and no
\* position wrote anything, or the last position that wrote booked.
LEMMA LogAfterCases ==
  ASSUME NEW logged \in LogState, NEW old, NEW new, NEW quantity, NEW reference,
         NEW u
  PROVE  /\ LogAfter(logged, old, new, quantity, reference, u) \in LogState
         /\ LogAfter(logged, old, new, quantity, reference, u).last = "book" =>
              \/ /\ logged.last = "book"
                 /\ \A p \in Positions :
                      /\ ~Books(old[p], new[p], quantity[p], reference[p], u)
                      /\ ~Unbooks(old[p], new[p], quantity[p], reference[p], u)
              \/ \E p \in Positions :
                   /\ Books(old[p], new[p], quantity[p], reference[p], u)
                   /\ \A q \in Positions :
                        \/ Books(old[q], new[q], quantity[q], reference[q], u)
                        \/ Unbooks(old[q], new[q], quantity[q], reference[q], u)
                        => q <= p
<1>. DEFINE booked == {p \in Positions : Books(old[p], new[p], quantity[p], reference[p], u)}
            unbooked == {p \in Positions : Unbooks(old[p], new[p], quantity[p], reference[p], u)}
            touched == booked \cup unbooked
            result == LogAfter(logged, old, new, quantity, reference, u)
            entry == [last  |-> IF \E p \in booked : \A q \in touched : q <= p
                                THEN "book" ELSE "unbook",
                      types |-> {t \in LogTypes : \/ t = "book" /\ booked # {}
                                                  \/ t = "unbook" /\ unbooked # {}}]
<1>1. result = IF touched = {} THEN logged ELSE entry
  BY DEF LogAfter
<1>2. entry \in LogState
  BY DEF LogState, LogTypes
<1>3. entry.last = "book" => \E p \in booked : \A q \in touched : q <= p
  OBVIOUS
<1>. HIDE DEF entry, result
<1>4. result \in LogState
  BY <1>1, <1>2
<1>5. ASSUME result.last = "book", touched = {}
      PROVE  /\ logged.last = "book"
             /\ \A p \in Positions :
                  /\ ~Books(old[p], new[p], quantity[p], reference[p], u)
                  /\ ~Unbooks(old[p], new[p], quantity[p], reference[p], u)
  BY <1>1, <1>5
<1>6. ASSUME result.last = "book", touched # {}
      PROVE  \E p \in Positions :
                   /\ Books(old[p], new[p], quantity[p], reference[p], u)
                   /\ \A q \in Positions :
                        \/ Books(old[q], new[q], quantity[q], reference[q], u)
                        \/ Unbooks(old[q], new[q], quantity[q], reference[q], u)
                        => q <= p
  BY <1>1, <1>3, <1>6
<1>. QED
  BY <1>4, <1>5, <1>6 DEF result

-----------------------------------------------------------------------------
(* The inductive invariant.                                                *)

IInv ==
  /\ TypeOK
  /\ OneBookingPerUser
  /\ OrdersDistinct
  /\ BookedOnSetup
  /\ RejectedNotBooked
  /\ DeletedLeavesNothing
  /\ BookEntryHonest

LEMMA SoundBookings ==
  ASSUME IInv
  PROVE  SoundRows(bookings)
BY DEF IInv, TypeOK, OneBookingPerUser, OrdersDistinct, SoundRows

LEMMA CastsSound ==
  ASSUME NEW c \in Casts
  PROVE  SoundCast(c)
BY DEF Casts, IsCast, SoundCast

LEMMA EmptyCastSound == SoundCast(EmptyCast) /\ DOMAIN EmptyCast = {}
BY DEF SoundCast, EmptyCast

LEMMA QuantityIsNat ==
  ASSUME NEW s \in Setups, NEW p \in Positions
  PROVE  s[p] \in Nat
BY MaxQuantityAssumption DEF Setups

LEMMA InitIInv == Init => IInv
<1>. SUFFICES ASSUME Init PROVE IInv
  OBVIOUS
<1>1. setup \in Setups
  BY MaxQuantityAssumption DEF Init, Setups
<1>2. qualified \in [Users -> SUBSET Positions]
  BY QualificationAssumption DEF Init
<1>3. log \in [Users -> LogState]
  BY DEF Init, NoLog, LogState
<1>4. TypeOK
  BY <1>1, <1>2, <1>3 DEF Init, TypeOK
<1>5. \A u \in Users : log[u].last # "book"
  BY DEF Init, NoLog
<1>. QED
  BY <1>4, <1>5 DEF Init, IInv, OneBookingPerUser, OrdersDistinct, BookedOnSetup,
       RejectedNotBooked, DeletedLeavesNothing, BookEntryHonest

-----------------------------------------------------------------------------
(* update_performance *)

LEMMA UpdateLists ==
  ASSUME IInv, NEW newSetup \in Setups, NEW p \in Positions
  PROVE  LET old == VisitedCasts(setup, CurrentCasts(bookings))
             new == VisitedCasts(newSetup, old)
         IN  /\ SoundCast(old[p])
             /\ DOMAIN old[p] = IF setup[p] > 0 THEN {b.user : b \in RowsAt(bookings, p)} ELSE {}
             /\ \A b \in RowsAt(bookings, p) : setup[p] > 0 => old[p][b.user] <= b.order
             /\ new[p] = IF newSetup[p] > 0 THEN old[p] ELSE EmptyCast
             /\ SoundCast(new[p])
             /\ DOMAIN new[p] \subseteq {b.user : b \in RowsAt(bookings, p)}
<1>. DEFINE old == VisitedCasts(setup, CurrentCasts(bookings))
            new == VisitedCasts(newSetup, old)
<1>1. /\ SoundCast(CurrentCasts(bookings)[p])
      /\ DOMAIN CurrentCasts(bookings)[p] = {b.user : b \in RowsAt(bookings, p)}
      /\ \A b \in RowsAt(bookings, p) : CurrentCasts(bookings)[p][b.user] <= b.order
  BY SoundBookings, CurrentCastsSound
<1>2. old[p] = IF setup[p] > 0 THEN CurrentCasts(bookings)[p] ELSE EmptyCast
  BY DEF VisitedCasts, InSetup
<1>3. new[p] = IF newSetup[p] > 0 THEN old[p] ELSE EmptyCast
  BY DEF VisitedCasts, InSetup
<1>. HIDE DEF old, new
<1>4. SoundCast(old[p]) /\ SoundCast(new[p])
  BY <1>1, <1>2, <1>3, EmptyCastSound
<1>5. DOMAIN old[p] = IF setup[p] > 0 THEN {b.user : b \in RowsAt(bookings, p)} ELSE {}
  BY <1>1, <1>2, EmptyCastSound
<1>6. DOMAIN new[p] \subseteq {b.user : b \in RowsAt(bookings, p)}
  BY <1>3, <1>5, EmptyCastSound
<1>. QED
  BY <1>1, <1>2, <1>3, <1>4, <1>5, <1>6 DEF old, new

LEMMA UpdateStep ==
  ASSUME IInv, NEW newSetup \in Setups, UpdatePerformance(newSetup)
  PROVE  IInv'
<1>. DEFINE old == VisitedCasts(setup, CurrentCasts(bookings))
            new == VisitedCasts(newSetup, old)
            at  == InSetup(setup)
<1>1. /\ phase = "upcoming" /\ phase' = phase
      /\ setup' = newSetup
      /\ bookings' = Rewritten(bookings, at, new)
      /\ log' = [u \in Users |-> LogAfter(log[u], old, new, newSetup, setup, u)]
      /\ qualified' = qualified /\ requests' = requests
  BY DEF UpdatePerformance
<1>2. at \in SUBSET Positions
  BY DEF InSetup
<1>3. \A p \in Positions :
        /\ SoundCast(old[p])
        /\ DOMAIN old[p] = IF setup[p] > 0 THEN {b.user : b \in RowsAt(bookings, p)} ELSE {}
        /\ \A b \in RowsAt(bookings, p) : setup[p] > 0 => old[p][b.user] <= b.order
        /\ new[p] = IF newSetup[p] > 0 THEN old[p] ELSE EmptyCast
        /\ SoundCast(new[p])
        /\ DOMAIN new[p] \subseteq {b.user : b \in RowsAt(bookings, p)}
  BY UpdateLists
<1>. HIDE DEF old, new, at
<1>. DEFINE Kept(p) == DOMAIN new[p] \subseteq {b.user : b \in RowsAt(bookings, p)}
<1>3a. \A p \in at : SoundCast(new[p]) /\ Kept(p)
  BY <1>2, <1>3
<1>4. /\ SoundRows(bookings')
      /\ \A b \in bookings' :
           \/ b \in bookings /\ b.pos \notin at
           \/ /\ b.pos \in at
              /\ b \in RowsFor(b.pos, new[b.pos])
              /\ \E c \in bookings : c.user = b.user /\ c.pos = b.pos
  BY <1>1, <1>2, <1>3a, SoundBookings, RewrittenSound
<1>5. \A b \in bookings : b \in Row /\ b.pos \in at
  BY DEF at, IInv, TypeOK, BookedOnSetup, InSetup, Row
<1>6. BookedOnSetup'
  <2>. SUFFICES ASSUME NEW b \in bookings' PROVE newSetup[b.pos] > 0
    BY <1>1 DEF BookedOnSetup
  <2>1. b.pos \in at /\ b \in RowsFor(b.pos, new[b.pos])
    BY <1>4, <1>5
  <2>2. b.pos \in Positions /\ SoundCast(new[b.pos])
    BY <1>2, <1>3a, <2>1
  <2>3. b.user \in DOMAIN new[b.pos]
    BY <2>1, <2>2, RowsForSound
  <2>4. new[b.pos] # EmptyCast
    BY <2>3, EmptyCastSound
  <2>. QED
    BY <1>3, <2>2, <2>4
<1>7. RejectedNotBooked'
  BY <1>1, <1>4 DEF IInv, RejectedNotBooked, Booked
<1>8. DeletedLeavesNothing'
  BY <1>1 DEF DeletedLeavesNothing
<1>9. TypeOK'
  <2>1. log' \in [Users -> LogState]
    BY <1>1, LogAfterCases DEF IInv, TypeOK
  <2>. QED
    BY <1>1, <1>4, <2>1 DEF IInv, TypeOK, SoundRows
<1>10. BookEntryHonest'
  <2>. SUFFICES ASSUME NEW u \in Users, log'[u].last = "book"
                PROVE  \E b \in bookings' : b.user = u /\ b.order < newSetup[b.pos]
    BY <1>1 DEF BookEntryHonest, Regular
  <2>1. \A p \in at : \A v \in DOMAIN new[p] :
           [user |-> v, pos |-> p, order |-> new[p][v]] \in bookings'
    BY <1>1 DEF Rewritten, RowsFor
  <2>2. SUFFICES \E p \in at : u \in DOMAIN new[p] /\ new[p][u] < newSetup[p]
    BY <2>1
  <2>3. log[u] \in LogState /\ log'[u] = LogAfter(log[u], old, new, newSetup, setup, u)
    BY <1>1 DEF IInv, TypeOK
  <2>4. CASE \E p \in Positions : Books(old[p], new[p], newSetup[p], setup[p], u)
    <3>1. PICK p \in Positions : u \in DOMAIN new[p] /\ new[p][u] < newSetup[p]
      BY <2>4 DEF Books
    <3>2. \E b \in bookings : b.pos = p
      BY <1>3, <3>1 DEF RowsAt
    <3>. QED
      BY <1>5, <3>1, <3>2
  <2>5. CASE /\ log[u].last = "book"
             /\ \A p \in Positions : ~Unbooks(old[p], new[p], newSetup[p], setup[p], u)
    <3>1. PICK b \in bookings : b.user = u /\ b.order < setup[b.pos]
      BY <2>5 DEF IInv, BookEntryHonest, Regular
    <3>2. b.pos \in at /\ b.pos \in Positions /\ setup[b.pos] > 0 /\ b \in RowsAt(bookings, b.pos)
      BY <1>2, <1>5 DEF at, InSetup, RowsAt
    <3>3. u \in DOMAIN old[b.pos] /\ old[b.pos][u] <= b.order /\ old[b.pos][u] \in Nat
      BY <1>3, <3>1, <3>2 DEF SoundCast
    <3>4. b.order \in Nat /\ setup[b.pos] \in Nat /\ newSetup[b.pos] \in Nat
      BY <1>5, <3>2, QuantityIsNat DEF IInv, TypeOK, Row
    <3>5. old[b.pos][u] < setup[b.pos]
      BY <3>1, <3>3, <3>4
    <3>6. u \in DOMAIN new[b.pos] /\ ~(new[b.pos][u] >= newSetup[b.pos])
      BY <2>5, <3>2, <3>3, <3>5 DEF Unbooks
    <3>7. new[b.pos][u] \in Nat
      BY <1>3, <3>2, <3>6 DEF SoundCast
    <3>. QED
      BY <3>2, <3>4, <3>6, <3>7
  <2>. QED
    BY <2>3, <2>4, <2>5, LogAfterCases
<1>. QED
  BY <1>4, <1>6, <1>7, <1>8, <1>9, <1>10
     DEF IInv, SoundRows, OneBookingPerUser, OrdersDistinct

-----------------------------------------------------------------------------
(* change_user_request_status, the withdrawing half *)

LEMMA CancelLists ==
  ASSUME IInv, NEW u, NEW p \in Positions
  PROVE  LET old == CurrentCasts(bookings)
             new == WithoutUser(bookings, u)
         IN  /\ SoundCast(old[p])
             /\ DOMAIN old[p] = {b.user : b \in RowsAt(bookings, p)}
             /\ \A b \in RowsAt(bookings, p) : old[p][b.user] <= b.order
             /\ SoundCast(new[p])
             /\ DOMAIN new[p] \subseteq {b.user : b \in RowsAt(bookings, p)}
             /\ u \notin DOMAIN new[p]
             /\ p \notin PositionsOf(bookings, u) => new[p] = old[p]
<1>. DEFINE rest == {b \in RowsAt(bookings, p) : b.user # u}
<1>1. rest \in SUBSET bookings /\ \A b \in rest : b.pos = p
  BY DEF RowsAt
<1>2. /\ SoundCast(CastOf(rest))
      /\ DOMAIN CastOf(rest) = {b.user : b \in rest}
  BY <1>1, SoundBookings, SoundSubset, CastOfRows
<1>3. WithoutUser(bookings, u)[p] = CastOf(rest)
  BY DEF WithoutUser
<1>4. ASSUME p \notin PositionsOf(bookings, u)
      PROVE  WithoutUser(bookings, u)[p] = CurrentCasts(bookings)[p]
  <2>1. rest = RowsAt(bookings, p)
    BY <1>4 DEF PositionsOf, RowsAt
  <2>. QED
    BY <1>3, <2>1 DEF CurrentCasts
<1>. QED
  BY <1>2, <1>3, <1>4, SoundBookings, CurrentCastsSound

LEMMA CancelStep ==
  ASSUME IInv, NEW w \in Users, CancelBookingOrRequest(w)
  PROVE  IInv'
<1>. DEFINE old == CurrentCasts(bookings)
            new == WithoutUser(bookings, w)
            at  == PositionsOf(bookings, w)
<1>1. /\ Status(w) # "NOT_BOOKABLE"
      /\ phase' = phase /\ setup' = setup /\ qualified' = qualified
      /\ requests' = [requests EXCEPT ![w] = "none"]
      /\ bookings' = Rewritten(bookings, at, new)
      /\ log' = [u \in Users |-> LogAfter(log[u], old, new, setup, setup, u)]
  BY DEF CancelBookingOrRequest
<1>2. at \in SUBSET Positions
  BY DEF PositionsOf
<1>3. \A p \in Positions :
        /\ SoundCast(old[p])
        /\ DOMAIN old[p] = {b.user : b \in RowsAt(bookings, p)}
        /\ \A b \in RowsAt(bookings, p) : old[p][b.user] <= b.order
        /\ SoundCast(new[p])
        /\ DOMAIN new[p] \subseteq {b.user : b \in RowsAt(bookings, p)}
        /\ w \notin DOMAIN new[p]
        /\ p \notin at => new[p] = old[p]
  BY CancelLists
<1>. HIDE DEF old, new, at
<1>4. /\ SoundRows(bookings')
      /\ \A b \in bookings' :
           \/ b \in bookings /\ b.pos \notin at
           \/ /\ b.pos \in at
              /\ b \in RowsFor(b.pos, new[b.pos])
              /\ \E c \in bookings : c.user = b.user /\ c.pos = b.pos
  BY <1>1, <1>2, <1>3, SoundBookings, RewrittenSound
<1>5. \A b \in bookings : b \in Row
  BY DEF IInv, TypeOK
<1>6. BookedOnSetup'
  BY <1>1, <1>4 DEF IInv, BookedOnSetup
<1>7. RejectedNotBooked'
  <2>. SUFFICES ASSUME NEW u \in Users, requests'[u] = "rejected", NEW b \in bookings', b.user = u
                PROVE  FALSE
    BY DEF RejectedNotBooked, Booked
  <2>1. requests[u] = "rejected"
    BY <1>1 DEF IInv, TypeOK
  <2>. QED
    BY <1>4, <2>1 DEF IInv, RejectedNotBooked, Booked
<1>8. DeletedLeavesNothing'
  <2>1. phase # "absent"
    BY <1>1 DEF Status
  <2>. QED
    BY <1>1, <2>1 DEF DeletedLeavesNothing
<1>9. TypeOK'
  <2>1. log' \in [Users -> LogState]
    BY <1>1, LogAfterCases DEF IInv, TypeOK
  <2>. QED
    BY <1>1, <1>4, <2>1 DEF IInv, TypeOK, SoundRows
<1>10. BookEntryHonest'
  <2>. SUFFICES ASSUME NEW u \in Users, log'[u].last = "book"
                PROVE  \E b \in bookings' : b.user = u /\ b.order < setup[b.pos]
    BY <1>1 DEF BookEntryHonest, Regular
  <2>1. \A p \in at : \A v \in DOMAIN new[p] :
           [user |-> v, pos |-> p, order |-> new[p][v]] \in bookings'
    BY <1>1 DEF Rewritten, RowsFor
  <2>2. ASSUME NEW p \in at, u \in DOMAIN new[p], new[p][u] < setup[p]
        PROVE  \E b \in bookings' : b.user = u /\ b.order < setup[b.pos]
    BY <2>1, <2>2
  <2>3. log[u] \in LogState /\ log'[u] = LogAfter(log[u], old, new, setup, setup, u)
    BY <1>1 DEF IInv, TypeOK
  <2>4. CASE \E p \in Positions : Books(old[p], new[p], setup[p], setup[p], u)
    <3>1. PICK p \in Positions : Books(old[p], new[p], setup[p], setup[p], u)
      BY <2>4
    <3>2. u \in DOMAIN new[p] /\ new[p][u] < setup[p]
      BY <3>1 DEF Books
    <3>3. new[p][u] \in Nat /\ setup[p] \in Nat
      BY <1>3, <3>2, QuantityIsNat DEF SoundCast, IInv, TypeOK
    <3>4. new[p] # old[p]
      BY <3>1, <3>2, <3>3 DEF Books
    <3>. QED
      BY <1>3, <2>2, <3>2, <3>4
  <2>5. CASE /\ log[u].last = "book"
             /\ \A p \in Positions : ~Unbooks(old[p], new[p], setup[p], setup[p], u)
    <3>1. PICK b \in bookings : b.user = u /\ b.order < setup[b.pos]
      BY <2>5 DEF IInv, BookEntryHonest, Regular
    <3>2. b.pos \in Positions /\ b \in RowsAt(bookings, b.pos) /\ b.order \in Nat
      BY <1>5 DEF RowsAt, Row
    <3>3. CASE b.pos \notin at
      BY <1>1, <3>1, <3>3 DEF Rewritten
    <3>4. CASE b.pos \in at
      <4>1. u \in DOMAIN old[b.pos] /\ old[b.pos][u] <= b.order /\ old[b.pos][u] \in Nat
        BY <1>3, <3>1, <3>2 DEF SoundCast
      <4>2. setup[b.pos] \in Nat
        BY <3>2, QuantityIsNat DEF IInv, TypeOK
      <4>3. old[b.pos][u] < setup[b.pos]
        BY <3>1, <3>2, <4>1, <4>2
      <4>4. u \in DOMAIN new[b.pos] /\ ~(new[b.pos][u] >= setup[b.pos])
        BY <2>5, <3>2, <4>1, <4>3 DEF Unbooks
      <4>5. new[b.pos][u] \in Nat
        BY <1>3, <3>2, <4>4 DEF SoundCast
      <4>. QED
        BY <2>2, <3>4, <4>2, <4>4, <4>5
    <3>. QED
      BY <3>3, <3>4
  <2>. QED
    BY <2>3, <2>4, <2>5, LogAfterCases
<1>. QED
  BY <1>4, <1>6, <1>7, <1>8, <1>9, <1>10
     DEF IInv, SoundRows, OneBookingPerUser, OrdersDistinct

-----------------------------------------------------------------------------
(* save_cast *)

\* The lists one position's step of the loop reads and writes.
LEMMA SeenLists ==
  ASSUME IInv, NEW casts \in Payloads, NEW p \in Positions
  PROVE  LET old == SeenCasts(bookings, setup, casts)
             new == VisitedCasts(setup, casts)
         IN  /\ new[p] = IF p \in InSetup(setup) THEN casts[p] ELSE EmptyCast
             /\ SoundCast(new[p])
             /\ SoundCast(old[p])
             /\ \A u \in DOMAIN old[p] :
                  /\ \E b \in bookings : b.user = u /\ b.pos = p
                  /\ \A q \in InSetup(setup) : q < p => u \notin DOMAIN casts[q]
             /\ \A b \in SeenAt(bookings, setup, casts, p) :
                  p \in InSetup(setup) =>
                    b.user \in DOMAIN old[p] /\ old[p][b.user] <= b.order
<1>. DEFINE old  == SeenCasts(bookings, setup, casts)
            new  == VisitedCasts(setup, casts)
            seen == SeenAt(bookings, setup, casts, p)
<1>1. new[p] = IF p \in InSetup(setup) THEN casts[p] ELSE EmptyCast
  BY DEF VisitedCasts
<1>2. SoundCast(new[p])
  BY <1>1, CastsSound, EmptyCastSound DEF Payloads
<1>3. seen \in SUBSET bookings /\ \A b \in seen : b.pos = p
  BY DEF SeenAt, RowsAt
<1>4. /\ SoundCast(CastOf(seen))
      /\ DOMAIN CastOf(seen) = {b.user : b \in seen}
      /\ \A b \in seen : CastOf(seen)[b.user] <= b.order
  BY <1>3, SoundBookings, SoundSubset, CastOfRows
<1>5. old[p] = IF p \in InSetup(setup) THEN CastOf(seen) ELSE EmptyCast
  BY DEF SeenCasts, VisitedCasts
<1>6. \A b \in seen : /\ b \in bookings /\ b.pos = p
                      /\ \A q \in InSetup(setup) : q < p => b.user \notin DOMAIN casts[q]
  BY DEF SeenAt, RowsAt
<1>. HIDE DEF old, new, seen
<1>7. SoundCast(old[p])
  BY <1>4, <1>5, EmptyCastSound
<1>8. \A u \in DOMAIN old[p] : \E b \in seen : b.user = u
  BY <1>4, <1>5, EmptyCastSound
<1>9. \A b \in seen : p \in InSetup(setup) =>
                        b.user \in DOMAIN old[p] /\ old[p][b.user] <= b.order
  BY <1>4, <1>5
<1>10. \A u \in DOMAIN old[p] :
         /\ \E b \in bookings : b.user = u /\ b.pos = p
         /\ \A q \in InSetup(setup) : q < p => u \notin DOMAIN casts[q]
  BY <1>6, <1>8
<1>. QED
  BY <1>1, <1>2, <1>7, <1>9, <1>10 DEF old, new, seen

LEMMA SaveStep ==
  ASSUME IInv, NEW casts \in Payloads, NEW rejected, SaveCast(casts, rejected)
  PROVE  IInv'
<1>. DEFINE old == SeenCasts(bookings, setup, casts)
            new == VisitedCasts(setup, casts)
            at  == InSetup(setup)
            Touched(p, u) == \/ Books(old[p], new[p], setup[p], setup[p], u)
                             \/ Unbooks(old[p], new[p], setup[p], setup[p], u)
<1>1. /\ phase = "upcoming" /\ phase' = phase
      /\ setup' = setup /\ qualified' = qualified
      /\ bookings' = RowsAfterSave(bookings, setup, casts)
      /\ requests' = RequestsAfter(rejected, bookings')
      /\ log' = [u \in Users |-> LogAfter(log[u], old, new, setup, setup, u)]
  BY DEF SaveCast
<1>2. \A p \in at : p \in Positions /\ p \in Int
  BY DEF InSetup, Positions
<1>3. \A p \in Positions :
        /\ new[p] = IF p \in at THEN casts[p] ELSE EmptyCast
        /\ SoundCast(new[p])
        /\ SoundCast(old[p])
        /\ \A u \in DOMAIN old[p] :
             /\ \E b \in bookings : b.user = u /\ b.pos = p
             /\ \A q \in at : q < p => u \notin DOMAIN casts[q]
        /\ \A b \in SeenAt(bookings, setup, casts, p) :
             p \in at => b.user \in DOMAIN old[p] /\ old[p][b.user] <= b.order
  BY SeenLists
<1>. HIDE DEF old, new
<1>4. /\ SoundRows(bookings')
      /\ \A b \in bookings' : b.pos \in at \/ b \in bookings
  <2>1. \A p \in Positions : SoundCast(casts[p])
    BY CastsSound DEF Payloads
  <2>. QED
    BY <1>1, <2>1, SoundBookings, SavedSound
<1>5. \A b \in bookings : b \in Row /\ b.pos \in at
  BY DEF IInv, TypeOK, BookedOnSetup, InSetup, Row
<1>6. BookedOnSetup'
  BY <1>1, <1>4 DEF IInv, BookedOnSetup, InSetup
<1>7. RejectedNotBooked'
  BY <1>1 DEF RejectedNotBooked, Booked, RequestsAfter
<1>8. DeletedLeavesNothing'
  BY <1>1 DEF DeletedLeavesNothing
<1>9. TypeOK'
  <2>1. log' \in [Users -> LogState]
    BY <1>1, LogAfterCases DEF IInv, TypeOK
  <2>2. requests' \in [Users -> {"none", "open", "rejected"}]
    BY <1>1 DEF RequestsAfter
  <2>. QED
    BY <1>1, <1>4, <2>1, <2>2 DEF IInv, TypeOK, SoundRows
<1>10. ASSUME NEW p \in at, NEW u \in DOMAIN new[p],
              \A q \in at : q > p => u \notin DOMAIN casts[q]
       PROVE  [user |-> u, pos |-> p, order |-> new[p][u]] \in bookings'
  <2>1. new[p] = casts[p]
    BY <1>2, <1>3
  <2>2. [user |-> u, pos |-> p, order |-> new[p][u]] \in PlacedAt(setup, casts, p)
    BY <1>10, <2>1 DEF PlacedAt, RowsFor
  <2>. QED
    BY <1>1, <2>2 DEF RowsAfterSave
<1>11. ASSUME NEW q \in at, NEW u \in DOMAIN casts[q], u \notin DOMAIN old[q]
       PROVE  Touched(q, u)
  <2>1. q \in Positions /\ u \in DOMAIN new[q] /\ new[q][u] \in Nat
    BY <1>2, <1>3 DEF SoundCast
  <2>2. setup[q] \in Nat
    BY <2>1, QuantityIsNat DEF IInv, TypeOK
  <2>3. new[q][u] < setup[q] \/ new[q][u] >= setup[q]
    BY <2>1, <2>2
  <2>. QED
    BY <1>11, <2>1, <2>3 DEF Books, Unbooks
<1>12. BookEntryHonest'
  <2>. SUFFICES ASSUME NEW u \in Users, log'[u].last = "book"
                PROVE  \E b \in bookings' : b.user = u /\ b.order < setup[b.pos]
    BY <1>1 DEF BookEntryHonest, Regular
  <2>1. ASSUME NEW p \in at, u \in DOMAIN new[p], new[p][u] < setup[p],
               \A q \in at : q > p => u \notin DOMAIN casts[q]
        PROVE  \E b \in bookings' : b.user = u /\ b.order < setup[b.pos]
    BY <1>10, <2>1
  <2>2. log[u] \in LogState /\ log'[u] = LogAfter(log[u], old, new, setup, setup, u)
    BY <1>1 DEF IInv, TypeOK
  <2>3. CASE \E p \in Positions :
               /\ Books(old[p], new[p], setup[p], setup[p], u)
               /\ \A q \in Positions : Touched(q, u) => q <= p
    <3>1. PICK p \in Positions : /\ Books(old[p], new[p], setup[p], setup[p], u)
                                 /\ \A q \in Positions : Touched(q, u) => q <= p
      BY <2>3
    <3>2. u \in DOMAIN new[p] /\ new[p][u] < setup[p]
      BY <3>1 DEF Books
    <3>3. p \in at /\ u \in DOMAIN casts[p]
      BY <1>3, <3>2, EmptyCastSound
    <3>4. ASSUME NEW q \in at, q > p, u \in DOMAIN casts[q]
          PROVE  FALSE
      <4>1. q \in Positions /\ p < q /\ ~(q <= p)
        BY <1>2, <3>3, <3>4
      <4>2. u \notin DOMAIN old[q]
        BY <1>3, <3>3, <4>1
      <4>. QED
        BY <1>11, <3>1, <3>4, <4>1, <4>2
    <3>. QED
      BY <2>1, <3>2, <3>3, <3>4
  <2>4. CASE /\ log[u].last = "book"
             /\ \A p \in Positions : ~Touched(p, u)
    <3>1. PICK b \in bookings : b.user = u /\ b.order < setup[b.pos]
      BY <2>4 DEF IInv, BookEntryHonest, Regular
    <3>2. b.pos \in at /\ b.pos \in Positions /\ b.order \in Nat /\ setup[b.pos] \in Nat
      BY <1>2, <1>5, QuantityIsNat DEF IInv, TypeOK, Row
    <3>3. ASSUME NEW q \in at, q # b.pos, u \in DOMAIN casts[q]
          PROVE  FALSE
      <4>1. u \notin DOMAIN old[q]
        BY <1>2, <1>3, <3>1, <3>3 DEF IInv, OneBookingPerUser
      <4>. QED
        BY <1>2, <1>11, <2>4, <3>3, <4>1
    <3>4. b \in SeenAt(bookings, setup, casts, b.pos)
      BY <1>2, <3>1, <3>2, <3>3 DEF SeenAt, RowsAt
    <3>5. u \in DOMAIN old[b.pos] /\ old[b.pos][u] <= b.order
      BY <1>3, <3>1, <3>2, <3>4
    <3>6. old[b.pos][u] \in Nat
      BY <1>3, <3>2, <3>5 DEF SoundCast
    <3>7. old[b.pos][u] < setup[b.pos]
      BY <3>1, <3>2, <3>5, <3>6
    <3>8. u \in DOMAIN new[b.pos] /\ ~(new[b.pos][u] >= setup[b.pos])
      BY <2>4, <3>2, <3>5, <3>7 DEF Unbooks
    <3>9. new[b.pos][u] \in Nat
      BY <1>3, <3>2, <3>8 DEF SoundCast
    <3>10. new[b.pos][u] < setup[b.pos]
      BY <3>2, <3>8, <3>9
    <3>11. \A q \in at : q > b.pos => u \notin DOMAIN casts[q]
      BY <1>2, <3>2, <3>3
    <3>. QED
      BY <2>1, <3>2, <3>8, <3>10, <3>11
  <2>. QED
    BY <2>2, <2>3, <2>4, LogAfterCases
<1>. QED
  BY <1>4, <1>6, <1>7, <1>8, <1>9, <1>12
     DEF IInv, SoundRows, OneBookingPerUser, OrdersDistinct

-----------------------------------------------------------------------------
(* The steps that leave the rows alone.                                    *)

LEMMA RowsUntouched ==
  ASSUME IInv, TypeOK', UNCHANGED <<setup, bookings, log>>
  PROVE  /\ OneBookingPerUser' /\ OrdersDistinct'
         /\ BookedOnSetup' /\ BookEntryHonest'
BY DEF IInv, OneBookingPerUser, OrdersDistinct, BookedOnSetup, BookEntryHonest, Regular

LEMMA CreateStep ==
  ASSUME IInv, NEW newSetup \in Setups, CreatePerformance(newSetup)
  PROVE  IInv'
<1>1. bookings = {} /\ bookings' = {} /\ log' = log
  BY DEF CreatePerformance, IInv, DeletedLeavesNothing
<1>2. \A u \in Users : log[u].last # "book"
  BY <1>1 DEF IInv, BookEntryHonest, Regular
<1>3. TypeOK' /\ DeletedLeavesNothing'
  BY DEF CreatePerformance, IInv, TypeOK, DeletedLeavesNothing
<1>. QED
  BY <1>1, <1>2, <1>3
     DEF IInv, OneBookingPerUser, OrdersDistinct, BookedOnSetup, RejectedNotBooked,
         Booked, BookEntryHonest

LEMMA DeleteStep ==
  ASSUME IInv, DeletePerformance
  PROVE  IInv'
<1>1. bookings' = {} /\ \A u \in Users : requests'[u] = "none"
  BY DEF DeletePerformance
<1>2. log' = [u \in Users |-> NoLog]
  BY DEF DeletePerformance
<1>3. TypeOK'
  <2>1. setup' \in Setups
    BY MaxQuantityAssumption DEF DeletePerformance, Setups
  <2>2. log' \in [Users -> LogState]
    BY <1>2 DEF NoLog, LogState
  <2>. QED
    BY <2>1, <2>2 DEF DeletePerformance, IInv, TypeOK
<1>4. \A u \in Users : log'[u].last # "book"
  BY <1>2 DEF NoLog
<1>. QED
  BY <1>1, <1>3, <1>4
     DEF IInv, OneBookingPerUser, OrdersDistinct, BookedOnSetup, RejectedNotBooked,
         Booked, DeletedLeavesNothing, BookEntryHonest

LEMMA TimeStep ==
  ASSUME IInv, TimePasses
  PROVE  IInv'
<1>1. TypeOK' /\ UNCHANGED <<setup, requests, bookings, log>>
  BY DEF TimePasses, IInv, TypeOK
<1>2. RejectedNotBooked' /\ DeletedLeavesNothing'
  BY <1>1 DEF TimePasses, IInv, RejectedNotBooked, Booked, DeletedLeavesNothing
<1>. QED
  BY <1>1, <1>2, RowsUntouched DEF IInv

LEMMA RequestStep ==
  ASSUME IInv, NEW w \in Users, RequestBooking(w)
  PROVE  IInv'
<1>1. /\ phase = "upcoming"
      /\ requests' = [requests EXCEPT ![w] = "open"]
      /\ UNCHANGED <<phase, setup, bookings, log>>
  BY DEF RequestBooking, Status
<1>2. TypeOK'
  BY DEF RequestBooking, IInv, TypeOK
<1>3. RejectedNotBooked'
  <2>1. \A u \in Users : requests'[u] = "rejected" => requests[u] = "rejected"
    BY <1>1 DEF IInv, TypeOK
  <2>. QED
    BY <1>1, <2>1 DEF IInv, RejectedNotBooked, Booked
<1>4. DeletedLeavesNothing'
  BY <1>1 DEF DeletedLeavesNothing
<1>. QED
  BY <1>1, <1>2, <1>3, <1>4, RowsUntouched DEF IInv

LEMMA SyncStep ==
  ASSUME IInv, NEW w \in Users, NEW desired \in QualificationSets,
         SyncUserPositions(w, desired)
  PROVE  IInv'
<1>1. UNCHANGED <<phase, setup, requests, bookings, log>>
  BY DEF SyncUserPositions
<1>2. TypeOK'
  BY QualificationAssumption DEF SyncUserPositions, IInv, TypeOK
<1>3. RejectedNotBooked' /\ DeletedLeavesNothing'
  BY <1>1 DEF IInv, RejectedNotBooked, Booked, DeletedLeavesNothing
<1>. QED
  BY <1>1, <1>2, <1>3, RowsUntouched DEF IInv

LEMMA PurgeStep ==
  ASSUME IInv, PurgeStaleBookingRequests
  PROVE  IInv'
<1>1. /\ phase = "past" /\ phase' = phase
      /\ requests' = [u \in Users |-> "none"]
      /\ UNCHANGED <<setup, bookings, log>>
  BY DEF PurgeStaleBookingRequests
<1>2. TypeOK'
  BY DEF PurgeStaleBookingRequests, IInv, TypeOK
<1>3. RejectedNotBooked' /\ DeletedLeavesNothing'
  BY <1>1 DEF RejectedNotBooked, DeletedLeavesNothing
<1>. QED
  BY <1>1, <1>2, <1>3, RowsUntouched DEF IInv

-----------------------------------------------------------------------------
LEMMA NextIInv == IInv /\ [Next]_vars => IInv'
<1>. SUFFICES ASSUME IInv, [Next]_vars PROVE IInv'
  OBVIOUS
<1>1. CASE UNCHANGED vars
  BY <1>1
     DEF vars, IInv, TypeOK, OneBookingPerUser, OrdersDistinct, BookedOnSetup,
         RejectedNotBooked, Booked, DeletedLeavesNothing, BookEntryHonest, Regular
<1>2. ASSUME NEW s \in Setups, CreatePerformance(s) PROVE IInv'
  BY <1>2, CreateStep
<1>3. ASSUME NEW s \in Setups, UpdatePerformance(s) PROVE IInv'
  BY <1>3, UpdateStep
<1>4. CASE DeletePerformance
  BY <1>4, DeleteStep
<1>5. CASE TimePasses
  BY <1>5, TimeStep
<1>6. ASSUME NEW casts \in Payloads, NEW rejected, SaveCast(casts, rejected) PROVE IInv'
  BY <1>6, SaveStep
<1>7. ASSUME NEW u \in Users, RequestBooking(u) PROVE IInv'
  BY <1>7, RequestStep
<1>8. ASSUME NEW u \in Users, CancelBookingOrRequest(u) PROVE IInv'
  BY <1>8, CancelStep
<1>9. ASSUME NEW u \in Users, NEW desired \in QualificationSets,
             SyncUserPositions(u, desired)
      PROVE  IInv'
  BY <1>9, SyncStep
<1>10. CASE PurgeStaleBookingRequests
  BY <1>10, PurgeStep
<1>. QED
  BY <1>1, <1>2, <1>3, <1>4, <1>5, <1>6, <1>7, <1>8, <1>9, <1>10
     DEF Next, NextWith

\* The invariant the other theorems read off.
THEOREM Inductive == Spec => []IInv
BY InitIInv, NextIInv, PTL DEF Spec

\* The tables keep their types.
THEOREM TypeCorrect == Spec => []TypeOK
BY Inductive, PTL DEF IInv

\* Whatever save_cast requests repeat, whatever setups change: one booking
\* per user, at a place of its own, on a position the performance has.
THEOREM BookingsSound == Spec => []BookingsConsistent
BY Inductive, PTL DEF IInv, BookingsConsistent

\* Nobody is booked and marked "not booked"; a performance that is gone left
\* no booking and no request.
THEOREM RequestsSound == Spec => []RequestsConsistent
BY Inductive, PTL DEF IInv, RequestsConsistent

\* A newest entry "book" always describes a user with a regular place, for
\* every payload the request schema accepts.
THEOREM HonestBookEntries == Spec => []BookEntryHonest
BY Inductive, PTL DEF IInv

-----------------------------------------------------------------------------
(* Cast forms that show every user at one place only: the lists have no    *)
(* gaps, everybody reads them alike, who moves up is told, and the         *)
(* handlers implement StatusBoard.                                         *)

GaplessCast(c) ==
  \A u \in DOMAIN c : \A k \in 0..c[u] : \E v \in DOMAIN c : c[v] = k

-----------------------------------------------------------------------------
(* Reading and rewriting lists without gaps.                               *)

LEMMA IndexOfRow ==
  ASSUME NEW rows, SoundRows(rows), NEW b \in rows
  PROVE  /\ CastOf(rows)[b.user] = Cardinality(Before(rows, b))
         /\ IsFiniteSet(Before(rows, b))
         /\ Cardinality(Before(rows, b)) \in Nat
<1>1. CastOf(rows)[b.user] = Cardinality(Before(rows, b))
  BY IndexIsBefore DEF CastOf
<1>2. IsFiniteSet(Before(rows, b))
  BY RowsFinite, FS_Subset DEF Before
<1>. QED
  BY <1>1, <1>2, FS_CardinalityType

\* A list of n rows is read with the indices below n, each once.
LEMMA IndicesOnto ==
  ASSUME NEW rows, SoundRows(rows), NEW p, \A b \in rows : b.pos = p
  PROVE  /\ Cardinality(rows) \in Nat
         /\ [b \in rows |-> CastOf(rows)[b.user]]
              \in Surjection(rows, 0..(Cardinality(rows) - 1))
<1>. DEFINE n == Cardinality(rows)
            f == [b \in rows |-> CastOf(rows)[b.user]]
<1>1. IsFiniteSet(rows) /\ n \in Nat
  BY RowsFinite, FS_CardinalityType
<1>2. ASSUME NEW b \in rows PROVE CastOf(rows)[b.user] \in 0..(n - 1)
  <2>1. b \notin Before(rows, b) /\ Before(rows, b) \in SUBSET rows
    BY DEF Before, SoundRows, Row
  <2>2. Cardinality(Before(rows, b)) <= n /\ Cardinality(Before(rows, b)) # n
    BY <1>1, <2>1, FS_Subset
  <2>. QED
    BY <1>1, <2>2, IndexOfRow
<1>3. SoundCast(CastOf(rows)) /\ DOMAIN CastOf(rows) = {b.user : b \in rows}
  BY CastOfRows
<1>4. f \in Injection(rows, 0..(n - 1))
  <2>1. f \in [rows -> 0..(n - 1)]
    BY <1>2
  <2>2. ASSUME NEW b \in rows, NEW c \in rows, f[b] = f[c] PROVE b = c
    BY <1>3, <2>2 DEF SoundCast, SoundRows
  <2>. QED
    BY <2>1, <2>2 DEF Injection, IsInjective
<1>5. IsFiniteSet(0..(n - 1)) /\ Cardinality(0..(n - 1)) = n
  BY <1>1, CountBelow
<1>6. f \in Surjection(rows, 0..(n - 1))
  BY <1>4, <1>5, FS_Injection
<1>. QED
  BY <1>1, <1>6

\* The indices have no gaps, whatever the orders are.
LEMMA CastOfGapless ==
  ASSUME NEW rows, SoundRows(rows), NEW p, \A b \in rows : b.pos = p
  PROVE  GaplessCast(CastOf(rows))
<1>. DEFINE n == Cardinality(rows)
            f == [b \in rows |-> CastOf(rows)[b.user]]
<1>1. n \in Nat /\ f \in Surjection(rows, 0..(n - 1))
  BY IndicesOnto
<1>3. SoundCast(CastOf(rows)) /\ DOMAIN CastOf(rows) = {b.user : b \in rows}
  BY CastOfRows
<1>. SUFFICES ASSUME NEW u \in DOMAIN CastOf(rows), NEW k \in 0..CastOf(rows)[u]
              PROVE  \E v \in DOMAIN CastOf(rows) : CastOf(rows)[v] = k
  BY DEF GaplessCast
<1>7. k \in 0..(n - 1)
  <2>1. PICK b \in rows : b.user = u
    BY <1>3
  <2>2. f[b] \in 0..(n - 1) /\ f[b] = CastOf(rows)[u]
    BY <1>1, <2>1 DEF Surjection
  <2>. QED
    BY <1>1, <2>2
<1>8. PICK b \in rows : f[b] = k
  BY <1>1, <1>7 DEF Surjection
<1>. QED
  BY <1>3, <1>8

\* Where the orders have no gaps, a row's index is its order.
LEMMA IndexIsOrder ==
  ASSUME NEW rows, SoundRows(rows), NEW b \in rows,
         \A k \in 0..b.order : \E c \in rows : c.order = k,
         NEW p, \A c \in rows : c.pos = p
  PROVE  CastOf(rows)[b.user] = b.order
<1>. DEFINE f == [c \in Before(rows, b) |-> c.order]
<1>1. b.order \in Nat /\ \A c \in rows : c.order \in Nat
  BY DEF SoundRows, Row
<1>2. f \in [Before(rows, b) -> 0..(b.order - 1)]
  BY <1>1 DEF Before
<1>3. f \in Injection(Before(rows, b), 0..(b.order - 1))
  BY <1>2 DEF SoundRows, Before, Injection, IsInjective
<1>4. IsFiniteSet(0..(b.order - 1)) /\ Cardinality(0..(b.order - 1)) = b.order
  BY <1>1, CountBelow
<1>5. \A k \in 0..(b.order - 1) : \E c \in Before(rows, b) : f[c] = k
  <2>. TAKE k \in 0..(b.order - 1)
  <2>1. k \in 0..b.order /\ k < b.order
    BY <1>1
  <2>2. PICK c \in rows : c.order = k
    BY <2>1
  <2>3. c \in Before(rows, b)
    BY <2>1, <2>2 DEF Before
  <2>. QED
    BY <2>2, <2>3
<1>6. f \in Surjection(Before(rows, b), 0..(b.order - 1))
  BY <1>2, <1>5 DEF Surjection
<1>7. Cardinality(Before(rows, b)) = b.order
  BY <1>3, <1>4, <1>6, FS_Injection
<1>. QED
  BY <1>7, IndexOfRow

\* Taking one row out moves those behind it up by one, and nobody else.
LEMMA TakingOneOut ==
  ASSUME NEW rows, SoundRows(rows), NEW x \in rows, NEW b \in rows, b # x
  PROVE  CastOf(rows \ {x})[b.user]
           = CastOf(rows)[b.user] - (IF x.order < b.order THEN 1 ELSE 0)
<1>. DEFINE rest == rows \ {x}
<1>1. SoundRows(rest) /\ b \in rest
  BY SoundSubset
<1>2. Before(rest, b) = Before(rows, b) \ {x}
  BY DEF Before
<1>3. x \in Before(rows, b) <=> x.order < b.order
  BY DEF Before
<1>4. /\ CastOf(rest)[b.user] = Cardinality(Before(rest, b))
      /\ CastOf(rows)[b.user] = Cardinality(Before(rows, b))
      /\ IsFiniteSet(Before(rows, b)) /\ Cardinality(Before(rows, b)) \in Nat
  BY <1>1, IndexOfRow
<1>5. Cardinality(Before(rows, b) \ {x})
        = IF x \in Before(rows, b) THEN Cardinality(Before(rows, b)) - 1
          ELSE Cardinality(Before(rows, b))
  BY <1>4, FS_RemoveElement
<1>. QED
  BY <1>2, <1>3, <1>4, <1>5

-----------------------------------------------------------------------------
(* The invariant.                                                          *)

DInv == IInv /\ NoGaps

\* What the lists of the form look like: gapless, no user at two places.
LEMMA FormLists ==
  ASSUME NEW casts \in DisjointPayloads
  PROVE  /\ casts \in Payloads
         /\ \A p \in Positions : SoundCast(casts[p]) /\ GaplessCast(casts[p])
         /\ \A p, q \in Positions : p # q => DOMAIN casts[p] \cap DOMAIN casts[q] = {}
<1>1. casts \in Payloads
  BY DEF DisjointPayloads
<1>2. \A p, q \in Positions : p # q => DOMAIN casts[p] \cap DOMAIN casts[q] = {}
  BY DEF DisjointPayloads
<1>3. ASSUME NEW p \in Positions PROVE SoundCast(casts[p]) /\ GaplessCast(casts[p])
  <2>1. casts[p] \in Casts
    BY <1>1 DEF Payloads
  <2>2. SoundCast(casts[p])
    BY <2>1, CastsSound
  <2>3. {casts[p][u] : u \in DOMAIN casts[p]} = 0..(Cardinality(DOMAIN casts[p]) - 1)
    BY <2>1 DEF Casts, IsCast
  <2>4. Cardinality(DOMAIN casts[p]) \in Nat
    BY <2>2, UsersAssumption, FS_Subset, FS_CardinalityType DEF SoundCast
  <2>5. ASSUME NEW u \in DOMAIN casts[p], NEW k \in 0..casts[p][u]
        PROVE  \E v \in DOMAIN casts[p] : casts[p][v] = k
    <3>1. casts[p][u] \in 0..(Cardinality(DOMAIN casts[p]) - 1)
      BY <2>3
    <3>2. k \in 0..(Cardinality(DOMAIN casts[p]) - 1)
      BY <2>4, <3>1
    <3>. QED
      BY <2>3, <3>2
  <2>. QED
    BY <2>2, <2>5 DEF GaplessCast
<1>. QED
  BY <1>1, <1>2, <1>3

LEMMA EmptyGapless == GaplessCast(EmptyCast)
BY EmptyCastSound DEF GaplessCast

\* In a list without gaps everybody is where the row's order says.
LEMMA ListOrders ==
  ASSUME DInv, NEW p \in Positions
  PROVE  /\ \A b \in RowsAt(bookings, p) : CurrentCasts(bookings)[p][b.user] = b.order
         /\ GaplessCast(CurrentCasts(bookings)[p])
<1>1. /\ SoundRows(RowsAt(bookings, p))
      /\ \A b \in RowsAt(bookings, p) : b.pos = p
  BY SoundBookings, SoundSubset DEF RowsAt, DInv
<1>2. \A b \in RowsAt(bookings, p) : \A k \in 0..b.order : \E c \in RowsAt(bookings, p) : c.order = k
  BY DEF DInv, NoGaps, RowsAt
<1>3. CurrentCasts(bookings)[p] = CastOf(RowsAt(bookings, p))
  BY DEF CurrentCasts
<1>. QED
  BY <1>1, <1>2, <1>3, IndexIsOrder, CastOfGapless

\* Rows that were untouched, or come from a list without gaps.
LEMMA RewrittenGapless ==
  ASSUME NoGaps, NEW at \in SUBSET Positions, NEW casts,
         \A p \in at : SoundCast(casts[p]) /\ GaplessCast(casts[p]),
         bookings' = Rewritten(bookings, at, casts)
  PROVE  NoGaps'
<1>. SUFFICES ASSUME NEW b \in bookings', NEW k \in 0..b.order
              PROVE  \E c \in bookings' : c.pos = b.pos /\ c.order = k
  BY DEF NoGaps
<1>1. CASE b \in bookings /\ b.pos \notin at
  <2>1. PICK c \in bookings : c.pos = b.pos /\ c.order = k
    BY <1>1 DEF NoGaps
  <2>2. c \in bookings'
    BY <1>1, <2>1 DEF Rewritten
  <2>. QED
    BY <2>1, <2>2
<1>2. ASSUME NEW p \in at, b \in RowsFor(p, casts[p])
      PROVE  \E c \in bookings' : c.pos = b.pos /\ c.order = k
  <2>1. b.pos = p /\ b.user \in DOMAIN casts[p] /\ b.order = casts[p][b.user]
    BY <1>2, RowsForSound
  <2>2. PICK v \in DOMAIN casts[p] : casts[p][v] = k
    BY <2>1 DEF GaplessCast
  <2>. DEFINE c == [user |-> v, pos |-> p, order |-> casts[p][v]]
  <2>3. c \in RowsFor(p, casts[p]) /\ c.pos = p /\ c.order = k
    BY <2>2, RowsForSound
  <2>4. c \in bookings'
    BY <2>3 DEF Rewritten
  <2>. QED
    BY <2>1, <2>3, <2>4
<1>. QED
  BY <1>1, <1>2 DEF Rewritten

-----------------------------------------------------------------------------
(* Who moves up is told.                                                   *)

\* One position books a user and no other position writes about them.
LEMMA OneBooks ==
  ASSUME NEW logged, NEW old, NEW new, NEW quantity, NEW reference, NEW u,
         NEW p \in Positions, Books(old[p], new[p], quantity[p], reference[p], u),
         \A q \in Positions \ {p} : u \notin DOMAIN old[q] /\ u \notin DOMAIN new[q]
  PROVE  LogAfter(logged, old, new, quantity, reference, u).last = "book"
<1>. DEFINE booked == {q \in Positions : Books(old[q], new[q], quantity[q], reference[q], u)}
            unbooked == {q \in Positions : Unbooks(old[q], new[q], quantity[q], reference[q], u)}
            touched == booked \cup unbooked
<1>1. \A q \in touched : q = p
  BY DEF Books, Unbooks
<1>2. p \in booked /\ p <= p
  BY DEF Positions
<1>3. \E q \in booked : \A r \in touched : r <= q
  BY <1>1, <1>2
<1>4. touched # {}
  BY <1>2
<1>. QED
  BY <1>3, <1>4 DEF LogAfter

Stay == \A b \in bookings, c \in bookings' : b.user = c.user => b.pos = c.pos

Told == \A u \in Users : ~Regular(u) /\ Regular(u)' => log'[u].last = "book"

LEMMA UpdateKeeps ==
  ASSUME DInv, NEW newSetup \in Setups, UpdatePerformance(newSetup)
  PROVE  NoGaps' /\ Told
<1>. DEFINE old == VisitedCasts(setup, CurrentCasts(bookings))
            new == VisitedCasts(newSetup, old)
            at  == InSetup(setup)
<1>1. /\ setup' = newSetup
      /\ bookings' = Rewritten(bookings, at, new)
      /\ log' = [u \in Users |-> LogAfter(log[u], old, new, newSetup, setup, u)]
  BY DEF UpdatePerformance
<1>2. IInv /\ NoGaps /\ at \in SUBSET Positions
  BY DEF DInv, InSetup
<1>3. \A p \in Positions :
        /\ DOMAIN old[p] = IF setup[p] > 0 THEN {b.user : b \in RowsAt(bookings, p)} ELSE {}
        /\ new[p] = IF newSetup[p] > 0 THEN old[p] ELSE EmptyCast
        /\ SoundCast(new[p])
  BY <1>2, UpdateLists
<1>4. \A p \in Positions : /\ old[p] = IF setup[p] > 0 THEN CurrentCasts(bookings)[p] ELSE EmptyCast
                           /\ GaplessCast(old[p]) /\ GaplessCast(new[p])
  <2>. TAKE p \in Positions
  <2>1. old[p] = IF setup[p] > 0 THEN CurrentCasts(bookings)[p] ELSE EmptyCast
    BY DEF VisitedCasts, InSetup
  <2>2. GaplessCast(old[p])
    BY <2>1, ListOrders, EmptyGapless
  <2>. QED
    BY <1>3, <2>1, <2>2, EmptyGapless
<1>5. \A b \in bookings : /\ b \in Row /\ b.pos \in Positions /\ b.pos \in at /\ setup[b.pos] > 0
                          /\ b \in RowsAt(bookings, b.pos)
                          /\ old[b.pos][b.user] = b.order
  <2>. TAKE b \in bookings
  <2>1. b \in Row /\ b.pos \in Positions /\ b.pos \in at /\ setup[b.pos] > 0 /\ b \in RowsAt(bookings, b.pos)
    BY <1>2 DEF IInv, TypeOK, Row, BookedOnSetup, InSetup, RowsAt
  <2>. QED
    BY <1>4, <2>1, ListOrders
<1>3a. \A p \in Positions : SoundCast(new[p])
  BY <1>3
<1>3b. \A p \in Positions : \A v \in DOMAIN old[p] : \E c \in bookings : c.pos = p /\ c.user = v
  <2>. TAKE p \in Positions
  <2>. TAKE v \in DOMAIN old[p]
  <2>1. DOMAIN old[p] \subseteq {b.user : b \in RowsAt(bookings, p)}
    BY <1>3
  <2>2. PICK b \in RowsAt(bookings, p) : b.user = v
    BY <2>1
  <2>. QED
    BY <2>2 DEF RowsAt
<1>3c. \A p \in Positions : new[p] = old[p] \/ DOMAIN new[p] = {}
  BY <1>3, EmptyCastSound
<1>. HIDE DEF old, new, at
<1>6. NoGaps'
  BY <1>1, <1>2, <1>3, <1>4, RewrittenGapless
<1>7. Told
  <2>. SUFFICES ASSUME NEW u \in Users, ~Regular(u), NEW b \in bookings', b.user = u,
                       b.order < newSetup[b.pos]
                PROVE  log'[u].last = "book"
    BY <1>1 DEF Told, Regular
  <2>1. PICK p \in at : b \in RowsFor(p, new[p])
    BY <1>1, <1>5 DEF Rewritten
  <2>2. p \in Positions /\ b.pos = p /\ u \in DOMAIN new[p] /\ b.order = new[p][u]
    BY <1>2, <1>3a, <2>1, RowsForSound
  <2>3. new[p] = old[p] /\ u \in DOMAIN old[p]
    BY <1>3c, <2>2
  <2>4. PICK c \in bookings : c.pos = p /\ c.user = u
    BY <1>3b, <2>2, <2>3
  <2>5. c.order \in Nat /\ setup[p] \in Nat /\ ~(c.order < setup[p])
    BY <1>2, <1>5, <2>2, <2>4, QuantityIsNat DEF Regular, Row, IInv, TypeOK
  <2>6. old[p][u] >= setup[p]
    BY <1>5, <2>4, <2>5
  <2>7. Books(old[p], new[p], newSetup[p], setup[p], u)
    BY <2>2, <2>6 DEF Books
  <2>8. ASSUME NEW q \in Positions \ {p} PROVE u \notin DOMAIN old[q] /\ u \notin DOMAIN new[q]
    <3>1. u \notin DOMAIN old[q]
      BY <1>2, <1>3b, <2>4 DEF IInv, OneBookingPerUser
    <3>. QED
      BY <1>3c, <3>1
  <2>9. LogAfter(log[u], old, new, newSetup, setup, u).last = "book"
    BY <2>2, <2>7, <2>8, OneBooks
  <2>. QED
    BY <1>1, <2>9
<1>. QED
  BY <1>6, <1>7

\* A form that shows everybody once writes exactly its lists.
LEMMA FormSaves ==
  ASSUME IInv, NEW casts \in DisjointPayloads
  PROVE  bookings' = RowsAfterSave(bookings, setup, casts) =>
           \A b : b \in bookings' <=> \E p \in InSetup(setup) : b \in RowsFor(p, casts[p])
<1>1. \A p \in InSetup(setup) : p \in Positions /\ p \in Int
  BY DEF InSetup, Positions
<1>2. \A p \in InSetup(setup) : PlacedAt(setup, casts, p) = RowsFor(p, casts[p])
  <2>. TAKE p \in InSetup(setup)
  <2>1. \A b \in RowsFor(p, casts[p]) : b.user \in DOMAIN casts[p]
    BY <1>1, FormLists, RowsForSound
  <2>2. \A q \in InSetup(setup) : q > p => DOMAIN casts[p] \cap DOMAIN casts[q] = {}
    BY <1>1, FormLists
  <2>. QED
    BY <2>1, <2>2 DEF PlacedAt
<1>3. {b \in bookings : /\ b.pos \notin InSetup(setup)
                        /\ \A q \in InSetup(setup) : b.user \notin DOMAIN casts[q]} = {}
  BY DEF IInv, TypeOK, Row, BookedOnSetup, InSetup
<1>. QED
  BY <1>2, <1>3 DEF RowsAfterSave

LEMMA SaveKeeps ==
  ASSUME DInv, NEW casts \in DisjointPayloads, NEW rejected, SaveCast(casts, rejected)
  PROVE  NoGaps' /\ (Stay => Told)
<1>. DEFINE old == SeenCasts(bookings, setup, casts)
            new == VisitedCasts(setup, casts)
            at  == InSetup(setup)
<1>1. /\ setup' = setup
      /\ bookings' = RowsAfterSave(bookings, setup, casts)
      /\ log' = [u \in Users |-> LogAfter(log[u], old, new, setup, setup, u)]
  BY DEF SaveCast
<1>2. IInv /\ NoGaps /\ \A p \in at : p \in Positions /\ p \in Int
  BY DEF DInv, InSetup, Positions
<1>3. \A b : b \in bookings' <=> \E p \in at : b \in RowsFor(p, casts[p])
  BY <1>1, <1>2, FormSaves
<1>4. \A p \in Positions : SoundCast(casts[p]) /\ GaplessCast(casts[p])
  BY FormLists
<1>5. NoGaps'
  <2>. SUFFICES ASSUME NEW b \in bookings', NEW k \in 0..b.order
                PROVE  \E c \in bookings' : c.pos = b.pos /\ c.order = k
    BY DEF NoGaps
  <2>1. PICK p \in at : b \in RowsFor(p, casts[p])
    BY <1>3
  <2>2. p \in Positions /\ b.pos = p /\ b.user \in DOMAIN casts[p] /\ b.order = casts[p][b.user]
    BY <1>2, <1>4, <2>1, RowsForSound
  <2>3. PICK v \in DOMAIN casts[p] : casts[p][v] = k
    BY <1>4, <2>2 DEF GaplessCast
  <2>. DEFINE c == [user |-> v, pos |-> p, order |-> casts[p][v]]
  <2>4. c \in RowsFor(p, casts[p]) /\ c.pos = p /\ c.order = k
    BY <1>4, <2>2, <2>3, RowsForSound
  <2>. QED
    BY <1>3, <2>2, <2>4
<1>6. ASSUME Stay PROVE Told
  <2>. SUFFICES ASSUME NEW u \in Users, ~Regular(u), NEW b \in bookings', b.user = u,
                       b.order < setup[b.pos]
                PROVE  log'[u].last = "book"
    BY <1>1 DEF Told, Regular
  <2>1. PICK p \in at : b \in RowsFor(p, casts[p])
    BY <1>3
  <2>2. p \in Positions /\ b.pos = p /\ u \in DOMAIN casts[p] /\ b.order = casts[p][u]
    BY <1>2, <1>4, <2>1, RowsForSound
  <2>3. \A q \in Positions :
          /\ new[q] = IF q \in at THEN casts[q] ELSE EmptyCast
          /\ \A v \in DOMAIN old[q] : \E c \in bookings : c.user = v /\ c.pos = q
    BY <1>2, SeenLists, FormLists
  <2>4. SeenAt(bookings, setup, casts, p) = RowsAt(bookings, p)
    <3>1. ASSUME NEW c \in RowsAt(bookings, p), NEW q \in at, q < p, c.user \in DOMAIN casts[q]
          PROVE  FALSE
      <4>. DEFINE d == [user |-> c.user, pos |-> q, order |-> casts[q][c.user]]
      <4>1. d \in RowsFor(q, casts[q]) /\ d.pos = q /\ d.user = c.user
        BY <1>2, <1>4, <3>1, RowsForSound
      <4>2. d \in bookings' /\ c \in bookings /\ c.pos = p
        BY <1>3, <4>1 DEF RowsAt
      <4>. QED
        BY <1>2, <1>6, <3>1, <4>1, <4>2 DEF Stay
    <3>. QED
      BY <3>1 DEF SeenAt
  <2>5. old[p] = CurrentCasts(bookings)[p]
    BY <2>2, <2>4 DEF SeenCasts, VisitedCasts, CurrentCasts
  <2>6. setup[p] \in Nat /\ \A c \in bookings : c.order \in Nat
    BY <1>2, <2>2, QuantityIsNat DEF IInv, TypeOK, Row
  <2>7. u \in DOMAIN old[p] => old[p][u] >= setup[p]
    <3>. SUFFICES ASSUME u \in DOMAIN old[p] PROVE old[p][u] >= setup[p]
      OBVIOUS
    <3>1. PICK c \in bookings : c.user = u /\ c.pos = p
      BY <2>2, <2>3
    <3>2. old[p][u] = c.order
      BY <2>2, <2>5, <3>1, ListOrders DEF RowsAt
    <3>. QED
      BY <2>6, <3>1, <3>2 DEF Regular
  <2>8. Books(old[p], new[p], setup[p], setup[p], u)
    BY <2>2, <2>3, <2>7 DEF Books
  <2>9. ASSUME NEW q \in Positions \ {p} PROVE u \notin DOMAIN old[q] /\ u \notin DOMAIN new[q]
    <3>1. u \notin DOMAIN new[q]
      BY <2>2, <2>3, FormLists, EmptyCastSound
    <3>2. u \notin DOMAIN old[q]
      BY <1>6, <2>2, <2>3 DEF Stay
    <3>. QED
      BY <3>1, <3>2
  <2>10. log'[u] = LogAfter(log[u], old, new, setup, setup, u)
    BY <1>1
  <2>. HIDE DEF old, new
  <2>11. LogAfter(log[u], old, new, setup, setup, u).last = "book"
    BY <2>2, <2>8, <2>9, OneBooks
  <2>. QED
    BY <2>10, <2>11
<1>. QED
  BY <1>5, <1>6

LEMMA CancelKeeps ==
  ASSUME DInv, NEW w \in Users, CancelBookingOrRequest(w)
  PROVE  NoGaps' /\ Told
<1>. DEFINE old == CurrentCasts(bookings)
            new == WithoutUser(bookings, w)
            at  == PositionsOf(bookings, w)
<1>1. /\ setup' = setup
      /\ bookings' = Rewritten(bookings, at, new)
      /\ log' = [u \in Users |-> LogAfter(log[u], old, new, setup, setup, u)]
  BY DEF CancelBookingOrRequest
<1>2. IInv /\ NoGaps /\ at \in SUBSET Positions
  BY DEF DInv, PositionsOf
<1>3. \A p \in Positions :
        /\ DOMAIN old[p] = {b.user : b \in RowsAt(bookings, p)}
        /\ SoundCast(new[p])
        /\ DOMAIN new[p] \subseteq {b.user : b \in RowsAt(bookings, p)}
  BY <1>2, CancelLists
<1>4. \A p \in Positions : GaplessCast(new[p])
  <2>. TAKE p \in Positions
  <2>. DEFINE rest == {b \in RowsAt(bookings, p) : b.user # w}
  <2>1. SoundRows(rest) /\ \A b \in rest : b.pos = p
    BY <1>2, SoundBookings, SoundSubset DEF RowsAt
  <2>2. new[p] = CastOf(rest)
    BY DEF WithoutUser
  <2>. QED
    BY <2>1, <2>2, CastOfGapless
<1>5. \A b \in bookings : /\ b \in Row /\ b.pos \in Positions /\ b \in RowsAt(bookings, b.pos)
                          /\ old[b.pos][b.user] = b.order
  <2>. TAKE b \in bookings
  <2>1. b \in Row /\ b.pos \in Positions /\ b \in RowsAt(bookings, b.pos)
    BY <1>2 DEF IInv, TypeOK, Row, RowsAt
  <2>. QED
    BY <2>1, ListOrders
<1>. HIDE DEF old, new, at
<1>6. NoGaps'
  BY <1>1, <1>2, <1>3, <1>4, RewrittenGapless
<1>7. Told
  <2>. SUFFICES ASSUME NEW u \in Users, ~Regular(u), NEW b \in bookings', b.user = u,
                       b.order < setup[b.pos]
                PROVE  log'[u].last = "book"
    BY <1>1 DEF Told, Regular
  <2>1. PICK p \in at : b \in RowsFor(p, new[p])
    BY <1>1 DEF Rewritten, Regular
  <2>2. p \in Positions /\ b.pos = p /\ u \in DOMAIN new[p] /\ b.order = new[p][u]
    BY <1>2, <1>3, <2>1, RowsForSound
  <2>3. PICK c \in bookings : c.pos = p /\ c.user = u
    BY <1>3, <2>2 DEF RowsAt
  <2>4. c.order \in Nat /\ setup[p] \in Nat /\ ~(c.order < setup[p])
    BY <1>2, <1>5, <2>2, <2>3, QuantityIsNat DEF Regular, Row, IInv, TypeOK
  <2>5. old[p][u] >= setup[p]
    BY <1>5, <2>3, <2>4
  <2>6. Books(old[p], new[p], setup[p], setup[p], u)
    BY <2>2, <2>5 DEF Books
  <2>7. ASSUME NEW q \in Positions \ {p} PROVE u \notin DOMAIN old[q] /\ u \notin DOMAIN new[q]
    BY <1>2, <1>3, <2>3 DEF RowsAt, IInv, OneBookingPerUser
  <2>8. p \in Positions /\ \A q \in Positions \ {p} : u \notin DOMAIN old[q] /\ u \notin DOMAIN new[q]
    BY <2>2, <2>7
  <2>9. LogAfter(log[u], old, new, setup, setup, u).last = "book"
    BY <2>6, <2>8, OneBooks
  <2>. QED
    BY <1>1, <2>9
<1>. QED
  BY <1>6, <1>7

-----------------------------------------------------------------------------
(* What a user is shown.                                                   *)

Shown == {"NOT_BOOKABLE", "BOOKABLE", "REQUESTED", "REJECTED", "STANDBY", "BOOKED"}

Open(u) == phase = "upcoming" /\ IsBookable(u)

StatusFacts(u) ==
  /\ ~Open(u) => Status(u) = "NOT_BOOKABLE"
  /\ Open(u) /\ Booked(u) => Status(u) = IF Regular(u) THEN "BOOKED" ELSE "STANDBY"
  /\ Open(u) /\ ~Booked(u) =>
       /\ requests[u] = "rejected" => Status(u) = "REJECTED"
       /\ requests[u] = "open" => Status(u) = "REQUESTED"
       /\ requests[u] = "none" => Status(u) = "BOOKABLE"

LEMMA StatusIs ==
  ASSUME NEW u
  PROVE  StatusFacts(u) /\ StatusFacts(u)'
<1>1. StatusFacts(u)
  BY DEF StatusFacts, Status, Open
<1>2. StatusFacts(u)'
  BY DEF StatusFacts, Status, Open
<1>. QED
  BY <1>1, <1>2

LEMMA RegularIsBooked ==
  ASSUME NEW u
  PROVE  (Regular(u) => Booked(u)) /\ (Regular(u)' => Booked(u)')
BY DEF Regular, Booked

LEMMA StatusTyped ==
  ASSUME NEW u \in Users, requests[u] \in {"none", "open", "rejected"}
  PROVE  Status(u) \in Shown
<1>1. StatusFacts(u) /\ (Booked(u) \/ ~Booked(u)) /\ (Open(u) \/ ~Open(u))
  BY StatusIs
<1>. QED
  BY <1>1 DEF StatusFacts, Shown

LEMMA StatusTypedNext ==
  ASSUME NEW u \in Users, requests'[u] \in {"none", "open", "rejected"}
  PROVE  Status(u)' \in Shown
<1>1. StatusFacts(u)' /\ (Booked(u)' \/ ~Booked(u)') /\ (Open(u)' \/ ~Open(u)')
  BY StatusIs
<1>. QED
  BY <1>1 DEF StatusFacts, Shown

board == [u \in Users |-> Status(u)]

asked == {u \in Users : requests[u] # "none"}

LEMMA BoardTyped ==
  ASSUME TypeOK, TypeOK'
  PROVE  /\ \A u \in Users : board[u] = Status(u) /\ board'[u] = Status(u)'
         /\ board \in [Users -> Shown] /\ board' \in [Users -> Shown]
         /\ \A u \in Users : requests[u] \in {"none", "open", "rejected"}
         /\ \A u \in Users : requests'[u] \in {"none", "open", "rejected"}
<1>1. \A u \in Users : requests[u] \in {"none", "open", "rejected"}
  BY DEF TypeOK
<1>2. \A u \in Users : requests'[u] \in {"none", "open", "rejected"}
  BY DEF TypeOK
<1>. QED
  BY <1>1, <1>2, StatusTyped, StatusTypedNext DEF board

\* A status agrees with the requests on file.
LEMMA StatusConsistent ==
  ASSUME TypeOK', NEW u \in Users, NEW on_file, on_file = (requests'[u] # "none")
  PROVE  Board!Consistent(Status(u)', u, on_file)
<1>1. requests'[u] \in {"none", "open", "rejected"}
  BY DEF TypeOK
<1>2. StatusFacts(u)'
  BY StatusIs
<1>3. CASE Open(u)' /\ ~Booked(u)'
  BY <1>1, <1>2, <1>3 DEF StatusFacts, Board!Consistent, Board!Pending
<1>4. CASE ~Open(u)' \/ Booked(u)'
  BY <1>1, <1>2, <1>4 DEF StatusFacts, Board!Consistent, Board!Pending
<1>. QED
  BY <1>3, <1>4

-----------------------------------------------------------------------------
(* The handlers as steps of the board.                                     *)

\* Who was not cast is not cast by it, and nobody's request changes.
LEMMA IsRestage ==
  ASSUME IInv, IInv', UNCHANGED requests, \A u \in Users : Booked(u)' => Booked(u)
  PROVE  Board!Restage
<1>1. \A u \in Users : Board!Consistent(Status(u)', u, requests[u] # "none")
  BY StatusConsistent DEF IInv
<1>2. ASSUME NEW u \in Users, Status(u) \in {"BOOKABLE", "REQUESTED", "REJECTED"}
      PROVE  Status(u)' \in {Status(u), "NOT_BOOKABLE"}
  <2>1. StatusFacts(u) /\ StatusFacts(u)' /\ requests[u] \in {"none", "open", "rejected"}
    BY StatusIs DEF IInv, TypeOK
  <2>2. Open(u) /\ ~Booked(u)
    BY <1>2, <2>1 DEF StatusFacts
  <2>3. ~Booked(u)'
    BY <2>2
  <2>. QED
    BY <2>1, <2>2, <2>3 DEF StatusFacts
<1>3. ASSUME NEW u \in Users, Status(u) \in {"STANDBY", "BOOKED"}
      PROVE  Status(u)' # "REJECTED"
  <2>1. StatusFacts(u) /\ StatusFacts(u)' /\ requests[u] \in {"none", "open", "rejected"}
    BY StatusIs DEF IInv, TypeOK
  <2>2. Booked(u)
    BY <1>3, <2>1 DEF StatusFacts
  <2>3. requests'[u] \in {"none", "open"}
    BY <2>1, <2>2 DEF IInv, RejectedNotBooked
  <2>4. Booked(u)' \/ ~Booked(u)'
    OBVIOUS
  <2>. QED
    BY <2>1, <2>3, <2>4 DEF StatusFacts
<1>. QED
  BY <1>1, <1>2, <1>3, BoardTyped
     DEF IInv, Board!Restage, board, Shown, Board!Pending, Board!InCast

LEMMA CreateIsRestage ==
  ASSUME IInv, IInv', NEW s \in Setups, CreatePerformance(s)
  PROVE  Board!Restage
BY IsRestage DEF CreatePerformance, Booked

LEMMA SyncIsRestage ==
  ASSUME IInv, IInv', NEW w \in Users, NEW desired, SyncUserPositions(w, desired)
  PROVE  Board!Restage
BY IsRestage DEF SyncUserPositions, Booked

LEMMA UpdateIsRestage ==
  ASSUME IInv, IInv', NEW newSetup \in Setups, UpdatePerformance(newSetup)
  PROVE  Board!Restage
<1>. DEFINE old == VisitedCasts(setup, CurrentCasts(bookings))
            new == VisitedCasts(newSetup, old)
            at  == InSetup(setup)
<1>1. at \in SUBSET Positions
  BY DEF InSetup
<1>2. \A p \in at : /\ SoundCast(new[p])
                    /\ DOMAIN new[p] \subseteq {b.user : b \in RowsAt(bookings, p)}
  BY <1>1, UpdateLists
<1>3. bookings' = Rewritten(bookings, at, new) /\ UNCHANGED requests
  BY DEF UpdatePerformance
<1>. HIDE DEF old, new, at
<1>4. \A b \in bookings' : b \in bookings \/ \E c \in bookings : c.user = b.user /\ c.pos = b.pos
  BY <1>1, <1>2, <1>3, SoundBookings, RewrittenSound
<1>5. \A u \in Users : Booked(u)' => Booked(u)
  BY <1>4 DEF Booked
<1>. QED
  BY <1>3, <1>5, IsRestage

LEMMA EndIsClose ==
  ASSUME IInv, IInv', DeletePerformance \/ TimePasses
  PROVE  Board!Close
<1>1. phase' # "upcoming" /\ UNCHANGED requests
  BY DEF DeletePerformance, TimePasses
<1>2. \A u \in Users : Status(u)' = "NOT_BOOKABLE"
  BY <1>1, StatusIs DEF StatusFacts, Open
<1>. QED
  BY <1>1, <1>2 DEF Board!Close

LEMMA PurgeIsClear ==
  ASSUME IInv, IInv', PurgeStaleBookingRequests
  PROVE  Board!Clear
<1>1. phase # "upcoming" /\ UNCHANGED phase /\ requests' = [u \in Users |-> "none"]
  BY DEF PurgeStaleBookingRequests
<1>2. \A u \in Users : Status(u) = "NOT_BOOKABLE" /\ Status(u)' = "NOT_BOOKABLE"
  BY <1>1, StatusIs DEF StatusFacts, Open
<1>. QED
  BY <1>1, <1>2 DEF Board!Clear

LEMMA SaveIsDecide ==
  ASSUME IInv, IInv', NEW casts, NEW rejected, SaveCast(casts, rejected)
  PROVE  Board!Decide
<1>1. /\ UNCHANGED <<phase, setup, qualified>>
      /\ \A u \in Users : requests'[u] = "none" <=> requests[u] = "none"
  BY DEF SaveCast, RequestsAfter
<1>2. \A u \in Users : Board!Consistent(Status(u)', u, requests[u] # "none")
  BY <1>1, StatusConsistent DEF IInv
<1>3. ASSUME NEW u \in Users PROVE Status(u) = "NOT_BOOKABLE" <=> Status(u)' = "NOT_BOOKABLE"
  <2>1. StatusFacts(u) /\ StatusFacts(u)'
    BY StatusIs
  <2>2. /\ requests[u] \in {"none", "open", "rejected"}
        /\ requests'[u] \in {"none", "open", "rejected"}
    BY DEF IInv, TypeOK
  <2>3. Open(u) <=> Open(u)'
    BY <1>1 DEF Open, IsBookable
  <2>4. Open(u) <=> Status(u) # "NOT_BOOKABLE"
    BY <2>1, <2>2 DEF StatusFacts
  <2>5. Open(u)' <=> Status(u)' # "NOT_BOOKABLE"
    BY <2>1, <2>2 DEF StatusFacts
  <2>. QED
    BY <2>3, <2>4, <2>5
<1>. QED
  BY <1>1, <1>2, <1>3, BoardTyped
     DEF IInv, Board!Decide, board, Shown, Board!Pending, Board!InCast

LEMMA RequestIsAsk ==
  ASSUME IInv, IInv', NEW w \in Users, RequestBooking(w)
  PROVE  Board!Ask(w)
<1>1. /\ Status(w) = "BOOKABLE" /\ requests' = [requests EXCEPT ![w] = "open"]
      /\ UNCHANGED <<phase, setup, qualified, bookings>>
  BY DEF RequestBooking
<1>2. /\ requests'[w] = "open" /\ \A u \in Users \ {w} : requests'[u] = requests[u]
      /\ requests[w] \in {"none", "open", "rejected"}
  BY <1>1 DEF IInv, TypeOK
<1>3. \A u \in Users \ {w} : Status(u)' = Status(u)
  BY <1>1, <1>2 DEF Status, IsBookable, Booked, Regular
<1>4. Status(w)' = "REQUESTED"
  <2>1. StatusFacts(w) /\ StatusFacts(w)'
    BY StatusIs
  <2>2. Open(w) /\ ~Booked(w)
    BY <1>1, <1>2, <2>1 DEF StatusFacts
  <2>3. Open(w)' /\ ~Booked(w)'
    BY <1>1, <2>2 DEF Open, IsBookable, Booked
  <2>. QED
    BY <1>2, <2>1, <2>3 DEF StatusFacts
<1>5. {u \in Users : requests'[u] # "none"} = {u \in Users : requests[u] # "none"} \cup {w}
  BY <1>2
<1>6. [u \in Users |-> Status(u)'] = [[u \in Users |-> Status(u)] EXCEPT ![w] = "REQUESTED"]
  BY <1>3, <1>4
<1>. QED
  BY <1>1, <1>5, <1>6 DEF Board!Ask

-----------------------------------------------------------------------------
(* A withdrawal: those behind in the list move up by one.                  *)

\* Where a row is once x has gone.
After(x, b) == IF b.pos = x.pos /\ x.order < b.order THEN b.order - 1 ELSE b.order

LEMMA WithdrawnRows ==
  ASSUME DInv, NEW x \in bookings,
         bookings' = Rewritten(bookings, PositionsOf(bookings, x.user), WithoutUser(bookings, x.user))
  PROVE  /\ \A b \in bookings \ {x} :
              [user |-> b.user, pos |-> b.pos, order |-> After(x, b)] \in bookings'
         /\ \A c \in bookings' : c.user # x.user /\ \E b \in bookings : b.user = c.user
<1>. DEFINE p == x.pos
            rows == RowsAt(bookings, p)
            at == PositionsOf(bookings, x.user)
            new == WithoutUser(bookings, x.user)
<1>1. IInv /\ SoundRows(bookings) /\ \A b \in bookings : b \in Row
  BY SoundBookings DEF DInv, IInv, TypeOK
<1>2. p \in Positions /\ at = {p} /\ x \in rows
  BY <1>1 DEF PositionsOf, RowsAt, Row, SoundRows
<1>3. SoundRows(rows) /\ rows \in SUBSET bookings /\ \A b \in rows : b.pos = p
  BY <1>1, SoundSubset DEF RowsAt
<1>4. new[p] = CastOf(rows \ {x})
  <2>1. {b \in rows : b.user # x.user} = rows \ {x}
    BY <1>1, <1>2, <1>3 DEF SoundRows
  <2>. QED
    BY <1>2, <2>1 DEF WithoutUser
<1>5. SoundCast(new[p]) /\ DOMAIN new[p] = {b.user : b \in rows \ {x}}
  BY <1>3, <1>4, SoundSubset, CastOfRows
<1>6. bookings' = {b \in bookings : b.pos # p} \cup RowsFor(p, new[p])
  BY <1>2 DEF Rewritten
<1>7. ASSUME NEW b \in bookings \ {x}
      PROVE  [user |-> b.user, pos |-> b.pos, order |-> After(x, b)] \in bookings'
  <2>1. CASE b.pos # p
    <3>1. [user |-> b.user, pos |-> b.pos, order |-> After(x, b)] = b
      BY <1>1, <2>1 DEF After, Row
    <3>. QED
      BY <1>6, <2>1, <3>1
  <2>2. CASE b.pos = p
    <3>1. b \in rows /\ b # x
      BY <1>7, <2>2 DEF RowsAt
    <3>2. new[p][b.user] = CastOf(rows)[b.user] - (IF x.order < b.order THEN 1 ELSE 0)
      BY <1>2, <1>3, <1>4, <3>1, TakingOneOut
    <3>3. CastOf(rows)[b.user] = b.order /\ b.order \in Nat
      BY <1>1, <1>2, <3>1, ListOrders DEF CurrentCasts, Row
    <3>4. new[p][b.user] = After(x, b)
      BY <2>2, <3>2, <3>3 DEF After
    <3>5. b.user \in DOMAIN new[p]
      BY <1>5, <3>1
    <3>6. [user |-> b.user, pos |-> p, order |-> new[p][b.user]] \in RowsFor(p, new[p])
      BY <1>2, <1>5, <3>5, RowsForSound
    <3>. QED
      BY <1>6, <2>2, <3>4, <3>6
  <2>. QED
    BY <2>1, <2>2
<1>8. ASSUME NEW c \in bookings' PROVE c.user # x.user /\ \E b \in bookings : b.user = c.user
  <2>1. CASE c \in bookings /\ c.pos # p
    BY <1>1, <2>1 DEF SoundRows
  <2>2. CASE c \in RowsFor(p, new[p])
    <3>1. c.user \in DOMAIN new[p]
      BY <1>2, <1>5, <2>2, RowsForSound
    <3>2. PICK b \in rows \ {x} : b.user = c.user
      BY <1>5, <3>1
    <3>. QED
      BY <1>1, <1>2, <1>3, <3>2 DEF SoundRows
  <2>. QED
    BY <1>6, <2>1, <2>2
<1>. QED
  BY <1>7, <1>8

\* The others are booked as before, and at most the first in line moves up.
LEMMA WithdrawnOthers ==
  ASSUME DInv, IInv', NEW x \in bookings, UNCHANGED setup,
         bookings' = Rewritten(bookings, PositionsOf(bookings, x.user), WithoutUser(bookings, x.user))
  PROVE  /\ ~Booked(x.user)'
         /\ \A u \in Users \ {x.user} :
              /\ Booked(u)' <=> Booked(u)
              /\ \/ Regular(u)' <=> Regular(u)
                 \/ /\ ~Regular(u) /\ Regular(x.user)
                    /\ \E b \in bookings : /\ b.user = u /\ b.pos = x.pos
                                           /\ b.order = setup[x.pos]
<1>1. /\ \A b \in bookings \ {x} :
           [user |-> b.user, pos |-> b.pos, order |-> After(x, b)] \in bookings'
      /\ \A c \in bookings' : c.user # x.user /\ \E b \in bookings : b.user = c.user
  BY WithdrawnRows
<1>2. /\ \A b \in bookings : b \in Row /\ b.order \in Nat /\ b.pos \in Positions
      /\ \A p \in Positions : setup[p] \in Nat
      /\ \A b, c \in bookings : b.user = c.user => b = c
      /\ \A b, c \in bookings' : b.user = c.user => b = c
  BY QuantityIsNat DEF DInv, IInv, TypeOK, Row, OneBookingPerUser
<1>3. ~Booked(x.user)'
  BY <1>1 DEF Booked
<1>4. ASSUME NEW u \in Users \ {x.user}
      PROVE  /\ Booked(u)' <=> Booked(u)
             /\ \/ Regular(u)' <=> Regular(u)
                \/ /\ ~Regular(u) /\ Regular(x.user)
                   /\ \E b \in bookings : /\ b.user = u /\ b.pos = x.pos
                                          /\ b.order = setup[x.pos]
  <2>1. CASE ~Booked(u)
    <3>1. ~Booked(u)'
      BY <1>1, <2>1 DEF Booked
    <3>. QED
      BY <2>1, <3>1, RegularIsBooked
  <2>2. CASE Booked(u)
    <3>1. PICK b \in bookings : b.user = u
      BY <2>2 DEF Booked
    <3>. DEFINE c == [user |-> b.user, pos |-> b.pos, order |-> After(x, b)]
    <3>2. c \in bookings' /\ c.user = u /\ c.pos = b.pos /\ c.order = After(x, b)
      BY <1>1, <3>1
    <3>. HIDE DEF c
    <3>3. Booked(u)' /\ (Regular(u)' <=> After(x, b) < setup[b.pos])
      BY <1>2, <3>2 DEF Booked, Regular
    <3>4. Regular(u) <=> b.order < setup[b.pos]
      BY <1>2, <3>1 DEF Regular
    <3>5. b.order \in Nat /\ x.order \in Nat /\ setup[b.pos] \in Nat
      BY <1>2
    <3>6. CASE After(x, b) = b.order
      BY <2>2, <3>3, <3>4, <3>6
    <3>7. CASE b.pos = x.pos /\ x.order < b.order /\ After(x, b) = b.order - 1
      <4>1. CASE b.order = setup[b.pos]
        <5>1. Regular(x.user)
          BY <3>7, <4>1 DEF Regular
        <5>2. ~Regular(u)
          BY <3>4, <3>5, <4>1
        <5>. QED
          BY <2>2, <3>1, <3>3, <3>7, <4>1, <5>1, <5>2
      <4>2. CASE b.order # setup[b.pos]
        <5>1. Regular(u)' <=> Regular(u)
          BY <3>3, <3>4, <3>5, <3>7, <4>2
        <5>. QED
          BY <2>2, <3>3, <5>1
      <4>. QED
        BY <4>1, <4>2
    <3>. QED
      BY <3>6, <3>7 DEF After
  <2>. QED
    BY <2>1, <2>2
<1>. QED
  BY <1>3, <1>4

LEMMA CancelIsWithdraw ==
  ASSUME DInv, IInv', NEW w \in Users, CancelBookingOrRequest(w)
  PROVE  Board!Withdraw(w)
<1>1. /\ Status(w) \in {"REQUESTED", "REJECTED", "STANDBY", "BOOKED"}
      /\ requests' = [requests EXCEPT ![w] = "none"]
      /\ bookings' = Rewritten(bookings, PositionsOf(bookings, w), WithoutUser(bookings, w))
      /\ UNCHANGED <<phase, setup, qualified>>
  BY DEF CancelBookingOrRequest
<1>2. /\ requests'[w] = "none" /\ \A u \in Users \ {w} : requests'[u] = requests[u]
      /\ \A u \in Users : requests[u] \in {"none", "open", "rejected"}
  BY <1>1 DEF DInv, IInv, TypeOK
<1>3. \A u \in Users : StatusFacts(u) /\ StatusFacts(u)' /\ (Open(u)' <=> Open(u))
  BY <1>1, StatusIs DEF Open, IsBookable
<1>4. Open(w)
  BY <1>1, <1>3 DEF StatusFacts
<1>5. {u \in Users : requests'[u] # "none"} = {u \in Users : requests[u] # "none"} \ {w}
  BY <1>2
<1>6. Status(w) \in Board!Pending \cup Board!InCast
  BY <1>1 DEF Board!Pending, Board!InCast
<1>7. ASSUME ~Booked(w)', \A u \in Users \ {w} : Status(u)' = Status(u)
      PROVE  Board!Withdraw(w)
  <2>1. Status(w)' = "BOOKABLE"
    BY <1>2, <1>3, <1>4, <1>7 DEF StatusFacts
  <2>2. [u \in Users |-> Status(u)'] = [[u \in Users |-> Status(u)] EXCEPT ![w] = "BOOKABLE"]
    BY <1>7, <2>1
  <2>. QED
    BY <1>5, <1>6, <2>2 DEF Board!Withdraw
<1>8. CASE ~Booked(w)
  <2>1. PositionsOf(bookings, w) = {}
    BY <1>8 DEF PositionsOf, Booked
  <2>2. bookings' = bookings
    BY <1>1, <2>1 DEF Rewritten
  <2>3. \A u \in Users \ {w} : Status(u)' = Status(u)
    BY <1>1, <1>2, <2>2 DEF Status, IsBookable, Booked, Regular
  <2>. QED
    BY <1>7, <1>8, <2>2, <2>3 DEF Booked
<1>9. CASE Booked(w)
  <2>1. PICK x \in bookings : x.user = w
    BY <1>9 DEF Booked
  <2>2. /\ ~Booked(w)'
        /\ \A u \in Users \ {w} :
             /\ Booked(u)' <=> Booked(u)
             /\ \/ Regular(u)' <=> Regular(u)
                \/ /\ ~Regular(u) /\ Regular(w)
                   /\ \E b \in bookings : /\ b.user = u /\ b.pos = x.pos
                                          /\ b.order = setup[x.pos]
    BY <1>1, <2>1, WithdrawnOthers
  <2>3. ASSUME NEW u \in Users \ {w}, (Regular(u)' <=> Regular(u)) \/ ~Open(u)
        PROVE  Status(u)' = Status(u)
    <3>1. (Booked(u)' <=> Booked(u)) /\ requests'[u] = requests[u] /\ (Open(u)' <=> Open(u))
      BY <1>2, <1>3, <2>2
    <3>2. StatusFacts(u) /\ StatusFacts(u)' /\ requests[u] \in {"none", "open", "rejected"}
      BY <1>2, <1>3
    <3>. QED
      BY <2>3, <3>1, <3>2 DEF StatusFacts
  <2>4. CASE \A u \in Users \ {w} : (Regular(u)' <=> Regular(u)) \/ ~Open(u)
    BY <1>7, <2>2, <2>3, <2>4
  <2>5. ASSUME NEW v \in Users \ {w}, ~(Regular(v)' <=> Regular(v)), Open(v)
        PROVE  Board!Withdraw(w)
    <3>1. /\ ~Regular(v) /\ Regular(w) /\ Regular(v)'
          /\ \E b \in bookings : b.user = v /\ b.pos = x.pos /\ b.order = setup[x.pos]
      BY <2>2, <2>5
    <3>2. ASSUME NEW u \in Users \ {w}, u # v PROVE Regular(u)' <=> Regular(u)
      BY <2>2, <3>1, <3>2 DEF DInv, IInv, OrdersDistinct
    <3>3. \A u \in Users \ {w, v} : Status(u)' = Status(u)
      BY <2>3, <3>2
    <3>4. Status(v) = "STANDBY" /\ Status(v)' = "BOOKED"
      BY <1>3, <2>2, <2>5, <3>1, RegularIsBooked DEF StatusFacts
    <3>5. Status(w) = "BOOKED" /\ Status(w)' = "BOOKABLE"
      BY <1>2, <1>3, <1>4, <1>9, <2>2, <3>1 DEF StatusFacts
    <3>6. [u \in Users |-> Status(u)']
            = [[u \in Users |-> Status(u)] EXCEPT ![w] = "BOOKABLE", ![v] = "BOOKED"]
      BY <3>3, <3>4, <3>5
    <3>. QED
      BY <1>5, <1>6, <3>4, <3>5, <3>6 DEF Board!Withdraw
  <2>. QED
    BY <2>4, <2>5
<1>. QED
  BY <1>8, <1>9

-----------------------------------------------------------------------------
(* The theorems.                                                           *)

DNext == NextWith(DisjointPayloads)

LEMMA DInitHolds ==
  ASSUME Init
  PROVE  DInv
BY InitIInv DEF Init, DInv, NoGaps

LEMMA DNextIsNext == [DNext]_vars => [Next]_vars
<1>1. DisjointPayloads \subseteq Payloads
  BY DEF DisjointPayloads
<1>. QED
  BY <1>1 DEF DNext, Next, NextWith

\* The steps that leave the lists and the quantities alone.
LEMMA ListsUntouched ==
  ASSUME DInv, UNCHANGED <<setup, bookings>>
  PROVE  NoGaps' /\ Told
BY DEF DInv, NoGaps, Told, Regular

LEMMA DNextHolds ==
  ASSUME DInv, [DNext]_vars
  PROVE  DInv' /\ (Stay => Told)
<1>1. IInv'
  BY DNextIsNext, NextIInv DEF DInv
<1>2. NoGaps' /\ (Stay => Told)
  <2>1. ASSUME NEW s \in Setups, CreatePerformance(s) PROVE NoGaps' /\ Told
    <3>1. bookings' = {}
      BY <2>1 DEF CreatePerformance, DInv, IInv, DeletedLeavesNothing
    <3>. QED
      BY <3>1 DEF NoGaps, Told, Regular
  <2>2. ASSUME NEW s \in Setups, UpdatePerformance(s) PROVE NoGaps' /\ Told
    BY <2>2, UpdateKeeps
  <2>3. ASSUME DeletePerformance PROVE NoGaps' /\ Told
    <3>1. bookings' = {}
      BY <2>3 DEF DeletePerformance
    <3>. QED
      BY <3>1 DEF NoGaps, Told, Regular
  <2>4. ASSUME NEW casts \in DisjointPayloads, NEW rejected, SaveCast(casts, rejected)
        PROVE  NoGaps' /\ (Stay => Told)
    BY <2>4, SaveKeeps
  <2>5. ASSUME NEW u \in Users, CancelBookingOrRequest(u) PROVE NoGaps' /\ Told
    BY <2>5, CancelKeeps
  <2>6. ASSUME NEW u \in Users, RequestBooking(u) PROVE NoGaps' /\ Told
    BY <2>6, ListsUntouched DEF RequestBooking
  <2>7. ASSUME NEW u \in Users, NEW desired, SyncUserPositions(u, desired) PROVE NoGaps' /\ Told
    BY <2>7, ListsUntouched DEF SyncUserPositions
  <2>8. CASE TimePasses \/ PurgeStaleBookingRequests \/ UNCHANGED vars
    BY <2>8, ListsUntouched DEF TimePasses, PurgeStaleBookingRequests, vars
  <2>. QED
    BY <2>1, <2>2, <2>3, <2>4, <2>5, <2>6, <2>7, <2>8 DEF DNext, NextWith
<1>. QED
  BY <1>1, <1>2 DEF DInv

LEMMA BoardInit ==
  ASSUME Init
  PROVE  Board!Init
<1>1. phase # "upcoming" /\ \A u \in Users : requests[u] = "none"
  BY DEF Init
<1>2. \A u \in Users : Status(u) = "NOT_BOOKABLE"
  BY <1>1, StatusIs DEF StatusFacts, Open
<1>. QED
  BY <1>1, <1>2 DEF Board!Init

LEMMA BoardNext ==
  ASSUME DInv, DInv', [DNext]_vars
  PROVE  [Board!Next]_(Board!vars)
<1>. USE DEF DInv
<1>1. ASSUME NEW s \in Setups, CreatePerformance(s) \/ UpdatePerformance(s) PROVE Board!Restage
  BY <1>1, CreateIsRestage, UpdateIsRestage
<1>2. ASSUME DeletePerformance \/ TimePasses PROVE Board!Close
  BY <1>2, EndIsClose
<1>3. ASSUME NEW casts, NEW rejected, SaveCast(casts, rejected) PROVE Board!Decide
  BY <1>3, SaveIsDecide
<1>4. ASSUME NEW u \in Users, RequestBooking(u) \/ CancelBookingOrRequest(u)
      PROVE  Board!Ask(u) \/ Board!Withdraw(u)
  BY <1>4, RequestIsAsk, CancelIsWithdraw
<1>5. ASSUME NEW u \in Users, NEW desired, SyncUserPositions(u, desired) PROVE Board!Restage
  BY <1>5, SyncIsRestage
<1>6. ASSUME PurgeStaleBookingRequests PROVE Board!Clear
  BY <1>6, PurgeIsClear
<1>7. CASE UNCHANGED vars
  <2>1. \A u \in Users : Status(u)' = Status(u)
    BY <1>7 DEF vars, Status, IsBookable, Booked, Regular
  <2>2. UNCHANGED requests
    BY <1>7 DEF vars
  <2>. QED
    BY <2>1, <2>2 DEF Board!vars
<1>8. CASE DNext
  BY <1>1, <1>2, <1>3, <1>4, <1>5, <1>6, <1>8 DEF DNext, NextWith, Board!Next
<1>. QED
  BY <1>7, <1>8

THEOREM DisjointInductive == DisjointSpec => []DInv
<1>1. Init => DInv
  BY DInitHolds
<1>2. DInv /\ [DNext]_vars => DInv'
  BY DNextHolds
<1>. QED
  BY <1>1, <1>2, PTL DEF DisjointSpec, DNext

\* The lists have no gaps, so the status (order < quantity) and the first
\* "quantity" entries billing and the mails to the cast read name the same
\* users, for any number of users and positions.
THEOREM ListsRead == DisjointSpec => []ListsAgree
<1>1. DInv => ListsAgree
  <2>. SUFFICES ASSUME DInv PROVE ListsAgree
    OBVIOUS
  <2>1. ASSUME NEW b \in bookings PROVE Index(RowsAt(bookings, b.pos), b.user) = b.order
    <3>1. b.pos \in Positions /\ b \in RowsAt(bookings, b.pos)
      BY DEF DInv, IInv, TypeOK, Row, RowsAt
    <3>2. CurrentCasts(bookings)[b.pos][b.user] = b.order
      BY <3>1, ListOrders
    <3>3. CurrentCasts(bookings)[b.pos] = CastOf(RowsAt(bookings, b.pos))
      BY <3>1 DEF CurrentCasts
    <3>. QED
      BY <3>1, <3>2, <3>3 DEF CastOf
  <2>. QED
    BY <2>1 DEF ListsAgree, ViewsAgree, DInv
<1>. QED
  BY <1>1, DisjointInductive, PTL

\* Nobody moves up to a regular place untold, whether a saved cast, a
\* withdrawal ahead of them or a larger quantity lets them in.
THEOREM PromotionsTold == DisjointSpec => PromotionTold
<1>1. DInv /\ [DNext]_vars =>
        [(\A b \in bookings, c \in bookings' : b.user = c.user => b.pos = c.pos) =>
           \A u \in Users : ~Regular(u) /\ Regular(u)' => log'[u].last = "book"]_vars
  BY DNextHolds DEF Stay, Told
<1>. QED
  BY <1>1, DisjointInductive, PTL DEF DisjointSpec, DNext, PromotionTold

\* The handlers, with their casts, lists, quantities and logs, show the users
\* what StatusBoard promises them.
THEOREM BoardImplemented == DisjointSpec => ImplementsBoard
<1>1. Init => Board!Init
  BY BoardInit
<1>2. DInv /\ DInv' /\ [DNext]_vars => [Board!Next]_(Board!vars)
  BY BoardNext
<1>. QED
  BY <1>1, <1>2, DisjointInductive, PTL DEF DisjointSpec, DNext, ImplementsBoard, Board!Spec

-----------------------------------------------------------------------------
(* The loops of booking_service, flush by flush (CastLoop), leave the rows *)
(* CastEngine states in closed form.  First, a list as a sequence and the  *)
(* function of its indices are the same list.                              *)

Sorted(l, here) ==
  /\ l \in [1..Cardinality(here) -> {b.user : b \in here}]
  /\ \A i, j \in 1..Cardinality(here) :
       i < j => \E b, c \in here : b.user = l[i] /\ c.user = l[j] /\ b.order < c.order

LEMMA InOrderIsSorted ==
  ASSUME NEW here, SoundRows(here), NEW p, \A b \in here : b.pos = p
  PROVE  Sorted(InOrder(here), here)
<1>. DEFINE n == Cardinality(here)
            f == [b \in here |-> CastOf(here)[b.user]]
            l == [i \in 1..n |-> (CHOOSE b \in here : f[b] = i - 1).user]
<1>1. n \in Nat /\ f \in Surjection(here, 0..(n - 1))
  BY IndicesOnto
<1>2. ASSUME NEW i \in 1..n
      PROVE  \E b \in here : f[b] = i - 1 /\ l[i] = b.user
  <2>1. i - 1 \in 0..(n - 1)
    BY <1>1, <1>2
  <2>2. \E b \in here : f[b] = i - 1
    BY <1>1, <2>1 DEF Surjection
  <2>. HIDE DEF f
  <2>3. (CHOOSE b \in here : f[b] = i - 1) \in here /\ f[CHOOSE b \in here : f[b] = i - 1] = i - 1
    BY <2>2
  <2>. QED
    BY <2>3, <1>2
<1>3. ASSUME NEW i \in 1..n, NEW j \in 1..n, i < j
      PROVE  \E b, c \in here : b.user = l[i] /\ c.user = l[j] /\ b.order < c.order
  <2>1. PICK b \in here : f[b] = i - 1 /\ l[i] = b.user
    BY <1>2
  <2>2. PICK c \in here : f[c] = j - 1 /\ l[j] = c.user
    BY <1>2
  <2>3. b.order \in Nat /\ c.order \in Nat /\ \A d \in here : d.order \in Nat
    BY DEF SoundRows, Row
  <2>4. ASSUME c.order <= b.order PROVE FALSE
    <3>1. Before(here, c) \in SUBSET Before(here, b)
      BY <2>3, <2>4 DEF Before
    <3>2. Cardinality(Before(here, c)) <= Cardinality(Before(here, b))
      BY <3>1, FS_Subset, IndexOfRow
    <3>3. f[c] = Cardinality(Before(here, c)) /\ f[b] = Cardinality(Before(here, b))
      BY IndexOfRow
    <3>. QED
      BY <1>1, <1>3, <2>1, <2>2, <3>2, <3>3
  <2>5. b.order < c.order
    BY <2>3, <2>4
  <2>. HIDE DEF l, f
  <2>. QED
    BY <2>1, <2>2, <2>5
<1>4. l \in [1..n -> {b.user : b \in here}]
  BY <1>2
<1>5. Sorted(l, here)
  BY <1>3, <1>4 DEF Sorted
<1>. DEFINE S == [1..Cardinality(here) -> {b.user : b \in here}]
            P(s) == \A i, j \in 1..Cardinality(here) :
                      i < j => \E b, c \in here : b.user = s[i] /\ c.user = s[j]
                                                    /\ b.order < c.order
<1>6. l \in S /\ P(l)
  BY <1>5 DEF Sorted
<1>7. InOrder(here) = CHOOSE s \in S : P(s)
  BY DEF InOrder
<1>. HIDE DEF l, S, P
<1>8. InOrder(here) \in S /\ P(InOrder(here))
  BY <1>6, <1>7, Zenon
<1>. QED
  BY <1>8 DEF Sorted, S, P

\* A sorted list holds everybody once.
LEMMA SortedOnce ==
  ASSUME NEW here, SoundRows(here), NEW l, Sorted(l, here)
  PROVE  /\ Cardinality(here) \in Nat
         /\ Members(l) = {b.user : b \in here}
         /\ \A i, j \in 1..Cardinality(here) : l[i] = l[j] => i = j
         /\ Cardinality(here) <= Cardinality(Users)
<1>. DEFINE n == Cardinality(here)
            people == {b.user : b \in here}
            f == [b \in here |-> b.user]
<1>1. IsFiniteSet(here) /\ n \in Nat
  BY RowsFinite, FS_CardinalityType
<1>2. f \in Bijection(here, people)
  BY DEF SoundRows, Bijection, Injection, IsInjective, Surjection
<1>3. IsFiniteSet(people) /\ Cardinality(people) = n
  BY <1>1, <1>2, FS_Bijection DEF ExistsBijection
<1>4. ASSUME NEW i \in 1..n, NEW j \in 1..n, i < j PROVE l[i] # l[j]
  <2>1. PICK b \in here, c \in here : b.user = l[i] /\ c.user = l[j] /\ b.order < c.order
    BY <1>4 DEF Sorted
  <2>2. b.order \in Nat
    BY DEF SoundRows, Row
  <2>. QED
    BY <2>1, <2>2 DEF SoundRows
<1>5. \A i, j \in 1..n : l[i] = l[j] => i = j
  BY <1>1, <1>4
<1>6. l \in Injection(1..n, people)
  BY <1>5 DEF Sorted, Injection, IsInjective
<1>7. Cardinality(1..n) = n
  BY <1>1, FS_Interval
<1>8. l \in Surjection(1..n, people)
  BY <1>3, <1>6, <1>7, FS_Injection
<1>9. Members(l) = people
  <2>1. DOMAIN l = 1..n /\ \A i \in 1..n : l[i] \in people
    BY DEF Sorted
  <2>2. \A u \in people : \E i \in 1..n : l[i] = u
    BY <1>8 DEF Surjection
  <2>. QED
    BY <2>1, <2>2 DEF Members
<1>10. people \in SUBSET Users
  BY DEF SoundRows, Row
<1>11. n <= Cardinality(Users)
  BY <1>3, <1>10, UsersAssumption, FS_Subset
<1>. QED
  BY <1>1, <1>5, <1>9, <1>11

LEMMA SortedIndices ==
  ASSUME NEW here, SoundRows(here), NEW p, \A b \in here : b.pos = p,
         NEW l, Sorted(l, here), NEW i \in 1..Cardinality(here), NEW b \in here, b.user = l[i]
  PROVE  CastOf(here)[b.user] = i - 1
<1>. DEFINE n == Cardinality(here)
            row(u) == CHOOSE c \in here : c.user = u
            g == [j \in 1..(i - 1) |-> row(l[j])]
<1>1. /\ n \in Nat
      /\ Members(l) = {c.user : c \in here}
      /\ \A j, k \in 1..n : l[j] = l[k] => j = k
  BY SortedOnce
<1>2. ASSUME NEW j \in 1..n PROVE row(l[j]) \in here /\ row(l[j]).user = l[j]
  <2>1. \E c \in here : c.user = l[j]
    BY <1>2 DEF Sorted
  <2>. QED
    BY <2>1
<1>3. ASSUME NEW j \in 1..n, NEW k \in 1..n, j < k PROVE row(l[j]).order < row(l[k]).order
  <2>1. PICK c \in here, d \in here : c.user = l[j] /\ d.user = l[k] /\ c.order < d.order
    BY <1>3 DEF Sorted
  <2>2. c = row(l[j]) /\ d = row(l[k])
    BY <1>2, <2>1 DEF SoundRows
  <2>. QED
    BY <2>1, <2>2
<1>4. b = row(l[i])
  BY <1>2 DEF SoundRows
<1>5. i \in Nat /\ i - 1 \in Nat /\ \A j \in 1..(i - 1) : j \in 1..n /\ j < i
  BY <1>1
<1>6. \A c \in here : c.order \in Nat
  BY DEF SoundRows, Row
<1>7. ASSUME NEW j \in 1..(i - 1) PROVE g[j] \in Before(here, b)
  BY <1>2, <1>3, <1>4, <1>5 DEF Before
<1>8. ASSUME NEW j \in 1..(i - 1), NEW k \in 1..(i - 1), g[j] = g[k] PROVE j = k
  <2>1. j \in 1..n /\ k \in 1..n
    BY <1>5
  <2>2. row(l[j]) = row(l[k])
    BY <1>8
  <2>3. l[j] = l[k]
    BY <1>2, <2>1, <2>2
  <2>. QED
    BY <1>1, <2>1, <2>3
<1>9. ASSUME NEW c \in Before(here, b) PROVE \E j \in 1..(i - 1) : g[j] = c
  <2>1. c \in here /\ c.order < b.order
    BY DEF Before
  <2>2. c.user \in Members(l)
    BY <1>1, <2>1
  <2>3. PICK k \in 1..n : l[k] = c.user
    BY <2>2 DEF Members, Sorted
  <2>4. row(l[k]) = c
    BY <1>2, <2>1, <2>3 DEF SoundRows
  <2>. HIDE DEF row
  <2>5. k # i /\ ~(i < k)
    BY <1>3, <1>4, <1>6, <2>1, <2>3, <2>4
  <2>6. k \in 1..(i - 1)
    BY <1>1, <1>5, <2>5
  <2>7. g[k] = row(l[k])
    BY <2>6
  <2>. QED
    BY <2>4, <2>6, <2>7
<1>10. g \in Bijection(1..(i - 1), Before(here, b))
  <2>1. g \in [1..(i - 1) -> Before(here, b)]
    BY <1>7
  <2>. QED
    BY <2>1, <1>8, <1>9 DEF Bijection, Injection, IsInjective, Surjection
<1>11. IsFiniteSet(1..(i - 1)) /\ Cardinality(1..(i - 1)) = i - 1
  BY <1>5, FS_Interval
<1>12. Cardinality(Before(here, b)) = i - 1
  BY <1>10, <1>11, FS_Bijection DEF ExistsBijection
<1>. QED
  BY <1>12, IndexOfRow

LEMMA SortedIsCast ==
  ASSUME NEW here, SoundRows(here), NEW p, \A b \in here : b.pos = p, NEW l, Sorted(l, here)
  PROVE  AsCast(l) = CastOf(here) /\ l # Omitted /\ l \in Lists
<1>1. /\ Cardinality(here) \in Nat
      /\ Members(l) = {b.user : b \in here}
      /\ \A i, j \in 1..Cardinality(here) : l[i] = l[j] => i = j
      /\ Cardinality(here) <= Cardinality(Users)
  BY SortedOnce
<1>2. DOMAIN l = 1..Cardinality(here)
  BY DEF Sorted
<1>3. ASSUME NEW u \in Members(l)
      PROVE  (CHOOSE i \in DOMAIN l : l[i] = u) - 1 = CastOf(here)[u]
  <2>1. PICK b \in here : b.user = u
    BY <1>1
  <2>2. \E i \in DOMAIN l : l[i] = u
    BY DEF Members
  <2>3. PICK i \in DOMAIN l : i = CHOOSE j \in DOMAIN l : l[j] = u
    BY <2>2
  <2>4. l[i] = u
    BY <2>2, <2>3
  <2>5. i \in 1..Cardinality(here) /\ b.user = l[i]
    BY <1>2, <2>1, <2>4
  <2>6. CastOf(here)[b.user] = i - 1
    BY <2>5, SortedIndices
  <2>. QED
    BY <2>1, <2>3, <2>6
<1>4. AsCast(l) = CastOf(here)
  <2>1. CastOf(here) = [u \in Members(l) |-> CastOf(here)[u]]
    BY <1>1 DEF CastOf
  <2>2. AsCast(l) = [u \in Members(l) |-> CastOf(here)[u]]
    BY <1>3 DEF AsCast
  <2>. QED
    BY <2>1, <2>2
<1>5. l \in Lists
  <2>1. Cardinality(Users) \in Nat
    BY UsersAssumption, FS_CardinalityType
  <2>2. Cardinality(here) \in 0..Cardinality(Users)
    BY <1>1, <2>1
  <2>3. l \in [1..Cardinality(here) -> Users]
    BY DEF Sorted, SoundRows, Row
  <2>4. IsList(l)
    BY <1>1, <1>2 DEF IsList
  <2>. QED
    BY <2>2, <2>3, <2>4 DEF Lists
<1>. QED
  BY <1>4, <1>5, OmittedAssumption

\* What the SELECT of a position's rows returns.
LEMMA InOrderIs ==
  ASSUME NEW here, SoundRows(here), NEW p, \A b \in here : b.pos = p
  PROVE  /\ AsCast(InOrder(here)) = CastOf(here)
         /\ InOrder(here) # Omitted /\ InOrder(here) \in Lists
BY InOrderIsSorted, SortedIsCast

-----------------------------------------------------------------------------
(* The rows after some positions of a loop have been visited.              *)

Looped(base, casts, visited) ==
  (UNION {{b \in RowsFor(p, casts[p]) : \A q \in visited : q > p => b.user \notin DOMAIN casts[q]} :
            p \in visited})
    \cup {b \in base : b.pos \notin visited /\ \A q \in visited : b.user \notin DOMAIN casts[q]}

LEMMA LoopedIs ==
  ASSUME NEW base, NEW casts, NEW visited, NEW b
  PROVE  b \in Looped(base, casts, visited) <=>
           \/ \E p \in visited : /\ b \in RowsFor(p, casts[p])
                                 /\ \A q \in visited : q > p => b.user \notin DOMAIN casts[q]
           \/ b \in base /\ b.pos \notin visited /\ \A q \in visited : b.user \notin DOMAIN casts[q]
BY DEF Looped

LEMMA RowsForIs ==
  ASSUME NEW p, NEW cast, NEW b \in RowsFor(p, cast)
  PROVE  b.pos = p /\ b.user \in DOMAIN cast
BY DEF RowsFor

\* A step of the loop visits the next position.
LEMMA LoopedNext ==
  ASSUME NEW base, NEW casts, NEW visited \in SUBSET Positions, NEW p \in Positions,
         \A v \in visited : v < p
  PROVE  {b \in Looped(base, casts, visited) : b.pos # p /\ b.user \notin DOMAIN casts[p]}
           \cup RowsFor(p, casts[p]) = Looped(base, casts, visited \cup {p})
<1>. DEFINE before == Looped(base, casts, visited)
            after == Looped(base, casts, visited \cup {p})
<1>0. Positions \subseteq Nat
  BY PositionsAssumption DEF Positions
<1>1. ASSUME NEW b \in RowsFor(p, casts[p]) PROVE b \in after
  <2>1. \A q \in visited \cup {p} : ~(q > p)
    BY <1>0
  <2>. QED
    BY <2>1, LoopedIs
<1>2. ASSUME NEW b \in before, b.pos # p, b.user \notin DOMAIN casts[p] PROVE b \in after
  <2>1. CASE \E r \in visited : /\ b \in RowsFor(r, casts[r])
                                /\ \A q \in visited : q > r => b.user \notin DOMAIN casts[q]
    BY <1>2, <2>1, LoopedIs
  <2>2. CASE b \in base /\ b.pos \notin visited /\ \A q \in visited : b.user \notin DOMAIN casts[q]
    BY <1>2, <2>2, LoopedIs
  <2>. QED
    BY <2>1, <2>2, LoopedIs
<1>3. ASSUME NEW b \in after
      PROVE  \/ b \in RowsFor(p, casts[p])
             \/ b \in before /\ b.pos # p /\ b.user \notin DOMAIN casts[p]
  <2>1. CASE \E r \in visited \cup {p} :
               /\ b \in RowsFor(r, casts[r])
               /\ \A q \in visited \cup {p} : q > r => b.user \notin DOMAIN casts[q]
    <3>1. PICK r \in visited \cup {p} :
               /\ b \in RowsFor(r, casts[r])
               /\ \A q \in visited \cup {p} : q > r => b.user \notin DOMAIN casts[q]
      BY <2>1
    <3>2. CASE r # p
      <4>1. r \in visited /\ r < p /\ p > r
        BY <1>0, <3>2
      <4>2. b.pos = r
        BY <3>1, RowsForIs
      <4>. QED
        BY <3>1, <3>2, <4>1, <4>2, LoopedIs
    <3>. QED
      BY <3>1, <3>2
  <2>2. CASE b \in base /\ b.pos \notin visited \cup {p}
               /\ \A q \in visited \cup {p} : b.user \notin DOMAIN casts[q]
    BY <2>2, LoopedIs
  <2>. QED
    BY <2>1, <2>2, LoopedIs
<1>. HIDE DEF before, after
<1>4. {b \in before : b.pos # p /\ b.user \notin DOMAIN casts[p]} \cup RowsFor(p, casts[p]) = after
  BY <1>1, <1>2, <1>3
<1>. QED
  BY <1>4 DEF before, after

LEMMA LoopedNone ==
  ASSUME NEW base, NEW casts
  PROVE  Looped(base, casts, {}) = base
BY DEF Looped

LEMMA LoopedAll ==
  ASSUME NEW base, NEW casts, NEW s
  PROVE  Looped(base, casts, InSetup(s)) = RowsAfterSave(base, s, casts)
BY DEF Looped, RowsAfterSave, PlacedAt

-----------------------------------------------------------------------------
(* The invariant of the loops.                                             *)

SoundGiven ==
  /\ given.kind \in {"save", "update", "cancel"}
  /\ SoundRows(given.rows)
  /\ \A b \in given.rows : b.pos \in InSetup(given.setup)
  /\ given.kind # "update" => given.newSetup = given.setup
  /\ given.kind = "save" => given.payload \in [Positions -> Lists \cup {Omitted}]

LoopCasts ==
  [p \in Positions |-> IF lists[p] = Omitted THEN EmptyCast ELSE AsCast(lists[p])]

\* The rows the loop over the remaining positions starts from.
Base ==
  IF given.kind = "update" THEN {b \in given.rows : b.pos \in InSetup(given.newSetup)}
  ELSE given.rows

ListsHeld ==
  IF given.kind = "save" THEN lists = given.payload
  ELSE \A p \in Positions : lists[p] # Omitted /\ AsCast(lists[p]) = CastOf(RowsAt(Base, p))

LoopInv ==
  /\ SoundGiven
  /\ step \in {"start", "purge", "loop", "done"}
  /\ step = "start" => flushed = given.rows
  /\ step = "purge" =>
       /\ given.kind = "update"
       /\ left \subseteq InSetup(given.setup) \ InSetup(given.newSetup)
       /\ flushed = {b \in given.rows : b.pos \in InSetup(given.newSetup) \cup left}
  /\ step = "loop" =>
       /\ given.kind \in {"save", "update"}
       /\ ListsHeld
       /\ left \subseteq InSetup(given.newSetup)
       /\ \A v \in InSetup(given.newSetup) \ left, q \in left : v < q
       /\ flushed = Looped(Base, LoopCasts, InSetup(given.newSetup) \ left)
  /\ step = "done" => flushed = ClosedRows

LEMMA PossibleRowsSound ==
  ASSUME NEW s, NEW r \in PossibleRows(s)
  PROVE  SoundRows(r) /\ \A b \in r : b.pos \in InSetup(s)
<1>1. PICK S \in SUBSET Users :
        \E place \in [S -> InSetup(s) \X (0..(Cardinality(Users) - 1))] :
          r = {[user |-> u, pos |-> place[u][1], order |-> place[u][2]] : u \in DOMAIN place}
  BY DEF PossibleRows
<1>2. PICK place \in [S -> InSetup(s) \X (0..(Cardinality(Users) - 1))] :
          r = {[user |-> u, pos |-> place[u][1], order |-> place[u][2]] : u \in DOMAIN place}
  BY <1>1
<1>3. Cardinality(Users) \in Nat
  BY UsersAssumption, FS_CardinalityType
<1>4. \A u \in S : place[u][1] \in InSetup(s) /\ place[u][2] \in Nat
  BY <1>2, <1>3
<1>5. InSetup(s) \subseteq Positions
  BY DEF InSetup
<1>6. r \subseteq Row /\ \A b \in r : b.pos \in InSetup(s)
  BY <1>2, <1>4, <1>5 DEF Row
<1>7. \A b, c \in r : b.user = c.user => b = c
  BY <1>2
<1>8. \A b, c \in r : b.pos = c.pos /\ b.order = c.order => b = c
  BY DEF PossibleRows
<1>. QED
  BY <1>6, <1>7, <1>8 DEF SoundRows

LEMMA LoopInvInit ==
  ASSUME LoopInit
  PROVE  LoopInv
<1>1. PICK s \in LoopSetups : GivenSave(s) \/ GivenUpdate(s) \/ GivenCancel(s)
  BY DEF LoopInit
<1>2. SoundGiven
  <2>1. CASE GivenSave(s)
    BY <2>1, PossibleRowsSound DEF GivenSave, SoundGiven
  <2>2. CASE GivenUpdate(s)
    BY <2>2, PossibleRowsSound DEF GivenUpdate, SoundGiven
  <2>3. CASE GivenCancel(s)
    BY <2>3, PossibleRowsSound DEF GivenCancel, SoundGiven
  <2>. QED
    BY <1>1, <2>1, <2>2, <2>3
<1>. QED
  BY <1>2 DEF LoopInit, LoopInv

\* What one call of _save_cast_item does to the rows.
LEMMA SaveIs ==
  ASSUME NEW p, NEW new, NEW quantity, NEW oldQuantity, SaveCastItem(p, new, quantity, oldQuantity),
         NEW cast, cast = IF new = Omitted THEN EmptyCast ELSE AsCast(new)
  PROVE  flushed' = {b \in flushed : b.pos # p /\ b.user \notin DOMAIN cast} \cup RowsFor(p, cast)
<1>1. CASE new = Omitted
  <2>1. flushed' = {b \in flushed : b.pos # p}
    BY <1>1 DEF SaveCastItem
  <2>2. DOMAIN cast = {} /\ RowsFor(p, cast) = {}
    BY <1>1 DEF EmptyCast, RowsFor
  <2>. QED
    BY <2>1, <2>2
<1>2. CASE new # Omitted
  <2>1. DOMAIN cast = Members(new)
    BY <1>2 DEF AsCast
  <2>. QED
    BY <1>2, <2>1 DEF SaveCastItem
<1>. QED
  BY <1>1, <1>2

LEMMA RowsAtSound ==
  ASSUME NEW rows, SoundRows(rows), NEW p, NEW sub \in SUBSET RowsAt(rows, p)
  PROVE  SoundRows(sub) /\ \A b \in sub : b.pos = p
BY SoundSubset DEF RowsAt

LEMMA BaseSound ==
  ASSUME SoundGiven
  PROVE  Base \in SUBSET given.rows /\ SoundRows(Base)
BY SoundSubset DEF SoundGiven, Base

LEMMA PurgeRemovedKeeps ==
  ASSUME LoopInv, NEW p \in Positions, PurgeRemoved(p)
  PROVE  LoopInv'
<1>1. /\ step = "purge" /\ p \in left /\ left' = left \ {p} /\ UNCHANGED <<given, step, lists>>
      /\ SaveCastItem(p, Omitted, given.newSetup[p], Omitted)
  BY DEF PurgeRemoved
<1>2. flushed' = {b \in flushed : b.pos # p}
  BY <1>1 DEF SaveCastItem
<1>3. /\ given.kind = "update"
      /\ left \subseteq InSetup(given.setup) \ InSetup(given.newSetup)
      /\ flushed = {b \in given.rows : b.pos \in InSetup(given.newSetup) \cup left}
  BY <1>1 DEF LoopInv
<1>4. flushed' = {b \in given.rows : b.pos \in InSetup(given.newSetup) \cup left'}
  BY <1>1, <1>2, <1>3
<1>5. SoundGiven'
  BY <1>1 DEF LoopInv, SoundGiven
<1>. QED
  BY <1>1, <1>3, <1>4, <1>5 DEF LoopInv

LEMMA ReadCurrentCastKeeps ==
  ASSUME LoopInv, ReadCurrentCast
  PROVE  LoopInv'
<1>1. /\ step = "purge" /\ left = {} /\ step' = "loop" /\ UNCHANGED <<given, flushed>>
      /\ lists' = [p \in Positions |-> Select(p)]
      /\ left' = InSetup(given.newSetup)
  BY DEF ReadCurrentCast
<1>2. given.kind = "update" /\ flushed = Base /\ Base' = Base
  BY <1>1 DEF LoopInv, Base
<1>3. ASSUME NEW p \in Positions
      PROVE  lists'[p] # Omitted /\ AsCast(lists'[p]) = CastOf(RowsAt(Base, p))
  <2>1. SoundRows(RowsAt(Base, p)) /\ \A b \in RowsAt(Base, p) : b.pos = p
    BY BaseSound, RowsAtSound DEF LoopInv
  <2>2. lists'[p] = InOrder(RowsAt(Base, p))
    BY <1>1, <1>2 DEF Select
  <2>. QED
    BY <2>1, <2>2, InOrderIs
<1>4. ListsHeld'
  BY <1>1, <1>2, <1>3 DEF ListsHeld
<1>5. flushed' = Looped(Base', LoopCasts', InSetup(given'.newSetup) \ left')
  BY <1>1, <1>2, LoopedNone
<1>6. SoundGiven'
  BY <1>1 DEF LoopInv, SoundGiven
<1>. QED
  BY <1>1, <1>2, <1>4, <1>5, <1>6 DEF LoopInv

LEMMA StartKeeps ==
  ASSUME LoopInv, StartSave \/ StartUpdate
  PROVE  LoopInv'
<1>1. CASE StartSave
  <2>1. /\ given.kind = "save" /\ step' = "loop" /\ UNCHANGED <<given, flushed>>
        /\ lists' = given.payload /\ left' = InSetup(given.setup)
        /\ flushed = given.rows /\ given.newSetup = given.setup
    BY <1>1 DEF StartSave, LoopInv, SoundGiven
  <2>2. flushed' = Looped(Base', LoopCasts', InSetup(given'.newSetup) \ left')
    BY <2>1, LoopedNone DEF Base
  <2>3. ListsHeld'
    BY <2>1 DEF ListsHeld
  <2>4. SoundGiven'
    BY <2>1 DEF LoopInv, SoundGiven
  <2>. QED
    BY <2>1, <2>2, <2>3, <2>4 DEF LoopInv
<1>2. CASE StartUpdate
  <2>1. /\ given.kind = "update" /\ step' = "purge" /\ UNCHANGED <<given, flushed>>
        /\ left' = InSetup(given.setup) \ InSetup(given.newSetup)
        /\ flushed = given.rows
    BY <1>2 DEF StartUpdate, LoopInv
  <2>2. flushed' = {b \in given.rows : b.pos \in InSetup(given.newSetup) \cup left'}
    BY <2>1 DEF LoopInv, SoundGiven
  <2>3. SoundGiven'
    BY <2>1 DEF LoopInv, SoundGiven
  <2>. QED
    BY <2>1, <2>2, <2>3 DEF LoopInv
<1>. QED
  BY <1>1, <1>2

LEMMA VisitNextKeeps ==
  ASSUME LoopInv, VisitNext
  PROVE  LoopInv'
<1>. DEFINE all == InSetup(given.newSetup)
            visited == all \ left
<1>1. PICK p \in left :
        /\ \A q \in left : p <= q
        /\ \E oldQuantity : SaveCastItem(p, lists[p], given.newSetup[p], oldQuantity)
        /\ left' = left \ {p}
  BY DEF VisitNext
<1>2. step = "loop" /\ UNCHANGED <<given, step, lists>>
  BY DEF VisitNext
<1>3. /\ given.kind \in {"save", "update"}
      /\ ListsHeld
      /\ left \subseteq all
      /\ \A v \in visited, q \in left : v < q
      /\ flushed = Looped(Base, LoopCasts, visited)
  BY <1>2 DEF LoopInv
<1>4. all \subseteq Positions /\ Positions \subseteq Nat /\ p \in Positions
  BY <1>3, PositionsAssumption DEF InSetup, Positions
<1>5. LoopCasts[p] = IF lists[p] = Omitted THEN EmptyCast ELSE AsCast(lists[p])
  BY <1>4 DEF LoopCasts
<1>6. flushed' = {b \in flushed : b.pos # p /\ b.user \notin DOMAIN LoopCasts[p]}
                   \cup RowsFor(p, LoopCasts[p])
  BY <1>1, <1>5, SaveIs
<1>7. flushed' = Looped(Base, LoopCasts, visited \cup {p})
  BY <1>1, <1>3, <1>4, <1>6, LoopedNext
<1>8. visited \cup {p} = all \ left'
  BY <1>1, <1>3
<1>9. \A v \in all \ left', q \in left' : v < q
  <2>1. \A q \in left' : q \in left /\ p < q
    BY <1>1, <1>3, <1>4
  <2>. QED
    BY <1>3, <1>8, <2>1
<1>10. Base' = Base /\ LoopCasts' = LoopCasts /\ ListsHeld'
  BY <1>2, <1>3 DEF Base, LoopCasts, ListsHeld
<1>11. SoundGiven'
  BY <1>2 DEF LoopInv, SoundGiven
<1>. QED
  BY <1>1, <1>2, <1>3, <1>7, <1>8, <1>9, <1>10, <1>11 DEF LoopInv

\* With one row per user the loop over the lists as they are is a rewriting.
LEMMA UpdateClosed ==
  ASSUME SoundGiven, given.kind = "update", ListsHeld
  PROVE  Looped(Base, LoopCasts, InSetup(given.newSetup)) = ClosedRows
<1>. DEFINE all == InSetup(given.newSetup)
            at(p) == RowsAt(given.rows, p)
<1>1. all \subseteq Positions /\ InSetup(given.setup) \subseteq Positions
  BY DEF InSetup
<1>2. Base = {b \in given.rows : b.pos \in all}
  BY DEF Base
<1>3. ASSUME NEW p \in all
      PROVE  LoopCasts[p] = CastOf(at(p)) /\ DOMAIN LoopCasts[p] = {b.user : b \in at(p)}
  <2>1. lists[p] # Omitted /\ AsCast(lists[p]) = CastOf(RowsAt(Base, p))
    BY <1>1 DEF ListsHeld
  <2>2. RowsAt(Base, p) = at(p)
    BY <1>2 DEF RowsAt
  <2>3. LoopCasts[p] = CastOf(at(p))
    BY <1>1, <2>1, <2>2 DEF LoopCasts
  <2>. QED
    BY <2>3 DEF CastOf
<1>4. \A b, c \in given.rows : b.user = c.user => b = c
  BY DEF SoundGiven, SoundRows
<1>5. ASSUME NEW p \in all, NEW q \in all, NEW b \in RowsFor(p, LoopCasts[p]), q # p
      PROVE  b.user \notin DOMAIN LoopCasts[q]
  <2>1. b.user \in {c.user : c \in at(p)}
    BY <1>3, RowsForIs
  <2>2. \A c \in at(p), d \in at(q) : c.user # d.user
    BY <1>4, <1>5 DEF RowsAt
  <2>. HIDE DEF at
  <2>3. b.user \notin {d.user : d \in at(q)}
    BY <2>1, <2>2
  <2>. QED
    BY <1>3, <2>3
<1>6. ASSUME NEW b
      PROVE  b \in Looped(Base, LoopCasts, all) <=> \E p \in all : b \in RowsFor(p, LoopCasts[p])
  <2>1. ASSUME NEW p \in all, b \in RowsFor(p, LoopCasts[p])
        PROVE  \A q \in all : q > p => b.user \notin DOMAIN LoopCasts[q]
    <3>1. ASSUME NEW q \in all, q > p PROVE q # p
      BY <1>1, <3>1, PositionsAssumption DEF Positions
    <3>. QED
      BY <1>5, <2>1, <3>1
  <2>2. ~(b \in Base /\ b.pos \notin all)
    BY <1>2
  <2>. QED
    BY <2>1, <2>2, LoopedIs
<1>7. ASSUME NEW p \in InSetup(given.setup)
      PROVE  NewCasts[p] = IF p \in all THEN CastOf(at(p)) ELSE EmptyCast
  BY <1>1 DEF NewCasts, OldCasts, VisitedCasts, CurrentCasts
<1>8. ClosedRows = {b \in given.rows : b.pos \notin InSetup(given.setup)}
                     \cup (UNION {RowsFor(p, NewCasts[p]) : p \in InSetup(given.setup)})
  BY DEF ClosedRows, Rewritten
<1>9. ASSUME NEW b
      PROVE  b \in ClosedRows <=> \E p \in InSetup(given.setup) : b \in RowsFor(p, NewCasts[p])
  BY <1>8 DEF SoundGiven
<1>10. ASSUME NEW p \in all, p \notin InSetup(given.setup) PROVE RowsFor(p, LoopCasts[p]) = {}
  <2>1. at(p) = {}
    BY <1>10 DEF RowsAt, SoundGiven
  <2>. QED
    BY <1>3, <2>1 DEF RowsFor
<1>11. ASSUME NEW p \in InSetup(given.setup), p \notin all PROVE RowsFor(p, NewCasts[p]) = {}
  BY <1>7, <1>11 DEF RowsFor, EmptyCast
<1>12. ASSUME NEW p \in InSetup(given.setup), p \in all PROVE NewCasts[p] = LoopCasts[p]
  BY <1>3, <1>7, <1>12
<1>. HIDE DEF at, all
<1>13. \A b : b \in Looped(Base, LoopCasts, all) <=> b \in ClosedRows
  BY <1>6, <1>9, <1>10, <1>11, <1>12
<1>14. Looped(Base, LoopCasts, all) = ClosedRows
  BY <1>13
<1>. QED
  BY <1>14 DEF all

LEMMA EndLoopKeeps ==
  ASSUME LoopInv, EndLoop
  PROVE  LoopInv'
<1>1. step = "loop" /\ left = {} /\ step' = "done" /\ UNCHANGED <<given, flushed, lists>>
  BY DEF EndLoop
<1>2. /\ given.kind \in {"save", "update"} /\ SoundGiven /\ ListsHeld
      /\ flushed = Looped(Base, LoopCasts, InSetup(given.newSetup))
  BY <1>1 DEF LoopInv
<1>3. CASE given.kind = "save"
  <2>1. Base = given.rows /\ given.newSetup = given.setup
    BY <1>2, <1>3 DEF Base, SoundGiven
  <2>2. LoopCasts = PayloadCasts
    BY <1>2, <1>3 DEF ListsHeld, LoopCasts, PayloadCasts
  <2>3. flushed = ClosedRows
    BY <1>2, <1>3, <2>1, <2>2, LoopedAll DEF ClosedRows
  <2>. QED
    BY <1>1, <1>2, <2>3 DEF LoopInv, SoundGiven, ClosedRows, NewCasts, OldCasts, PayloadCasts
<1>4. CASE given.kind = "update"
  <2>1. flushed = ClosedRows
    BY <1>2, <1>4, UpdateClosed
  <2>. QED
    BY <1>1, <1>2, <2>1 DEF LoopInv, SoundGiven, ClosedRows, NewCasts, OldCasts, PayloadCasts
<1>. QED
  BY <1>2, <1>3, <1>4

LEMMA CancelKeepsLoop ==
  ASSUME LoopInv, Cancel
  PROVE  LoopInv'
<1>1. step = "start" /\ given.kind = "cancel" /\ step' = "done" /\ UNCHANGED given
  BY DEF Cancel
<1>2. SoundGiven /\ flushed = given.rows
  BY <1>1 DEF LoopInv
<1>3. PICK b \in flushed :
        /\ b.user = given.user
        /\ SaveCastItem(b.pos, InOrder(RowsAt(flushed, b.pos) \ {b}), given.setup[b.pos], Omitted)
  BY DEF Cancel
<1>. DEFINE rest == RowsAt(flushed, b.pos) \ {b}
<1>4. \A c, d \in given.rows : c.user = d.user => c = d
  BY <1>2 DEF SoundGiven, SoundRows
<1>5. SoundRows(rest) /\ \A c \in rest : c.pos = b.pos
  BY <1>2, RowsAtSound DEF SoundGiven
<1>6. AsCast(InOrder(rest)) = CastOf(rest) /\ InOrder(rest) # Omitted
  BY <1>5, InOrderIs
<1>7. DOMAIN CastOf(rest) = {c.user : c \in rest}
  BY DEF CastOf
<1>8. flushed' = {c \in flushed : c.pos # b.pos /\ c.user \notin DOMAIN CastOf(rest)}
                   \cup RowsFor(b.pos, CastOf(rest))
  BY <1>3, <1>6, SaveIs
<1>9. {c \in flushed : c.pos # b.pos /\ c.user \notin DOMAIN CastOf(rest)}
        = {c \in flushed : c.pos # b.pos}
  BY <1>2, <1>4, <1>7 DEF RowsAt
<1>10. PositionsOf(given.rows, given.user) = {b.pos}
  <2>1. b.pos \in Positions
    BY <1>2, <1>3 DEF SoundGiven, SoundRows, Row
  <2>. QED
    BY <1>2, <1>3, <1>4, <2>1 DEF PositionsOf
<1>11. NewCasts[b.pos] = CastOf(rest)
  <2>1. b.pos \in Positions
    BY <1>2, <1>3 DEF SoundGiven, SoundRows, Row
  <2>2. {c \in RowsAt(given.rows, b.pos) : c.user # given.user} = rest
    BY <1>2, <1>3, <1>4 DEF RowsAt
  <2>. QED
    BY <1>1, <2>1, <2>2 DEF NewCasts, WithoutUser
<1>12. flushed' = ClosedRows
  <2>1. ClosedRows = Rewritten(given.rows, {b.pos}, NewCasts)
    BY <1>1, <1>10 DEF ClosedRows
  <2>. HIDE DEF rest
  <2>. QED
    BY <1>2, <1>8, <1>9, <1>11, <2>1 DEF Rewritten
<1>13. ClosedRows' = ClosedRows /\ SoundGiven'
  BY <1>1, <1>2 DEF SoundGiven, ClosedRows, NewCasts, OldCasts, PayloadCasts
<1>. QED
  BY <1>1, <1>12, <1>13 DEF LoopInv

LEMMA LoopInvNext ==
  ASSUME LoopInv, [LoopNext]_loopVars
  PROVE  LoopInv'
<1>1. ASSUME UNCHANGED loopVars PROVE LoopInv'
  BY <1>1 DEF loopVars, LoopInv, SoundGiven, ClosedRows, NewCasts, OldCasts, PayloadCasts,
     ListsHeld, Base, LoopCasts
<1>. QED
  BY <1>1, PurgeRemovedKeeps, ReadCurrentCastKeeps, StartKeeps, VisitNextKeeps, EndLoopKeeps,
     CancelKeepsLoop DEF LoopNext, Finished

\* Whatever a call is given, it leaves one row per user.
LEMMA SaveUnique ==
  ASSUME EveryFlushUnique, NEW p, NEW new, NEW quantity, NEW oldQuantity,
         SaveCastItem(p, new, quantity, oldQuantity)
  PROVE  EveryFlushUnique'
<1>. DEFINE cast == IF new = Omitted THEN EmptyCast ELSE AsCast(new)
<1>1. flushed' = {b \in flushed : b.pos # p /\ b.user \notin DOMAIN cast} \cup RowsFor(p, cast)
  BY SaveIs
<1>. HIDE DEF cast
<1>. QED
  BY <1>1 DEF EveryFlushUnique, RowsFor

LEMMA UniqueNext ==
  ASSUME EveryFlushUnique, [LoopNext]_loopVars
  PROVE  EveryFlushUnique'
<1>1. ASSUME UNCHANGED flushed PROVE EveryFlushUnique'
  BY <1>1 DEF EveryFlushUnique
<1>. QED
  BY <1>1, SaveUnique DEF LoopNext, loopVars, StartSave, StartUpdate, PurgeRemoved, ReadCurrentCast,
     VisitNext, EndLoop, Cancel, Finished

\* One row per user at every flush, and the rows CastEngine states at the end:
\* the closed forms of _apply_cast, reconcile_setup_change and
\* cancel_auth_user_booking that Casting is written with are what the loops do.
THEOREM LoopIsClosedForm == LoopSpec => []LoopRows
<1>1. LoopInit => LoopInv /\ EveryFlushUnique
  BY LoopInvInit DEF LoopInit, LoopInv, SoundGiven, SoundRows, EveryFlushUnique
<1>2. LoopInv /\ EveryFlushUnique /\ [LoopNext]_loopVars => LoopInv' /\ EveryFlushUnique'
  BY LoopInvNext, UniqueNext
<1>3. LoopInv /\ EveryFlushUnique => LoopRows
  BY DEF LoopInv, LoopRows, RowsAsStated
<1>. QED
  BY <1>1, <1>2, <1>3, PTL DEF LoopSpec

-----------------------------------------------------------------------------
(* The log entries the loops insert, call by call.  A call's entries are   *)
(* sequences; what is needed of them is who they name, and that a later    *)
(* call's come after an earlier one's.                                     *)

\* A finite set of numbers listed in their order.
InTurn(h, n, S) == h \in [1..n -> S] /\ \A j, k \in 1..n : j < k => h[j] < h[k]

LEMMA InTurnOnto ==
  ASSUME NEW S, IsFiniteSet(S), \A i \in S : i \in Int,
         NEW h, InTurn(h, Cardinality(S), S)
  PROVE  /\ Cardinality(S) \in Nat
         /\ \A i \in S : \E k \in 1..Cardinality(S) : h[k] = i
<1>. DEFINE n == Cardinality(S)
<1>1. IsFiniteSet(S) /\ n \in Nat
  BY FS_CardinalityType
<1>2. \A j, k \in 1..n : h[j] = h[k] => j = k
  <2>1. \A k \in 1..n : h[k] \in Int
    <3>1. \A i \in S : i \in Int
      OBVIOUS
    <3>2. h \in [1..n -> S]
      BY DEF InTurn
    <3>. QED
      BY <3>1, <3>2
  <2>2. \A j, k \in 1..n : j < k => h[j] < h[k]
    BY DEF InTurn
  <2>. QED
    BY <1>1, <2>1, <2>2
<1>3. h \in Injection(1..n, S)
  BY <1>2 DEF InTurn, Injection, IsInjective
<1>4. Cardinality(1..n) = n /\ IsFiniteSet(1..n)
  BY <1>1, FS_Interval
<1>5. h \in Surjection(1..n, S)
  BY <1>1, <1>3, <1>4, FS_Injection
<1>. QED
  BY <1>1, <1>5 DEF Surjection

LEMMA InTurnExists ==
  ASSUME NEW S, IsFiniteSet(S), \A i \in S : i \in Int
  PROVE  \E h \in [1..Cardinality(S) -> S] :
           \A j, k \in 1..Cardinality(S) : j < k => h[j] < h[k]
<1>. DEFINE n == Cardinality(S)
            below(i) == {j \in S : j < i}
            f == [i \in S |-> Cardinality(below(i))]
<1>1. IsFiniteSet(S) /\ n \in Nat
  BY FS_CardinalityType
<1>2. ASSUME NEW i \in S, NEW j \in S, i < j PROVE f[i] < f[j]
  <2>1. below(i) \in SUBSET below(j) /\ i \in below(j) /\ i \notin below(i)
    <3>1. i \in Int /\ j \in Int /\ \A k \in S : k \in Int
      OBVIOUS
    <3>2. \A k \in S : k < i => k < j
      BY <1>2, <3>1
    <3>3. i \in below(j)
      BY <1>2
    <3>4. ~(i < i)
      BY <3>1
    <3>5. i \notin below(i)
      BY <3>4
    <3>6. below(i) \in SUBSET below(j)
      BY <3>2
    <3>. QED
      BY <3>3, <3>5, <3>6
  <2>2. IsFiniteSet(below(j))
    BY <1>1, FS_Subset
  <2>. HIDE DEF below
  <2>3. Cardinality(below(i)) < Cardinality(below(j))
    <3>1. Cardinality(below(i)) <= Cardinality(below(j)) /\ IsFiniteSet(below(i))
      BY <2>1, <2>2, FS_Subset
    <3>2. Cardinality(below(i)) = Cardinality(below(j)) => below(i) = below(j)
      BY <2>1, <2>2, FS_Subset
    <3>. QED
      BY <2>1, <2>2, <3>1, <3>2, FS_CardinalityType
  <2>. QED
    BY <2>3
<1>3. ASSUME NEW i \in S PROVE f[i] \in 0..(n - 1)
  <2>1. below(i) \in SUBSET S /\ i \notin below(i)
    OBVIOUS
  <2>. HIDE DEF below
  <2>2. IsFiniteSet(below(i)) /\ Cardinality(below(i)) <= n /\ Cardinality(below(i)) # n
    BY <1>1, <2>1, FS_Subset
  <2>. QED
    BY <1>1, <2>2, FS_CardinalityType
<1>4. f \in Injection(S, 0..(n - 1))
  <2>1. f \in [S -> 0..(n - 1)]
    BY <1>3
  <2>2. ASSUME NEW i \in S, NEW j \in S, f[i] = f[j] PROVE i = j
    <3>1. f[i] \in Int /\ i \in Int /\ j \in Int
      BY <1>3
    <3>. HIDE DEF f
    <3>. QED
      BY <1>2, <2>2, <3>1
  <2>. QED
    BY <2>1, <2>2 DEF Injection, IsInjective
<1>5. IsFiniteSet(0..(n - 1)) /\ Cardinality(0..(n - 1)) = n
  BY <1>1, CountBelow
<1>6. f \in Surjection(S, 0..(n - 1))
  BY <1>1, <1>4, <1>5, FS_Injection
<1>. DEFINE h == [k \in 1..n |-> CHOOSE i \in S : f[i] = k - 1]
<1>. HIDE DEF f
<1>7. ASSUME NEW k \in 1..n PROVE h[k] \in S /\ f[h[k]] = k - 1
  <2>1. \E i \in S : f[i] = k - 1
    <3>1. k - 1 \in 0..(n - 1)
      BY <1>1
    <3>. QED
      BY <1>6, <3>1 DEF Surjection
  <2>. QED
    BY <2>1
<1>8. ASSUME NEW j \in 1..n, NEW k \in 1..n, j < k PROVE h[j] < h[k]
  <2>1. h[j] \in S /\ h[k] \in S /\ \A i \in S : i \in Int
    BY <1>7
  <2>. HIDE DEF h
  <2>2. f[h[j]] < f[h[k]]
    BY <1>7, <1>8, <1>1
  <2>3. h[k] < h[j] => f[h[k]] < f[h[j]]
    BY <1>2, <2>1
  <2>4. f[h[j]] \in Int /\ f[h[k]] \in Int
    BY <1>7, <1>1
  <2>. QED
    <3>1. h[j] # h[k]
      BY <2>2, <2>4
    <3>2. ~(h[k] < h[j])
      BY <2>2, <2>3, <2>4
    <3>3. \A a, b \in Int : a # b /\ ~(b < a) => a < b
      OBVIOUS
    <3>4. h[j] \in Int /\ h[k] \in Int
      BY <2>1
    <3>. QED
      BY <3>1, <3>2, <3>3, <3>4, Zenon
<1>9. h \in [1..n -> S]
  BY <1>7
<1>. QED
  BY <1>8, <1>9

\* What is logged of a list: an entry for every member that gets one.
Hits(m, types) == {i \in 1..m : types[i] # "none"}

LEMMA LoggedInTurn ==
  ASSUME NEW m \in Nat, NEW seq, DOMAIN seq = 1..m, NEW types, NEW p
  PROVE  \E h : /\ InTurn(h, Cardinality(Hits(m, types)), Hits(m, types))
                /\ Logged(seq, types, p) = [k \in 1..Cardinality(Hits(m, types)) |->
                                              Entry(seq[h[k]], types[h[k]], p)]
<1>. DEFINE hits == {i \in 1..m : types[i] # "none"}
            n == Cardinality(hits)
            P(g) == \A j, k \in 1..n : j < k => g[j] < g[k]
            h == CHOOSE g \in [1..n -> hits] : P(g)
<1>0. IsFiniteSet(hits) /\ \A i \in hits : i \in Int
  BY FS_Interval, FS_Subset
<1>1. \E g \in [1..n -> hits] : P(g)
  <2>. HIDE DEF hits
  <2>. QED
    BY <1>0, InTurnExists
<1>2. Logged(seq, types, p) = [k \in 1..n |-> Entry(seq[h[k]], types[h[k]], p)]
  BY DEF Logged
<1>3. h \in [1..n -> hits] /\ P(h)
  <2>. HIDE DEF n, hits, P
  <2>. QED
    BY <1>1
<1>4. hits = Hits(m, types) /\ InTurn(h, n, hits)
  BY <1>3 DEF InTurn, Hits
<1>. HIDE DEF hits, h
<1>. QED
  BY <1>2, <1>4

EntriesFor(l, m, seq, types, p, T) ==
  /\ l \in Seq(T)
  /\ \A k \in 1..Len(l) : \E i \in 1..m : types[i] # "none" /\ l[k] = Entry(seq[i], types[i], p)
  /\ \A i \in 1..m : types[i] # "none" => \E k \in 1..Len(l) : l[k] = Entry(seq[i], types[i], p)

LEMMA LoggedIs ==
  ASSUME NEW m \in Nat, NEW seq, DOMAIN seq = 1..m, NEW types, NEW p,
         NEW T, \A i \in 1..m : types[i] # "none" => Entry(seq[i], types[i], p) \in T
  PROVE  EntriesFor(Logged(seq, types, p), m, seq, types, p, T)
<1>. DEFINE hits == Hits(m, types)
            n == Cardinality(hits)
            l == Logged(seq, types, p)
<1>1. PICK h : InTurn(h, n, hits) /\ l = [k \in 1..n |-> Entry(seq[h[k]], types[h[k]], p)]
  BY LoggedInTurn
<1>2. hits \in SUBSET (1..m) /\ \A i : i \in hits <=> i \in 1..m /\ types[i] # "none"
  BY DEF Hits
<1>3. n \in Nat /\ \A i \in hits : \E k \in 1..n : h[k] = i
  <2>1. IsFiniteSet(hits) /\ \A i \in hits : i \in Int
    BY <1>2, FS_Interval, FS_Subset
  <2>. HIDE DEF hits
  <2>. QED
    BY <1>1, <2>1, InTurnOnto
<1>4. \A k \in 1..n : h[k] \in 1..m /\ types[h[k]] # "none"
  BY <1>1, <1>2 DEF InTurn
<1>. HIDE DEF hits, n, l
<1>5. l \in [1..n -> T]
  BY <1>1, <1>4
<1>6. l \in Seq(T) /\ Len(l) = n
  BY <1>3, <1>5, IsASeq, LenProperties
<1>7. ASSUME NEW k \in 1..n PROVE \E i \in 1..m : types[i] # "none" /\ l[k] = Entry(seq[i], types[i], p)
  BY <1>1, <1>4
<1>8. ASSUME NEW i \in 1..m, types[i] # "none" PROVE \E k \in 1..n : l[k] = Entry(seq[i], types[i], p)
  <2>1. PICK k \in 1..n : h[k] = i
    BY <1>2, <1>3, <1>8
  <2>. QED
    BY <1>1, <2>1
<1>. QED
  BY <1>6, <1>7, <1>8 DEF l, EntriesFor

LEMMA ListIs ==
  ASSUME NEW l \in Lists
  PROVE  \E m \in Nat :
           /\ DOMAIN l = 1..m
           /\ \A i \in 1..m : l[i] \in Users /\ l[i] \in Members(l) /\ AsCast(l)[l[i]] = i - 1
           /\ \A u \in Members(l) : u \in Users /\ \E i \in 1..m : l[i] = u
           /\ DOMAIN AsCast(l) = Members(l)
<1>1. PICK m \in 0..Cardinality(Users) : l \in [1..m -> Users]
  BY DEF Lists
<1>2. m \in Nat
  BY <1>1, UsersAssumption, FS_CardinalityType
<1>3. \A i, j \in 1..m : l[i] = l[j] => i = j
  BY <1>1 DEF Lists, IsList
<1>4. DOMAIN AsCast(l) = Members(l)
  BY DEF AsCast
<1>5. ASSUME NEW i \in 1..m PROVE l[i] \in Members(l) /\ AsCast(l)[l[i]] = i - 1
  <2>1. l[i] \in Members(l)
    BY <1>1 DEF Members
  <2>2. (CHOOSE j \in DOMAIN l : l[j] = l[i]) = i
    BY <1>1, <1>3
  <2>. QED
    BY <2>1, <2>2 DEF AsCast
<1>6. \A u \in Members(l) : u \in Users /\ \E i \in 1..m : l[i] = u
  BY <1>1 DEF Members
<1>. QED
  BY <1>1, <1>2, <1>4, <1>5, <1>6

\* The entry a call about position p writes about u, if any.
Said(old, new, quantity, reference, u, t) ==
  \/ t = "book" /\ Books(old, new, quantity, reference, u)
  \/ t = "unbook" /\ Unbooks(old, new, quantity, reference, u)

LogEntry == [user : Users, type : LogTypes, pos : Positions]

\* The sequence d is what is written of a position whose list goes from old
\* to new.
Tells(d, old, new, quantity, reference, p) ==
  /\ d \in Seq(LogEntry)
  /\ \A k \in 1..Len(d) : \E u \in Users, t \in LogTypes :
       Said(old, new, quantity, reference, u, t) /\ d[k] = Entry(u, t, p)
  /\ \A u \in Users, t \in LogTypes :
       Said(old, new, quantity, reference, u, t) => \E k \in 1..Len(d) : d[k] = Entry(u, t, p)

LEMMA EntryIs ==
  ASSUME NEW u \in Users, NEW t \in LogTypes, NEW p \in Positions
  PROVE  /\ Entry(u, t, p) \in LogEntry
         /\ Entry(u, t, p).user = u /\ Entry(u, t, p).type = t /\ Entry(u, t, p).pos = p
BY DEF Entry, LogEntry

LEMMA ConcatIs ==
  ASSUME NEW S, NEW c \in Seq(S), NEW d \in Seq(S)
  PROVE  /\ c \o d \in Seq(S)
         /\ Len(c) \in Nat /\ Len(d) \in Nat /\ Len(c \o d) = Len(c) + Len(d)
         /\ \A k \in 1..Len(c) : (c \o d)[k] = c[k]
         /\ \A k \in 1..Len(d) : (c \o d)[Len(c) + k] = d[k]
         /\ \A k \in 1..Len(c \o d) : k \in 1..Len(c) \/ \E j \in 1..Len(d) : k = Len(c) + j
<1>1. /\ c \o d \in Seq(S)
      /\ Len(c) \in Nat /\ Len(d) \in Nat /\ Len(c \o d) = Len(c) + Len(d)
      /\ \A k \in 1..Len(c) : (c \o d)[k] = c[k]
      /\ \A k \in 1..Len(d) : (c \o d)[Len(c) + k] = d[k]
  BY ConcatProperties, LenProperties
<1>2. ASSUME NEW k \in 1..Len(c \o d), k \notin 1..Len(c) PROVE \E j \in 1..Len(d) : k = Len(c) + j
  <2>1. k - Len(c) \in 1..Len(d) /\ k = Len(c) + (k - Len(c))
    BY <1>1, <1>2
  <2>. QED
    BY <2>1
<1>. QED
  BY <1>1, <1>2

LEMMA DiffTells ==
  ASSUME NEW old \in Lists, NEW new \in Lists, NEW quantity \in Int,
         NEW oldQuantity \in Int \cup {Omitted}, NEW p \in Positions
  PROVE  Tells(DiffCastTransitions(old, new, quantity, oldQuantity, p), AsCast(old), AsCast(new),
               quantity, IF oldQuantity = Omitted THEN quantity ELSE oldQuantity, p)
<1>. DEFINE reference == IF oldQuantity = Omitted THEN quantity ELSE oldQuantity
            oldCast == AsCast(old)
            newCast == AsCast(new)
            OldIndex(u) == (CHOOSE i \in DOMAIN old : old[i] = u) - 1
            dropped == [i \in DOMAIN old |-> IF old[i] \notin Members(new) THEN "unbook" ELSE "none"]
            judged  == [i \in DOMAIN new |->
              IF new[i] \notin Members(old)
              THEN IF i - 1 < quantity THEN "book" ELSE "unbook"
              ELSE IF OldIndex(new[i]) < reference /\ i - 1 >= quantity THEN "unbook"
              ELSE IF ~(OldIndex(new[i]) < reference) /\ i - 1 < quantity THEN "book"
              ELSE "none"]
            first == Logged(old, dropped, p)
            second == Logged(new, judged, p)
<1>1. PICK m \in Nat :
           /\ DOMAIN old = 1..m
           /\ \A i \in 1..m : old[i] \in Users /\ old[i] \in Members(old) /\ oldCast[old[i]] = i - 1
           /\ \A u \in Members(old) : u \in Users /\ \E i \in 1..m : old[i] = u
           /\ DOMAIN oldCast = Members(old)
  BY ListIs
<1>2. PICK n \in Nat :
           /\ DOMAIN new = 1..n
           /\ \A i \in 1..n : new[i] \in Users /\ new[i] \in Members(new) /\ newCast[new[i]] = i - 1
           /\ \A u \in Members(new) : u \in Users /\ \E i \in 1..n : new[i] = u
           /\ DOMAIN newCast = Members(new)
  BY ListIs
<1>3. \A u \in Members(old) : OldIndex(u) = oldCast[u]
  BY DEF AsCast
<1>. HIDE DEF OldIndex, oldCast, newCast
<1>4. ASSUME NEW i \in 1..m
      PROVE  /\ dropped[i] \in LogTypes \cup {"none"}
             /\ \A t \in LogTypes : dropped[i] = t <=>
                  t = "unbook" /\ old[i] \notin DOMAIN newCast
  BY <1>1, <1>2 DEF LogTypes
<1>5. ASSUME NEW i \in 1..n
      PROVE  /\ judged[i] \in LogTypes \cup {"none"}
             /\ \A t \in LogTypes : judged[i] = t <=>
                  /\ Said(oldCast, newCast, quantity, reference, new[i], t)
  <2>1. judged[i] = 
              IF new[i] \notin DOMAIN oldCast
              THEN IF i - 1 < quantity THEN "book" ELSE "unbook"
              ELSE IF oldCast[new[i]] < reference /\ i - 1 >= quantity THEN "unbook"
              ELSE IF ~(oldCast[new[i]] < reference) /\ i - 1 < quantity THEN "book"
              ELSE "none"
    BY <1>1, <1>2, <1>3
  <2>. HIDE DEF judged, reference
  <2>2. new[i] \in DOMAIN newCast /\ newCast[new[i]] = i - 1
    BY <1>2
  <2>3. new[i] \in DOMAIN oldCast => oldCast[new[i]] \in Int
    BY <1>1
  <2>4. \A x, y \in Int : (x >= y) = ~(x < y)
    OBVIOUS
  <2>5. quantity \in Int /\ reference \in Int /\ i - 1 \in Int
    BY DEF reference
  <2>6. (i - 1 >= quantity) = ~(i - 1 < quantity)
    BY <2>4, <2>5
  <2>7. new[i] \in DOMAIN oldCast => (oldCast[new[i]] >= reference) = ~(oldCast[new[i]] < reference)
    BY <2>3, <2>4, <2>5
  <2>. QED
    BY <2>1, <2>2, <2>6, <2>7 DEF LogTypes, Said, Books, Unbooks
<1>. HIDE DEF dropped, judged, reference
<1>6. \A i \in 1..m : dropped[i] # "none" => Entry(old[i], dropped[i], p) \in LogEntry
  BY <1>1, <1>4, EntryIs
<1>7. \A i \in 1..n : judged[i] # "none" => Entry(new[i], judged[i], p) \in LogEntry
  BY <1>2, <1>5, EntryIs
<1>8. EntriesFor(first, m, old, dropped, p, LogEntry)
  <2>1. DOMAIN old = 1..m
    BY <1>1
  <2>. QED
    BY <2>1, <1>6, LoggedIs
<1>9. EntriesFor(second, n, new, judged, p, LogEntry)
  <2>1. DOMAIN new = 1..n
    BY <1>2
  <2>. QED
    BY <2>1, <1>7, LoggedIs
<1>. DEFINE d == first \o second
<1>10. DiffCastTransitions(old, new, quantity, oldQuantity, p) = d
  BY DEF DiffCastTransitions, reference, dropped, judged, OldIndex
<1>. HIDE DEF first, second
<1>11. /\ d \in Seq(LogEntry)
       /\ Len(first) \in Nat /\ Len(second) \in Nat /\ Len(d) = Len(first) + Len(second)
       /\ \A k \in 1..Len(first) : d[k] = first[k]
       /\ \A k \in 1..Len(second) : d[Len(first) + k] = second[k]
       /\ \A k \in 1..Len(d) : k \in 1..Len(first) \/ \E j \in 1..Len(second) : k = Len(first) + j
  BY <1>8, <1>9, ConcatIs DEF EntriesFor
<1>. HIDE DEF d
<1>12. ASSUME NEW k \in 1..Len(d)
       PROVE  \E u \in Users, t \in LogTypes :
                Said(oldCast, newCast, quantity, reference, u, t) /\ d[k] = Entry(u, t, p)
  <2>1. CASE k \in 1..Len(first)
    <3>1. PICK i \in 1..m : dropped[i] # "none" /\ d[k] = Entry(old[i], dropped[i], p)
      BY <1>8, <1>11, <2>1 DEF EntriesFor
    <3>2. /\ dropped[i] \in LogTypes /\ dropped[i] = "unbook"
          /\ old[i] \in Users /\ old[i] \in DOMAIN oldCast /\ old[i] \notin DOMAIN newCast
      BY <1>1, <1>4, <3>1
    <3>3. Said(oldCast, newCast, quantity, reference, old[i], dropped[i])
      BY <3>2 DEF Said, Unbooks
    <3>. QED
      BY <3>1, <3>2, <3>3
  <2>2. CASE \E j \in 1..Len(second) : k = Len(first) + j
    <3>1. PICK i \in 1..n : judged[i] # "none" /\ d[k] = Entry(new[i], judged[i], p)
      BY <1>9, <1>11, <2>2 DEF EntriesFor
    <3>2. /\ judged[i] \in LogTypes /\ new[i] \in Users
          /\ Said(oldCast, newCast, quantity, reference, new[i], judged[i])
      BY <1>2, <1>5, <3>1
    <3>. QED
      BY <3>1, <3>2
  <2>. QED
    BY <1>11, <2>1, <2>2
<1>13. ASSUME NEW u \in Users, NEW t \in LogTypes,
              Said(oldCast, newCast, quantity, reference, u, t)
       PROVE  \E k \in 1..Len(d) : d[k] = Entry(u, t, p)
  <2>1. CASE u \in DOMAIN oldCast /\ u \notin DOMAIN newCast
    <3>1. t = "unbook"
      BY <1>13, <2>1 DEF Said, Books
    <3>2. PICK i \in 1..m : old[i] = u
      BY <1>1, <2>1
    <3>3. dropped[i] = t /\ t # "none"
      BY <1>4, <2>1, <3>1, <3>2
    <3>4. PICK k \in 1..Len(first) : first[k] = Entry(u, t, p)
      BY <1>8, <3>2, <3>3 DEF EntriesFor
    <3>5. k \in 1..Len(d) /\ d[k] = first[k]
      BY <1>11
    <3>. QED
      BY <3>4, <3>5
  <2>2. CASE ~(u \in DOMAIN oldCast /\ u \notin DOMAIN newCast)
    <3>1. u \in DOMAIN newCast
      BY <1>13, <2>2 DEF Said, Books, Unbooks
    <3>2. PICK i \in 1..n : new[i] = u
      BY <1>2, <3>1
    <3>3. judged[i] = t /\ t # "none"
      BY <1>5, <1>13, <3>2 DEF LogTypes
    <3>4. PICK k \in 1..Len(second) : second[k] = Entry(u, t, p)
      BY <1>9, <3>2, <3>3 DEF EntriesFor
    <3>5. Len(first) + k \in 1..Len(d) /\ d[Len(first) + k] = second[k]
      BY <1>11
    <3>. QED
      BY <3>4, <3>5
  <2>. QED
    BY <2>1, <2>2
<1>. QED
  BY <1>10, <1>11, <1>12, <1>13 DEF Tells, reference, oldCast, newCast

\* A call writes what its two lists differ in.
LEMMA SaveTells ==
  ASSUME NEW p \in Positions, NEW new \in Lists \cup {Omitted}, NEW quantity \in Int,
         NEW oldQuantity \in Int \cup {Omitted}, SaveCastItem(p, new, quantity, oldQuantity),
         Select(p) \in Lists,
         NEW reference, oldQuantity # Omitted => reference = oldQuantity,
         oldQuantity = Omitted => reference = quantity,
         NEW cast, cast = IF new = Omitted THEN EmptyCast ELSE AsCast(new)
  PROVE  \E d : /\ entries' = entries \o d
                /\ Tells(d, AsCast(Select(p)), cast, quantity, reference, p)
<1>. DEFINE old == Select(p)
<1>1. CASE new # Omitted
  <2>1. entries' = entries \o DiffCastTransitions(old, new, quantity, oldQuantity, p)
    BY <1>1 DEF SaveCastItem
  <2>2. reference = IF oldQuantity = Omitted THEN quantity ELSE oldQuantity
    OBVIOUS
  <2>3. new \in Lists /\ cast = AsCast(new)
    BY <1>1
  <2>. HIDE DEF old
  <2>4. old \in Lists
    BY DEF old
  <2>5. Tells(DiffCastTransitions(old, new, quantity, oldQuantity, p), AsCast(old), cast,
              quantity, reference, p)
    BY <2>2, <2>3, <2>4, DiffTells
  <2>. QED
    BY <2>1, <2>5 DEF old
<1>2. CASE new = Omitted
  <2>. DEFINE all == [i \in DOMAIN old |-> "unbook"]
              d == Logged(old, all, p)
  <2>1. entries' = entries \o d
    BY <1>2 DEF SaveCastItem
  <2>2. PICK m \in Nat :
           /\ DOMAIN old = 1..m
           /\ \A i \in 1..m : old[i] \in Users /\ old[i] \in Members(old) /\ AsCast(old)[old[i]] = i - 1
           /\ \A u \in Members(old) : u \in Users /\ \E i \in 1..m : old[i] = u
           /\ DOMAIN AsCast(old) = Members(old)
    BY ListIs
  <2>3. \A i \in 1..m : all[i] = "unbook"
    BY <2>2
  <2>. HIDE DEF old, all
  <2>4. \A i \in 1..m : all[i] # "none" => Entry(old[i], all[i], p) \in LogEntry
    BY <2>2, <2>3, EntryIs DEF LogTypes
  <2>5. EntriesFor(d, m, old, all, p, LogEntry)
    BY <2>2, <2>4, LoggedIs
  <2>. HIDE DEF d
  <2>6. \A u, t : Said(AsCast(old), cast, quantity, reference, u, t) <=>
                    t = "unbook" /\ u \in DOMAIN AsCast(old)
    BY <1>2 DEF Said, Books, Unbooks, EmptyCast
  <2>7. Tells(d, AsCast(old), cast, quantity, reference, p)
    <3>1. ASSUME NEW k \in 1..Len(d)
          PROVE  \E u \in Users, t \in LogTypes :
                   Said(AsCast(old), cast, quantity, reference, u, t) /\ d[k] = Entry(u, t, p)
      <4>1. PICK i \in 1..m : all[i] # "none" /\ d[k] = Entry(old[i], all[i], p)
        BY <2>5 DEF EntriesFor
      <4>2. old[i] \in Users /\ old[i] \in DOMAIN AsCast(old) /\ all[i] = "unbook"
        BY <2>2, <2>3
      <4>. QED
        BY <2>6, <4>1, <4>2 DEF LogTypes
    <3>2. ASSUME NEW u \in Users, NEW t \in LogTypes,
                 Said(AsCast(old), cast, quantity, reference, u, t)
          PROVE  \E k \in 1..Len(d) : d[k] = Entry(u, t, p)
      <4>1. t = "unbook" /\ u \in Members(old)
        BY <2>2, <2>6, <3>2
      <4>2. PICK i \in 1..m : old[i] = u
        BY <2>2, <4>1
      <4>. QED
        BY <2>3, <2>5, <4>1, <4>2 DEF EntriesFor
    <3>3. d \in Seq(LogEntry)
      BY <2>5 DEF EntriesFor
    <3>. QED
      BY <3>1, <3>2, <3>3 DEF Tells
  <2>. QED
    BY <2>1, <2>7 DEF old
<1>. QED
  BY <1>1, <1>2

-----------------------------------------------------------------------------
(* The log after some positions of a loop have been visited.               *)

\* What the closed form says of a position.
SaidAt(u, t, p) == Said(OldCasts[p], NewCasts[p], given.newSetup[p], given.setup[p], u, t)

Recorded(log_, visited) ==
  /\ log_ \in Seq(LogEntry)
  /\ \A k \in 1..Len(log_) : log_[k].pos \in visited /\ SaidAt(log_[k].user, log_[k].type, log_[k].pos)
  /\ \A p \in visited, u \in Users, t \in LogTypes :
       SaidAt(u, t, p) => \E k \in 1..Len(log_) : log_[k] = Entry(u, t, p)
  /\ \A j, k \in 1..Len(log_) :
       j < k /\ log_[j].user = log_[k].user => log_[j].pos <= log_[k].pos

\* A position visited now comes after the visited ones, or is about others.
LEMMA RecordedNext ==
  ASSUME NEW c, NEW visited \in SUBSET Positions, Recorded(c, visited), NEW p \in Positions,
         NEW d, Tells(d, OldCasts[p], NewCasts[p], given.newSetup[p], given.setup[p], p),
         \A v \in visited, u \in Users, t, s \in LogTypes :
           SaidAt(u, t, v) /\ SaidAt(u, s, p) => v <= p
  PROVE  Recorded(c \o d, visited \cup {p})
<1>. DEFINE e == c \o d
<1>1. /\ e \in Seq(LogEntry)
      /\ Len(c) \in Nat /\ Len(d) \in Nat /\ Len(e) = Len(c) + Len(d)
      /\ \A k \in 1..Len(c) : e[k] = c[k]
      /\ \A k \in 1..Len(d) : e[Len(c) + k] = d[k]
      /\ \A k \in 1..Len(e) : k \in 1..Len(c) \/ \E j \in 1..Len(d) : k = Len(c) + j
  BY ConcatIs DEF Tells, Recorded
<1>. HIDE DEF e
<1>2. ASSUME NEW k \in 1..Len(c)
      PROVE  /\ k \in 1..Len(e) /\ e[k] = c[k] /\ e[k] \in LogEntry
             /\ e[k].user \in Users /\ e[k].type \in LogTypes
             /\ e[k].pos \in visited /\ SaidAt(e[k].user, e[k].type, e[k].pos)
  <2>1. k \in 1..Len(e) /\ e[k] = c[k]
    BY <1>1
  <2>2. e[k] \in LogEntry
    BY <1>1, <2>1, ElementOfSeq
  <2>. QED
    BY <2>1, <2>2 DEF Recorded, LogEntry
<1>3. ASSUME NEW j \in 1..Len(d)
      PROVE  /\ Len(c) + j \in 1..Len(e) /\ e[Len(c) + j] = d[j]
             /\ d[j].user \in Users /\ d[j].type \in LogTypes
             /\ d[j].pos = p /\ SaidAt(d[j].user, d[j].type, p)
  <2>1. Len(c) + j \in 1..Len(e) /\ e[Len(c) + j] = d[j]
    BY <1>1
  <2>2. PICK u \in Users, t \in LogTypes : SaidAt(u, t, p) /\ d[j] = Entry(u, t, p)
    BY DEF Tells, SaidAt
  <2>3. d[j].user = u /\ d[j].type = t /\ d[j].pos = p
    BY <2>2, EntryIs
  <2>. QED
    BY <2>1, <2>2, <2>3
<1>4. ASSUME NEW k \in 1..Len(e)
      PROVE  e[k].pos \in visited \cup {p} /\ SaidAt(e[k].user, e[k].type, e[k].pos)
  <2>1. CASE k \in 1..Len(c)
    BY <1>2, <2>1
  <2>2. ASSUME NEW j \in 1..Len(d), k = Len(c) + j
        PROVE  e[k].pos \in visited \cup {p} /\ SaidAt(e[k].user, e[k].type, e[k].pos)
    <3>1. e[k] = d[j] /\ d[j].pos = p /\ SaidAt(d[j].user, d[j].type, d[j].pos)
      BY <1>3, <2>2
    <3>. QED
      BY <3>1
  <2>. QED
    BY <1>1, <2>1, <2>2
<1>5. ASSUME NEW q \in visited \cup {p}, NEW u \in Users, NEW t \in LogTypes, SaidAt(u, t, q)
      PROVE  \E k \in 1..Len(e) : e[k] = Entry(u, t, q)
  <2>1. CASE q = p
    <3>1. PICK j \in 1..Len(d) : d[j] = Entry(u, t, p)
      BY <1>5, <2>1 DEF Tells, SaidAt
    <3>. QED
      BY <1>3, <2>1, <3>1
  <2>2. CASE q \in visited
    <3>1. PICK k \in 1..Len(c) : c[k] = Entry(u, t, q)
      BY <1>5, <2>2 DEF Recorded
    <3>. QED
      BY <1>2, <3>1
  <2>. QED
    BY <2>1, <2>2
<1>6. ASSUME NEW j \in 1..Len(e), NEW k \in 1..Len(e), j < k, e[j].user = e[k].user
      PROVE  e[j].pos <= e[k].pos
  <2>0. p \in Int /\ p <= p
    BY DEF Positions
  <2>1. CASE k \in 1..Len(c)
    <3>1. j \in 1..Len(c)
      BY <1>6, <2>1
    <3>. QED
      BY <1>2, <1>6, <2>1, <3>1 DEF Recorded
  <2>2. ASSUME NEW i \in 1..Len(d), k = Len(c) + i PROVE e[j].pos <= e[k].pos
    <3>1. e[k].pos = p /\ e[k].user \in Users /\ e[k].type \in LogTypes
            /\ SaidAt(e[k].user, e[k].type, p)
      BY <1>3, <2>2
    <3>2. CASE j \in 1..Len(c)
      BY <1>2, <1>6, <3>1, <3>2
    <3>3. CASE \E h \in 1..Len(d) : j = Len(c) + h
      <4>1. e[j].pos = p
        BY <1>3, <3>3
      <4>. QED
        BY <2>0, <3>1, <4>1
    <3>. QED
      BY <1>1, <3>2, <3>3
  <2>. QED
    BY <1>1, <2>1, <2>2
<1>. QED
  BY <1>1, <1>4, <1>5, <1>6 DEF Recorded, e

\* What the loops have written so far is what the closed form says of the
\* positions visited so far.
Removed == InSetup(given.setup) \ InSetup(given.newSetup)

LogInv ==
  /\ given.setup \in [Positions -> Nat] /\ given.newSetup \in [Positions -> Nat]
  /\ flushed \subseteq Row /\ left \subseteq Positions
  /\ step = "start" => entries = <<>>
  /\ step = "purge" => Recorded(entries, Removed \ left)
  /\ step = "loop" =>
       /\ lists \in [Positions -> Lists \cup {Omitted}]
       /\ Recorded(entries, (IF given.kind = "update" THEN Removed ELSE {})
                              \cup (InSetup(given.newSetup) \ left))
  /\ step = "done" => Recorded(entries, Positions)

LEMMA RecordedNone == Recorded(<<>>, {})
<1>1. <<>> \in Seq(LogEntry) /\ Len(<<>>) = 0
  OBVIOUS
<1>2. \A k : k \notin 1..0
  OBVIOUS
<1>. QED
  BY <1>1, <1>2 DEF Recorded

\* What is recorded depends on the input alone.
LEMMA GivenStays ==
  ASSUME given' = given
  PROVE  OldCasts' = OldCasts /\ NewCasts' = NewCasts
<1>1. PayloadCasts' = PayloadCasts
  BY DEF PayloadCasts
<1>2. OldCasts' = OldCasts
  BY <1>1 DEF OldCasts
<1>. QED
  BY <1>1, <1>2 DEF NewCasts

\* Positions the closed form says nothing of need not be visited.
LEMMA RecordedMore ==
  ASSUME NEW c, NEW visited, NEW more, Recorded(c, visited),
         visited \subseteq more,
         \A p \in more, u \in Users, t \in LogTypes : SaidAt(u, t, p) => p \in visited
  PROVE  Recorded(c, more)
BY DEF Recorded

\* A list that stays as it is under the same quantity is not written about.
LEMMA SameSilent ==
  ASSUME NEW cast, \A v \in DOMAIN cast : cast[v] \in Int, NEW q \in Int, NEW u, NEW t
  PROVE  ~Said(cast, cast, q, q, u, t)
<1>1. \A x, y \in Int : ~(x < y /\ x >= y)
  OBVIOUS
<1>. QED
  BY <1>1 DEF Said, Books, Unbooks

LEMMA CastOfNone ==
  ASSUME NEW rows, rows = {}
  PROVE  CastOf(rows) = EmptyCast
BY DEF CastOf, EmptyCast

\* The closed form speaks of a user where its lists name that user.
LEMMA SaidNamed ==
  ASSUME NEW p, NEW u, NEW t, SaidAt(u, t, p)
  PROVE  u \in DOMAIN OldCasts[p] \/ u \in DOMAIN NewCasts[p]
BY DEF SaidAt, Said, Books, Unbooks

\* The lists before and after, per handler.
LEMMA ListsOfUpdate ==
  ASSUME SoundGiven, given.kind = "update", NEW p \in Positions
  PROVE  /\ OldCasts[p] = CastOf(RowsAt(given.rows, p))
         /\ NewCasts[p] = IF p \in InSetup(given.newSetup) THEN CastOf(RowsAt(given.rows, p))
                          ELSE EmptyCast
         /\ DOMAIN OldCasts[p] = {b.user : b \in RowsAt(given.rows, p)}
         /\ \A u \in Users, t \in LogTypes : SaidAt(u, t, p) =>
              p \in InSetup(given.setup) /\ \E b \in given.rows : b.user = u /\ b.pos = p
<1>1. OldCasts[p] = CastOf(RowsAt(given.rows, p))
  <2>1. CASE p \in InSetup(given.setup)
    BY <2>1 DEF OldCasts, VisitedCasts, CurrentCasts
  <2>2. CASE p \notin InSetup(given.setup)
    <3>1. OldCasts[p] = EmptyCast
      BY <2>2 DEF OldCasts, VisitedCasts
    <3>2. RowsAt(given.rows, p) = {}
      BY <2>2 DEF SoundGiven, RowsAt
    <3>. QED
      BY <3>1, <3>2, CastOfNone
  <2>. QED
    BY <2>1, <2>2
<1>2. NewCasts[p] = IF p \in InSetup(given.newSetup) THEN OldCasts[p] ELSE EmptyCast
  BY DEF NewCasts, VisitedCasts
<1>3. DOMAIN OldCasts[p] = {b.user : b \in RowsAt(given.rows, p)}
  BY <1>1 DEF CastOf
<1>4. DOMAIN EmptyCast = {}
  BY DEF EmptyCast
<1>5. ASSUME NEW u \in Users, NEW t \in LogTypes, SaidAt(u, t, p)
      PROVE  p \in InSetup(given.setup) /\ \E b \in given.rows : b.user = u /\ b.pos = p
  <2>1. u \in DOMAIN OldCasts[p]
    BY <1>2, <1>4, <1>5, SaidNamed
  <2>. QED
    BY <1>3, <2>1 DEF RowsAt, SoundGiven
<1>6. NewCasts[p] = IF p \in InSetup(given.newSetup) THEN CastOf(RowsAt(given.rows, p))
                    ELSE EmptyCast
  BY <1>1, <1>2
<1>. QED
  BY <1>1, <1>3, <1>5, <1>6, Zenon

LEMMA UpdateOnce ==
  ASSUME SoundGiven, given.kind = "update"
  PROVE  \A v, p \in Positions, u \in Users, t, s \in LogTypes :
           SaidAt(u, t, v) /\ SaidAt(u, s, p) => v = p
<1>. SUFFICES ASSUME NEW v \in Positions, NEW p \in Positions, NEW u \in Users,
                     NEW t \in LogTypes, NEW s \in LogTypes,
                     SaidAt(u, t, v), SaidAt(u, s, p)
              PROVE  v = p
  OBVIOUS
<1>1. PICK b \in given.rows : b.user = u /\ b.pos = v
  BY ListsOfUpdate
<1>2. PICK c \in given.rows : c.user = u /\ c.pos = p
  BY ListsOfUpdate
<1>. QED
  BY <1>1, <1>2 DEF SoundGiven, SoundRows

LEMMA ListsOfSave ==
  ASSUME SoundGiven, given.kind = "save", NEW p \in Positions
  PROVE  /\ OldCasts[p] = IF p \in InSetup(given.setup)
                          THEN CastOf(SeenAt(given.rows, given.setup, PayloadCasts, p))
                          ELSE EmptyCast
         /\ NewCasts[p] = IF p \in InSetup(given.setup) THEN PayloadCasts[p] ELSE EmptyCast
         /\ \A u \in Users, t \in LogTypes : SaidAt(u, t, p) => p \in InSetup(given.setup)
<1>1. OldCasts[p] = IF p \in InSetup(given.setup)
                    THEN CastOf(SeenAt(given.rows, given.setup, PayloadCasts, p))
                    ELSE EmptyCast
  BY DEF OldCasts, SeenCasts, VisitedCasts
<1>2. NewCasts[p] = IF p \in InSetup(given.setup) THEN PayloadCasts[p] ELSE EmptyCast
  BY DEF NewCasts, VisitedCasts
<1>3. DOMAIN EmptyCast = {}
  BY DEF EmptyCast
<1>. QED
  BY <1>1, <1>2, <1>3, SaidNamed

LEMMA SelectIs ==
  ASSUME NEW p, SoundRows(RowsAt(flushed, p))
  PROVE  Select(p) \in Lists /\ AsCast(Select(p)) = CastOf(RowsAt(flushed, p))
BY InOrderIs DEF Select, RowsAt

LEMMA PurgeLogged ==
  ASSUME LoopInv, LogInv, NEW p \in Positions, PurgeRemoved(p)
  PROVE  Recorded(entries, Removed \ left)' /\ Removed' = Removed
<1>1. /\ step = "purge" /\ p \in left /\ left' = left \ {p} /\ UNCHANGED <<given, step, lists>>
      /\ SaveCastItem(p, Omitted, given.newSetup[p], Omitted)
  BY DEF PurgeRemoved
<1>2. /\ SoundGiven /\ given.kind = "update"
      /\ left \subseteq Removed
      /\ flushed = {b \in given.rows : b.pos \in InSetup(given.newSetup) \cup left}
      /\ Recorded(entries, Removed \ left)
  BY <1>1 DEF LoopInv, LogInv, Removed
<1>3. RowsAt(flushed, p) = RowsAt(given.rows, p)
  BY <1>1, <1>2 DEF RowsAt
<1>4. SoundRows(RowsAt(flushed, p))
  BY <1>2, <1>3, RowsAtSound DEF SoundGiven
<1>5. Select(p) \in Lists /\ AsCast(Select(p)) = OldCasts[p]
  <2>1. OldCasts[p] = CastOf(RowsAt(given.rows, p))
    BY <1>2, ListsOfUpdate, Zenon
  <2>. QED
    BY <1>3, <1>4, <2>1, SelectIs
<1>6. NewCasts[p] = EmptyCast
  <2>1. p \notin InSetup(given.newSetup)
    BY <1>1, <1>2 DEF Removed
  <2>. QED
    BY <1>2, <2>1, ListsOfUpdate, Zenon
<1>7. given.newSetup[p] \in Int /\ given.setup[p] \in Int
  BY DEF LogInv
<1>8. PICK d : entries' = entries \o d
             /\ Tells(d, OldCasts[p], NewCasts[p], given.newSetup[p], given.newSetup[p], p)
  BY <1>1, <1>5, <1>6, <1>7, SaveTells
<1>9. Tells(d, OldCasts[p], NewCasts[p], given.newSetup[p], given.setup[p], p)
  <2>1. \A u, t : Said(OldCasts[p], NewCasts[p], given.newSetup[p], given.newSetup[p], u, t)
                    <=> Said(OldCasts[p], NewCasts[p], given.newSetup[p], given.setup[p], u, t)
    BY <1>6 DEF Said, Books, Unbooks, EmptyCast
  <2>. QED
    BY <1>8, <2>1 DEF Tells
<1>10. \A v \in Removed \ left, u \in Users, t, s \in LogTypes :
         SaidAt(u, t, v) /\ SaidAt(u, s, p) => v <= p
  <2>1. \A v \in Removed : v \in Positions
    BY DEF Removed, InSetup
  <2>2. p <= p
    BY PositionsAssumption DEF Positions
  <2>. QED
    BY <1>2, <2>1, <2>2, UpdateOnce
<1>11. Recorded(entries \o d, (Removed \ left) \cup {p})
  <2>1. Removed \ left \in SUBSET Positions
    BY DEF Removed, InSetup
  <2>. QED
    BY <1>2, <1>9, <1>10, <2>1, RecordedNext
<1>12. (Removed \ left) \cup {p} = Removed \ left'
  BY <1>1, <1>2
<1>13. Recorded(entries', Removed \ left')
  BY <1>8, <1>11, <1>12
<1>14. given' = given
  BY <1>1
<1>. QED
  BY <1>13, <1>14, GivenStays DEF Recorded, SaidAt, Removed

LEMMA LoopedAt ==
  ASSUME NEW base, NEW casts, NEW visited, NEW p, p \notin visited
  PROVE  RowsAt(Looped(base, casts, visited), p)
           = {b \in RowsAt(base, p) : \A q \in visited : b.user \notin DOMAIN casts[q]}
<1>. DEFINE here == RowsAt(Looped(base, casts, visited), p)
            there == {b \in RowsAt(base, p) : \A q \in visited : b.user \notin DOMAIN casts[q]}
<1>1. ASSUME NEW b PROVE b \in here <=> b \in there
  <2>1. b \in here <=> b \in Looped(base, casts, visited) /\ b.pos = p
    BY DEF RowsAt
  <2>2. ~(b.pos = p /\ \E r \in visited : b \in RowsFor(r, casts[r]))
    BY RowsForIs
  <2>3. b \in there <=> b \in base /\ b.pos = p /\ \A q \in visited : b.user \notin DOMAIN casts[q]
    BY DEF RowsAt
  <2>. HIDE DEF here, there
  <2>. QED
    BY <2>1, <2>2, <2>3, LoopedIs
<1>. HIDE DEF here, there
<1>2. here = there
  BY <1>1
<1>. QED
  BY <1>2 DEF here, there

\* What a call of the loop over the remaining positions is given.
VisitsAt(p, oldQuantity) ==
  /\ p \in left /\ \A q \in left : p <= q
  /\ oldQuantity = IF given.kind = "update" /\ given.setup[p] > 0 THEN given.setup[p] ELSE Omitted
  /\ SaveCastItem(p, lists[p], given.newSetup[p], oldQuantity)
  /\ left' = left \ {p}

LEMMA VisitIs ==
  ASSUME VisitNext
  PROVE  /\ step = "loop" /\ UNCHANGED <<given, step, lists>>
         /\ \E p \in left : \E oldQuantity : VisitsAt(p, oldQuantity)
<1>1. PICK p \in left :
       /\ \A q \in left : p <= q
       /\ LET oldQuantity == IF given.kind = "update" /\ given.setup[p] > 0
                             THEN given.setup[p] ELSE Omitted
          IN  SaveCastItem(p, lists[p], given.newSetup[p], oldQuantity)
       /\ left' = left \ {p}
  BY DEF VisitNext
<1>2. VisitsAt(p, IF given.kind = "update" /\ given.setup[p] > 0 THEN given.setup[p] ELSE Omitted)
  BY <1>1 DEF VisitsAt
<1>. QED
  BY <1>2 DEF VisitNext

\* The list a call of save_cast's loop finds is the one the closed form sees.
LEMMA SaveSees ==
  ASSUME LoopInv, LogInv, step = "loop", given.kind = "save", NEW p \in left, \A q \in left : p <= q
  PROVE  /\ p \in InSetup(given.setup) /\ p \in Positions
         /\ Select(p) \in Lists /\ AsCast(Select(p)) = OldCasts[p]
         /\ LoopCasts[p] = NewCasts[p]
         /\ \A v \in InSetup(given.newSetup) \ left : v <= p
<1>. DEFINE all == InSetup(given.setup)
            visited == all \ left
<1>1. /\ SoundGiven /\ lists = given.payload
      /\ given.newSetup = given.setup
      /\ left \subseteq all
      /\ \A v \in visited, q \in left : v < q
      /\ flushed = Looped(given.rows, PayloadCasts, visited)
  BY DEF LoopInv, ListsHeld, Base, SoundGiven, LoopCasts, PayloadCasts
<1>2. p \in all /\ p \in Positions /\ all \subseteq Positions /\ \A q \in Positions : q \in Int
  BY <1>1 DEF InSetup, Positions
<1>3. RowsAt(flushed, p)
        = {b \in RowsAt(given.rows, p) : \A q \in visited : b.user \notin DOMAIN PayloadCasts[q]}
  BY <1>1, LoopedAt
<1>4. \A q \in all : q \in visited <=> q < p
  BY <1>1, <1>2
<1>5. RowsAt(flushed, p) = SeenAt(given.rows, given.setup, PayloadCasts, p)
  BY <1>3, <1>4 DEF SeenAt
<1>6. OldCasts[p] = CastOf(RowsAt(flushed, p)) /\ NewCasts[p] = PayloadCasts[p]
  BY <1>1, <1>2, <1>5, ListsOfSave
<1>7. SoundRows(RowsAt(flushed, p))
  BY <1>1, <1>3, RowsAtSound DEF SoundGiven
<1>8. LoopCasts = PayloadCasts
  BY <1>1 DEF LoopCasts, PayloadCasts
<1>. QED
  BY <1>1, <1>2, <1>6, <1>7, <1>8, SelectIs

\* The list a call of reconcile_setup_change's loop finds is the one there was.
LEMMA UpdateSees ==
  ASSUME LoopInv, LogInv, step = "loop", given.kind = "update", NEW p \in left
  PROVE  /\ p \in InSetup(given.newSetup) /\ p \in Positions
         /\ Select(p) \in Lists /\ AsCast(Select(p)) = OldCasts[p]
         /\ LoopCasts[p] = NewCasts[p]
<1>. DEFINE all == InSetup(given.newSetup)
            visited == all \ left
<1>1. /\ SoundGiven /\ left \subseteq all
      /\ \A q \in Positions : lists[q] # Omitted /\ AsCast(lists[q]) = CastOf(RowsAt(Base, q))
      /\ flushed = Looped(Base, LoopCasts, visited)
  BY DEF LoopInv, ListsHeld
<1>2. p \in all /\ p \in Positions /\ all \subseteq Positions /\ p \notin visited
  BY <1>1 DEF InSetup
<1>3. Base = {b \in given.rows : b.pos \in all}
  BY DEF Base
<1>4. \A q \in Positions : LoopCasts[q] = CastOf(RowsAt(Base, q))
  BY <1>1 DEF LoopCasts
<1>5. \A q \in Positions : DOMAIN LoopCasts[q] = {b.user : b \in RowsAt(Base, q)}
  BY <1>4 DEF CastOf
<1>6. RowsAt(flushed, p) = {b \in RowsAt(Base, p) : \A q \in visited : b.user \notin DOMAIN LoopCasts[q]}
  BY <1>1, <1>2, LoopedAt
<1>7. ASSUME NEW b \in RowsAt(Base, p), NEW q \in visited PROVE b.user \notin DOMAIN LoopCasts[q]
  <2>1. q # p /\ q \in Positions
    BY <1>2
  <2>2. \A c \in RowsAt(Base, q) : c.user # b.user
    BY <1>1, <1>3, <2>1 DEF RowsAt, SoundGiven, SoundRows
  <2>. QED
    BY <1>5, <2>1, <2>2
<1>8. RowsAt(flushed, p) = RowsAt(Base, p)
  BY <1>6, <1>7
<1>9. RowsAt(Base, p) = RowsAt(given.rows, p)
  BY <1>2, <1>3 DEF RowsAt
<1>10. SoundRows(RowsAt(flushed, p))
  BY <1>1, <1>8, <1>9, RowsAtSound DEF SoundGiven
<1>11. OldCasts[p] = CastOf(RowsAt(flushed, p))
  BY <1>1, <1>2, <1>8, <1>9, ListsOfUpdate, Zenon
<1>12. NewCasts[p] = CastOf(RowsAt(flushed, p))
  BY <1>1, <1>2, <1>8, <1>9, ListsOfUpdate, Zenon
<1>. QED
  BY <1>2, <1>4, <1>8, <1>10, <1>11, <1>12, SelectIs

\* The positions the loops have visited by the time the last one runs.
Visited == (IF given.kind = "update" THEN Removed ELSE {}) \cup (InSetup(given.newSetup) \ left)

LEMMA VisitLogged ==
  ASSUME LoopInv, LogInv, VisitNext
  PROVE  Recorded(entries, Visited)'
<1>1. /\ step = "loop" /\ UNCHANGED <<given, step, lists>>
      /\ \E p \in left : \E oldQuantity : VisitsAt(p, oldQuantity)
  BY VisitIs
<1>2. PICK p \in left : \E oldQuantity : VisitsAt(p, oldQuantity)
  BY <1>1
<1>3. PICK oldQuantity : VisitsAt(p, oldQuantity)
  BY <1>2
<1>4. /\ SoundGiven /\ given.kind \in {"save", "update"} /\ left \subseteq InSetup(given.newSetup)
      /\ lists \in [Positions -> Lists \cup {Omitted}]
      /\ Recorded(entries, Visited)
  BY <1>1 DEF LoopInv, LogInv, Visited
<1>5. /\ \A q \in left : p <= q
      /\ SaveCastItem(p, lists[p], given.newSetup[p], oldQuantity)
      /\ left' = left \ {p}
      /\ oldQuantity = IF given.kind = "update" /\ given.setup[p] > 0 THEN given.setup[p]
                       ELSE Omitted
  BY <1>3 DEF VisitsAt
<1>6. /\ p \in InSetup(given.newSetup) /\ p \in Positions
      /\ Select(p) \in Lists /\ AsCast(Select(p)) = OldCasts[p]
      /\ LoopCasts[p] = NewCasts[p]
  <2>1. CASE given.kind = "save"
    <3>1. given.newSetup = given.setup
      BY <1>4, <2>1 DEF SoundGiven
    <3>. QED
      BY <1>1, <1>5, <2>1, <3>1, SaveSees
  <2>2. CASE given.kind = "update"
    BY <1>1, <2>2, UpdateSees
  <2>. QED
    BY <1>4, <2>1, <2>2
<1>7. /\ given.newSetup[p] \in Int /\ given.setup[p] \in Int /\ given.setup[p] >= 0
      /\ given.setup[p] # Omitted /\ oldQuantity \in Int \cup {Omitted}
  <2>1. given.newSetup[p] \in Nat /\ given.setup[p] \in Nat
    BY <1>6 DEF LogInv
  <2>. QED
    BY <1>5, <2>1, OmittedAssumption
<1>. DEFINE reference == IF oldQuantity = Omitted THEN given.newSetup[p] ELSE oldQuantity
<1>8. NewCasts[p] = IF lists[p] = Omitted THEN EmptyCast ELSE AsCast(lists[p])
  BY <1>6 DEF LoopCasts
<1>9. lists[p] \in Lists \cup {Omitted}
  BY <1>4, <1>6
<1>10. PICK d : entries' = entries \o d
              /\ Tells(d, OldCasts[p], NewCasts[p], given.newSetup[p], reference, p)
  <2>1. (oldQuantity # Omitted => reference = oldQuantity)
          /\ (oldQuantity = Omitted => reference = given.newSetup[p])
    OBVIOUS
  <2>. HIDE DEF reference
  <2>2. \E d : /\ entries' = entries \o d
               /\ Tells(d, AsCast(Select(p)), NewCasts[p], given.newSetup[p], reference, p)
    BY <1>5, <1>6, <1>7, <1>8, <1>9, <2>1, SaveTells, Zenon
  <2>. QED
    BY <1>6, <2>2
<1>11. Tells(d, OldCasts[p], NewCasts[p], given.newSetup[p], given.setup[p], p)
  <2>1. CASE given.kind = "save"
    <3>1. reference = given.setup[p]
      BY <1>4, <1>5, <2>1 DEF SoundGiven
    <3>. QED
      BY <1>10, <3>1
  <2>2. CASE given.kind = "update" /\ given.setup[p] > 0
    <3>1. reference = given.setup[p]
      BY <1>5, <1>7, <2>2
    <3>. QED
      BY <1>10, <3>1
  <2>3. CASE given.kind = "update" /\ ~(given.setup[p] > 0)
    <3>1. RowsAt(given.rows, p) = {}
      BY <1>4, <2>3 DEF SoundGiven, RowsAt, InSetup
    <3>2. OldCasts[p] = EmptyCast
      BY <1>4, <1>6, <2>3, <3>1, ListsOfUpdate, CastOfNone
    <3>3. NewCasts[p] = EmptyCast
      BY <1>4, <1>6, <2>3, <3>1, ListsOfUpdate, CastOfNone
    <3>4. \A q, r, u, t : ~Said(EmptyCast, EmptyCast, q, r, u, t)
      BY DEF Said, Books, Unbooks, EmptyCast
    <3>. HIDE DEF reference
    <3>. QED
      BY <1>10, <3>2, <3>3, <3>4 DEF Tells
  <2>. QED
    BY <1>4, <2>1, <2>2, <2>3
<1>12. Visited \in SUBSET Positions
  BY DEF Visited, Removed, InSetup
<1>13. \A v \in Visited, u \in Users, t, s \in LogTypes :
         SaidAt(u, t, v) /\ SaidAt(u, s, p) => v <= p
  <2>1. CASE given.kind = "save"
    <3>1. \A v \in InSetup(given.newSetup) \ left : v <= p
      BY <1>1, <1>5, <2>1, SaveSees
    <3>2. Visited = InSetup(given.newSetup) \ left
      BY <2>1 DEF Visited
    <3>. QED
      BY <3>1, <3>2
  <2>2. CASE given.kind = "update"
    <3>1. p <= p
      BY <1>6, PositionsAssumption DEF Positions
    <3>. QED
      BY <1>4, <1>6, <1>12, <2>2, <3>1, UpdateOnce
  <2>. QED
    BY <1>4, <2>1, <2>2
<1>14. Recorded(entries \o d, Visited \cup {p})
  BY <1>4, <1>6, <1>11, <1>12, <1>13, RecordedNext
<1>15. given' = given
  BY <1>1
<1>16. Visited' = Visited \cup {p}
  BY <1>5, <1>6, <1>15 DEF Visited, Removed
<1>17. Recorded(entries', Visited')
  BY <1>10, <1>14, <1>16
<1>. QED
  BY <1>15, <1>17, GivenStays DEF Recorded, SaidAt

LEMMA CancelLogged ==
  ASSUME LoopInv, LogInv, Cancel
  PROVE  Recorded(entries, Positions)'
<1>1. step = "start" /\ given.kind = "cancel" /\ UNCHANGED given
  BY DEF Cancel
<1>2. /\ SoundGiven /\ flushed = given.rows /\ entries = <<>> /\ given.newSetup = given.setup
      /\ given.setup \in [Positions -> Nat]
  BY <1>1 DEF LoopInv, LogInv, SoundGiven
<1>3. PICK b \in flushed :
        /\ b.user = given.user
        /\ SaveCastItem(b.pos, InOrder(RowsAt(flushed, b.pos) \ {b}), given.setup[b.pos], Omitted)
  BY DEF Cancel
<1>. DEFINE p == b.pos
            rest == RowsAt(given.rows, p) \ {b}
            without(q) == {c \in RowsAt(given.rows, q) : c.user # given.user}
<1>4. p \in Positions /\ p \in InSetup(given.setup)
  BY <1>2, <1>3 DEF SoundGiven, SoundRows, Row
<1>5. \A c, d \in given.rows : c.user = d.user => c = d
  BY <1>2 DEF SoundGiven, SoundRows
<1>6. \A q \in Positions : OldCasts[q] = CastOf(RowsAt(given.rows, q))
  <2>1. ASSUME NEW q \in Positions, q \notin InSetup(given.setup)
        PROVE  OldCasts[q] = CastOf(RowsAt(given.rows, q))
    <3>1. RowsAt(given.rows, q) = {}
      BY <1>2, <2>1 DEF SoundGiven, RowsAt
    <3>2. OldCasts[q] = EmptyCast
      BY <1>1, <2>1 DEF OldCasts, VisitedCasts
    <3>. QED
      BY <3>1, <3>2, CastOfNone
  <2>2. ASSUME NEW q \in Positions, q \in InSetup(given.setup)
        PROVE  OldCasts[q] = CastOf(RowsAt(given.rows, q))
    BY <1>1, <2>2 DEF OldCasts, VisitedCasts, CurrentCasts
  <2>. QED
    BY <2>1, <2>2
<1>7. \A q \in Positions : NewCasts[q] = CastOf(without(q))
  BY <1>1 DEF NewCasts, WithoutUser
<1>8. without(p) = rest
  BY <1>2, <1>3, <1>5 DEF RowsAt
<1>9. ASSUME NEW q \in Positions, q # p PROVE without(q) = RowsAt(given.rows, q)
  BY <1>2, <1>3, <1>5, <1>9 DEF RowsAt
<1>10. SoundRows(RowsAt(given.rows, p)) /\ SoundRows(rest) /\ \A c \in rest : c.pos = p
  <2>1. SoundRows(given.rows)
    BY <1>2 DEF SoundGiven
  <2>2. SoundRows(RowsAt(given.rows, p))
    BY <2>1, RowsAtSound
  <2>3. SoundRows(rest)
    BY <2>2, SoundSubset
  <2>. QED
    BY <2>2, <2>3 DEF RowsAt
<1>11. /\ AsCast(InOrder(rest)) = NewCasts[p]
       /\ InOrder(rest) # Omitted /\ InOrder(rest) \in Lists
  BY <1>4, <1>7, <1>8, <1>10, InOrderIs
<1>12. Select(p) \in Lists /\ AsCast(Select(p)) = OldCasts[p]
  BY <1>2, <1>4, <1>6, <1>10, SelectIs
<1>13. given.setup[p] \in Int
  BY <1>2, <1>4
<1>14. SaveCastItem(p, InOrder(rest), given.setup[p], Omitted)
  BY <1>2, <1>3
<1>. HIDE DEF p, rest
<1>15. PICK d : entries' = entries \o d
              /\ Tells(d, OldCasts[p], NewCasts[p], given.setup[p], given.setup[p], p)
  BY <1>4, <1>11, <1>12, <1>13, <1>14, SaveTells
<1>16. Recorded(entries \o d, {} \cup {p})
  <2>1. Recorded(entries, {})
    BY <1>2, RecordedNone
  <2>2. {} \in SUBSET Positions /\ Tells(d, OldCasts[p], NewCasts[p], given.newSetup[p], given.setup[p], p)
    BY <1>2, <1>15
  <2>3. \A v \in {}, u \in Users, t, s \in LogTypes : SaidAt(u, t, v) /\ SaidAt(u, s, p) => v <= p
    OBVIOUS
  <2>. QED
    BY <1>4, <2>1, <2>2, <2>3, RecordedNext
<1>17. ASSUME NEW q \in Positions, NEW u \in Users, NEW t \in LogTypes, SaidAt(u, t, q)
       PROVE  q \in {} \cup {p}
  <2>1. SUFFICES ASSUME q # p PROVE FALSE
    OBVIOUS
  <2>2. OldCasts[q] = NewCasts[q] /\ OldCasts[q] = CastOf(RowsAt(given.rows, q))
    BY <1>6, <1>7, <1>9, <2>1
  <2>3. SoundRows(RowsAt(given.rows, q)) /\ \A c \in RowsAt(given.rows, q) : c.pos = q
    <3>1. SoundRows(given.rows)
      BY <1>2 DEF SoundGiven
    <3>. QED
      BY <3>1, RowsAtSound DEF RowsAt
  <2>4. \A v \in DOMAIN OldCasts[q] : OldCasts[q][v] \in Int
    <3>1. SoundCast(CastOf(RowsAt(given.rows, q)))
      BY <2>3, CastOfRows
    <3>. QED
      BY <2>2, <3>1 DEF SoundCast
  <2>5. given.newSetup[q] = given.setup[q] /\ given.setup[q] \in Int
    BY <1>2
  <2>6. ~Said(OldCasts[q], OldCasts[q], given.setup[q], given.setup[q], u, t)
    BY <2>4, <2>5, SameSilent
  <2>. QED
    BY <1>17, <2>2, <2>5, <2>6 DEF SaidAt
<1>18. Recorded(entries', Positions)
  <2>1. {} \cup {p} \subseteq Positions
    BY <1>4
  <2>. QED
    BY <1>15, <1>16, <1>17, <2>1, RecordedMore
<1>. QED
  BY <1>1, <1>18, GivenStays DEF Recorded, SaidAt

LEMMA SaveTyped ==
  ASSUME flushed \subseteq Row, NEW p \in Positions, NEW new \in Lists \cup {Omitted},
         NEW quantity, NEW oldQuantity, SaveCastItem(p, new, quantity, oldQuantity)
  PROVE  flushed' \subseteq Row
<1>1. CASE new = Omitted
  BY <1>1 DEF SaveCastItem
<1>2. CASE new # Omitted
  <2>1. flushed' = {b \in flushed : b.pos # p /\ b.user \notin Members(new)} \cup RowsFor(p, AsCast(new))
    BY <1>2 DEF SaveCastItem
  <2>2. PICK m \in Nat :
           /\ DOMAIN new = 1..m
           /\ \A i \in 1..m : new[i] \in Users /\ new[i] \in Members(new) /\ AsCast(new)[new[i]] = i - 1
           /\ \A u \in Members(new) : u \in Users /\ \E i \in 1..m : new[i] = u
           /\ DOMAIN AsCast(new) = Members(new)
    BY <1>2, ListIs
  <2>3. ASSUME NEW u \in DOMAIN AsCast(new) PROVE u \in Users /\ AsCast(new)[u] \in Nat
    <3>1. PICK i \in 1..m : new[i] = u
      BY <2>2
    <3>2. AsCast(new)[u] = i - 1
      BY <2>2, <3>1
    <3>. QED
      BY <2>2, <3>2
  <2>4. RowsFor(p, AsCast(new)) \subseteq Row
    BY <2>3 DEF RowsFor, Row
  <2>. QED
    BY <2>1, <2>4
<1>. QED
  BY <1>1, <1>2

LEMMA LogInvInit ==
  ASSUME LoopInit
  PROVE  LogInv
<1>1. PICK s \in LoopSetups : GivenSave(s) \/ GivenUpdate(s) \/ GivenCancel(s)
  BY DEF LoopInit
<1>2. LoopSetups \subseteq [Positions -> Nat]
  BY DEF LoopSetups
<1>3. given.setup \in LoopSetups /\ given.newSetup \in LoopSetups
  BY <1>1 DEF GivenSave, GivenUpdate, GivenCancel
<1>4. flushed \subseteq Row
  BY LoopInvInit DEF LoopInit, LoopInv, SoundGiven, SoundRows
<1>. QED
  BY <1>2, <1>3, <1>4 DEF LoopInit, LogInv

LEMMA StartLogged ==
  ASSUME LoopInv, LogInv, StartSave \/ StartUpdate
  PROVE  LogInv'
<1>1. /\ step = "start" /\ UNCHANGED <<given, flushed, entries>> /\ entries = <<>>
      /\ given.setup \in [Positions -> Nat] /\ given.newSetup \in [Positions -> Nat]
      /\ flushed \subseteq Row
  BY DEF StartSave, StartUpdate, LogInv
<1>2. CASE StartSave
  <2>1. /\ given.kind = "save" /\ step' = "loop" /\ lists' = given.payload
        /\ left' = InSetup(given.newSetup) /\ given.payload \in [Positions -> Lists \cup {Omitted}]
    BY <1>2 DEF StartSave, LoopInv, SoundGiven
  <2>2. left' \subseteq Positions /\ Visited' = {}
    BY <1>1, <2>1 DEF InSetup, Visited
  <2>3. Recorded(entries', Visited')
    BY <1>1, <2>2, RecordedNone
  <2>4. Recorded(entries, Visited)'
    BY <1>1, <2>3, GivenStays DEF Recorded, SaidAt
  <2>. QED
    BY <1>1, <2>1, <2>2, <2>4 DEF LogInv, Visited
<1>3. CASE StartUpdate
  <2>1. given.kind = "update" /\ step' = "purge" /\ left' = Removed /\ Removed' = Removed
    BY <1>1, <1>3 DEF StartUpdate, Removed
  <2>2. left' \subseteq Positions /\ Removed' \ left' = {}
    BY <2>1 DEF InSetup, Removed
  <2>3. Recorded(entries', Removed' \ left')
    BY <1>1, <2>2, RecordedNone
  <2>4. Recorded(entries, Removed \ left)'
    BY <1>1, <2>3, GivenStays DEF Recorded, SaidAt
  <2>. QED
    BY <1>1, <2>1, <2>2, <2>4 DEF LogInv
<1>. QED
  BY <1>2, <1>3

LEMMA PurgeKeepsLog ==
  ASSUME LoopInv, LogInv, NEW p \in Positions, PurgeRemoved(p)
  PROVE  LogInv'
<1>1. /\ step = "purge" /\ step' = "purge" /\ left' = left \ {p} /\ given' = given
      /\ SaveCastItem(p, Omitted, given.newSetup[p], Omitted)
  BY DEF PurgeRemoved
<1>2. flushed' \subseteq Row
  BY <1>1, SaveTyped DEF LogInv
<1>. QED
  BY <1>1, <1>2, PurgeLogged DEF LogInv

LEMMA ReadKeepsLog ==
  ASSUME LoopInv, LogInv, ReadCurrentCast
  PROVE  LogInv'
<1>1. /\ step = "purge" /\ left = {} /\ step' = "loop" /\ UNCHANGED <<given, flushed, entries>>
      /\ lists' = [p \in Positions |-> Select(p)]
      /\ left' = InSetup(given.newSetup)
  BY DEF ReadCurrentCast
<1>2. /\ given.kind = "update" /\ flushed \subseteq given.rows /\ SoundRows(given.rows)
      /\ Recorded(entries, Removed)
  BY <1>1 DEF LoopInv, LogInv, SoundGiven
<1>3. SoundRows(flushed)
  BY <1>2, SoundSubset
<1>4. ASSUME NEW p \in Positions PROVE Select(p) \in Lists
  <2>1. SoundRows(RowsAt(flushed, p))
    BY <1>3, RowsAtSound
  <2>. QED
    BY <2>1, SelectIs
<1>5. lists' \in [Positions -> Lists \cup {Omitted}]
  BY <1>1, <1>4
<1>6. Visited' = Removed /\ left' \subseteq Positions
  BY <1>1, <1>2 DEF Visited, Removed, InSetup
<1>7. Recorded(entries', Visited')
  BY <1>1, <1>2, <1>6
<1>8. Recorded(entries, Visited)'
  BY <1>1, <1>7, GivenStays DEF Recorded, SaidAt
<1>. QED
  BY <1>1, <1>5, <1>6, <1>8 DEF LogInv, Visited

LEMMA VisitKeepsLog ==
  ASSUME LoopInv, LogInv, VisitNext
  PROVE  LogInv'
<1>1. /\ step = "loop" /\ UNCHANGED <<given, step, lists>>
      /\ \E p \in left : \E oldQuantity : VisitsAt(p, oldQuantity)
  BY VisitIs
<1>2. PICK p \in left : \E oldQuantity : VisitsAt(p, oldQuantity)
  BY <1>1
<1>3. PICK oldQuantity : SaveCastItem(p, lists[p], given.newSetup[p], oldQuantity)
                           /\ left' = left \ {p}
  BY <1>2 DEF VisitsAt
<1>4. /\ lists \in [Positions -> Lists \cup {Omitted}] /\ left \subseteq Positions
      /\ flushed \subseteq Row
  BY <1>1 DEF LogInv
<1>5. p \in Positions /\ lists[p] \in Lists \cup {Omitted}
  BY <1>4
<1>6. flushed' \subseteq Row
  BY <1>3, <1>4, <1>5, SaveTyped
<1>. QED
  BY <1>1, <1>3, <1>4, <1>6, VisitLogged DEF LogInv, Visited

LEMMA EndKeepsLog ==
  ASSUME LoopInv, LogInv, EndLoop
  PROVE  LogInv'
<1>1. step = "loop" /\ left = {} /\ step' = "done" /\ UNCHANGED <<given, flushed, lists, left, entries>>
  BY DEF EndLoop
<1>2. /\ SoundGiven /\ given.kind \in {"save", "update"} /\ Recorded(entries, Visited)
  BY <1>1 DEF LoopInv, LogInv, Visited
<1>3. ASSUME NEW p \in Positions, NEW u \in Users, NEW t \in LogTypes, SaidAt(u, t, p)
      PROVE  p \in Visited
  <2>1. CASE given.kind = "save"
    <3>1. p \in InSetup(given.newSetup)
      BY <1>2, <1>3, <2>1, ListsOfSave DEF SoundGiven
    <3>. QED
      BY <1>1, <3>1 DEF Visited
  <2>2. CASE given.kind = "update"
    <3>1. p \in InSetup(given.setup)
      BY <1>2, <1>3, <2>2, ListsOfUpdate
    <3>. QED
      BY <1>1, <2>2, <3>1 DEF Visited, Removed
  <2>. QED
    BY <1>2, <2>1, <2>2
<1>4. Visited \subseteq Positions
  BY DEF Visited, Removed, InSetup
<1>5. Recorded(entries, Positions)
  BY <1>2, <1>3, <1>4, RecordedMore
<1>6. Recorded(entries, Positions)'
  BY <1>1, <1>5, GivenStays DEF Recorded, SaidAt
<1>. QED
  BY <1>1, <1>6 DEF LogInv

LEMMA CancelKeepsLog ==
  ASSUME LoopInv, LogInv, Cancel
  PROVE  LogInv'
<1>1. step = "start" /\ step' = "done" /\ given' = given /\ left' = left
  BY DEF Cancel
<1>2. PICK b \in flushed :
        SaveCastItem(b.pos, InOrder(RowsAt(flushed, b.pos) \ {b}), given.setup[b.pos], Omitted)
  BY DEF Cancel
<1>3. SoundRows(flushed) /\ flushed \subseteq Row
  BY <1>1 DEF LoopInv, LogInv, SoundGiven
<1>. DEFINE rest == RowsAt(flushed, b.pos) \ {b}
<1>4. SoundRows(rest) /\ \A c \in rest : c.pos = b.pos
  <2>1. rest \subseteq flushed
    BY DEF RowsAt
  <2>2. SoundRows(rest)
    BY <1>3, <2>1, SoundSubset
  <2>. QED
    BY <2>2 DEF RowsAt
<1>5. InOrder(rest) \in Lists
  BY <1>4, InOrderIs
<1>6. b.pos \in Positions
  BY <1>3 DEF Row
<1>. HIDE DEF rest
<1>7. SaveCastItem(b.pos, InOrder(rest), given.setup[b.pos], Omitted)
  BY <1>2 DEF rest
<1>8. flushed' \subseteq Row
  BY <1>3, <1>5, <1>6, <1>7, SaveTyped
<1>. QED
  BY <1>1, <1>8, CancelLogged DEF LogInv

LEMMA LogInvNext ==
  ASSUME LoopInv, LogInv, [LoopNext]_loopVars
  PROVE  LogInv'
<1>1. ASSUME UNCHANGED loopVars PROVE LogInv'
  <2>1. /\ given' = given /\ step' = step /\ flushed' = flushed /\ lists' = lists
        /\ left' = left /\ entries' = entries
    BY <1>1 DEF loopVars
  <2>. QED
    BY <2>1, GivenStays DEF LogInv, Recorded, SaidAt, Removed
<1>. QED
  BY <1>1, PurgeKeepsLog, ReadKeepsLog, StartLogged, VisitKeepsLog, EndKeepsLog,
     CancelKeepsLog DEF LoopNext, Finished

\* A set of indices that is not empty has a greatest one.
LEMMA GreatestIndex ==
  ASSUME NEW n \in Nat, NEW S \in SUBSET (1..n), S # {}
  PROVE  \E i \in S : \A j \in S : j <= i
<1>. DEFINE bounds == {m \in Nat : \A j \in S : j <= m}
<1>1. n \in bounds
  OBVIOUS
<1>2. OpToRel(<, Nat) = {p \in Nat \X Nat : p[1] < p[2]}
  BY Zenon DEF OpToRel
<1>3. PICK m \in bounds : \A k \in bounds : <<k, m>> \notin OpToRel(<, Nat)
  BY <1>1, WFMin, NatLessThanWellFounded, Zenon
<1>4. m \in Nat /\ \A j \in S : j <= m
  OBVIOUS
<1>5. ASSUME m \notin S PROVE FALSE
  <2>1. PICK j \in S : TRUE
    OBVIOUS
  <2>2. j \in 1..n /\ j <= m
    BY <1>4
  <2>3. m - 1 \in Nat
    BY <1>4, <2>2
  <2>4. \A k \in S : k <= m - 1
    BY <1>4, <1>5
  <2>5. m - 1 \in bounds
    BY <2>3, <2>4
  <2>6. <<m - 1, m>> \in {p \in Nat \X Nat : p[1] < p[2]}
    BY <1>4, <2>3
  <2>. QED
    BY <1>2, <1>3, <2>5, <2>6, Zenon
<1>. QED
  BY <1>4, <1>5

LEMMA SaidBoth ==
  ASSUME NEW p, NEW u
  PROVE  /\ SaidAt(u, "book", p) <=> Books(OldCasts[p], NewCasts[p], given.newSetup[p], given.setup[p], u)
         /\ SaidAt(u, "unbook", p) <=>
              Unbooks(OldCasts[p], NewCasts[p], given.newSetup[p], given.setup[p], u)
BY DEF SaidAt, Said

LEMMA NewCastsTyped ==
  ASSUME SoundGiven, NEW p \in Positions, NEW u \in DOMAIN NewCasts[p]
  PROVE  NewCasts[p][u] \in Int
<1>1. ASSUME NEW rows, SoundRows(rows), \A b \in rows : b.pos = p, NewCasts[p] = CastOf(rows)
      PROVE  NewCasts[p][u] \in Int
  <2>1. SoundCast(CastOf(rows))
    BY <1>1, CastOfRows
  <2>. QED
    BY <1>1, <2>1 DEF SoundCast
<1>2. NewCasts[p] # EmptyCast
  BY DEF EmptyCast
<1>3. SoundRows(given.rows)
  BY DEF SoundGiven
<1>4. SoundRows(RowsAt(given.rows, p)) /\ \A b \in RowsAt(given.rows, p) : b.pos = p
  BY <1>3, RowsAtSound DEF RowsAt
<1>5. CASE given.kind = "save"
  <2>1. NewCasts[p] = PayloadCasts[p]
    BY <1>2, <1>5, ListsOfSave
  <2>2. given.payload[p] \in Lists /\ PayloadCasts[p] = AsCast(given.payload[p])
    BY <1>2, <1>5, <2>1 DEF SoundGiven, PayloadCasts
  <2>3. u \in DOMAIN AsCast(given.payload[p])
    BY <2>1, <2>2
  <2>4. \A l \in Lists : \A v \in DOMAIN AsCast(l) : AsCast(l)[v] \in Int
    <3>. SUFFICES ASSUME NEW l \in Lists, NEW v \in DOMAIN AsCast(l) PROVE AsCast(l)[v] \in Int
      OBVIOUS
    <3>1. PICK m \in Nat :
           /\ DOMAIN l = 1..m
           /\ \A i \in 1..m : l[i] \in Users /\ l[i] \in Members(l) /\ AsCast(l)[l[i]] = i - 1
           /\ \A w \in Members(l) : w \in Users /\ \E i \in 1..m : l[i] = w
           /\ DOMAIN AsCast(l) = Members(l)
      BY ListIs
    <3>2. PICK i \in 1..m : l[i] = v
      BY <3>1
    <3>3. AsCast(l)[v] = i - 1
      BY <3>1, <3>2
    <3>. QED
      BY <3>1, <3>3
  <2>. QED
    BY <2>1, <2>2, <2>3, <2>4
<1>6. CASE given.kind = "update"
  <2>1. NewCasts[p] = CastOf(RowsAt(given.rows, p))
    BY <1>2, <1>6, ListsOfUpdate
  <2>. QED
    BY <1>1, <1>4, <2>1
<1>7. CASE given.kind = "cancel"
  <2>. DEFINE rest == {b \in RowsAt(given.rows, p) : b.user # given.user}
  <2>1. NewCasts[p] = CastOf(rest)
    BY <1>7 DEF NewCasts, WithoutUser
  <2>2. SoundRows(rest) /\ \A b \in rest : b.pos = p
    BY <1>4, SoundSubset
  <2>. HIDE DEF rest
  <2>. QED
    BY <1>1, <2>1, <2>2
<1>. QED
  BY <1>5, <1>6, <1>7 DEF SoundGiven

\* What books does not unbook.
LEMMA SaidOnce ==
  ASSUME LoopInv, LogInv, NEW p \in Positions, NEW u
  PROVE  ~(SaidAt(u, "book", p) /\ SaidAt(u, "unbook", p))
<1>1. given.newSetup[p] \in Int
  BY DEF LogInv
<1>2. u \in DOMAIN NewCasts[p] => NewCasts[p][u] \in Int
  BY NewCastsTyped DEF LoopInv
<1>3. \A x, y \in Int : ~(x < y /\ x >= y)
  OBVIOUS
<1>. QED
  BY <1>1, <1>2, <1>3, SaidBoth DEF Books, Unbooks

LEMMA RecordedIsStated ==
  ASSUME LoopInv, LogInv, step = "done", NEW u \in Users
  PROVE  LogAfter(NoLog, OldCasts, NewCasts, given.newSetup, given.setup, u) =
           IF EntriesOf(u) = {} THEN NoLog
           ELSE [last |-> entries[CHOOSE i \in EntriesOf(u) : \A j \in EntriesOf(u) : j <= i].type,
                 types |-> {entries[i].type : i \in EntriesOf(u)}]
<1>. DEFINE mine == EntriesOf(u)
            booked == {p \in Positions : SaidAt(u, "book", p)}
            unbooked == {p \in Positions : SaidAt(u, "unbook", p)}
            touched == booked \cup unbooked
            newest == CHOOSE i \in mine : \A j \in mine : j <= i
            last == IF \E p \in booked : \A q \in touched : q <= p THEN "book" ELSE "unbook"
            types == {t \in LogTypes : \/ t = "book" /\ booked # {}
                                       \/ t = "unbook" /\ unbooked # {}}
<1>1. LogAfter(NoLog, OldCasts, NewCasts, given.newSetup, given.setup, u) =
        IF touched = {} THEN NoLog ELSE [last |-> last, types |-> types]
  BY SaidBoth, Zenon DEF LogAfter
<1>2. Recorded(entries, Positions)
  BY DEF LogInv
<1>3. /\ Len(entries) \in Nat /\ DOMAIN entries = 1..Len(entries)
      /\ \A k \in 1..Len(entries) : entries[k] \in LogEntry
  BY <1>2, LenProperties, ElementOfSeq DEF Recorded
<1>4. mine \in SUBSET (1..Len(entries)) /\ \A k : k \in mine <=> k \in 1..Len(entries) /\ entries[k].user = u
  BY <1>3 DEF EntriesOf
<1>. HIDE DEF mine
<1>5. ASSUME NEW k \in mine
      PROVE  /\ entries[k].type \in LogTypes /\ entries[k].pos \in Positions
             /\ SaidAt(u, entries[k].type, entries[k].pos)
  <2>1. k \in 1..Len(entries) /\ entries[k].user = u
    BY <1>4
  <2>2. entries[k].type \in LogTypes /\ entries[k].pos \in Positions
    BY <1>3, <2>1 DEF LogEntry
  <2>3. SaidAt(entries[k].user, entries[k].type, entries[k].pos)
    BY <1>2, <2>1 DEF Recorded
  <2>. QED
    BY <2>1, <2>2, <2>3
<1>6. ASSUME NEW p \in Positions, NEW t \in LogTypes, SaidAt(u, t, p)
      PROVE  \E k \in mine : entries[k].type = t /\ entries[k].pos = p
  <2>1. PICK k \in 1..Len(entries) : entries[k] = Entry(u, t, p)
    BY <1>2, <1>6 DEF Recorded
  <2>. QED
    BY <1>4, <2>1, EntryIs
<1>7. \A k \in mine : \/ entries[k].type = "book" /\ entries[k].pos \in booked
                      \/ entries[k].type = "unbook" /\ entries[k].pos \in unbooked
  BY <1>5 DEF LogTypes
<1>8. \A p \in booked : \E k \in mine : entries[k].type = "book" /\ entries[k].pos = p
  BY <1>6 DEF LogTypes
<1>9. \A p \in unbooked : \E k \in mine : entries[k].type = "unbook" /\ entries[k].pos = p
  BY <1>6 DEF LogTypes
<1>10. booked \cap unbooked = {}
  BY SaidOnce
<1>11. booked \subseteq Positions /\ unbooked \subseteq Positions
  OBVIOUS
<1>. HIDE DEF booked, unbooked
<1>12. CASE mine = {}
  BY <1>1, <1>8, <1>9, <1>12 DEF mine
<1>13. CASE mine # {}
  <2>1. \E i \in mine : \A j \in mine : j <= i
    BY <1>3, <1>4, <1>13, GreatestIndex
  <2>2. newest \in mine /\ \A j \in mine : j <= newest
    BY <2>1
  <2>. HIDE DEF newest
  <2>3. touched # {}
    BY <1>7, <2>2
  <2>4. ASSUME NEW q \in touched PROVE q <= entries[newest].pos
    <3>1. PICK k \in mine : entries[k].pos = q
      BY <1>8, <1>9
    <3>2. k \in 1..Len(entries) /\ newest \in 1..Len(entries) /\ k <= newest
            /\ entries[k].user = entries[newest].user
      BY <1>4, <2>2
    <3>3. CASE k = newest
      <4>1. q \in Int
        BY <1>11 DEF Positions
      <4>. QED
        BY <3>1, <3>3, <4>1
    <3>4. CASE k < newest
      BY <1>2, <3>1, <3>2, <3>4 DEF Recorded
    <3>. QED
      BY <1>3, <3>2, <3>3, <3>4
  <2>5. last = entries[newest].type
    <3>1. CASE entries[newest].type = "book" /\ entries[newest].pos \in booked
      BY <2>4, <3>1
    <3>2. CASE entries[newest].type = "unbook" /\ entries[newest].pos \in unbooked
      <4>1. ASSUME NEW p \in booked, \A q \in touched : q <= p PROVE FALSE
        <5>1. p <= entries[newest].pos /\ entries[newest].pos <= p
          BY <2>4, <3>2, <4>1
        <5>2. p \in Int /\ entries[newest].pos \in Int
          BY <1>5, <1>11, <2>2 DEF Positions
        <5>3. p = entries[newest].pos
          BY <5>1, <5>2
        <5>. QED
          BY <1>10, <3>2, <5>3
      <4>. QED
        BY <3>2, <4>1
    <3>. QED
      BY <1>7, <2>2, <3>1, <3>2
  <2>6. types = {entries[i].type : i \in mine}
    <3>1. \A t : t \in types <=> (t = "book" /\ booked # {}) \/ (t = "unbook" /\ unbooked # {})
      BY DEF LogTypes
    <3>2. \A t : t \in {entries[i].type : i \in mine}
                  <=> (t = "book" /\ booked # {}) \/ (t = "unbook" /\ unbooked # {})
      BY <1>7, <1>8, <1>9
    <3>. HIDE DEF types
    <3>. QED
      BY <3>1, <3>2
  <2>. HIDE DEF last, types, touched
  <2>7. LogAfter(NoLog, OldCasts, NewCasts, given.newSetup, given.setup, u)
          = [last |-> entries[newest].type, types |-> {entries[i].type : i \in mine}]
    BY <1>1, <2>3, <2>5, <2>6
  <2>. QED
    BY <1>13, <2>7 DEF mine, newest
<1>. QED
  BY <1>12, <1>13

\* The loops write the log entries CastEngine states: of every user the types
\* and the entry inserted last (_diff_cast_transitions, per call of
\* _save_cast_item, against the lists before and after the whole handler).
THEOREM LoopWritesLog == LoopSpec => []LoopLog
<1>1. LoopInit => LoopInv /\ LogInv
  BY LoopInvInit, LogInvInit
<1>2. LoopInv /\ LogInv /\ [LoopNext]_loopVars => LoopInv' /\ LogInv'
  BY LoopInvNext, LogInvNext
<1>3. LoopInv /\ LogInv => LoopLog
  <2>. SUFFICES ASSUME LoopInv, LogInv PROVE LoopLog
    OBVIOUS
  <2>1. LogAsStated
    BY RecordedIsStated DEF LogAsStated
  <2>2. entries \in Seq(LogEntry)
    BY RecordedNone DEF LogInv, LoopInv, Recorded
  <2>3. \A i \in DOMAIN entries : entries[i] \in [user : Users, type : LogTypes, pos : Positions]
    BY <2>2, LenProperties, ElementOfSeq DEF LogEntry
  <2>4. LoopTypeOK
    BY <2>3 DEF LoopTypeOK, LogInv, LoopInv
  <2>. QED
    BY <2>1, <2>4 DEF LoopLog
<1>. QED
  BY <1>1, <1>2, <1>3, PTL DEF LoopSpec
=============================================================================
