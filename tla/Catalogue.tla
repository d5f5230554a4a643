------------------------------ MODULE Catalogue ------------------------------
(***************************************************************************)
(* The master data: instruments, voices, choir jobs, proprium elements,    *)
(* locations, roles, artists, works, scores, fees, short links, and the    *)
(* performances as far as place and hour go.  Their services have one      *)
(* shape: look for a row that says the same, look for rows that refer to   *)
(* it, then write and commit.  What another request commits in between,    *)
(* the constraints of the database must refuse.                            *)
(*                                                                         *)
(* A behaviour follows one table.  Columns that no check reads are left    *)
(* out; Role.label is checked and constrained as the name is.              *)
(***************************************************************************)
EXTENDS FiniteSetsExt, ForeignKeys, Requests

CONSTANTS
  MaxRows,   \* bounds, for one client and for two: rows created,
  MaxRefs,   \* referring tables that hold rows of the table,
  MaxHits    \* clicks on one short link

ASSUME CatalogueAssumption == \A n \in 1..2 : MaxRows[n] \in Nat

VARIABLES
  table,     \* the table followed
  rows,      \* [ids of the rows there are -> row]
  refs,      \* [ids of the rows there are -> tables that refer to the row]
  created    \* rows ever created; ids ascend (UUIDv7)

vars == <<table, clients, rows, refs, created, request>>

-----------------------------------------------------------------------------
(* Names.  "grosz" is spelled with a sharp s: upper() makes two letters of *)
(* it and lower() leaves it alone.  "_klein" has a blank in front.         *)

Spellings == {"gross", "Gross", "grosz", "mittel", "klein", "_klein"}

Stripped == [s \in Spellings |-> IF s = "_klein" THEN "klein" ELSE s]

Upper == [s \in {"gross", "grosz", "klein"} |-> IF s = "klein" THEN "KLEIN" ELSE "GROSS"]

\* lower() of what is stored as of what is sent.
Lower ==
  [s \in Spellings \cup {"GROSS", "KLEIN"} |->
     CASE s \in {"Gross", "GROSS"} -> "gross" [] s = "KLEIN" -> "klein" [] OTHER -> s]

\* Given names as stored: of each word the first letter is made a capital,
\* the rest stays as sent.
Givennames == {"Jean-paul", "Jean-Paul"}

LowerGivenname == [g \in Givennames |-> "jean-paul"]

Times == {"19:00", "19:30", "20:00"}

Hour == [t \in Times |-> IF t = "20:00" THEN "20" ELSE "19"]

AsSent == [s \in Spellings \cup Times |-> s]

-----------------------------------------------------------------------------
(* The services.  sent: what a request may name its row; stored: what      *)
(* becomes of it; sameness: under what the check compares; scope: what a   *)
(* name is told apart by besides (given name, composer, location, part);   *)
(* likeness: under what the check compares scopes; unique: whether the     *)
(* database has the constraint, which compares what is stored; guard: the  *)
(* tables a deletion looks into.                                           *)

Offering(guard, offers, names) ==
  [guard |-> guard, offers |-> offers, sent |-> names.sent, stored |-> names.stored,
   sameness |-> names.sameness, scopes |-> DOMAIN names.likeness,
   likeness |-> names.likeness, unique |-> names.unique]

\* Compared as they are.
Alike(scopes) == [s \in scopes |-> s]

Ordered == {"instruments", "voices", "choirjobs", "propriumelements", "locations", "roles"}

PositionGuard(t) ==
  IF t = "choirjobs" THEN {"performance_positions"}
                     ELSE {"ordinariumwork_positions", "performance_positions"}

CoreelementGuards ==
  [t \in Ordered |-> CASE t = "propriumelements" -> {"performance_proprium"}
                       [] t = "locations" -> {"performances"}
                       [] t = "roles" -> {"user_roles"}
                       [] OTHER -> PositionGuard(t)]

CoreelementNames ==
  [sent |-> {"gross", "mittel", "klein", "_klein"}, stored |-> Stripped, sameness |-> Stripped,
   likeness |-> Alike({"all"}), unique |-> TRUE]

CoreelementService(t) ==
  Offering(CoreelementGuards[t], {"update", "delete", "move"}, CoreelementNames)

\* The name is the surname, the scope the given name.
ArtistNames ==
  [sent |-> {"gross", "grosz", "klein"}, stored |-> Upper, sameness |-> Lower,
   likeness |-> LowerGivenname, unique |-> TRUE]

ArtistGuard == {"ordinariumworks", "propriumworks", "performances"}

ArtistService == Offering(ArtistGuard, {"update", "delete"}, ArtistNames)

OrdinariumworkNames ==
  [sent |-> {"gross", "Gross"}, stored |-> AsSent, sameness |-> Lower,
   likeness |-> Alike({"Haydn", "Mozart"}), unique |-> TRUE]

OrdinariumworkGuard == {"performances"}

OrdinariumworkService == Offering(OrdinariumworkGuard, {"update", "delete"}, OrdinariumworkNames)

PropriumworkNames ==
  [sent |-> {"gross", "Gross"}, stored |-> AsSent, sameness |-> Lower,
   likeness |-> Alike({"Haydn", "Mozart"}), unique |-> TRUE]

PropriumworkGuard == {"performance_proprium"}

PropriumworkService == Offering(PropriumworkGuard, {"update", "delete"}, PropriumworkNames)

ScoreNames ==
  [sent |-> {"gross", "Gross"}, stored |-> AsSent, sameness |-> AsSent,
   likeness |-> Alike({"Kyrie", "Gloria"}), unique |-> FALSE]

ScoreService == Offering({}, {"update"}, ScoreNames)

FeeNames ==
  [sent |-> {"gross", "klein", "_klein"}, stored |-> Stripped, sameness |-> Stripped,
   likeness |-> Alike({"all"}), unique |-> TRUE]

FeeService == Offering({}, {"update", "delete"}, FeeNames)

\* lstrip("/") of a path is what strip() of a name is.
ShorturlNames ==
  [sent |-> {"gross", "klein", "_klein"}, stored |-> Stripped, sameness |-> Stripped,
   likeness |-> Alike({"all"}), unique |-> TRUE]

ShorturlService == Offering({}, {"update", "delete", "hit"}, ShorturlNames)

\* Two performances collide in the same hour at the same location.  Past
\* ones are Casting's concern: here all are to come.
PerformanceTimes ==
  [sent |-> Times, stored |-> AsSent, sameness |-> Hour, likeness |-> Alike({"church"}),
   unique |-> FALSE]

PerformanceGuard == {"bookings", "booking_requests"}

PerformanceService == Offering(PerformanceGuard, {"update", "delete"}, PerformanceTimes)

Tables ==
  Ordered \cup {"artists", "ordinariumworks", "propriumworks", "scores", "fees", "shorturls",
                "performances"}

Services ==
  [t \in Tables |-> CASE t \in Ordered -> CoreelementService(t)
                      [] t = "artists" -> ArtistService
                      [] t = "ordinariumworks" -> OrdinariumworkService
                      [] t = "propriumworks" -> PropriumworkService
                      [] t = "scores" -> ScoreService
                      [] t = "fees" -> FeeService
                      [] t = "shorturls" -> ShorturlService
                      [] t = "performances" -> PerformanceService]

Service == Services[table]

Offers(op) == op \in Service.offers

-----------------------------------------------------------------------------
(* Rows, and what refers to them.                                          *)

Ids == DOMAIN rows

\* The tables that may refer to a row of the table, and what its deletion
\* does to their rows.
Referring(rules) == {k[1] : k \in {m \in ModelKeys : m[3] = table /\ m[4] \in rules}}

Referrers == Referring({"RESTRICT", "CASCADE", "SET NULL"})

\* A booking takes a position of its performance's setup, and goes with it.
TakesPosition(child) == child = "bookings" /\ table # "performances"

\* Log entries are never removed.
Kept == {"booking_logs"}

\* The rows a check or a lookup finds.
Found(sent, scope, apart) ==
  {i \in Ids \ apart : /\ Service.sameness[rows[i].name] = Service.sameness[sent]
                       /\ Service.likeness[rows[i].scope] = Service.likeness[scope]}

\* The rows the unique constraint tells a new or changed one apart from.
Clashes(name, scope, apart) ==
  Service.unique /\ \E i \in Ids \ apart : rows[i].name = name /\ rows[i].scope = scope

Above(i) == {j \in Ids : \/ rows[j].order < rows[i].order
                         \/ rows[j].order = rows[i].order /\ j < i}

\* ORDER BY sort_order, id.
Place(i) == Cardinality(Above(i)) + 1

-----------------------------------------------------------------------------
(* Creating, renaming, moving and deleting a row.                          *)

UnchangedButRequest == UNCHANGED <<table, clients, rows, refs, created>>

Creating == {c \in clients : request[c].step \in {"order", "insert"}}

\* _validate: the lookup of the services other than the performances'
\* expects one row at most (scalar_one_or_none).
AfterCheck(step, found, id, next) ==
  IF found = {} THEN next
  ELSE IF Cardinality(found) > 1 /\ table # "performances" THEN Failed(step, "twice", id)
  ELSE Rest

CheckCreate(c) ==
  /\ Idle(c)
  /\ \E sent \in Service.sent, scope \in Service.scopes :
       /\ Found(sent, scope, {}) # {} \/ created + Cardinality(Creating) < Bound(MaxRows)
       /\ Continue(c, AfterCheck("create", Found(sent, scope, {}), 0,
            [step |-> IF table \in Ordered THEN "order" ELSE "insert",
             name |-> Service.stored[sent], scope |-> scope, order |-> 0]))
  /\ UnchangedButRequest

\* Mutant: the order is the number of rows plus one.
ReadOrderCounting(c) ==
  /\ At(c, "order")
  /\ Continue(c, [request[c] EXCEPT !.step = "insert", !.order = Cardinality(Ids) + 1])
  /\ UnchangedButRequest

ReadOrder(c) ==
  /\ At(c, "order")
  /\ Continue(c, [step |-> "insert", name |-> request[c].name, scope |-> request[c].scope,
                  order |-> Max({rows[i].order : i \in Ids} \cup {0}) + 1])
  /\ UnchangedButRequest

Insert(c) ==
  /\ At(c, "insert")
  /\ IF Clashes(request[c].name, request[c].scope, {})
       THEN /\ Continue(c, Failed("create", "unique", 0))
            /\ UNCHANGED <<rows, refs, created>>
       ELSE /\ created' = created + 1
            /\ rows' = [i \in Ids \cup {created'} |->
                          IF i = created'
                            THEN [name |-> request[c].name, scope |-> request[c].scope,
                                  order |-> request[c].order, counter |-> 0, hits |-> 0]
                            ELSE rows[i]]
            /\ refs' = [i \in Ids \cup {created'} |-> IF i = created' THEN {} ELSE refs[i]]
            /\ Continue(c, Rest)
  /\ UNCHANGED <<table, clients>>

\* The session writes the attributes that differ from what it loaded.
Unchanged == "unchanged"

Changes(new, loaded) ==
  [name  |-> IF new.name = loaded.name THEN Unchanged ELSE new.name,
   scope |-> IF new.scope = loaded.scope THEN Unchanged ELSE new.scope]

Written(row, changes) ==
  [name    |-> IF changes.name = Unchanged THEN row.name ELSE changes.name,
   scope   |-> IF changes.scope = Unchanged THEN row.scope ELSE changes.scope,
   order   |-> row.order, counter |-> row.counter, hits |-> row.hits]

CheckUpdate(c) ==
  /\ Idle(c) /\ Offers("update")
  /\ \E id \in Ids, sent \in Service.sent, scope \in Service.scopes :
       Continue(c, AfterCheck("update", Found(sent, scope, {id}), id,
         [step |-> "update", id |-> id,
          changes |-> Changes([name |-> Service.stored[sent], scope |-> scope], rows[id])]))
  /\ UnchangedButRequest

\* Mutant: an update starts the counter anew.
UpdateRestarting(c) ==
  /\ At(c, "update")
  /\ LET id == request[c].id
         row == [Written(rows[id], request[c].changes) EXCEPT !.counter = 0]
     IN /\ id \in Ids /\ ~Clashes(row.name, row.scope, {id})
        /\ rows' = [rows EXCEPT ![id] = row] /\ Continue(c, Rest)
  /\ UNCHANGED <<table, clients, refs, created>>

\* An UPDATE that finds no row raises StaleDataError; none is sent when no
\* attribute differs, these or the ones left out.
Update(c) ==
  /\ At(c, "update")
  /\ LET id      == request[c].id
         changes == request[c].changes
     IN IF id \notin Ids
          THEN /\ \/ Continue(c, Failed("update", "stale", id))
                  \/ {changes.name, changes.scope} = {Unchanged} /\ Continue(c, Rest)
               /\ UNCHANGED rows
          ELSE LET row == Written(rows[id], changes)
               IN IF Clashes(row.name, row.scope, {id})
                    THEN Continue(c, Failed("update", "unique", id)) /\ UNCHANGED rows
                    ELSE rows' = [rows EXCEPT ![id] = row] /\ Continue(c, Rest)
  /\ UNCHANGED <<table, clients, refs, created>>

CheckDelete(c) ==
  /\ Idle(c) /\ Offers("delete")
  /\ \E id \in Ids :
       /\ refs[id] \cap Service.guard = {}
       /\ Continue(c, [step |-> "delete", id |-> id])
  /\ UnchangedButRequest

\* A DELETE that finds no row only warns.  SET NULL and CASCADE keys let the
\* row go: the referring rows lose the reference, or go too.
Delete(c) ==
  /\ At(c, "delete")
  /\ LET id == request[c].id
     IN IF id \in Ids /\ refs[id] \cap Referring({"RESTRICT"}) # {}
          THEN Continue(c, Failed("delete", "key", id)) /\ UNCHANGED <<rows, refs>>
          ELSE /\ rows' = [i \in Ids \ {id} |-> rows[i]]
               /\ refs' = [i \in Ids \ {id} |-> refs[i]]
               /\ Continue(c, Rest)
  /\ UNCHANGED <<table, clients, created>>

\* The orders two neighbours are to have.
Exchanged(i, j) == [k \in {i, j} |-> IF k = i THEN rows[j].order ELSE rows[i].order]

\* Mutant: the list comes in the order of creation.
ReadListByCreation(c) ==
  /\ Idle(c) /\ Offers("move")
  /\ \E i, j \in Ids :
       /\ j - i \in {-1, 1}
       /\ Continue(c, [step |-> "swap", orders |-> Exchanged(i, j)])
  /\ UnchangedButRequest

\* No-op at either end of the list.
ReadList(c) ==
  /\ Idle(c) /\ Offers("move")
  /\ \E i, j \in Ids :
       /\ Place(j) - Place(i) \in {-1, 1}
       /\ Continue(c, [step |-> "swap", orders |-> Exchanged(i, j)])
  /\ UnchangedButRequest

\* Equal orders differ from nothing: neither row is written.
Swap(c) ==
  /\ At(c, "swap")
  /\ LET orders == request[c].orders
         moved  == DOMAIN orders
     IN IF Cardinality({orders[i] : i \in moved}) = 1
          THEN Continue(c, Rest) /\ UNCHANGED rows
        ELSE IF ~(moved \subseteq Ids)
          THEN Continue(c, Failed("move", "stale", Min(moved))) /\ UNCHANGED rows
        ELSE /\ rows' = [i \in Ids |-> IF i \in moved THEN [rows[i] EXCEPT !.order = orders[i]]
                                                      ELSE rows[i]]
             /\ Continue(c, Rest)
  /\ UNCHANGED <<table, clients, refs, created>>

\* Another service has found the row, and inserts one that refers to it.
CheckReferred(c) ==
  /\ Idle(c)
  /\ Cardinality({r \in Ids \X Referrers : r[2] \in refs[r[1]]}) < Bound(MaxRefs)
  /\ \E id \in Ids, child \in Referrers :
       /\ TakesPosition(child) => "performance_positions" \in refs[id]
       /\ Continue(c, [step |-> "refer", id |-> id, child |-> child])
  /\ UnchangedButRequest

Refer(c) ==
  /\ At(c, "refer")
  /\ LET id    == request[c].id
         child == request[c].child
     IN IF id \notin Ids
          THEN Continue(c, Failed("refer", "key", id)) /\ UNCHANGED refs
        ELSE IF TakesPosition(child) /\ "performance_positions" \notin refs[id]
          THEN Continue(c, Rest) /\ UNCHANGED refs
        ELSE /\ refs' = [refs EXCEPT ![id] = @ \cup {child}]
             /\ Continue(c, Rest)
  /\ UNCHANGED <<table, clients, rows, created>>

Unrefer(c) ==
  /\ Idle(c)
  /\ \E id \in Ids : \E child \in refs[id] \ Kept :
       refs' = [refs EXCEPT ![id] =
                  {r \in @ \ {child} : ~(TakesPosition(r) /\ child = "performance_positions")}]
  /\ Continue(c, Rest)
  /\ UNCHANGED <<table, clients, rows, created>>

\* resolve_and_record_hit: counter += 1 on the row as read.
Resolve(c) ==
  /\ Idle(c) /\ Offers("hit")
  /\ \E id \in Ids :
       /\ rows[id].hits < Bound(MaxHits)
       /\ Continue(c, [step |-> "hit", id |-> id, counter |-> rows[id].counter])
  /\ UnchangedButRequest

RecordHit(c) ==
  /\ At(c, "hit")
  /\ LET id == request[c].id
     IN IF id \notin Ids
          THEN Continue(c, Failed("hit", "stale", id)) /\ UNCHANGED rows
          ELSE /\ rows' = [rows EXCEPT ![id] =
                    [name |-> @.name, scope |-> @.scope, order |-> @.order,
                     counter |-> request[c].counter + 1, hits |-> @.hits + 1]]
               /\ Continue(c, Rest)
  /\ UNCHANGED <<table, clients, refs, created>>

Init ==
  /\ table \in Tables
  /\ clients \in {{1}, {1, 2}}
  /\ rows = [i \in {} |-> 0]
  /\ refs = [i \in {} |-> {}]
  /\ created = 0
  /\ request = [c \in clients |-> Rest]

Next ==
  \E c \in {1, 2} :
    \/ CheckCreate(c) \/ ReadOrder(c) \/ Insert(c)
    \/ CheckUpdate(c) \/ Update(c)
    \/ CheckDelete(c) \/ Delete(c)
    \/ ReadList(c) \/ Swap(c)
    \/ CheckReferred(c) \/ Refer(c) \/ Unrefer(c)
    \/ Resolve(c) \/ RecordHit(c)

Spec == Init /\ [][Next]_vars

-----------------------------------------------------------------------------
TypeOK ==
  /\ table \in Tables
  /\ created \in 0..Bound(MaxRows)
  /\ Ids \subseteq 1..created
  /\ DOMAIN refs = Ids
  /\ \A i \in Ids :
       /\ rows[i].name \in {Service.stored[s] : s \in Service.sent}
       /\ rows[i].scope \in Service.scopes
       /\ rows[i].order \in IF table \in Ordered THEN 1..Bound(MaxRows) ELSE {0}
       /\ refs[i] \subseteq Referrers
  /\ DOMAIN request = clients

\* Artists whose surname a request may spell with a sharp s: the check then
\* takes it for another one.
Misspelled(i) == table = "artists" /\ rows[i].name = "GROSS"

\* The services' checks foresee what the database refuses: a request that
\* nothing interferes with ends in an exception only where it deletes a
\* position that users play or the log names, or where an artist's surname
\* may be spelled with a sharp s.
AloneRefusedInTime ==
  Alone => \A c \in clients : request[c].step = "failed" =>
    \/ /\ request[c].at = "delete" /\ table \in {"instruments", "voices", "choirjobs"}
       /\ refs[request[c].id] \cap {"user_positions", "booking_logs"} # {}
    \/ request[c].cause \in {"unique", "twice"} /\ \E i \in Ids : Misspelled(i)

\* Without interference no two rows say the same, artists apart whose
\* surname may be spelled with a sharp s and whose given names differ in
\* case: the constraint is exact.  No two elements have the same place in
\* the order.
AloneDistinct ==
  Alone => \A i, j \in Ids : i # j =>
    /\ \/ Service.likeness[rows[i].scope] # Service.likeness[rows[j].scope]
       \/ Service.sameness[rows[i].name] # Service.sameness[rows[j].name]
       \/ Misspelled(i) /\ rows[i].scope # rows[j].scope
    /\ table \in Ordered => rows[i].order # rows[j].order

\* Whatever interferes, a lookup by name finds one row at most: except in
\* the tables whose constraint lets pass what the check refuses (artists
\* and works: another case) or that have none (scores, performances).
\* There twins slip in, and every later check that meets them fails, but
\* for the performances'.
LookupsUnambiguous ==
  table \notin {"artists", "ordinariumworks", "propriumworks", "scores", "performances"} =>
    \A sent \in Service.sent, scope \in Service.scopes :
      Cardinality(Found(sent, scope, {})) <= 1

\* The services' checks do what the constraints below them do not: rows stay
\* distinct, lookups unambiguous, refusals early.
ChecksHold == TypeOK /\ AloneRefusedInTime /\ AloneDistinct /\ LookupsUnambiguous

\* The clicks counted are clicks made; none is missed unless two come at once.
ClicksCounted ==
  \A i \in Ids : /\ rows[i].counter <= rows[i].hits
                 /\ Alone => rows[i].counter = rows[i].hits

\* However a deletion races, it takes along only what is part of the row:
\* the positions of a work or a performance, its proprium and rehearsals;
\* log entries of a performance stay without it.
DeletionTakesParts ==
  [][\A i \in Ids : i \notin Ids' =>
       refs[i] \subseteq
         (CASE table = "ordinariumworks" -> {"ordinariumwork_positions"}
            [] table = "performances" -> {"performance_positions", "performance_proprium",
                                          "performance_rehearsals", "booking_logs"}
            [] OTHER -> {})]_vars

\* A move without interference exchanges two neighbours and leaves every
\* other element where it is.
MovesByOne ==
  [][\A c \in clients : Alone /\ request[c].step = "swap" =>
       \E i, j \in Ids :
         /\ Place(j) = Place(i) + 1
         /\ Place(i)' = Place(j) /\ Place(j)' = Place(i)
         /\ \A k \in Ids \ {i, j} : Place(k)' = Place(k)]_vars
=============================================================================
