----------------------------- MODULE Migrations -----------------------------
(***************************************************************************)
(* The migrations of alembic/versions that add foreign keys, replace the   *)
(* polymorphic positions by three columns and exchange every integer id    *)
(* for a UUID, in three releases: bridge columns beside the old ones, the  *)
(* cutover, and the removal of the old ones.  Each migration is one        *)
(* transaction: it takes place as a whole or it is refused.                *)
(*                                                                         *)
(* One foreign-key column is followed, any of the 38, through all of them, *)
(* with the rows that hold it, while releases of the application between   *)
(* the migrations insert, change and delete.  A parent stands for its      *)
(* integer and for its UUID.  Migrations that touch no such column are     *)
(* left out of the chain.                                                  *)
(***************************************************************************)
EXTENDS Integers, Sequences, FiniteSets, MigrationKeys

CONSTANTS
  Parents,   \* the rows of the referenced table
  Rows,      \* the rows of the table that holds the column
  Null

ASSUME NullAssumption ==
  /\ Null \notin Parents
  /\ "other" \notin Parents \cup {Null}   \* the number of another type is no parent's

VARIABLES
  key,       \* the column: [table, column]
  rev,       \* how far along Chain the database is
  rule,      \* ON DELETE of the column's constraint; "none" without one
  notnull,   \* those of the columns "reference", "bridge", "previous" that are NOT NULL
  parents,   \* the rows of the referenced table that exist
  rows,      \* [Rows -> what the row holds, or Absent]
  moved      \* rows whose reference has changed since the bridge was filled

vars == <<key, rev, rule, notnull, parents, rows, moved>>

Chain == <<"6e1829d5f417", "1319fb6d1fac", "9895db228a15", "81159257db39", "486c6e00cbd4",
           "7f5f0d1ca83e", "0d68c97c7933", "372cab77ea9b", "ad392756fe88", "b70c44b3cf7b",
           "b38dcbca4172", "c5d4bc206313">>

Since(id) == \E i \in 1..rev : Chain[i] = id

AtHead == rev = Len(Chain)

At == <<key.table, key.column>>

IsPosition == key.column \in PositionColumns

\* A position's row holds a type and a number until 0d68c97c7933: "other" is
\* a number of another type.  The value of the column, and of its bridge, is
\* a parent or Null; a deleted parent's id dangles.
Absent == [position |-> Null, reference |-> Null, bridge |-> Null, exists |-> FALSE]

Values == Parents \cup {Null}

Present == {r \in Rows : rows[r].exists}

Dangles(value) == value \notin parents \cup {Null, "other"}

\* What the application of the time takes a row to refer to.
Meaning(r) ==
  IF IsPosition /\ ~Since("7f5f0d1ca83e")
    THEN IF rows[r].position = "other" THEN Null ELSE rows[r].position
    ELSE rows[r].reference

TypeOK ==
  /\ key \in [table : {k[1] : k \in ModelKeys}, column : {k[2] : k \in ModelKeys}]
  /\ rev \in 1..Len(Chain)
  /\ rule \in {"none", "NO ACTION", "RESTRICT", "CASCADE", "SET NULL"}
  /\ notnull \subseteq {"reference", "bridge", "previous"}
  /\ parents \subseteq Parents
  /\ rows \in [Rows -> [position : Values \cup {"other"}, reference : Values,
                        bridge : Values, exists : BOOLEAN]]
  /\ moved \subseteq Rows

BaselineNotNull ==
  UNION {BaselineBookings, BaselineWorks, BaselinePerformances, BaselineUsers}

RuleIn(keys) == {k[4] : k \in {m \in keys : <<m[1], m[2]>> = At}}

Init ==
  /\ key \in {[table |-> k[1], column |-> k[2]] : k \in ModelKeys}
  /\ rev = 1
  /\ rule = IF RuleIn(BaselineKeys) = {} THEN "none" ELSE "NO ACTION"
  /\ notnull = IF At \in BaselineNotNull THEN {"reference"} ELSE {}
  /\ parents \in SUBSET Parents
  /\ rows = [r \in Rows |-> Absent]
  /\ moved = {}

-----------------------------------------------------------------------------
(* The migrations.                                                         *)

Upgrade(id) ==
  /\ ~AtHead /\ Chain[rev + 1] = id
  /\ rev' = rev + 1
  /\ UNCHANGED <<key, parents>>

Downgrade(id) ==
  /\ Chain[rev] = id
  /\ rev' = rev - 1
  /\ UNCHANGED <<key, parents>>

\* ADD CONSTRAINT validates the rows there are.
Valid(table) == \A r \in Rows : ~Dangles(table[r].reference)

AddKeys(keys) ==
  IF RuleIn(keys) = {} THEN rule' = rule
  ELSE /\ Valid(rows')
       /\ rule' \in RuleIn(keys)

DropKeys(keys) == rule' = IF RuleIn(keys) = {} THEN rule ELSE "none"

Each(f(_)) == rows' = [r \in Rows |-> IF rows[r].exists THEN f(r) ELSE Absent]

AddRestrictKeys ==
  /\ Upgrade("1319fb6d1fac")
  /\ UNCHANGED <<rows, notnull, moved>>
  /\ AddKeys(RestrictKeys)

DropRestrictKeys ==
  /\ Downgrade("1319fb6d1fac")
  /\ DropKeys(RestrictKeys)
  /\ UNCHANGED <<rows, notnull, moved>>

\* Mutant: the clean-up before the keys is left out.
SetOrphanLeft(r) == rows[r]

SetOrphan(r) ==
  IF At \in OrphanCleanup /\ Dangles(rows[r].reference)
    THEN [rows[r] EXCEPT !.reference = Null] ELSE rows[r]

AddSetNullKeys ==
  /\ Upgrade("9895db228a15")
  /\ Each(SetOrphan)
  /\ notnull' = IF At \in NullablePrep THEN {} ELSE notnull
  /\ AddKeys(SetNullKeys)
  /\ UNCHANGED moved

\* NOT NULL comes back only where no row is null.
DropSetNullKeys ==
  /\ Downgrade("9895db228a15")
  /\ DropKeys(SetNullKeys)
  /\ IF At \in NullablePrep
       THEN /\ \A r \in Present : rows[r].reference # Null
            /\ notnull' = {"reference"}
       ELSE notnull' = notnull
  /\ UNCHANGED <<rows, moved>>

DropOrphan(r) ==
  IF At \in OrphanDeletion /\ Dangles(rows[r].reference) THEN Absent ELSE rows[r]

AddCascadeKeys ==
  /\ Upgrade("81159257db39")
  /\ Each(DropOrphan)
  /\ AddKeys(CascadeKeys)
  /\ UNCHANGED <<notnull, moved>>

DropCascadeKeys ==
  /\ Downgrade("81159257db39")
  /\ DropKeys(CascadeKeys)
  /\ UNCHANGED <<rows, notnull, moved>>

SetUserRoleRules ==
  /\ Upgrade("486c6e00cbd4")
  /\ UNCHANGED <<rows, notnull, moved>>
  /\ AddKeys(UserRoleKeys)

ResetUserRoleRules ==
  /\ Downgrade("486c6e00cbd4")
  /\ UNCHANGED <<rows, notnull, moved>>
  /\ AddKeys(BaselineKeys)

\* One UPDATE per type copies the number to the type's column; no orphan is
\* cleaned up here.
FillPosition(r) ==
  [rows[r] EXCEPT !.reference = IF rows[r].position = "other" THEN Null ELSE rows[r].position]

AddPositionColumns ==
  /\ Upgrade("7f5f0d1ca83e")
  /\ IF IsPosition THEN Each(FillPosition) ELSE rows' = rows
  /\ AddKeys(PositionKeys)
  /\ UNCHANGED <<notnull, moved>>

\* Drops the columns; type and number are still there.
DropPositionColumns ==
  /\ Downgrade("7f5f0d1ca83e")
  /\ rows' = IF IsPosition THEN [r \in Rows |-> [rows[r] EXCEPT !.reference = Null]] ELSE rows
  /\ DropKeys(PositionKeys)
  /\ UNCHANGED <<notnull, moved>>

DropTypeAndNumber ==
  /\ Upgrade("0d68c97c7933")
  /\ rows' = [r \in Rows |-> [rows[r] EXCEPT !.position = Null]]
  /\ UNCHANGED <<rule, notnull, moved>>

\* Mutant: the numbers are not read back from the columns.
FormerPositionLost(r) == [rows[r] EXCEPT !.position = "other"]

FormerPosition(r) ==
  [rows[r] EXCEPT !.position = IF rows[r].reference = Null THEN "other" ELSE rows[r].reference]

RestoreTypeAndNumber ==
  /\ Downgrade("0d68c97c7933")
  /\ IF IsPosition THEN Each(FormerPosition) ELSE rows' = rows
  /\ UNCHANGED <<rule, notnull, moved>>

AddTokenKey ==
  /\ Upgrade("372cab77ea9b")
  /\ UNCHANGED <<rows, notnull, moved>>
  /\ AddKeys(TokenKeys)

DropTokenKey ==
  /\ Downgrade("372cab77ea9b")
  /\ DropKeys(TokenKeys)
  /\ UNCHANGED <<rows, notnull, moved>>

\* Phase A.  The column joins with its parent's id_uuid.
Bridge(r) ==
  [rows[r] EXCEPT !.bridge = IF rows[r].reference \in parents THEN rows[r].reference ELSE Null]

AddBridge ==
  /\ Upgrade("ad392756fe88")
  /\ Each(Bridge)
  /\ moved' = {}
  /\ UNCHANGED <<rule, notnull>>

DropBridge ==
  /\ Downgrade("ad392756fe88")
  /\ rows' = [r \in Rows |-> [rows[r] EXCEPT !.bridge = Null]]
  /\ moved' = {}
  /\ UNCHANGED <<rule, notnull>>

\* Phase B.  Only a bridge that is null is filled.
FinalBackfill(r) ==
  IF rows[r].bridge = Null /\ rows[r].reference \in parents THEN rows[r].reference
  ELSE rows[r].bridge

\* The integrity gate counts the bridges that are null.
BackfillComplete == \A r \in Present : rows[r].reference # Null => FinalBackfill(r) # Null

RecreatedNotNull ==
  At \in CutoverNotNull => \A r \in Present : FinalBackfill(r) # Null

RecreatedUnique ==
  At \in UniqueColumns =>
    \A r, q \in Present : r # q /\ FinalBackfill(r) # Null => FinalBackfill(r) # FinalBackfill(q)

Promote(r) == [rows[r] EXCEPT !.reference = FinalBackfill(r), !.bridge = Null]

\* The renamed integer column loses its NOT NULL where the list knows of one.
RenamedNotNull ==
  IF At \in CutoverNotNull THEN {"reference"}
  ELSE IF "reference" \in notnull THEN {"previous"} ELSE {}

Cutover ==
  /\ Upgrade("b70c44b3cf7b")
  /\ BackfillComplete
  /\ RecreatedNotNull
  /\ RecreatedUnique
  /\ Each(Promote)
  /\ AddKeys(CutoverKeys)
  /\ notnull' = RenamedNotNull
  /\ moved' = {}

\* Phase C.  Neither B nor C has a downgrade: it raises.
DropPreviousInt ==
  /\ Upgrade("b38dcbca4172")
  /\ notnull' = notnull \ {"previous"}
  /\ UNCHANGED <<rule, rows, moved>>

MakeExplicit ==
  /\ Upgrade("c5d4bc206313")
  /\ UNCHANGED <<rows, notnull, moved>>
  /\ AddKeys(ExplicitKeys)

MakeImplicit ==
  /\ Downgrade("c5d4bc206313")
  /\ UNCHANGED <<rows, notnull, moved>>
  /\ AddKeys(ExplicitKeys)

Upgrades ==
  \/ AddRestrictKeys \/ AddSetNullKeys \/ AddCascadeKeys \/ SetUserRoleRules
  \/ AddPositionColumns \/ DropTypeAndNumber \/ AddTokenKey
  \/ AddBridge \/ Cutover \/ DropPreviousInt \/ MakeExplicit

Downgrades ==
  \/ DropRestrictKeys \/ DropSetNullKeys \/ DropCascadeKeys \/ ResetUserRoleRules
  \/ DropPositionColumns \/ RestoreTypeAndNumber \/ DropTokenKey
  \/ DropBridge \/ MakeImplicit

-----------------------------------------------------------------------------
(* The application, in the release that fits the revision.  Between        *)
(* 7f5f0d1ca83e and 0d68c97c7933 no release can insert a position; they    *)
(* are taken to be deployed together.                                      *)

Served == Chain[rev] # "7f5f0d1ca83e"

Optional == NullableColumns \ NullablePrep

Distinct(r, value) ==
  At \in UniqueColumns /\ value # Null => \A q \in Present \ {r} : Meaning(q) # value

\* A row as the release of the time writes it; no release writes the bridge.
Written(row, value) ==
  IF IsPosition /\ ~Since("0d68c97c7933")
    THEN [row EXCEPT !.exists = TRUE, !.position = IF value = Null THEN "other" ELSE value]
    ELSE [row EXCEPT !.exists = TRUE, !.reference = value]

Insert(r) ==
  /\ Served
  /\ ~rows[r].exists
  /\ \E value \in parents \cup (IF At \in Optional THEN {Null} ELSE {}) :
       /\ Distinct(r, value)
       /\ rows' = [rows EXCEPT ![r] = Written(Absent, value)]
  /\ UNCHANGED <<key, rev, rule, notnull, parents, moved>>

\* The columns an update of the services assigns.
UpdatedWork == Columns("ordinariumworks", {"artist_id"}) \cup Columns("propriumworks", {"artist_id"})

UpdatedPerformance == Columns("performances", {"location_id", "ordinariumwork_id", "artist_id"})

UpdatedProprium == Columns("performance_proprium", {"propriumwork_id"})

Moved(changed) ==
  moved' = IF Chain[rev] = "ad392756fe88" THEN moved \cup changed ELSE moved

Repoint(r) ==
  /\ Served
  /\ rows[r].exists
  /\ At \in UNION {UpdatedWork, UpdatedPerformance, UpdatedProprium}
  /\ \E value \in parents \cup (IF At \in Optional THEN {Null} ELSE {}) :
       /\ value # rows[r].reference
       /\ Distinct(r, value)
       /\ rows' = [rows EXCEPT ![r] = Written(@, value)]
  /\ Moved({r})
  /\ UNCHANGED <<key, rev, rule, notnull, parents>>

Delete(r) ==
  /\ Served
  /\ rows[r].exists
  /\ rows' = [rows EXCEPT ![r] = Absent]
  /\ moved' = moved \ {r}
  /\ UNCHANGED <<key, rev, rule, notnull, parents>>

InsertParent(p) ==
  /\ Served
  /\ p \notin parents /\ \A r \in Present : Meaning(r) # p
  /\ parents' = parents \cup {p}
  /\ UNCHANGED <<key, rev, rule, notnull, rows, moved>>

Children(p) == {r \in Present : Meaning(r) = p}

\* Without a key an older release may leave the rows behind.
DeleteParentUnkept(p) ==
  /\ rule = "none"
  /\ UNCHANGED <<rows, moved>>

DeleteParentRestricted(p) ==
  /\ rule \in {"RESTRICT", "NO ACTION"}
  /\ Children(p) = {}
  /\ UNCHANGED <<rows, moved>>

DeleteParentCascading(p) ==
  /\ rule = "CASCADE"
  /\ rows' = [r \in Rows |-> IF r \in Children(p) THEN Absent ELSE rows[r]]
  /\ moved' = moved \ Children(p)

DeleteParentNulling(p) ==
  /\ rule = "SET NULL" /\ "reference" \notin notnull
  /\ rows' = [r \in Rows |-> IF r \in Children(p) THEN [rows[r] EXCEPT !.reference = Null]
                             ELSE rows[r]]
  /\ Moved(Children(p))

DeleteParent(p) ==
  /\ Served
  /\ p \in parents
  /\ parents' = parents \ {p}
  /\ \/ DeleteParentUnkept(p) \/ DeleteParentRestricted(p)
     \/ DeleteParentCascading(p) \/ DeleteParentNulling(p)
  /\ UNCHANGED <<key, rev, rule, notnull>>

Next ==
  \/ Upgrades
  \/ Downgrades
  \/ \E r \in Rows : Insert(r) \/ Repoint(r) \/ Delete(r)
  \/ \E p \in Parents : InsertParent(p) \/ DeleteParent(p)

Spec == Init /\ [][Next]_vars

-----------------------------------------------------------------------------
(* Properties.                                                             *)

\* Whatever a migration does to tables and keys, a row the running
\* application has left alone since its bridge was filled still refers to what
\* it referred to.  Orphans excepted, there is nothing to keep.
UnmovedKept ==
  [][rev' # rev =>
       \A r \in Present \ moved :
         ~Dangles(Meaning(r)) => rows'[r].exists /\ Meaning(r)' = Meaning(r)]_vars

\* The same of every row: the final backfill of the cutover closes the gap for
\* rows "inserted or repointed" since the bridge was filled
\* (b70c44b3cf7b, _final_backfill).
ReferencesKept ==
  [][rev' # rev =>
       \A r \in Present :
         ~Dangles(Meaning(r)) => rows'[r].exists /\ Meaning(r)' = Meaning(r)]_vars

\* A migration is refused for two reasons only: orphans in a column that has no
\* clean-up, which are left to an operator, and rows changed under the bridge.
RefusedForCause ==
  (~AtHead /\ ~ENABLED Upgrades) =>
    \/ moved # {}
    \/ At \notin OrphanCleanup \cup OrphanDeletion
         /\ \E r \in Present : Dangles(Meaning(r))

\* No release meets a NOT NULL column it does not write, at any revision.
InsertsServed == notnull \subseteq {"reference"} /\ (At \in Optional => notnull = {})

\* The chain, its lists copied by hand from migration to migration, ends with
\* the keys the models declare and the services rely on.
HeadIsTheModels ==
  AtHead => /\ rule \in RuleIn(ModelKeys)
          /\ notnull = IF At \in NullableColumns THEN {} ELSE {"reference"}

\* The chain serves the releases that run while it is upgraded, and it ends
\* where the models begin.
ChainServes == TypeOK /\ InsertsServed /\ HeadIsTheModels
=============================================================================
