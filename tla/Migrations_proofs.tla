-------------------------- MODULE Migrations_proofs --------------------------
(***************************************************************************)
(* Proofs about the migrations, for any number of parents and rows and any *)
(* way up and down the chain: what rows that have not moved refer to       *)
(* survives, the lists of keys lead to the models, and a migration is      *)
(* refused for orphans and for moved rows only.                            *)
(***************************************************************************)
EXTENDS Migrations, TLAPS

-----------------------------------------------------------------------------
(* The chain.                                                              *)

LEMMA ChainIs ==
  /\ Len(Chain) = 12
  /\ Chain[1] = "6e1829d5f417" /\ Chain[2] = "1319fb6d1fac" /\ Chain[3] = "9895db228a15"
  /\ Chain[4] = "81159257db39" /\ Chain[5] = "486c6e00cbd4" /\ Chain[6] = "7f5f0d1ca83e"
  /\ Chain[7] = "0d68c97c7933" /\ Chain[8] = "372cab77ea9b" /\ Chain[9] = "ad392756fe88"
  /\ Chain[10] = "b70c44b3cf7b" /\ Chain[11] = "b38dcbca4172" /\ Chain[12] = "c5d4bc206313"
BY DEF Chain

\* Where each migration leads to.
LEMMA Places ==
  ASSUME NEW n \in 1..12
  PROVE  /\ Chain[n] = "1319fb6d1fac" <=> n = 2
         /\ Chain[n] = "9895db228a15" <=> n = 3
         /\ Chain[n] = "81159257db39" <=> n = 4
         /\ Chain[n] = "486c6e00cbd4" <=> n = 5
         /\ Chain[n] = "7f5f0d1ca83e" <=> n = 6
         /\ Chain[n] = "0d68c97c7933" <=> n = 7
         /\ Chain[n] = "372cab77ea9b" <=> n = 8
         /\ Chain[n] = "ad392756fe88" <=> n = 9
         /\ Chain[n] = "b70c44b3cf7b" <=> n = 10
         /\ Chain[n] = "b38dcbca4172" <=> n = 11
         /\ Chain[n] = "c5d4bc206313" <=> n = 12
<1>1. n \in {1, 2, 3, 4, 5, 6, 7, 8, 9, 10, 11, 12}
  OBVIOUS
<1>. QED
  BY <1>1, ChainIs

LEMMA SincePositions ==
  ASSUME NEW n \in 1..12
  PROVE  /\ (\E i \in 1..n : Chain[i] = "7f5f0d1ca83e") <=> n >= 6
         /\ (\E i \in 1..n : Chain[i] = "0d68c97c7933") <=> n >= 7
BY Places

LEMMA UpgradeIs ==
  ASSUME rev \in 1..12, NEW id, Upgrade(id)
  PROVE  rev' \in 2..12 /\ rev = rev' - 1 /\ Chain[rev'] = id /\ UNCHANGED <<key, parents>>
BY ChainIs DEF Upgrade, AtHead

LEMMA DowngradeIs ==
  ASSUME rev \in 1..12, NEW id, Downgrade(id), id # "6e1829d5f417"
  PROVE  rev' \in 1..11 /\ rev' = rev - 1 /\ Chain[rev] = id /\ UNCHANGED <<key, parents>>
BY ChainIs DEF Downgrade

-----------------------------------------------------------------------------
(* What the rows are taken to refer to.                                    *)

RowType ==
  [position : Values \cup {"other"}, reference : Values, bridge : Values, exists : BOOLEAN]

\* What a row says by type and number.
Told(row) == IF row.position = "other" THEN Null ELSE row.position

MeaningOf(row, n) == IF IsPosition /\ n < 6 THEN Told(row) ELSE row.reference

\* While both are there, a position's column says what its type and number
\* say; and as long as a row has not moved, its bridge is empty or leads where
\* the column leads.
KeptInv ==
  /\ rev \in 1..12
  /\ parents \subseteq Parents
  /\ rows \in [Rows -> RowType]
  /\ IsPosition /\ rev = 6 => \A r \in Present : rows[r].reference = Told(rows[r])
  /\ rev = 9 => \A r \in Present \ moved : rows[r].bridge \in {Null, rows[r].reference}

MeaningKept ==
  \A r \in Present \ moved :
    ~Dangles(Meaning(r)) => rows'[r].exists /\ Meaning(r)' = Meaning(r)

LEMMA MeaningIs ==
  ASSUME rev \in 1..12, NEW r
  PROVE  Meaning(r) = MeaningOf(rows[r], rev)
BY SincePositions DEF Meaning, MeaningOf, Told, Since

LEMMA MeaningNext ==
  ASSUME rev' \in 1..12, key' = key, NEW r
  PROVE  Meaning(r)' = MeaningOf(rows'[r], rev')
BY SincePositions DEF Meaning, MeaningOf, Told, Since, IsPosition

\* A migration that rewrites no row, moves nothing and does not lead to where
\* positions are held twice or bridges are filled.
LEMMA Unturned ==
  ASSUME KeptInv, UNCHANGED <<key, parents, rows, moved>>,
         rev' \in 1..12, rev < 6 <=> rev' < 6, rev' \notin {6, 9}
  PROVE  KeptInv' /\ MeaningKept
<1>1. KeptInv'
  BY DEF KeptInv, Present, IsPosition
<1>2. ASSUME NEW r \in Present \ moved PROVE rows'[r].exists /\ Meaning(r)' = Meaning(r)
  BY MeaningIs, MeaningNext DEF KeptInv, Present, MeaningOf
<1>. QED
  BY <1>1, <1>2 DEF MeaningKept

\* The lists of columns whose orphans are cleaned up name no position.
LEMMA NoOrphanedPositions ==
  IsPosition => At \notin OrphanCleanup /\ At \notin OrphanDeletion
BY DEF IsPosition, At, OrphanCleanup, OrphanDeletion, Columns, PositionColumns, Positions

LEMMA AbsentIsRow == Absent \in RowType /\ ~Absent.exists
BY DEF Absent, RowType, Values

-----------------------------------------------------------------------------
(* The migrations that rewrite rows, one at a time.                        *)

LEMMA SetOrphanKeeps ==
  ASSUME KeptInv, AddSetNullKeys
  PROVE  KeptInv' /\ MeaningKept
<1>1. rev' = 3 /\ rev = 2 /\ UNCHANGED <<key, parents>>
  BY UpgradeIs, Places DEF AddSetNullKeys, KeptInv
<1>2. moved' = moved /\ rows' = [r \in Rows |-> IF rows[r].exists THEN SetOrphan(r) ELSE Absent]
  BY DEF AddSetNullKeys, Each
<1>3. ASSUME NEW r \in Rows
      PROVE  /\ SetOrphan(r) \in RowType
             /\ SetOrphan(r).exists = rows[r].exists
             /\ SetOrphan(r).position = rows[r].position
             /\ ~Dangles(rows[r].reference) => SetOrphan(r) = rows[r]
  BY <1>3 DEF SetOrphan, KeptInv, RowType, Values
<1>4. KeptInv'
  BY <1>1, <1>2, <1>3, AbsentIsRow DEF KeptInv, RowType, Values
<1>5. ASSUME NEW r \in Present \ moved, ~Dangles(Meaning(r))
      PROVE  rows'[r].exists /\ Meaning(r)' = Meaning(r)
  <2>1. r \in Rows /\ rows[r].exists /\ rows'[r] = SetOrphan(r)
    BY <1>2, <1>5 DEF Present
  <2>2. Meaning(r) = MeaningOf(rows[r], 2) /\ Meaning(r)' = MeaningOf(rows'[r], 3)
    BY <1>1, MeaningIs, MeaningNext
  <2>. QED
    BY <2>1, <2>2, <1>3, <1>5 DEF MeaningOf, Told
<1>. QED
  BY <1>4, <1>5 DEF MeaningKept

LEMMA DropOrphanKeeps ==
  ASSUME KeptInv, AddCascadeKeys
  PROVE  KeptInv' /\ MeaningKept
<1>1. rev' = 4 /\ rev = 3 /\ UNCHANGED <<key, parents>>
  BY UpgradeIs, Places DEF AddCascadeKeys, KeptInv
<1>2. moved' = moved /\ rows' = [r \in Rows |-> IF rows[r].exists THEN DropOrphan(r) ELSE Absent]
  BY DEF AddCascadeKeys, Each
<1>3. ASSUME NEW r \in Rows
      PROVE  DropOrphan(r) \in RowType
  BY <1>3, AbsentIsRow DEF DropOrphan, KeptInv
<1>4. KeptInv'
  BY <1>1, <1>2, <1>3, AbsentIsRow DEF KeptInv
<1>5. ASSUME NEW r \in Present \ moved, ~Dangles(Meaning(r))
      PROVE  rows'[r].exists /\ Meaning(r)' = Meaning(r)
  <2>1. r \in Rows /\ rows[r].exists /\ rows'[r] = DropOrphan(r)
    BY <1>2, <1>5 DEF Present
  <2>2. Meaning(r) = MeaningOf(rows[r], 3) /\ Meaning(r)' = MeaningOf(rows'[r], 4)
    BY <1>1, MeaningIs, MeaningNext
  <2>3. rows'[r] = rows[r]
    BY <2>1, <2>2, <1>5, NoOrphanedPositions DEF MeaningOf, DropOrphan
  <2>. QED
    BY <2>1, <2>2, <2>3 DEF MeaningOf
<1>. QED
  BY <1>4, <1>5 DEF MeaningKept

\* Rows rewritten one by one, each keeping what it is taken to mean.
LEMMA Rewritten ==
  ASSUME KeptInv, UNCHANGED <<key, parents>>, rev' \in 1..12, rev' # 9,
         rows' \in [Rows -> RowType],
         IsPosition /\ rev' = 6 =>
           \A r \in Rows : rows'[r].exists => rows'[r].reference = Told(rows'[r]),
         \A r \in Present \ moved :
           rows'[r].exists /\ MeaningOf(rows'[r], rev') = MeaningOf(rows[r], rev)
  PROVE  KeptInv' /\ MeaningKept
<1>1. KeptInv'
  BY DEF KeptInv, Present, IsPosition
<1>2. ASSUME NEW r \in Present \ moved PROVE rows'[r].exists /\ Meaning(r)' = Meaning(r)
  BY MeaningIs, MeaningNext DEF KeptInv
<1>. QED
  BY <1>1, <1>2 DEF MeaningKept

LEMMA AddPositionsKeeps ==
  ASSUME KeptInv, AddPositionColumns
  PROVE  KeptInv' /\ MeaningKept
<1>1. rev' = 6 /\ rev = 5 /\ UNCHANGED <<key, parents>>
  BY UpgradeIs, Places DEF AddPositionColumns, KeptInv
<1>2. CASE IsPosition
  <2>1. rows' = [r \in Rows |-> IF rows[r].exists THEN FillPosition(r) ELSE Absent]
    BY <1>2 DEF AddPositionColumns, Each
  <2>2. ASSUME NEW r \in Rows
        PROVE  /\ FillPosition(r) \in RowType
               /\ FillPosition(r).exists = rows[r].exists
               /\ FillPosition(r).reference = Told(rows[r])
               /\ Told(FillPosition(r)) = Told(rows[r])
    BY <2>2 DEF FillPosition, KeptInv, RowType, Values, Told
  <2>3. rows' \in [Rows -> RowType]
    BY <2>1, <2>2, AbsentIsRow
  <2>4. \A r \in Rows : rows'[r].exists => rows'[r].reference = Told(rows'[r])
    BY <2>1, <2>2, AbsentIsRow
  <2>5. \A r \in Present : rows'[r].exists /\ MeaningOf(rows'[r], 6) = MeaningOf(rows[r], 5)
    BY <1>2, <2>1, <2>2 DEF Present, MeaningOf
  <2>. QED
    BY <1>1, <2>3, <2>4, <2>5, Rewritten
<1>3. CASE ~IsPosition
  <2>1. rows' = rows
    BY <1>3 DEF AddPositionColumns
  <2>. QED
    BY <1>1, <1>3, <2>1, Rewritten DEF KeptInv, Present, MeaningOf
<1>. QED
  BY <1>2, <1>3

LEMMA DropPositionsKeeps ==
  ASSUME KeptInv, DropPositionColumns
  PROVE  KeptInv' /\ MeaningKept
<1>1. rev' = 5 /\ rev = 6 /\ UNCHANGED <<key, parents>>
  BY DowngradeIs, Places DEF DropPositionColumns, KeptInv
<1>2. CASE IsPosition
  <2>1. rows' = [r \in Rows |-> [rows[r] EXCEPT !.reference = Null]]
    BY <1>2 DEF DropPositionColumns
  <2>2. ASSUME NEW r \in Rows
        PROVE  /\ rows'[r] \in RowType
               /\ rows'[r].exists = rows[r].exists
               /\ Told(rows'[r]) = Told(rows[r])
    BY <2>1, <2>2 DEF KeptInv, RowType, Values, Told
  <2>3. \A r \in Present : rows'[r].exists /\ MeaningOf(rows'[r], 5) = MeaningOf(rows[r], 6)
    BY <1>1, <1>2, <2>2 DEF Present, MeaningOf, KeptInv
  <2>. QED
    BY <1>1, <2>1, <2>2, <2>3, Rewritten
<1>3. CASE ~IsPosition
  <2>1. rows' = rows
    BY <1>3 DEF DropPositionColumns
  <2>. QED
    BY <1>1, <1>3, <2>1, Rewritten DEF KeptInv, Present, MeaningOf
<1>. QED
  BY <1>2, <1>3

LEMMA DropTypesKeeps ==
  ASSUME KeptInv, DropTypeAndNumber
  PROVE  KeptInv' /\ MeaningKept
<1>1. rev' = 7 /\ rev = 6 /\ UNCHANGED <<key, parents>>
  BY UpgradeIs, Places DEF DropTypeAndNumber, KeptInv
<1>2. rows' = [r \in Rows |-> [rows[r] EXCEPT !.position = Null]]
  BY DEF DropTypeAndNumber
<1>3. ASSUME NEW r \in Rows
      PROVE  /\ rows'[r] \in RowType
             /\ rows'[r].exists = rows[r].exists
             /\ rows'[r].reference = rows[r].reference
  BY <1>2, <1>3 DEF KeptInv, RowType, Values
<1>. QED
  BY <1>1, <1>2, <1>3, Rewritten DEF Present, MeaningOf

LEMMA RestoreTypesKeeps ==
  ASSUME KeptInv, RestoreTypeAndNumber
  PROVE  KeptInv' /\ MeaningKept
<1>1. rev' = 6 /\ rev = 7 /\ UNCHANGED <<key, parents>>
  BY DowngradeIs, Places DEF RestoreTypeAndNumber, KeptInv
<1>2. CASE IsPosition
  <2>1. rows' = [r \in Rows |-> IF rows[r].exists THEN FormerPosition(r) ELSE Absent]
    BY <1>2 DEF RestoreTypeAndNumber, Each
  <2>2. ASSUME NEW r \in Rows
        PROVE  /\ FormerPosition(r) \in RowType
               /\ FormerPosition(r).exists = rows[r].exists
               /\ FormerPosition(r).reference = rows[r].reference
               /\ Told(FormerPosition(r)) = rows[r].reference
    BY <2>2, NullAssumption DEF FormerPosition, KeptInv, RowType, Values, Told
  <2>3. rows' \in [Rows -> RowType]
    BY <2>1, <2>2, AbsentIsRow
  <2>4. \A r \in Rows : rows'[r].exists => rows'[r].reference = Told(rows'[r])
    BY <2>1, <2>2, AbsentIsRow
  <2>5. \A r \in Present : rows'[r].exists /\ MeaningOf(rows'[r], 6) = MeaningOf(rows[r], 7)
    BY <2>1, <2>2 DEF Present, MeaningOf
  <2>. QED
    BY <1>1, <2>3, <2>4, <2>5, Rewritten
<1>3. CASE ~IsPosition
  <2>1. rows' = rows
    BY <1>3 DEF RestoreTypeAndNumber
  <2>. QED
    BY <1>1, <1>3, <2>1, Rewritten DEF KeptInv, Present, MeaningOf
<1>. QED
  BY <1>2, <1>3

LEMMA AddBridgeKeeps ==
  ASSUME KeptInv, AddBridge
  PROVE  KeptInv' /\ MeaningKept
<1>1. rev' = 9 /\ rev = 8 /\ UNCHANGED <<key, parents>>
  BY UpgradeIs, Places DEF AddBridge, KeptInv
<1>2. rows' = [r \in Rows |-> IF rows[r].exists THEN Bridge(r) ELSE Absent]
  BY DEF AddBridge, Each
<1>3. ASSUME NEW r \in Rows
      PROVE  /\ Bridge(r) \in RowType
             /\ Bridge(r).exists = rows[r].exists
             /\ Bridge(r).reference = rows[r].reference
             /\ Bridge(r).bridge \in {Null, rows[r].reference}
  BY <1>3 DEF Bridge, KeptInv, RowType, Values
<1>4. KeptInv'
  <2>1. rows' \in [Rows -> RowType]
    BY <1>2, <1>3, AbsentIsRow
  <2>2. \A r \in Rows : rows'[r].exists => rows'[r].bridge \in {Null, rows'[r].reference}
    BY <1>2, <1>3, AbsentIsRow
  <2>. QED
    BY <1>1, <2>1, <2>2 DEF KeptInv, Present
<1>5. ASSUME NEW r \in Present PROVE rows'[r].exists /\ Meaning(r)' = Meaning(r)
  <2>1. Meaning(r) = MeaningOf(rows[r], 8) /\ Meaning(r)' = MeaningOf(rows'[r], 9)
    BY <1>1, MeaningIs, MeaningNext
  <2>. QED
    BY <2>1, <1>2, <1>3, <1>5 DEF MeaningOf, Present
<1>. QED
  BY <1>4, <1>5 DEF MeaningKept

LEMMA DropBridgeKeeps ==
  ASSUME KeptInv, DropBridge
  PROVE  KeptInv' /\ MeaningKept
<1>1. rev' = 8 /\ rev = 9 /\ UNCHANGED <<key, parents>>
  BY DowngradeIs, Places DEF DropBridge, KeptInv
<1>2. rows' = [r \in Rows |-> [rows[r] EXCEPT !.bridge = Null]]
  BY DEF DropBridge
<1>3. ASSUME NEW r \in Rows
      PROVE  /\ rows'[r] \in RowType
             /\ rows'[r].exists = rows[r].exists
             /\ rows'[r].reference = rows[r].reference
  BY <1>2, <1>3 DEF KeptInv, RowType, Values
<1>. QED
  BY <1>1, <1>2, <1>3, Rewritten DEF Present, MeaningOf

\* The cutover: the gate lets no reference become Null, and the final backfill
\* leaves the bridges of rows that have not moved.
LEMMA CutoverKeeps ==
  ASSUME KeptInv, Cutover
  PROVE  KeptInv' /\ MeaningKept
<1>1. rev' = 10 /\ rev = 9 /\ UNCHANGED <<key, parents>>
  BY UpgradeIs, Places DEF Cutover, KeptInv
<1>2. rows' = [r \in Rows |-> IF rows[r].exists THEN Promote(r) ELSE Absent]
  BY DEF Cutover, Each
<1>3. ASSUME NEW r \in Rows
      PROVE  FinalBackfill(r) \in Values
  BY <1>3 DEF FinalBackfill, KeptInv, RowType, Values
<1>4. ASSUME NEW r \in Rows
      PROVE  /\ Promote(r) \in RowType
             /\ Promote(r).exists = rows[r].exists
             /\ Promote(r).reference = FinalBackfill(r)
  <2>1. rows[r] \in RowType /\ Null \in Values
    BY <1>4 DEF KeptInv, Values
  <2>. QED
    BY <1>3, <1>4, <2>1 DEF Promote, RowType
<1>5. rows' \in [Rows -> RowType]
  BY <1>2, <1>4, AbsentIsRow
<1>6. ASSUME NEW r \in Present \ moved
      PROVE  rows'[r].exists /\ rows'[r].reference = rows[r].reference
  <2>1. r \in Rows /\ rows[r].exists /\ rows[r].bridge \in {Null, rows[r].reference}
    BY <1>1, <1>6 DEF KeptInv, Present
  <2>2. rows[r].reference # Null => FinalBackfill(r) # Null
    BY <1>6 DEF Cutover, BackfillComplete
  <2>3. FinalBackfill(r) = rows[r].reference
    BY <2>1, <2>2 DEF FinalBackfill
  <2>. QED
    BY <1>2, <1>4, <2>1, <2>3
<1>. QED
  BY <1>1, <1>5, <1>6, Rewritten DEF MeaningOf

LEMMA UpgradesKeep ==
  ASSUME KeptInv, Upgrades
  PROVE  KeptInv' /\ MeaningKept
<1>1. CASE AddRestrictKeys
  <2>1. rev = 1 /\ rev' = 2 /\ UNCHANGED <<key, parents, rows, moved>>
    BY <1>1, UpgradeIs, Places DEF AddRestrictKeys, KeptInv
  <2>. QED
    BY <2>1, Unturned
<1>2. CASE SetUserRoleRules
  <2>1. rev = 4 /\ rev' = 5 /\ UNCHANGED <<key, parents, rows, moved>>
    BY <1>2, UpgradeIs, Places DEF SetUserRoleRules, KeptInv
  <2>. QED
    BY <2>1, Unturned
<1>3. CASE AddTokenKey
  <2>1. rev = 7 /\ rev' = 8 /\ UNCHANGED <<key, parents, rows, moved>>
    BY <1>3, UpgradeIs, Places DEF AddTokenKey, KeptInv
  <2>. QED
    BY <2>1, Unturned
<1>4. CASE DropPreviousInt
  <2>1. rev = 10 /\ rev' = 11 /\ UNCHANGED <<key, parents, rows, moved>>
    BY <1>4, UpgradeIs, Places DEF DropPreviousInt, KeptInv
  <2>. QED
    BY <2>1, Unturned
<1>5. CASE MakeExplicit
  <2>1. rev = 11 /\ rev' = 12 /\ UNCHANGED <<key, parents, rows, moved>>
    BY <1>5, UpgradeIs, Places DEF MakeExplicit, KeptInv
  <2>. QED
    BY <2>1, Unturned
<1>. QED
  BY <1>1, <1>2, <1>3, <1>4, <1>5, SetOrphanKeeps, DropOrphanKeeps, AddPositionsKeeps,
     DropTypesKeeps, AddBridgeKeeps, CutoverKeeps DEF Upgrades

LEMMA DowngradesKeep ==
  ASSUME KeptInv, Downgrades
  PROVE  KeptInv' /\ MeaningKept
<1>1. CASE DropRestrictKeys
  <2>1. rev = 2 /\ rev' = 1 /\ UNCHANGED <<key, parents, rows, moved>>
    BY <1>1, DowngradeIs, Places DEF DropRestrictKeys, KeptInv
  <2>. QED
    BY <2>1, Unturned
<1>2. CASE DropSetNullKeys
  <2>1. rev = 3 /\ rev' = 2 /\ UNCHANGED <<key, parents, rows, moved>>
    BY <1>2, DowngradeIs, Places DEF DropSetNullKeys, KeptInv
  <2>. QED
    BY <2>1, Unturned
<1>3. CASE DropCascadeKeys
  <2>1. rev = 4 /\ rev' = 3 /\ UNCHANGED <<key, parents, rows, moved>>
    BY <1>3, DowngradeIs, Places DEF DropCascadeKeys, KeptInv
  <2>. QED
    BY <2>1, Unturned
<1>4. CASE ResetUserRoleRules
  <2>1. rev = 5 /\ rev' = 4 /\ UNCHANGED <<key, parents, rows, moved>>
    BY <1>4, DowngradeIs, Places DEF ResetUserRoleRules, KeptInv
  <2>. QED
    BY <2>1, Unturned
<1>5. CASE DropTokenKey
  <2>1. rev = 8 /\ rev' = 7 /\ UNCHANGED <<key, parents, rows, moved>>
    BY <1>5, DowngradeIs, Places DEF DropTokenKey, KeptInv
  <2>. QED
    BY <2>1, Unturned
<1>6. CASE MakeImplicit
  <2>1. rev = 12 /\ rev' = 11 /\ UNCHANGED <<key, parents, rows, moved>>
    BY <1>6, DowngradeIs, Places DEF MakeImplicit, KeptInv
  <2>. QED
    BY <2>1, Unturned
<1>. QED
  BY <1>1, <1>2, <1>3, <1>4, <1>5, <1>6, DropPositionsKeeps, RestoreTypesKeeps, DropBridgeKeeps
     DEF Downgrades

-----------------------------------------------------------------------------
(* The application between the migrations: it never runs where positions   *)
(* are held twice, and a row it changes under the bridge has moved.        *)

LEMMA WrittenIs ==
  ASSUME NEW row \in RowType, NEW value \in Values
  PROVE  Written(row, value) \in RowType /\ Written(row, value).bridge = row.bridge
BY DEF Written, RowType, Values

\* Rows other than the ones changed keep what they hold, and at the bridge the
\* ones changed have moved, are gone or hold no bridge.
LEMMA Serves ==
  ASSUME KeptInv, Served, UNCHANGED <<key, rev>>, parents' \subseteq Parents,
         rows' \in [Rows -> RowType],
         rev = 9 => \A r \in Rows : rows'[r].exists /\ r \notin moved' =>
                      \/ rows'[r] = rows[r] /\ r \notin moved
                      \/ rows'[r].bridge = Null
  PROVE  KeptInv'
<1>1. rev # 6
  BY ChainIs DEF Served
<1>. QED
  BY <1>1 DEF KeptInv, Present

LEMMA NewValues ==
  ASSUME KeptInv
  PROVE  parents \cup (IF At \in Optional THEN {Null} ELSE {}) \subseteq Values
BY DEF KeptInv, Values

LEMMA RowStepsKeep ==
  ASSUME KeptInv, NEW r \in Rows, Insert(r) \/ Repoint(r) \/ Delete(r)
  PROVE  KeptInv' /\ rev' = rev
<1>1. CASE Insert(r)
  <2>1. PICK value \in Values : rows' = [rows EXCEPT ![r] = Written(Absent, value)]
    BY <1>1, NewValues DEF Insert
  <2>2. Written(Absent, value) \in RowType /\ Written(Absent, value).bridge = Null
    BY AbsentIsRow, WrittenIs DEF Absent
  <2>3. rows' \in [Rows -> RowType] /\ rows'[r].bridge = Null
          /\ \A q \in Rows \ {r} : rows'[q] = rows[q]
    BY <2>1, <2>2 DEF KeptInv
  <2>4. Served /\ UNCHANGED <<key, rev, parents, moved>>
    BY <1>1 DEF Insert
  <2>5. parents' \subseteq Parents
    BY <2>4 DEF KeptInv
  <2>. QED
    BY <2>3, <2>4, <2>5, Serves
<1>2. CASE Repoint(r)
  <2>1. PICK value \in Values : rows' = [rows EXCEPT ![r] = Written(rows[r], value)]
    BY <1>2, NewValues DEF Repoint
  <2>2. rows' \in [Rows -> RowType] /\ \A q \in Rows \ {r} : rows'[q] = rows[q]
    BY <2>1, WrittenIs DEF KeptInv
  <2>3. Served /\ UNCHANGED <<key, rev, parents>> /\ Moved({r})
    BY <1>2 DEF Repoint
  <2>4. parents' \subseteq Parents
    BY <2>3 DEF KeptInv
  <2>5. rev = 9 => moved' = moved \cup {r}
    BY <2>3, ChainIs DEF Moved
  <2>. QED
    BY <2>2, <2>3, <2>4, <2>5, Serves
<1>3. CASE Delete(r)
  <2>1. rows' = [rows EXCEPT ![r] = Absent] /\ moved' = moved \ {r}
          /\ Served /\ UNCHANGED <<key, rev, parents>>
    BY <1>3 DEF Delete
  <2>2. rows' \in [Rows -> RowType] /\ ~rows'[r].exists
          /\ \A q \in Rows \ {r} : rows'[q] = rows[q]
    BY <2>1, AbsentIsRow DEF KeptInv
  <2>3. parents' \subseteq Parents
    BY <2>1 DEF KeptInv
  <2>. QED
    BY <2>1, <2>2, <2>3, Serves
<1>. QED
  BY <1>1, <1>2, <1>3

LEMMA ParentStepsKeep ==
  ASSUME KeptInv, NEW p \in Parents, InsertParent(p) \/ DeleteParent(p)
  PROVE  KeptInv' /\ rev' = rev
<1>1. CASE InsertParent(p)
  <2>1. Served /\ UNCHANGED <<key, rev, rows, moved>> /\ parents' = parents \cup {p}
    BY <1>1 DEF InsertParent
  <2>2. parents' \subseteq Parents /\ rows' \in [Rows -> RowType]
    BY <2>1 DEF KeptInv
  <2>. QED
    BY <2>1, <2>2, Serves
<1>2. CASE DeleteParent(p)
  <2>1. Served /\ UNCHANGED <<key, rev>> /\ parents' = parents \ {p}
    BY <1>2 DEF DeleteParent
  <2>2. parents' \subseteq Parents
    BY <2>1 DEF KeptInv
  <2>3. CASE DeleteParentUnkept(p) \/ DeleteParentRestricted(p)
    <3>1. UNCHANGED <<rows, moved>>
      BY <2>3 DEF DeleteParentUnkept, DeleteParentRestricted
    <3>2. rows' \in [Rows -> RowType]
      BY <3>1 DEF KeptInv
    <3>. QED
      BY <2>1, <2>2, <3>1, <3>2, Serves
  <2>4. CASE DeleteParentCascading(p)
    <3>1. rows' = [r \in Rows |-> IF r \in Children(p) THEN Absent ELSE rows[r]]
            /\ moved' = moved \ Children(p)
      BY <2>4 DEF DeleteParentCascading
    <3>2. rows' \in [Rows -> RowType]
      BY <3>1, AbsentIsRow DEF KeptInv
    <3>3. \A r \in Rows : rows'[r].exists => r \notin Children(p) /\ rows'[r] = rows[r]
      BY <3>1, AbsentIsRow
    <3>. QED
      BY <2>1, <2>2, <3>1, <3>2, <3>3, Serves
  <2>5. CASE DeleteParentNulling(p)
    <3>1. rows' = [r \in Rows |-> IF r \in Children(p) THEN [rows[r] EXCEPT !.reference = Null]
                                  ELSE rows[r]]
            /\ Moved(Children(p))
      BY <2>5 DEF DeleteParentNulling
    <3>2. rows' \in [Rows -> RowType]
      BY <3>1 DEF KeptInv, RowType, Values
    <3>3. rev = 9 => moved' = moved \cup Children(p)
      BY <3>1, ChainIs DEF Moved
    <3>. QED
      BY <2>1, <2>2, <3>1, <3>2, <3>3, Serves
  <2>. QED
    BY <1>2, <2>3, <2>4, <2>5 DEF DeleteParent
<1>. QED
  BY <1>1, <1>2

LEMMA KeptStep ==
  ASSUME KeptInv, [Next]_vars
  PROVE  KeptInv' /\ (rev' # rev => MeaningKept)
<1>1. CASE UNCHANGED vars
  BY <1>1 DEF vars, KeptInv, Present, IsPosition
<1>. QED
  BY <1>1, UpgradesKeep, DowngradesKeep, RowStepsKeep, ParentStepsKeep DEF Next

LEMMA KeptInit ==
  ASSUME Init
  PROVE  KeptInv
<1>1. rev = 1 /\ parents \subseteq Parents /\ rows = [r \in Rows |-> Absent]
  BY DEF Init
<1>2. rows \in [Rows -> RowType]
  BY <1>1, AbsentIsRow
<1>. QED
  BY <1>1, <1>2 DEF KeptInv

\* A row the application has not touched since its bridge was filled refers
\* after every migration to what it referred to before, orphans excepted.
THEOREM UnmovedRowsAreKept == Spec => UnmovedKept
<1>1. Init => KeptInv
  BY KeptInit
<1>2. KeptInv /\ [Next]_vars => KeptInv'
  BY KeptStep
<1>3. KeptInv /\ [Next]_vars =>
        [rev' # rev =>
           \A r \in Present \ moved :
             ~Dangles(Meaning(r)) => rows'[r].exists /\ Meaning(r)' = Meaning(r)]_vars
  BY KeptStep DEF MeaningKept
<1>. QED
  BY <1>1, <1>2, <1>3, PTL DEF Spec, UnmovedKept

-----------------------------------------------------------------------------
(* The lists of keys, copied by hand from migration to migration.          *)

Rules == {"none", "NO ACTION", "RESTRICT", "CASCADE", "SET NULL"}

LEMMA KeysAre ==
  ASSUME NEW t, NEW rule1, NEW refs, NEW k \in Keys(t, rule1, refs)
  PROVE  k[1] = t /\ k[2] \in DOMAIN refs /\ k[4] = rule1
BY DEF Keys

LEMMA ColumnsAre ==
  ASSUME NEW t, NEW columns, NEW c
  PROVE  <<t, c>> \in Columns(t, columns) <=> c \in columns
BY DEF Columns

LEMMA OverTwo ==
  ASSUME NEW rule1, NEW refs, NEW a, NEW b
  PROVE  UNION {Keys(t, rule1, refs) : t \in {a, b}} =
           Keys(a, rule1, refs) \cup Keys(b, rule1, refs)
OBVIOUS

LEMMA OverThree ==
  ASSUME NEW rule1, NEW refs, NEW a, NEW b, NEW c
  PROVE  UNION {Keys(t, rule1, refs) : t \in {a, b, c}} =
           Keys(a, rule1, refs) \cup Keys(b, rule1, refs) \cup Keys(c, rule1, refs)
OBVIOUS

\* The last migration recreates the keys of the models, no more and no less.
LEMMA ExplicitAreModels == ExplicitKeys = ModelKeys
<1>1. ExplicitBookingKeys = BookingKeys \cup BookingRequestKeys \cup BookingLogKeys
  BY DEF BookingKeys, BookingRequestKeys, BookingLogKeys, ExplicitBookingKeys
<1>. DEFINE oauth == Keys("oauth2_bindings", "CASCADE", [local_id |-> "users"])
            ordinarium == Keys("ordinariumworks", "RESTRICT", [artist_id |-> "artists"])
            proprium == Keys("propriumworks", "RESTRICT", [artist_id |-> "artists"])
<1>2. ExplicitWorkKeys = oauth \cup WorkPositionKeys \cup ordinarium
  BY DEF ExplicitWorkKeys, WorkPositionKeys
<1>3. WorkKeys = ordinarium \cup proprium
  BY OverTwo, Zenon DEF WorkKeys
<1>4. ExplicitPerformanceKeys = PerformanceKeys \cup PerformancePartKeys
  <2>. DEFINE refs == [performance_id |-> "performances"]
  <2>1. UNION {Keys(part, "CASCADE", refs) :
                 part \in {"performance_positions", "performance_proprium",
                           "performance_rehearsals"}} =
          Keys("performance_positions", "CASCADE", refs)
            \cup Keys("performance_proprium", "CASCADE", refs)
            \cup Keys("performance_rehearsals", "CASCADE", refs)
    <3>. HIDE DEF refs
    <3>. QED
      BY OverThree
  <2>. QED
    BY <2>1 DEF ExplicitPerformanceKeys, PerformanceKeys, PerformancePartKeys
<1>5. ExplicitUserKeys \cup oauth = UserPartKeys \cup RequestLogKeys \cup proprium
  <2>. DEFINE refs == [user_id |-> "users"]
  <2>1. UNION {Keys(part, "CASCADE", refs) :
                 part \in {"user_positions", "user_roles", "personal_access_tokens"}} =
          Keys("user_positions", "CASCADE", refs)
            \cup Keys("user_roles", "CASCADE", refs)
            \cup Keys("personal_access_tokens", "CASCADE", refs)
    <3>. HIDE DEF refs
    <3>. QED
      BY OverThree
  <2>. QED
    BY <2>1 DEF ExplicitUserKeys, UserPartKeys, RequestLogKeys
<1>6. ExplicitKeys = ExplicitBookingKeys \cup ExplicitWorkKeys \cup ExplicitPerformanceKeys
                       \cup ExplicitUserKeys
  BY DEF ExplicitKeys
<1>7. ModelKeys = BookingKeys \cup BookingRequestKeys \cup BookingLogKeys \cup RequestLogKeys
                    \cup WorkPositionKeys \cup WorkKeys \cup PerformanceKeys
                    \cup PerformancePartKeys \cup UserPartKeys
  BY DEF ModelKeys
<1>. HIDE DEF oauth, ordinarium, proprium
<1>. QED
  BY <1>1, <1>2, <1>3, <1>4, <1>5, <1>6, <1>7

\* The cutover creates them already.
LEMMA CutoverAreModels == CutoverKeys = ExplicitKeys
<1>. DEFINE k1 == Keys("booking_logs", "SET NULL",
                       [performance_id |-> "performances", user_id |-> "users"])
            k2 == Keys("booking_logs", "RESTRICT", Positions)
            k3 == Keys("booking_requests", "RESTRICT", [performance_id |-> "performances"])
            k4 == Keys("booking_requests", "CASCADE", [user_id |-> "users"])
            k5 == Keys("bookings", "RESTRICT", Positions)
            k6 == Keys("bookings", "RESTRICT",
                       [performance_id |-> "performances", user_id |-> "users"])
            k7 == Keys("oauth2_bindings", "CASCADE", [local_id |-> "users"])
            k8 == Keys("ordinariumwork_positions", "CASCADE",
                       [ordinariumwork_id |-> "ordinariumworks"])
            k9 == Keys("ordinariumwork_positions", "RESTRICT", TwoPositions)
            k10 == Keys("ordinariumworks", "RESTRICT", [artist_id |-> "artists"])
            k11 == Keys("performance_positions", "CASCADE", [performance_id |-> "performances"])
            k12 == Keys("performance_positions", "RESTRICT", Positions)
            k13 == Keys("performance_proprium", "CASCADE", [performance_id |-> "performances"])
            k14 == Keys("performance_proprium", "RESTRICT",
                        [propriumelement_id |-> "propriumelements",
                         propriumwork_id |-> "propriumworks"])
            k15 == Keys("performance_rehearsals", "CASCADE", [performance_id |-> "performances"])
            k16 == Keys("performances", "RESTRICT",
                        [location_id |-> "locations", ordinariumwork_id |-> "ordinariumworks",
                         artist_id |-> "artists"])
            k17 == Keys("personal_access_tokens", "CASCADE", [user_id |-> "users"])
            k18 == Keys("propriumworks", "RESTRICT", [artist_id |-> "artists"])
            k19 == Keys("request_logs", "SET NULL",
                        [client_user_agent_id |-> "client_user_agents", user_id |-> "users"])
            k20 == Keys("user_positions", "CASCADE", [user_id |-> "users"])
            k21 == Keys("user_positions", "RESTRICT", Positions)
            k22 == Keys("user_roles", "CASCADE", [user_id |-> "users"])
            k23 == Keys("user_roles", "RESTRICT", [role_id |-> "roles"])
<1>1. CutoverKeys =
         UNION {k1, k2, k3, k4, k5, k6, k7, k8, k9, k10, k11, k12, k13, k14, k15, k16,
         k17, k18, k19, k20, k21, k22, k23}
  BY Zenon DEF CutoverKeys
<1>2. ExplicitBookingKeys =
         UNION {k1, k2, k3, k4, k5, k6}
  BY Zenon DEF ExplicitBookingKeys
<1>3. ExplicitWorkKeys =
         UNION {k7, k8, k9, k10}
  BY Zenon DEF ExplicitWorkKeys
<1>4. ExplicitPerformanceKeys =
         UNION {k11, k12, k13, k14, k15, k16}
  BY Zenon DEF ExplicitPerformanceKeys
<1>5. ExplicitUserKeys =
         UNION {k17, k18, k19, k20, k21, k22, k23}
  BY Zenon DEF ExplicitUserKeys
<1>6. ExplicitKeys = ExplicitBookingKeys \cup ExplicitWorkKeys \cup ExplicitPerformanceKeys
                       \cup ExplicitUserKeys
  BY DEF ExplicitKeys
<1>. HIDE DEF k1, k2, k3, k4, k5, k6, k7, k8, k9, k10, k11, k12, k13, k14, k15, k16,
              k17, k18, k19, k20, k21, k22, k23
<1>. QED
  BY <1>1, <1>2, <1>3, <1>4, <1>5, <1>6

\* The columns that are NOT NULL wherever a key of the models is.
Required ==
  UNION {Columns("booking_requests", {"performance_id", "user_id"}),
         Columns("bookings", {"performance_id", "user_id"}),
         Columns("oauth2_bindings", {"local_id"}),
         Columns("ordinariumwork_positions", {"ordinariumwork_id"}),
         Columns("ordinariumworks", {"artist_id"}),
         Columns("performance_positions", {"performance_id"}),
         Columns("performance_proprium",
                 {"performance_id", "propriumelement_id", "propriumwork_id"}),
         Columns("performance_rehearsals", {"performance_id"}),
         Columns("performances", {"location_id", "ordinariumwork_id"}),
         Columns("personal_access_tokens", {"user_id"}),
         Columns("propriumworks", {"artist_id"}),
         Columns("user_positions", {"user_id"}),
         Columns("user_roles", {"user_id", "role_id"})}

LEMMA RequiredIs ==
  ASSUME NEW t, NEW c
  PROVE  <<t, c>> \in Required <=>
           \/ t \in {"booking_requests", "bookings"} /\ c \in {"performance_id", "user_id"}
           \/ t = "oauth2_bindings" /\ c = "local_id"
           \/ t = "ordinariumwork_positions" /\ c = "ordinariumwork_id"
           \/ t \in {"ordinariumworks", "propriumworks"} /\ c = "artist_id"
           \/ t \in {"performance_positions", "performance_rehearsals"} /\ c = "performance_id"
           \/ t = "performance_proprium"
                /\ c \in {"performance_id", "propriumelement_id", "propriumwork_id"}
           \/ t = "performances" /\ c \in {"location_id", "ordinariumwork_id"}
           \/ t \in {"personal_access_tokens", "user_positions"} /\ c = "user_id"
           \/ t = "user_roles" /\ c \in {"user_id", "role_id"}
BY DEF Required, Columns

Nullable(k) ==
  \/ k[2] \in PositionColumns
  \/ k[4] = "SET NULL"
  \/ k[1] = "performances" /\ k[2] = "artist_id"

\* A key's column may be null or is required, and it is required where the
\* rule is CASCADE.
Fits(k) ==
  /\ k[4] \in {"RESTRICT", "CASCADE", "SET NULL"}
  /\ Nullable(k) <=> <<k[1], k[2]>> \notin Required
  /\ k[4] = "CASCADE" => <<k[1], k[2]>> \in Required

LEMMA PositionColumnsAre == PositionColumns = {"instrument_id", "voice_id", "choirjob_id"}
BY DEF PositionColumns, Positions

LEMMA PositionsFit ==
  ASSUME NEW t, NEW refs \in {Positions, TwoPositions}, NEW k \in Keys(t, "RESTRICT", refs)
  PROVE  Fits(k)
<1>1. k[1] = t /\ k[2] \in {"instrument_id", "voice_id", "choirjob_id"} /\ k[4] = "RESTRICT"
  BY KeysAre DEF Positions, TwoPositions
<1>. QED
  BY <1>1, RequiredIs, PositionColumnsAre DEF Fits, Nullable

LEMMA NullingFit ==
  ASSUME NEW t \in {"booking_logs", "request_logs"}, NEW nulling, nulling = "SET NULL",
         NEW refs, NEW k \in Keys(t, nulling, refs)
  PROVE  Fits(k)
<1>1. k[1] = t /\ k[4] = nulling
  BY KeysAre
<1>. QED
  BY <1>1, RequiredIs DEF Fits, Nullable

LEMMA RequiredIsNotNull ==
  ASSUME NEW t, NEW c, <<t, c>> \in Required
  PROVE  c \notin PositionColumns /\ ~(t = "performances" /\ c = "artist_id")
BY RequiredIs, PositionColumnsAre

LEMMA RequiredFit ==
  ASSUME NEW t, NEW rule1 \in {"RESTRICT", "CASCADE"}, NEW refs,
         \A c \in DOMAIN refs : <<t, c>> \in Required, NEW k \in Keys(t, rule1, refs)
  PROVE  Fits(k)
<1>1. k[1] = t /\ k[4] = rule1 /\ <<k[1], k[2]>> \in Required
  BY KeysAre
<1>2. k[2] \notin PositionColumns /\ ~(k[1] = "performances" /\ k[2] = "artist_id")
  BY <1>1, RequiredIsNotNull
<1>3. rule1 # "SET NULL"
  OBVIOUS
<1>. QED
  BY <1>1, <1>2, <1>3 DEF Fits, Nullable

LEMMA BookingKeysFit == \A k \in ExplicitBookingKeys : Fits(k)
<1>. DEFINE past == [performance_id |-> "performances", user_id |-> "users"]
<1>1. ASSUME NEW k \in Keys("booking_logs", "SET NULL", past) PROVE Fits(k)
  BY NullingFit
<1>2. ASSUME NEW t, NEW k \in Keys(t, "RESTRICT", Positions) PROVE Fits(k)
  BY PositionsFit
<1>3. ASSUME NEW k \in Keys("booking_requests", "RESTRICT", [performance_id |-> "performances"])
      PROVE  Fits(k)
  BY RequiredFit, RequiredIs
<1>4. ASSUME NEW k \in Keys("booking_requests", "CASCADE", [user_id |-> "users"]) PROVE Fits(k)
  BY RequiredFit, RequiredIs
<1>5. ASSUME NEW k \in Keys("bookings", "RESTRICT", past) PROVE Fits(k)
  BY RequiredFit, RequiredIs
<1>. HIDE DEF Fits
<1>. QED
  BY <1>1, <1>2, <1>3, <1>4, <1>5 DEF ExplicitBookingKeys

LEMMA WorkKeysFit == \A k \in ExplicitWorkKeys : Fits(k)
<1>1. ASSUME NEW k \in Keys("oauth2_bindings", "CASCADE", [local_id |-> "users"]) PROVE Fits(k)
  BY RequiredFit, RequiredIs
<1>2. ASSUME NEW k \in Keys("ordinariumwork_positions", "CASCADE",
                            [ordinariumwork_id |-> "ordinariumworks"])
      PROVE  Fits(k)
  BY RequiredFit, RequiredIs
<1>3. ASSUME NEW k \in Keys("ordinariumwork_positions", "RESTRICT", TwoPositions) PROVE Fits(k)
  BY PositionsFit
<1>4. ASSUME NEW k \in Keys("ordinariumworks", "RESTRICT", [artist_id |-> "artists"])
      PROVE  Fits(k)
  BY RequiredFit, RequiredIs
<1>. QED
  BY <1>1, <1>2, <1>3, <1>4 DEF ExplicitWorkKeys

LEMMA PerformanceKeysFit == \A k \in ExplicitPerformanceKeys : Fits(k)
<1>1. ASSUME NEW t \in {"performance_positions", "performance_proprium", "performance_rehearsals"},
             NEW k \in Keys(t, "CASCADE", [performance_id |-> "performances"])
      PROVE  Fits(k)
  BY RequiredFit, RequiredIs
<1>2. ASSUME NEW k \in Keys("performance_positions", "RESTRICT", Positions) PROVE Fits(k)
  BY PositionsFit
<1>3. ASSUME NEW k \in Keys("performance_proprium", "RESTRICT",
                            [propriumelement_id |-> "propriumelements",
                             propriumwork_id |-> "propriumworks"])
      PROVE  Fits(k)
  BY RequiredFit, RequiredIs
<1>4. ASSUME NEW k \in Keys("performances", "RESTRICT",
                            [location_id |-> "locations", ordinariumwork_id |-> "ordinariumworks",
                             artist_id |-> "artists"])
      PROVE  Fits(k)
  <2>1. k[1] = "performances" /\ k[2] \in {"location_id", "ordinariumwork_id", "artist_id"}
          /\ k[4] = "RESTRICT"
    BY KeysAre
  <2>. QED
    BY <2>1, RequiredIs, PositionColumnsAre DEF Fits, Nullable
<1>. QED
  BY <1>1, <1>2, <1>3, <1>4 DEF ExplicitPerformanceKeys

LEMMA UserKeysFit == \A k \in ExplicitUserKeys : Fits(k)
<1>1. ASSUME NEW t \in {"personal_access_tokens", "user_positions", "user_roles"},
             NEW k \in Keys(t, "CASCADE", [user_id |-> "users"])
      PROVE  Fits(k)
  BY RequiredFit, RequiredIs
<1>2. ASSUME NEW k \in Keys("propriumworks", "RESTRICT", [artist_id |-> "artists"])
      PROVE  Fits(k)
  BY RequiredFit, RequiredIs
<1>3. ASSUME NEW k \in Keys("request_logs", "SET NULL",
                            [client_user_agent_id |-> "client_user_agents", user_id |-> "users"])
      PROVE  Fits(k)
  BY NullingFit
<1>4. ASSUME NEW k \in Keys("user_positions", "RESTRICT", Positions) PROVE Fits(k)
  BY PositionsFit
<1>5. ASSUME NEW k \in Keys("user_roles", "RESTRICT", [role_id |-> "roles"]) PROVE Fits(k)
  BY RequiredFit, RequiredIs
<1>. QED
  BY <1>1, <1>2, <1>3, <1>4, <1>5 DEF ExplicitUserKeys

LEMMA ModelKeysFit == \A k \in ModelKeys : Fits(k)
BY ExplicitAreModels, BookingKeysFit, WorkKeysFit, PerformanceKeysFit, UserKeysFit, Zenon
   DEF ExplicitKeys

LEMMA BaselineIs ==
  /\ BaselineNotNull \ NullablePrep = Required
  /\ NullablePrep \subseteq BaselineNotNull
<1>1. ASSUME NEW t, NEW c
      PROVE  <<t, c>> \in BaselineNotNull <=>
               <<t, c>> \in Required \/ (t = "booking_logs" /\ c \in {"performance_id", "user_id"})
  BY RequiredIs DEF BaselineNotNull, BaselineBookings, BaselineWorks, BaselinePerformances,
     BaselineUsers, Columns
<1>2. ASSUME NEW c \in BaselineNotNull \cup Required \cup NullablePrep
      PROVE  c = <<c[1], c[2]>>
  BY DEF BaselineNotNull, BaselineBookings, BaselineWorks, BaselinePerformances,
     BaselineUsers, Columns, Required, NullablePrep
<1>3. ASSUME NEW t, NEW c
      PROVE  <<t, c>> \in NullablePrep <=> t = "booking_logs" /\ c \in {"performance_id", "user_id"}
  BY DEF NullablePrep, Columns
<1>4. ASSUME NEW c \in NullablePrep PROVE c \in BaselineNotNull /\ c \notin Required
  BY <1>1, <1>2, <1>3, <1>4, RequiredIs
<1>5. ASSUME NEW c \in BaselineNotNull, c \notin NullablePrep PROVE c \in Required
  BY <1>1, <1>2, <1>3, <1>5
<1>6. ASSUME NEW c \in Required PROVE c \in BaselineNotNull
  BY <1>1, <1>2, <1>6
<1>. QED
  BY <1>4, <1>5, <1>6

\* The list the cutover goes by, part of it taken from the keys' rules.
LEMMA CutoverIs == CutoverNotNull = Required
<1>1. CutoverKeys = ModelKeys
  BY CutoverAreModels, ExplicitAreModels
<1>2. ASSUME NEW k \in CutoverKeys, k[4] = "CASCADE" PROVE <<k[1], k[2]>> \in Required
  BY <1>1, <1>2, ModelKeysFit DEF Fits
<1>3. CutoverNotNull \subseteq Required
  BY <1>2, RequiredIs DEF CutoverNotNull, Columns
<1>4. ASSUME NEW t, NEW refs, NEW c \in DOMAIN refs, Keys(t, "CASCADE", refs) \subseteq CutoverKeys
      PROVE  <<t, c>> \in CutoverNotNull
  <2>1. PICK k : k = <<t, c, refs[c], "CASCADE">>
    OBVIOUS
  <2>2. k \in CutoverKeys /\ k[1] = t /\ k[2] = c /\ k[4] = "CASCADE"
    BY <2>1, <1>4 DEF Keys
  <2>3. <<k[1], k[2]>> \in {<<d[1], d[2]>> : d \in {e \in CutoverKeys : e[4] = "CASCADE"}}
    BY <2>2
  <2>. QED
    BY <2>2, <2>3 DEF CutoverNotNull
<1>5. /\ Keys("booking_requests", "CASCADE", [user_id |-> "users"]) \subseteq CutoverKeys
      /\ Keys("oauth2_bindings", "CASCADE", [local_id |-> "users"]) \subseteq CutoverKeys
      /\ Keys("ordinariumwork_positions", "CASCADE", [ordinariumwork_id |-> "ordinariumworks"])
           \subseteq CutoverKeys
      /\ Keys("performance_positions", "CASCADE", [performance_id |-> "performances"])
           \subseteq CutoverKeys
      /\ Keys("performance_proprium", "CASCADE", [performance_id |-> "performances"])
           \subseteq CutoverKeys
      /\ Keys("performance_rehearsals", "CASCADE", [performance_id |-> "performances"])
           \subseteq CutoverKeys
      /\ Keys("personal_access_tokens", "CASCADE", [user_id |-> "users"]) \subseteq CutoverKeys
      /\ Keys("user_positions", "CASCADE", [user_id |-> "users"]) \subseteq CutoverKeys
      /\ Keys("user_roles", "CASCADE", [user_id |-> "users"]) \subseteq CutoverKeys
  BY Zenon DEF CutoverKeys
<1>6. /\ <<"booking_requests", "user_id">> \in CutoverNotNull
      /\ <<"oauth2_bindings", "local_id">> \in CutoverNotNull
      /\ <<"ordinariumwork_positions", "ordinariumwork_id">> \in CutoverNotNull
      /\ <<"performance_positions", "performance_id">> \in CutoverNotNull
      /\ <<"performance_proprium", "performance_id">> \in CutoverNotNull
      /\ <<"performance_rehearsals", "performance_id">> \in CutoverNotNull
      /\ <<"personal_access_tokens", "user_id">> \in CutoverNotNull
      /\ <<"user_positions", "user_id">> \in CutoverNotNull
      /\ <<"user_roles", "user_id">> \in CutoverNotNull
  BY <1>4, <1>5
<1>7. /\ Columns("booking_requests", {"performance_id"}) \subseteq CutoverNotNull
      /\ Columns("bookings", {"performance_id", "user_id"}) \subseteq CutoverNotNull
      /\ Columns("ordinariumworks", {"artist_id"}) \subseteq CutoverNotNull
      /\ Columns("performance_proprium", {"propriumelement_id", "propriumwork_id"})
           \subseteq CutoverNotNull
      /\ Columns("performances", {"location_id", "ordinariumwork_id"}) \subseteq CutoverNotNull
      /\ Columns("propriumworks", {"artist_id"}) \subseteq CutoverNotNull
      /\ Columns("user_roles", {"role_id"}) \subseteq CutoverNotNull
  BY DEF CutoverNotNull
<1>8. Required \subseteq CutoverNotNull
  BY <1>6, <1>7 DEF Required, Columns
<1>. QED
  BY <1>3, <1>8

\* Every migration's keys have a rule of the four.
LEMMA RulesAre ==
  ASSUME NEW keys \in {BaselineKeys, RestrictKeys, SetNullKeys, CascadeKeys, UserRoleKeys,
                       PositionKeys, TokenKeys, CutoverKeys, ExplicitKeys},
         NEW k \in keys
  PROVE  k[4] \in Rules
<1>1. ASSUME NEW t, NEW rule1 \in Rules, NEW refs, NEW e \in Keys(t, rule1, refs)
      PROVE  e[4] \in Rules
  BY KeysAre
<1>2. "NO ACTION" \in Rules /\ "RESTRICT" \in Rules /\ "CASCADE" \in Rules /\ "SET NULL" \in Rules
  BY DEF Rules
<1>3. \A e \in BaselineKeys : e[4] \in Rules
  BY <1>1, <1>2 DEF BaselineKeys
<1>4. \A e \in RestrictKeys : e[4] \in Rules
  <2>1. ASSUME NEW e \in RestrictKeys
        PROVE  \E t, refs : e \in Keys(t, "RESTRICT", refs)
    BY <2>1, Zenon DEF RestrictKeys
  <2>. QED
    BY <1>1, <1>2, <2>1
<1>5. \A e \in SetNullKeys : e[4] \in Rules
  BY <1>1, <1>2 DEF SetNullKeys
<1>6. \A e \in CascadeKeys : e[4] \in Rules
  <2>1. ASSUME NEW e \in CascadeKeys
        PROVE  \E t, refs : e \in Keys(t, "CASCADE", refs)
    BY <2>1, Zenon DEF CascadeKeys
  <2>. QED
    BY <1>1, <1>2, <2>1
<1>7. \A e \in UserRoleKeys \cup TokenKeys : e[4] \in Rules
  BY <1>1, <1>2 DEF UserRoleKeys, TokenKeys
<1>8. \A e \in PositionKeys : e[4] \in Rules
  <2>1. ASSUME NEW e \in PositionKeys
        PROVE  \E t, refs : e \in Keys(t, "RESTRICT", refs)
    BY <2>1, Zenon DEF PositionKeys
  <2>. QED
    BY <1>1, <1>2, <2>1
<1>9. \A e \in CutoverKeys \cup ExplicitKeys : e[4] \in Rules
  BY CutoverAreModels, ExplicitAreModels, ModelKeysFit DEF Fits, Rules
<1>. QED
  BY <1>3, <1>4, <1>5, <1>6, <1>7, <1>8, <1>9

-----------------------------------------------------------------------------
(* The column's own rule and NOT NULL, all the way.                        *)

\* NOT NULL is what the baseline has, but for the columns the second migration
\* makes nullable for good.
NotNullAt(n) == IF n < 3 THEN At \in BaselineNotNull ELSE At \in Required

SchemaInv ==
  /\ rev \in 1..12
  /\ \E k \in ModelKeys : key = [table |-> k[1], column |-> k[2]]
  /\ notnull = IF NotNullAt(rev) THEN {"reference"} ELSE {}
  /\ rule \in Rules
  /\ rev = 12 => rule \in RuleIn(ModelKeys)
  /\ moved \subseteq Rows

LEMMA AddedRules ==
  ASSUME rule \in Rules,
         NEW keys \in {BaselineKeys, RestrictKeys, SetNullKeys, CascadeKeys, UserRoleKeys,
                       PositionKeys, TokenKeys, CutoverKeys, ExplicitKeys},
         AddKeys(keys) \/ DropKeys(keys)
  PROVE  rule' \in Rules
<1>1. RuleIn(keys) \subseteq Rules
  BY RulesAre DEF RuleIn
<1>2. "none" \in Rules
  BY DEF Rules
<1>. QED
  BY <1>1, <1>2 DEF AddKeys, DropKeys

LEMMA AtIs ==
  ASSUME SchemaInv
  PROVE  /\ RuleIn(ModelKeys) # {}
         /\ At \in NullableColumns <=> At \notin Required
<1>1. PICK k \in ModelKeys : key = [table |-> k[1], column |-> k[2]]
  BY DEF SchemaInv
<1>2. At = <<k[1], k[2]>>
  BY <1>1 DEF At
<1>3. k[4] \in RuleIn(ModelKeys)
  BY <1>2 DEF RuleIn
<1>4. NullableColumns = {<<m[1], m[2]>> : m \in {n \in ModelKeys : Nullable(n)}}
  BY DEF NullableColumns, Nullable
<1>5. \A m \in ModelKeys : Nullable(m) <=> <<m[1], m[2]>> \notin Required
  BY ModelKeysFit DEF Fits
<1>. QED
  BY <1>2, <1>3, <1>4, <1>5

\* A migration that leaves NOT NULL alone and does not lead to the head.
LEMMA RuledOnly ==
  ASSUME SchemaInv, rev' \in 1..11, UNCHANGED <<key, notnull>>, rev < 3 <=> rev' < 3,
         rule' \in Rules, moved' \subseteq Rows
  PROVE  SchemaInv'
BY DEF SchemaInv, NotNullAt, At

LEMMA UpgradesFit ==
  ASSUME SchemaInv, Upgrades
  PROVE  SchemaInv'
<1>. USE UpgradeIs, Places DEF SchemaInv
<1>1. CASE AddRestrictKeys
  BY <1>1, AddedRules, RuledOnly DEF AddRestrictKeys
<1>2. CASE AddSetNullKeys
  <2>1. rev = 2 /\ rev' = 3 /\ UNCHANGED <<key, moved>> /\ rule' \in Rules
    BY <1>2, AddedRules DEF AddSetNullKeys
  <2>2. notnull' = IF At \in NullablePrep THEN {} ELSE notnull
    BY <1>2 DEF AddSetNullKeys
  <2>3. notnull' = IF At \in Required THEN {"reference"} ELSE {}
    BY <2>1, <2>2, BaselineIs DEF NotNullAt
  <2>. QED
    BY <2>1, <2>3 DEF NotNullAt, At
<1>3. CASE AddCascadeKeys
  BY <1>3, AddedRules, RuledOnly DEF AddCascadeKeys
<1>4. CASE SetUserRoleRules
  BY <1>4, AddedRules, RuledOnly DEF SetUserRoleRules
<1>5. CASE AddPositionColumns
  BY <1>5, AddedRules, RuledOnly DEF AddPositionColumns
<1>6. CASE DropTypeAndNumber
  BY <1>6, RuledOnly DEF DropTypeAndNumber
<1>7. CASE AddTokenKey
  BY <1>7, AddedRules, RuledOnly DEF AddTokenKey
<1>8. CASE AddBridge
  BY <1>8, RuledOnly DEF AddBridge
<1>9. CASE Cutover
  <2>1. rev = 9 /\ rev' = 10 /\ UNCHANGED key /\ rule' \in Rules /\ moved' = {}
    BY <1>9, AddedRules DEF Cutover
  <2>2. notnull' = RenamedNotNull
    BY <1>9 DEF Cutover
  <2>3. notnull' = notnull
    BY <2>1, <2>2, CutoverIs DEF RenamedNotNull, NotNullAt
  <2>. QED
    BY <2>1, <2>3, RuledOnly
<1>10. CASE DropPreviousInt
  <2>1. notnull' = notnull
    BY <1>10 DEF DropPreviousInt
  <2>. QED
    BY <1>10, <2>1, RuledOnly DEF DropPreviousInt
<1>11. CASE MakeExplicit
  <2>1. rev = 11 /\ rev' = 12 /\ UNCHANGED <<key, notnull, moved>> /\ rule' \in Rules
    BY <1>11, AddedRules DEF MakeExplicit
  <2>2. rule' \in RuleIn(ModelKeys)
    BY <1>11, AtIs, ExplicitAreModels DEF MakeExplicit, AddKeys
  <2>3. At' = At
    BY <2>1 DEF At
  <2>. QED
    BY <2>1, <2>2, <2>3 DEF NotNullAt, RuleIn
<1>. QED
  BY <1>1, <1>2, <1>3, <1>4, <1>5, <1>6, <1>7, <1>8, <1>9, <1>10, <1>11 DEF Upgrades

LEMMA DowngradesFit ==
  ASSUME SchemaInv, Downgrades
  PROVE  SchemaInv'
<1>. USE DowngradeIs, Places DEF SchemaInv
<1>1. CASE DropRestrictKeys
  BY <1>1, AddedRules, RuledOnly DEF DropRestrictKeys
<1>2. CASE DropSetNullKeys
  <2>1. rev = 3 /\ rev' = 2 /\ UNCHANGED <<key, moved>> /\ rule' \in Rules
    BY <1>2, AddedRules DEF DropSetNullKeys
  <2>2. notnull' = IF At \in NullablePrep THEN {"reference"} ELSE notnull
    BY <1>2 DEF DropSetNullKeys
  <2>3. notnull' = IF At \in BaselineNotNull THEN {"reference"} ELSE {}
    BY <2>1, <2>2, BaselineIs DEF NotNullAt
  <2>. QED
    BY <2>1, <2>3 DEF NotNullAt, At
<1>3. CASE DropCascadeKeys
  BY <1>3, AddedRules, RuledOnly DEF DropCascadeKeys
<1>4. CASE ResetUserRoleRules
  BY <1>4, AddedRules, RuledOnly DEF ResetUserRoleRules
<1>5. CASE DropPositionColumns
  BY <1>5, AddedRules, RuledOnly DEF DropPositionColumns
<1>6. CASE RestoreTypeAndNumber
  BY <1>6, RuledOnly DEF RestoreTypeAndNumber
<1>7. CASE DropTokenKey
  BY <1>7, AddedRules, RuledOnly DEF DropTokenKey
<1>8. CASE DropBridge
  BY <1>8, RuledOnly DEF DropBridge
<1>9. CASE MakeImplicit
  BY <1>9, AddedRules, RuledOnly DEF MakeImplicit
<1>. QED
  BY <1>1, <1>2, <1>3, <1>4, <1>5, <1>6, <1>7, <1>8, <1>9 DEF Downgrades

LEMMA SchemaStep ==
  ASSUME SchemaInv, [Next]_vars
  PROVE  SchemaInv'
<1>1. ASSUME UNCHANGED <<key, rev, rule, notnull>>, moved' \subseteq Rows PROVE SchemaInv'
  BY <1>1 DEF SchemaInv, NotNullAt, At, RuleIn
<1>2. CASE UNCHANGED vars
  BY <1>1, <1>2 DEF vars, SchemaInv
<1>3. ASSUME NEW r \in Rows, Insert(r) \/ Repoint(r) \/ Delete(r)
      PROVE  UNCHANGED <<key, rev, rule, notnull>> /\ moved' \subseteq Rows
  BY <1>3 DEF Insert, Repoint, Delete, Moved, SchemaInv
<1>4. ASSUME NEW p \in Parents, InsertParent(p) \/ DeleteParent(p)
      PROVE  UNCHANGED <<key, rev, rule, notnull>> /\ moved' \subseteq Rows
  <2>1. Children(p) \subseteq Rows
    BY DEF Children, Present
  <2>. QED
    BY <1>4, <2>1 DEF InsertParent, DeleteParent, DeleteParentUnkept, DeleteParentRestricted,
       DeleteParentCascading, DeleteParentNulling, Moved, SchemaInv
<1>. QED
  BY <1>1, <1>2, <1>3, <1>4, UpgradesFit, DowngradesFit DEF Next

LEMMA SchemaInit ==
  ASSUME Init
  PROVE  SchemaInv
<1>1. PICK k \in ModelKeys : key = [table |-> k[1], column |-> k[2]]
  BY DEF Init
<1>2. rev = 1 /\ moved = {}
  BY DEF Init
<1>3. notnull = IF At \in BaselineNotNull THEN {"reference"} ELSE {}
  BY DEF Init
<1>4. rule \in Rules
  BY DEF Init, Rules
<1>5. rev < 3 /\ rev \in 1..12 /\ rev # 12 /\ moved \subseteq Rows
  BY <1>2
<1>6. NotNullAt(rev) = (At \in BaselineNotNull)
  BY <1>5, Zenon DEF NotNullAt
<1>7. \E m \in ModelKeys : key = [table |-> m[1], column |-> m[2]]
  BY <1>1, Zenon
<1>. QED
  BY <1>3, <1>4, <1>5, <1>6, <1>7, Zenon DEF SchemaInv

LEMMA SchemaServes ==
  ASSUME SchemaInv
  PROVE  InsertsServed /\ HeadIsTheModels
<1>1. Optional \subseteq NullableColumns /\ Optional \cap NullablePrep = {}
  BY DEF Optional
<1>2. InsertsServed
  BY <1>1, AtIs, BaselineIs DEF SchemaInv, NotNullAt, InsertsServed
<1>3. HeadIsTheModels
  BY AtIs, ChainIs DEF SchemaInv, NotNullAt, HeadIsTheModels, AtHead
<1>. QED
  BY <1>2, <1>3

LEMMA Typed ==
  ASSUME KeptInv, SchemaInv
  PROVE  TypeOK
<1>1. PICK k \in ModelKeys : key = [table |-> k[1], column |-> k[2]]
  BY DEF SchemaInv
<1>2. notnull \subseteq {"reference"}
  BY DEF SchemaInv
<1>. QED
  BY <1>1, <1>2, ChainIs DEF KeptInv, SchemaInv, TypeOK, RowType, Rules

\* At every revision the releases that run can insert, and the chain of lists
\* written by hand ends with the rules and the NOT NULL of the models.
THEOREM ChainServesInserts == Spec => []ChainServes
<1>1. Init => KeptInv /\ SchemaInv
  BY KeptInit, SchemaInit
<1>2. KeptInv /\ SchemaInv /\ [Next]_vars => KeptInv' /\ SchemaInv'
  BY KeptStep, SchemaStep
<1>3. KeptInv /\ SchemaInv => ChainServes
  BY SchemaServes, Typed DEF ChainServes
<1>. QED
  BY <1>1, <1>2, <1>3, PTL DEF Spec

-----------------------------------------------------------------------------
(* What the next migration checks before it takes place.                   *)

\* The rows as a migration that rewrites them leaves them.
Table(f(_)) == [r \in Rows |-> IF rows[r].exists THEN f(r) ELSE Absent]

\* A migration's keys can be added to these rows.
Addable(keys, table) == RuleIn(keys) # {} => Valid(table)

\* One conjunct per migration that checks something.
Passes ==
  /\ rev = 1 => Addable(RestrictKeys, rows)
  /\ rev = 2 => Addable(SetNullKeys, Table(SetOrphan))
  /\ rev = 3 => Addable(CascadeKeys, Table(DropOrphan))
  /\ rev = 4 => Addable(UserRoleKeys, rows)
  /\ rev = 5 => Addable(PositionKeys, IF IsPosition THEN Table(FillPosition) ELSE rows)
  /\ rev = 7 => Addable(TokenKeys, rows)
  /\ rev = 9 => BackfillComplete /\ RecreatedNotNull /\ RecreatedUnique
                  /\ Addable(CutoverKeys, Table(Promote))
  /\ rev = 11 => Addable(ExplicitKeys, rows)

\* The reasons there are for a refusal.
Cause ==
  \/ moved # {}
  \/ At \notin OrphanCleanup \cup OrphanDeletion
       /\ \E r \in Present : Dangles(Meaning(r))

\* A constraint is kept as long as it is there; positions have none before
\* their columns, and a column that is cleaned up has one from then on.
Keyed ==
  /\ rule # "none" => Valid(rows)
  /\ IsPosition /\ rev < 6 => rule = "none"
  /\ At \in OrphanCleanup /\ rev >= 3 => rule # "none"
  /\ At \in OrphanDeletion /\ rev >= 4 => rule # "none"

\* What the cutover's NOT NULL and uniqueness ask of the rows holds long before.
Filled ==
  /\ \A r \in Rows : ~rows[r].exists => rows[r].reference = Null
  /\ At \in Required => \A r \in Present : rows[r].reference # Null
  /\ At \in UniqueColumns =>
       \A r, q \in Present : r # q /\ Meaning(r) # Null => Meaning(r) # Meaning(q)

PassInv == Keyed /\ Filled

-----------------------------------------------------------------------------
(* Which columns the lists of one kind name.                               *)

LEMMA RuleInIs ==
  ASSUME NEW keys
  PROVE  RuleIn(keys) # {} <=> \E k \in keys : k[1] = key.table /\ k[2] = key.column
BY DEF RuleIn, At

LEMMA OrphansAre ==
  /\ At \in OrphanCleanup <=> key.table = "booking_logs"
                                /\ key.column \in {"performance_id", "user_id"}
  /\ At \in OrphanDeletion <=> key.table = "ordinariumwork_positions"
                                 /\ key.column = "ordinariumwork_id"
  /\ IsPosition <=> key.column \in {"instrument_id", "voice_id", "choirjob_id"}
<1>1. ASSUME NEW t, NEW columns
      PROVE  At \in Columns(t, columns) <=> key.table = t /\ key.column \in columns
  BY DEF At, Columns
<1>2. IsPosition <=> key.column \in {"instrument_id", "voice_id", "choirjob_id"}
  BY PositionColumnsAre DEF IsPosition
<1>. QED BY <1>1, <1>2 DEF OrphanCleanup, OrphanDeletion

LEMMA RestrictColumns ==
  RuleIn(RestrictKeys) # {} => ~IsPosition /\ At \notin OrphanCleanup /\ At \notin OrphanDeletion
<1>1. ASSUME NEW k \in RestrictKeys
      PROVE  /\ k[1] \in {"bookings", "booking_requests", "performance_proprium", "performances",
                          "ordinariumworks", "propriumworks"}
             /\ k[2] \notin {"instrument_id", "voice_id", "choirjob_id"}
  BY KeysAre DEF RestrictKeys
<1>. QED BY <1>1, RuleInIs, OrphansAre

LEMMA SetNullColumns ==
  /\ RuleIn(SetNullKeys) # {} => ~IsPosition /\ At \notin OrphanDeletion
  /\ At \in OrphanCleanup => RuleIn(SetNullKeys) # {}
<1>1. ASSUME NEW k \in SetNullKeys
      PROVE  /\ k[1] \in {"booking_logs", "request_logs"}
             /\ k[2] \in {"performance_id", "user_id", "client_user_agent_id"}
  <2>. DEFINE past == [performance_id |-> "performances", user_id |-> "users"]
             agents == [client_user_agent_id |-> "client_user_agents", user_id |-> "users"]
  <2>1. DOMAIN past = {"performance_id", "user_id"}
    OBVIOUS
  <2>2. DOMAIN agents = {"client_user_agent_id", "user_id"}
    OBVIOUS
  <2>3. k \in Keys("booking_logs", "SET NULL", past)
          \/ k \in Keys("request_logs", "SET NULL", agents)
    BY Zenon DEF SetNullKeys
  <2>. HIDE DEF past, agents
  <2>4. \/ k[1] = "booking_logs" /\ k[2] \in DOMAIN past
        \/ k[1] = "request_logs" /\ k[2] \in DOMAIN agents
    <3>1. ASSUME k \in Keys("booking_logs", "SET NULL", past)
          PROVE  k[1] = "booking_logs" /\ k[2] \in DOMAIN past
      BY <3>1, KeysAre, Zenon
    <3>2. ASSUME k \in Keys("request_logs", "SET NULL", agents)
          PROVE  k[1] = "request_logs" /\ k[2] \in DOMAIN agents
      BY <3>2, KeysAre, Zenon
    <3>. QED BY <2>3, <3>1, <3>2
  <2>. QED BY <2>1, <2>2, <2>4
<1>2. ASSUME NEW c \in {"performance_id", "user_id"}
      PROVE  \E k \in SetNullKeys : k[1] = "booking_logs" /\ k[2] = c
  <2>. DEFINE refs == [performance_id |-> "performances", user_id |-> "users"]
  <2>1. c \in DOMAIN refs OBVIOUS
  <2>2. <<"booking_logs", c, refs[c], "SET NULL">> \in SetNullKeys BY <2>1 DEF SetNullKeys, Keys
  <2>. QED BY <2>2
<1>. QED BY <1>1, <1>2, RuleInIs, OrphansAre

LEMMA CascadeColumns ==
  /\ RuleIn(CascadeKeys) # {} => ~IsPosition /\ At \notin OrphanCleanup
  /\ At \in OrphanDeletion => RuleIn(CascadeKeys) # {}
<1>1. ASSUME NEW k \in CascadeKeys
      PROVE  /\ k[1] # "booking_logs"
             /\ k[2] \notin {"instrument_id", "voice_id", "choirjob_id"}
  <2>1. ASSUME NEW t \in {"performance_positions", "performance_proprium",
                          "performance_rehearsals"},
               k \in Keys(t, "CASCADE", [performance_id |-> "performances"])
        PROVE  k[1] # "booking_logs" /\ k[2] = "performance_id"
    BY <2>1, KeysAre
  <2>2. ASSUME NEW t \in {"booking_requests", "user_positions"},
               k \in Keys(t, "CASCADE", [user_id |-> "users"])
        PROVE  k[1] # "booking_logs" /\ k[2] = "user_id"
    BY <2>2, KeysAre
  <2>3. ASSUME k \in Keys("oauth2_bindings", "CASCADE", [local_id |-> "users"])
        PROVE  k[1] # "booking_logs" /\ k[2] = "local_id"
    BY <2>3, KeysAre
  <2>4. ASSUME k \in Keys("ordinariumwork_positions", "CASCADE",
                          [ordinariumwork_id |-> "ordinariumworks"])
        PROVE  k[1] # "booking_logs" /\ k[2] = "ordinariumwork_id"
    BY <2>4, KeysAre
  <2>5. \/ \E t \in {"performance_positions", "performance_proprium", "performance_rehearsals"} :
             k \in Keys(t, "CASCADE", [performance_id |-> "performances"])
        \/ \E t \in {"booking_requests", "user_positions"}
             : k \in Keys(t, "CASCADE", [user_id |-> "users"])
        \/ k \in Keys("oauth2_bindings", "CASCADE", [local_id |-> "users"])
        \/ k \in Keys("ordinariumwork_positions", "CASCADE",
                      [ordinariumwork_id |-> "ordinariumworks"])
    BY Zenon DEF CascadeKeys
  <2>. QED BY <2>1, <2>2, <2>3, <2>4, <2>5
<1>2. \E k \in CascadeKeys : k[1] = "ordinariumwork_positions" /\ k[2] = "ordinariumwork_id"
  <2>. DEFINE refs == [ordinariumwork_id |-> "ordinariumworks"]
  <2>1. "ordinariumwork_id" \in DOMAIN refs OBVIOUS
  <2>2. <<"ordinariumwork_positions", "ordinariumwork_id", refs["ordinariumwork_id"], "CASCADE">>
           \in Keys("ordinariumwork_positions", "CASCADE", refs)
    BY <2>1 DEF Keys
  <2>3. Keys("ordinariumwork_positions", "CASCADE", refs) \subseteq CascadeKeys BY DEF CascadeKeys
  <2>. QED BY <2>2, <2>3
<1>. QED BY <1>1, <1>2, RuleInIs, OrphansAre

LEMMA OtherColumns ==
  ASSUME NEW keys \in {BaselineKeys, UserRoleKeys, TokenKeys}
  PROVE  RuleIn(keys) # {} => ~IsPosition /\ At \notin OrphanCleanup /\ At \notin OrphanDeletion
<1>1. ASSUME NEW k \in BaselineKeys \cup UserRoleKeys \cup TokenKeys
      PROVE  k[1] \in {"user_roles", "personal_access_tokens"} /\ k[2] \in {"user_id", "role_id"}
  <2>. DEFINE held == [user_id |-> "users", role_id |-> "roles"]
  <2>0. DOMAIN held = {"user_id", "role_id"}
    OBVIOUS
  <2>1. ASSUME k \in Keys("user_roles", "NO ACTION", held)
        PROVE  k[1] = "user_roles" /\ k[2] \in {"user_id", "role_id"}
    <3>. HIDE DEF held
    <3>. QED BY <2>0, <2>1, KeysAre
  <2>2. ASSUME NEW t \in {"user_roles", "personal_access_tokens"},
               k \in Keys(t, "CASCADE", [user_id |-> "users"])
        PROVE  k[1] = t /\ k[2] = "user_id"
    BY <2>2, KeysAre
  <2>3. ASSUME k \in Keys("user_roles", "RESTRICT", [role_id |-> "roles"])
        PROVE  k[1] = "user_roles" /\ k[2] = "role_id"
    BY <2>3, KeysAre
  <2>. QED BY <2>1, <2>2, <2>3 DEF BaselineKeys, UserRoleKeys, TokenKeys
<1>. QED BY <1>1, RuleInIs, OrphansAre

\* The positions of the models are those of the migration that adds them.
LEMMA PositionsIn ==
  ASSUME NEW k \in ModelKeys, k[2] \in PositionColumns
  PROVE  k \in PositionKeys
<1>. DEFINE four == {"bookings", "booking_logs", "performance_positions", "user_positions"}
<1>1. \A t \in four : Keys(t, "RESTRICT", Positions) \subseteq PositionKeys
  BY Zenon DEF PositionKeys
<1>2. Keys("ordinariumwork_positions", "RESTRICT", TwoPositions) \subseteq PositionKeys
  BY DEF PositionKeys
<1>3. k \in ExplicitKeys BY ExplicitAreModels
<1>4. ASSUME NEW t, NEW rule1, NEW refs, k \in Keys(t, rule1, refs) PROVE k[2] \in DOMAIN refs
  BY <1>4, KeysAre
<1>5. ASSUME NEW t, NEW rule1, NEW refs, k \in Keys(t, rule1, refs),
             DOMAIN refs \cap PositionColumns = {}
      PROVE  FALSE
  BY <1>4, <1>5
<1>6. ASSUME NEW t, NEW rule1, k \in Keys(t, rule1, [performance_id |-> "performances"]) PROVE FALSE
  BY <1>5, <1>6, PositionColumnsAre
<1>7. ASSUME NEW t, NEW rule1, k \in Keys(t, rule1, [user_id |-> "users"]) PROVE FALSE
  BY <1>5, <1>7, PositionColumnsAre
<1>8. ASSUME NEW t, NEW rule1,
             k \in Keys(t, rule1, [performance_id |-> "performances", user_id |-> "users"])
      PROVE  FALSE
  BY <1>5, <1>8, PositionColumnsAre
<1>9. ASSUME NEW t, NEW rule1, k \in Keys(t, rule1, [artist_id |-> "artists"]) PROVE FALSE
  BY <1>5, <1>9, PositionColumnsAre
<1>10. CASE k \in ExplicitBookingKeys
  <2>1. \/ k \in Keys("booking_logs", "SET NULL",
                      [performance_id |-> "performances", user_id |-> "users"])
        \/ k \in Keys("booking_logs", "RESTRICT", Positions)
        \/ k \in Keys("booking_requests", "RESTRICT", [performance_id |-> "performances"])
        \/ k \in Keys("booking_requests", "CASCADE", [user_id |-> "users"])
        \/ k \in Keys("bookings", "RESTRICT", Positions)
        \/ k \in Keys("bookings", "RESTRICT",
                      [performance_id |-> "performances", user_id |-> "users"])
    BY <1>10, Zenon DEF ExplicitBookingKeys
  <2>. QED BY <2>1, <1>1, <1>6, <1>7, <1>8
<1>11. CASE k \in ExplicitWorkKeys
  <2>1. k \notin Keys("oauth2_bindings", "CASCADE", [local_id |-> "users"])
    BY <1>5, PositionColumnsAre
  <2>2. k \notin Keys("ordinariumwork_positions", "CASCADE",
                      [ordinariumwork_id |-> "ordinariumworks"])
    BY <1>5, PositionColumnsAre
  <2>3. \/ k \in Keys("oauth2_bindings", "CASCADE", [local_id |-> "users"])
        \/ k \in Keys("ordinariumwork_positions", "CASCADE",
                      [ordinariumwork_id |-> "ordinariumworks"])
        \/ k \in Keys("ordinariumwork_positions", "RESTRICT", TwoPositions)
        \/ k \in Keys("ordinariumworks", "RESTRICT", [artist_id |-> "artists"])
    BY <1>11, Zenon DEF ExplicitWorkKeys
  <2>. QED BY <2>1, <2>2, <2>3, <1>2, <1>9
<1>12. CASE k \in ExplicitPerformanceKeys
  <2>. DEFINE elements == [propriumelement_id |-> "propriumelements",
                           propriumwork_id |-> "propriumworks"]
             works == [location_id |-> "locations", ordinariumwork_id |-> "ordinariumworks",
                       artist_id |-> "artists"]
  <2>1. k \notin Keys("performance_proprium", "RESTRICT", elements)
    BY <1>5, PositionColumnsAre
  <2>2. k \notin Keys("performances", "RESTRICT", works)
    BY <1>5, PositionColumnsAre
  <2>3. \/ \E t : k \in Keys(t, "CASCADE", [performance_id |-> "performances"])
        \/ k \in Keys("performance_positions", "RESTRICT", Positions)
        \/ k \in Keys("performance_proprium", "RESTRICT", elements)
        \/ k \in Keys("performances", "RESTRICT", works)
    BY <1>12, Zenon DEF ExplicitPerformanceKeys
  <2>. HIDE DEF elements, works
  <2>. QED BY <2>1, <2>2, <2>3, <1>1, <1>6
<1>13. CASE k \in ExplicitUserKeys
  <2>. DEFINE agents == [client_user_agent_id |-> "client_user_agents", user_id |-> "users"]
  <2>1. k \notin Keys("user_roles", "RESTRICT", [role_id |-> "roles"])
    BY <1>5, PositionColumnsAre
  <2>0. DOMAIN agents \cap PositionColumns = {}
    BY PositionColumnsAre
  <2>2. k \notin Keys("request_logs", "SET NULL", agents)
    <3>. HIDE DEF agents
    <3>. QED BY <1>5, <2>0
  <2>3. \/ \E t : k \in Keys(t, "CASCADE", [user_id |-> "users"])
        \/ k \in Keys("propriumworks", "RESTRICT", [artist_id |-> "artists"])
        \/ k \in Keys("request_logs", "SET NULL", agents)
        \/ k \in Keys("user_positions", "RESTRICT", Positions)
        \/ k \in Keys("user_roles", "RESTRICT", [role_id |-> "roles"])
    BY <1>13, Zenon DEF ExplicitUserKeys
  <2>. HIDE DEF agents
  <2>. QED BY <2>1, <2>2, <2>3, <1>1, <1>7, <1>9
<1>14. k \in ExplicitBookingKeys \/ k \in ExplicitWorkKeys \/ k \in ExplicitPerformanceKeys
         \/ k \in ExplicitUserKeys
  BY <1>3 DEF ExplicitKeys
<1>. QED BY <1>10, <1>11, <1>12, <1>13, <1>14

LEMMA PositionRules ==
  ASSUME SchemaInv
  PROVE  RuleIn(PositionKeys) # {} <=> IsPosition
<1>1. PICK k \in ModelKeys : key = [table |-> k[1], column |-> k[2]] BY DEF SchemaInv
<1>2. key.table = k[1] /\ key.column = k[2] BY <1>1
<1>3. ASSUME IsPosition PROVE RuleIn(PositionKeys) # {}
  BY <1>2, <1>3, PositionsIn, RuleInIs DEF IsPosition
<1>4. ASSUME NEW e \in PositionKeys PROVE e[2] \in PositionColumns
  <2>1. ASSUME NEW t, e \in Keys(t, "RESTRICT", Positions) PROVE e[2] \in PositionColumns
    BY <2>1, KeysAre DEF PositionColumns
  <2>2. ASSUME e \in Keys("ordinariumwork_positions", "RESTRICT", TwoPositions)
        PROVE  e[2] \in PositionColumns
    BY <2>2, KeysAre, PositionColumnsAre DEF TwoPositions
  <2>3. \/ \E t : e \in Keys(t, "RESTRICT", Positions)
        \/ e \in Keys("ordinariumwork_positions", "RESTRICT", TwoPositions)
    BY Zenon DEF PositionKeys
  <2>. QED BY <2>1, <2>2, <2>3
<1>. QED BY <1>3, <1>4, RuleInIs DEF IsPosition

\* The last two lists are the models', so they name every column.
LEMMA ModelRules ==
  ASSUME SchemaInv
  PROVE  RuleIn(CutoverKeys) # {} /\ RuleIn(ExplicitKeys) # {}
BY AtIs, CutoverAreModels, ExplicitAreModels

-----------------------------------------------------------------------------
(* Without orphans and rows that moved, the next migration passes.         *)

Orphanless == At \notin OrphanCleanup \cup OrphanDeletion

LEMMA ReferencesLead ==
  ASSUME KeptInv, Filled, ~Cause, Orphanless, ~IsPosition \/ rev >= 6, NEW r \in Rows
  PROVE  ~Dangles(rows[r].reference)
<1>1. CASE rows[r].exists
  <2>1. r \in Present BY <1>1 DEF Present
  <2>2. ~Dangles(Meaning(r)) BY <2>1 DEF Cause, Orphanless
  <2>3. Meaning(r) = rows[r].reference BY MeaningIs DEF MeaningOf, KeptInv
  <2>. QED BY <2>2, <2>3
<1>2. CASE ~rows[r].exists
  <2>1. rows[r].reference = Null BY <1>2 DEF Filled
  <2>. QED BY <2>1 DEF Dangles
<1>. QED BY <1>1, <1>2

LEMMA LateReferencesLead ==
  ASSUME KeptInv, Keyed, Filled, ~Cause, rev >= 6
  PROVE  Valid(rows)
<1>1. CASE Orphanless BY <1>1, ReferencesLead DEF Valid
<1>2. CASE ~Orphanless
  <2>1. rev >= 3 /\ rev >= 4 BY DEF KeptInv
  <2>2. rule # "none" BY <1>2, <2>1 DEF Keyed, Orphanless
  <2>. QED BY <2>2 DEF Keyed
<1>. QED BY <1>1, <1>2

LEMMA EarlyPasses ==
  ASSUME KeptInv, SchemaInv, Keyed, Filled, ~Cause, rev < 6
  PROVE  Passes
<1>0. rev \in 1..12 BY DEF KeptInv
<1>1. ASSUME Orphanless, ~IsPosition PROVE Valid(rows)
  BY <1>1, ReferencesLead DEF Valid
<1>2. ASSUME rev = 1 PROVE Addable(RestrictKeys, rows)
  BY <1>1, RestrictColumns DEF Addable, Orphanless
<1>3. ASSUME rev = 2 PROVE Addable(SetNullKeys, Table(SetOrphan))
  <2>1. SUFFICES ASSUME RuleIn(SetNullKeys) # {}, NEW r \in Rows
                 PROVE  ~Dangles(Table(SetOrphan)[r].reference)
    BY DEF Addable, Valid
  <2>2. ~IsPosition /\ At \notin OrphanDeletion BY <2>1, SetNullColumns
  <2>3. rows[r].exists => Table(SetOrphan)[r] = SetOrphan(r) BY DEF Table
  <2>4. ~rows[r].exists => Table(SetOrphan)[r] = Absent BY DEF Table
  <2>5. ~Dangles(Absent.reference) BY DEF Absent, Dangles
  <2>6. At \in OrphanCleanup => ~Dangles(SetOrphan(r).reference)
    <3>1. rows[r] \in RowType BY DEF KeptInv
    <3>2. ~Dangles([rows[r] EXCEPT !.reference = Null].reference) BY <3>1 DEF Dangles, RowType
    <3>. QED BY <3>2 DEF SetOrphan
  <2>7. At \notin OrphanCleanup => ~Dangles(SetOrphan(r).reference)
    BY <2>2, ReferencesLead DEF SetOrphan, Orphanless
  <2>. QED BY <2>3, <2>4, <2>5, <2>6, <2>7
<1>4. ASSUME rev = 3 PROVE Addable(CascadeKeys, Table(DropOrphan))
  <2>1. SUFFICES ASSUME RuleIn(CascadeKeys) # {}, NEW r \in Rows
                 PROVE  ~Dangles(Table(DropOrphan)[r].reference)
    BY DEF Addable, Valid
  <2>2. ~IsPosition /\ At \notin OrphanCleanup BY <2>1, CascadeColumns
  <2>3. rows[r].exists => Table(DropOrphan)[r] = DropOrphan(r) BY DEF Table
  <2>4. ~rows[r].exists => Table(DropOrphan)[r] = Absent BY DEF Table
  <2>5. ~Dangles(Absent.reference) BY DEF Absent, Dangles
  <2>6. At \in OrphanDeletion => ~Dangles(DropOrphan(r).reference)
    BY <2>5 DEF DropOrphan
  <2>7. At \notin OrphanDeletion => ~Dangles(DropOrphan(r).reference)
    BY <2>2, ReferencesLead DEF DropOrphan, Orphanless
  <2>. QED BY <2>3, <2>4, <2>5, <2>6, <2>7
<1>5. ASSUME rev = 4 PROVE Addable(UserRoleKeys, rows)
  BY <1>1, OtherColumns DEF Addable, Orphanless
<1>6. ASSUME rev = 5
      PROVE  Addable(PositionKeys, IF IsPosition THEN Table(FillPosition) ELSE rows)
  <2>1. SUFFICES ASSUME IsPosition, NEW r \in Rows
                 PROVE  ~Dangles(Table(FillPosition)[r].reference)
    BY PositionRules DEF Addable, Valid
  <2>2. CASE rows[r].exists
    <3>1. r \in Present /\ Orphanless BY <2>1, <2>2, NoOrphanedPositions DEF Present, Orphanless
    <3>2. ~Dangles(Meaning(r)) BY <3>1 DEF Cause, Orphanless
    <3>3. Meaning(r) = Told(rows[r]) BY <1>0, <1>6, <2>1, MeaningIs DEF MeaningOf
    <3>4. FillPosition(r).reference = Told(rows[r])
      <4>1. rows[r] \in RowType BY DEF KeptInv
      <4>. QED BY <4>1 DEF FillPosition, Told, RowType
    <3>. QED BY <2>2, <3>2, <3>3, <3>4 DEF Table
  <2>3. CASE ~rows[r].exists BY <2>3 DEF Table, Absent, Dangles
  <2>. QED BY <2>2, <2>3
<1>. QED BY <1>0, <1>2, <1>3, <1>4, <1>5, <1>6 DEF Passes

LEMMA CutoverPasses ==
  ASSUME KeptInv, SchemaInv, Keyed, Filled, ~Cause, rev = 9
  PROVE  /\ BackfillComplete /\ RecreatedNotNull /\ RecreatedUnique
         /\ Addable(CutoverKeys, Table(Promote))
<1>1. Valid(rows) /\ moved = {} BY LateReferencesLead DEF Cause
<1>2. ASSUME NEW r \in Present PROVE FinalBackfill(r) = rows[r].reference
  <2>1. r \in Rows /\ rows[r].bridge \in {Null, rows[r].reference}
    BY <1>1 DEF KeptInv, Present
  <2>2. rows[r].reference \in Values BY <2>1 DEF KeptInv, RowType
  <2>3. rows[r].reference \in parents \cup {Null}
    BY <1>1, <2>1, <2>2, NullAssumption DEF Valid, Dangles, Values
  <2>. QED BY <2>1, <2>3 DEF FinalBackfill
<1>3. BackfillComplete BY <1>2 DEF BackfillComplete
<1>4. RecreatedNotNull BY <1>2, CutoverIs DEF RecreatedNotNull, Filled
<1>5. ASSUME NEW r PROVE Meaning(r) = rows[r].reference
  BY MeaningIs DEF MeaningOf
<1>6. RecreatedUnique BY <1>2, <1>5 DEF RecreatedUnique, Filled
<1>7. ASSUME NEW r \in Rows PROVE ~Dangles(Table(Promote)[r].reference)
  <2>1. CASE rows[r].exists
    <3>1. r \in Present BY <2>1 DEF Present
    <3>2. rows[r] \in RowType BY DEF KeptInv
    <3>3. Promote(r).reference = FinalBackfill(r) BY <3>2 DEF Promote, RowType
    <3>4. Table(Promote)[r] = Promote(r) BY <2>1 DEF Table
    <3>. QED BY <1>1, <1>2, <3>1, <3>3, <3>4 DEF Valid
  <2>2. CASE ~rows[r].exists BY <2>2 DEF Table, Absent, Dangles
  <2>. QED BY <2>1, <2>2
<1>. QED BY <1>3, <1>4, <1>6, <1>7 DEF Addable, Valid

LEMMA WithoutCausePasses ==
  ASSUME KeptInv, SchemaInv, PassInv, ~Cause
  PROVE  Passes
<1>1. CASE rev < 6 BY <1>1, EarlyPasses DEF PassInv
<1>2. CASE rev >= 6
  <2>1. rev = 9 => /\ BackfillComplete /\ RecreatedNotNull /\ RecreatedUnique
                   /\ Addable(CutoverKeys, Table(Promote))
    BY CutoverPasses DEF PassInv
  <2>2. Valid(rows) BY <1>2, LateReferencesLead DEF PassInv
  <2>3. rev \notin {1, 2, 3, 4, 5} BY <1>2 DEF KeptInv
  <2>. QED BY <2>1, <2>2, <2>3 DEF Passes, Addable
<1>. QED BY <1>1, <1>2 DEF KeptInv

-----------------------------------------------------------------------------
(* Rows stay filled and constraints stay kept, whatever migration or       *)
(* release runs.                                                           *)

LEMMA NullIsNoParent == KeptInv => Null \notin parents /\ "other" \notin parents /\ Null # "other"
BY NullAssumption DEF KeptInv

\* What a migration does to a row: it goes, or it refers to what it referred
\* to or to nothing; a required or a constrained column is left alone.
Rewrites ==
  \A r \in Rows :
    /\ ~rows'[r].exists => rows'[r].reference = Null
    /\ rows'[r].exists =>
         /\ rows[r].exists
         /\ MeaningOf(rows'[r], rev') \in {Null, MeaningOf(rows[r], rev)}
         /\ At \in Required => rows'[r].reference = rows[r].reference
    /\ rule # "none" => rows'[r].reference \in {Null, rows[r].reference}

LEMMA RewritesFill ==
  ASSUME KeptInv, Filled, Rewrites, key' = key, rev' \in 1..12
  PROVE  Filled'
<1>0. rev \in 1..12 /\ At' = At BY DEF KeptInv, At
<1>1. ASSUME NEW r PROVE Meaning(r) = MeaningOf(rows[r], rev) BY <1>0, MeaningIs
<1>2. ASSUME NEW r PROVE Meaning(r)' = MeaningOf(rows'[r], rev') BY MeaningNext
<1>3. ASSUME NEW r \in Present'
      PROVE  r \in Present /\ Meaning(r)' \in {Null, Meaning(r)}
  <2>1. r \in Rows /\ rows'[r].exists BY DEF Present
  <2>. QED BY <2>1, <1>1, <1>2 DEF Rewrites, Present
<1>4. \A r \in Rows : ~rows'[r].exists => rows'[r].reference = Null BY DEF Rewrites
<1>5. ASSUME At \in Required, NEW r \in Present' PROVE rows'[r].reference # Null
  <2>1. r \in Rows /\ rows'[r].exists BY DEF Present
  <2>2. r \in Present /\ rows'[r].reference = rows[r].reference BY <1>3, <1>5, <2>1 DEF Rewrites
  <2>. QED BY <2>2, <1>5 DEF Filled
<1>6. ASSUME At \in UniqueColumns, NEW r \in Present', NEW q \in Present', r # q, Meaning(r)' # Null
      PROVE  Meaning(r)' # Meaning(q)'
  <2>1. r \in Present /\ q \in Present /\ Meaning(r)' = Meaning(r) BY <1>3, <1>6
  <2>2. Meaning(r) # Meaning(q) BY <2>1, <1>6 DEF Filled
  <2>3. Meaning(q)' \in {Null, Meaning(q)} BY <1>3
  <2>. QED BY <2>1, <2>2, <2>3, <1>6
<1>. QED BY <1>0, <1>4, <1>5, <1>6 DEF Filled

\* Rows no migration rewrites.
LEMMA LeavesRows ==
  ASSUME Filled, rows' = rows, rev < 6 <=> rev' < 6
  PROVE  Rewrites
BY DEF Rewrites, Filled, MeaningOf

LEMMA RewritesKey ==
  ASSUME KeptInv, Keyed, Rewrites, UNCHANGED parents,
         NEW keys, AddKeys(keys) \/ DropKeys(keys) \/ rule' = rule
  PROVE  rule' # "none" => Valid(rows)'
<1>1. ASSUME rule # "none" PROVE Valid(rows)'
  <2>1. SUFFICES ASSUME NEW r \in Rows PROVE ~(Dangles(rows[r].reference))' BY DEF Valid
  <2>2. rows'[r].reference \in {Null, rows[r].reference} BY <1>1 DEF Rewrites
  <2>3. ~Dangles(rows[r].reference) BY <1>1 DEF Keyed, Valid
  <2>. QED BY <2>2, <2>3 DEF Dangles
<1>2. ASSUME Valid(rows') PROVE Valid(rows)' BY <1>2 DEF Valid, Dangles
<1>3. CASE rule' = rule BY <1>1, <1>3
<1>4. CASE AddKeys(keys) BY <1>1, <1>2, <1>4 DEF AddKeys
<1>5. CASE DropKeys(keys) BY <1>1, <1>5 DEF DropKeys
<1>. QED BY <1>3, <1>4, <1>5

\* The columns whose constraint comes at a revision of its own.
Timed(n, r) ==
  /\ IsPosition /\ n < 6 => r = "none"
  /\ At \in OrphanCleanup /\ n >= 3 => r # "none"
  /\ At \in OrphanDeletion /\ n >= 4 => r # "none"

LEMMA KeyedIs == Keyed <=> (rule # "none" => Valid(rows)) /\ Timed(rev, rule)
BY DEF Keyed, Timed

LEMMA KeyedNext ==
  ASSUME key' = key, rule' # "none" => Valid(rows)', Timed(rev', rule')
  PROVE  Keyed'
BY DEF Keyed, Timed, IsPosition, At

Early == IsPosition \/ At \in OrphanCleanup \/ At \in OrphanDeletion

\* Lists that name none of these columns leave their rule alone.
LEMMA UntimedKeys ==
  ASSUME NEW keys \in {RestrictKeys, BaselineKeys, UserRoleKeys, TokenKeys},
         AddKeys(keys) \/ DropKeys(keys), Timed(rev, rule), rev \in 1..12, rev' \in 1..12,
         rev < 6 <=> rev' < 6, rev < 3 <=> rev' < 3, rev < 4 <=> rev' < 4
  PROVE  Timed(rev', rule')
<1>1. Early => RuleIn(keys) = {} BY RestrictColumns, OtherColumns DEF Early
<1>2. Early => rule' = rule BY <1>1 DEF AddKeys, DropKeys
<1>. QED BY <1>2 DEF Timed, Early

LEMMA OrphansApart ==
  /\ ~(IsPosition /\ At \in OrphanCleanup) /\ ~(IsPosition /\ At \in OrphanDeletion)
  /\ ~(At \in OrphanCleanup /\ At \in OrphanDeletion)
BY OrphansAre

LEMMA AddedIsRule ==
  ASSUME NEW keys \in {SetNullKeys, CascadeKeys, CutoverKeys, ExplicitKeys}, AddKeys(keys),
         RuleIn(keys) # {}
  PROVE  rule' # "none"
<1>1. ASSUME NEW k \in SetNullKeys PROVE k[4] = "SET NULL"
  <2>. DEFINE past == [performance_id |-> "performances", user_id |-> "users"]
             agents == [client_user_agent_id |-> "client_user_agents", user_id |-> "users"]
  <2>1. k \in Keys("booking_logs", "SET NULL", past)
          \/ k \in Keys("request_logs", "SET NULL", agents)
    BY Zenon DEF SetNullKeys
  <2>. HIDE DEF past, agents
  <2>2. ASSUME NEW t, NEW nulling, NEW refs, k \in Keys(t, nulling, refs) PROVE k[4] = nulling
    BY <2>2, KeysAre
  <2>. QED BY <2>1, <2>2, Zenon
<1>2. ASSUME NEW k \in CascadeKeys PROVE k[4] = "CASCADE"
  <2>1. \E t, refs : k \in Keys(t, "CASCADE", refs) BY <1>2, Zenon DEF CascadeKeys
  <2>. QED BY <2>1, KeysAre
<1>3. ASSUME NEW k \in CutoverKeys \cup ExplicitKeys PROVE k[4] # "none"
  BY CutoverAreModels, ExplicitAreModels, ModelKeysFit DEF Fits
<1>4. ASSUME NEW k \in keys PROVE k[4] # "none" BY <1>1, <1>2, <1>3
<1>5. rule' \in RuleIn(keys) BY DEF AddKeys
<1>. QED BY <1>4, <1>5 DEF RuleIn

-----------------------------------------------------------------------------
(* The migrations.                                                         *)

LEMMA AbsentIs == Absent.exists = FALSE /\ Absent.reference = Null
BY DEF Absent

LEMMA RewritesPass ==
  ASSUME KeptInv, PassInv, Rewrites, UNCHANGED <<key, parents>>, rev' \in 1..12,
         NEW keys, AddKeys(keys) \/ DropKeys(keys) \/ rule' = rule, Timed(rev', rule')
  PROVE  PassInv'
<1>1. Filled' BY RewritesFill DEF PassInv
<1>2. Keyed' BY RewritesKey, KeyedNext DEF PassInv
<1>. QED BY <1>1, <1>2 DEF PassInv

LEMMA KeysAlonePass ==
  ASSUME KeptInv, PassInv, UNCHANGED <<key, parents, rows>>, rev' \in 1..12,
         rev < 6 <=> rev' < 6, rev < 3 <=> rev' < 3, rev < 4 <=> rev' < 4,
         NEW keys \in {RestrictKeys, BaselineKeys, UserRoleKeys, TokenKeys},
         AddKeys(keys) \/ DropKeys(keys)
  PROVE  PassInv'
<1>1. Timed(rev', rule') BY KeyedIs, UntimedKeys DEF PassInv, KeptInv
<1>2. Rewrites BY LeavesRows DEF PassInv
<1>. QED BY <1>1, <1>2, RewritesPass

LEMMA SetNullPasses ==
  ASSUME KeptInv, PassInv, AddSetNullKeys
  PROVE  PassInv'
<1>1. rev' = 3 /\ rev = 2 /\ UNCHANGED <<key, parents>>
  BY UpgradeIs, Places DEF AddSetNullKeys, KeptInv
<1>2. AddKeys(SetNullKeys)
        /\ rows' = [r \in Rows |-> IF rows[r].exists THEN SetOrphan(r) ELSE Absent]
  BY DEF AddSetNullKeys, Each
<1>3. Timed(2, rule) BY <1>1, KeyedIs DEF PassInv
<1>4. Timed(3, rule')
  <2>1. At \in OrphanCleanup => rule' # "none" BY <1>2, SetNullColumns, AddedIsRule
  <2>2. IsPosition => rule' = "none" BY <1>2, <1>3, SetNullColumns DEF AddKeys, Timed
  <2>. QED BY <2>1, <2>2 DEF Timed
<1>5. At \in OrphanCleanup => At \notin Required /\ ~IsPosition
  BY RequiredIs, OrphansAre DEF At
<1>6. Rewrites
  <2>1. ASSUME NEW r \in Rows
        PROVE  /\ ~rows'[r].exists => rows'[r].reference = Null
               /\ rows'[r].exists =>
                    /\ rows[r].exists
                    /\ rows'[r] = rows[r]
                         \/ (rows'[r].reference = Null /\ At \in OrphanCleanup)
               /\ rows'[r].reference \in {Null, rows[r].reference}
    <3>1. rows[r] \in RowType BY DEF KeptInv
    <3>2. /\ SetOrphan(r).exists = rows[r].exists
          /\ SetOrphan(r) = rows[r] \/ (SetOrphan(r).reference = Null /\ At \in OrphanCleanup)
      BY <3>1 DEF SetOrphan, RowType
    <3>. QED BY <1>2, <3>2 DEF Absent
  <2>2. ASSUME NEW r \in Rows, rows'[r].exists
        PROVE  MeaningOf(rows'[r], rev') \in {Null, MeaningOf(rows[r], rev)}
    BY <1>1, <1>5, <2>1, <2>2 DEF MeaningOf
  <2>. QED BY <2>1, <2>2, <1>5 DEF Rewrites
<1>. QED BY <1>1, <1>2, <1>4, <1>6, RewritesPass

LEMMA CascadePasses ==
  ASSUME KeptInv, PassInv, AddCascadeKeys
  PROVE  PassInv'
<1>1. rev' = 4 /\ rev = 3 /\ UNCHANGED <<key, parents>>
  BY UpgradeIs, Places DEF AddCascadeKeys, KeptInv
<1>2. AddKeys(CascadeKeys)
        /\ rows' = [r \in Rows |-> IF rows[r].exists THEN DropOrphan(r) ELSE Absent]
  BY DEF AddCascadeKeys, Each
<1>3. Timed(3, rule) BY <1>1, KeyedIs DEF PassInv
<1>4. Timed(4, rule')
  <2>1. At \in OrphanDeletion => rule' # "none" BY <1>2, CascadeColumns, AddedIsRule
  <2>2. IsPosition \/ At \in OrphanCleanup => rule' = rule BY <1>2, CascadeColumns DEF AddKeys
  <2>. QED BY <1>3, <2>1, <2>2 DEF Timed
<1>6. Rewrites
  <2>1. ASSUME NEW r \in Rows
        PROVE  /\ ~rows'[r].exists => rows'[r].reference = Null
               /\ rows'[r].exists => rows'[r] = rows[r] /\ rows[r].exists
               /\ rows'[r].reference \in {Null, rows[r].reference}
    <3>1. ~rows[r].exists => rows[r].reference = Null BY DEF PassInv, Filled
    <3>2. DropOrphan(r) \in {Absent, rows[r]} BY DEF DropOrphan
    <3>. QED BY <1>2, <3>1, <3>2 DEF Absent
  <2>. QED BY <1>1, <2>1 DEF Rewrites, MeaningOf
<1>. QED BY <1>1, <1>2, <1>4, <1>6, RewritesPass

LEMMA PositionsPass ==
  ASSUME KeptInv, SchemaInv, PassInv, AddPositionColumns
  PROVE  PassInv'
<1>1. rev' = 6 /\ rev = 5 /\ UNCHANGED <<key, parents>> /\ AddKeys(PositionKeys)
  BY UpgradeIs, Places DEF AddPositionColumns, KeptInv
<1>2. Timed(5, rule) BY <1>1, KeyedIs DEF PassInv
<1>3. Timed(6, rule')
  <2>1. ~IsPosition => rule' = rule BY <1>1, PositionRules DEF AddKeys
  <2>. QED BY <1>2, <2>1, OrphansApart DEF Timed
<1>4. CASE IsPosition
  <2>1. rule = "none" /\ At \notin Required
    <3>1. At \notin Required
      <4>1. <<key.table, key.column>> \in Required => key.column \notin PositionColumns
        BY RequiredIsNotNull
      <4>. QED BY <4>1, <1>4 DEF At, IsPosition
    <3>. QED BY <3>1, <1>2, <1>4 DEF Timed
  <2>2. rows' = [r \in Rows |-> IF rows[r].exists THEN FillPosition(r) ELSE Absent]
    BY <1>4 DEF AddPositionColumns, Each
  <2>3. ASSUME NEW r \in Rows
        PROVE  FillPosition(r).exists = rows[r].exists /\ FillPosition(r).reference = Told(rows[r])
    BY DEF FillPosition, KeptInv, RowType, Told
  <2>4. Rewrites BY <1>1, <1>4, <2>1, <2>2, <2>3 DEF Rewrites, MeaningOf, Absent
  <2>. QED BY <1>1, <1>3, <2>4, RewritesPass
<1>5. CASE ~IsPosition
  <2>1. rows' = rows BY <1>5 DEF AddPositionColumns
  <2>2. Rewrites BY <1>5, <2>1 DEF Rewrites, MeaningOf, PassInv, Filled
  <2>. QED BY <1>1, <1>3, <2>2, RewritesPass
<1>. QED BY <1>4, <1>5

LEMMA PositionsDropped ==
  ASSUME KeptInv, SchemaInv, PassInv, DropPositionColumns
  PROVE  PassInv'
<1>1. rev' = 5 /\ rev = 6 /\ UNCHANGED <<key, parents>> /\ DropKeys(PositionKeys)
  BY DowngradeIs, Places DEF DropPositionColumns, KeptInv
<1>2. Timed(6, rule) BY <1>1, KeyedIs DEF PassInv
<1>3. Timed(5, rule') BY <1>1, <1>2, PositionRules, OrphansApart DEF DropKeys, Timed
<1>4. CASE IsPosition
  <2>1. At \notin Required
    <3>1. <<key.table, key.column>> \in Required => key.column \notin PositionColumns
      BY RequiredIsNotNull
    <3>. QED BY <3>1, <1>4 DEF At, IsPosition
  <2>2. rows' = [r \in Rows |-> [rows[r] EXCEPT !.reference = Null]]
    BY <1>4 DEF DropPositionColumns
  <2>3. ASSUME NEW r \in Rows
        PROVE  rows'[r].exists = rows[r].exists /\ rows'[r].reference = Null
                 /\ Told(rows'[r]) = Told(rows[r])
    BY <2>2 DEF KeptInv, RowType, Told
  <2>4. ASSUME NEW r \in Rows, rows[r].exists PROVE MeaningOf(rows'[r], 5) = MeaningOf(rows[r], 6)
    BY <1>1, <1>4, <2>3, <2>4 DEF KeptInv, MeaningOf, Present
  <2>5. Rewrites BY <1>1, <2>1, <2>3, <2>4 DEF Rewrites
  <2>. QED BY <1>1, <1>3, <2>5, RewritesPass
<1>5. CASE ~IsPosition
  <2>1. rows' = rows BY <1>5 DEF DropPositionColumns
  <2>2. Rewrites BY <1>5, <2>1 DEF Rewrites, MeaningOf, PassInv, Filled
  <2>. QED BY <1>1, <1>3, <2>2, RewritesPass
<1>. QED BY <1>4, <1>5

\* Migrations that rewrite rows but not what they refer to.
LEMMA ReferencesLeft ==
  ASSUME KeptInv, PassInv, UNCHANGED <<key, parents, rule>>, rev \in 6..12, rev' \in 6..12,
         \A r \in Rows : /\ rows'[r].exists = rows[r].exists
                         /\ rows'[r].reference = rows[r].reference
  PROVE  PassInv'
<1>1. Timed(rev, rule) BY KeyedIs DEF PassInv
<1>2. Timed(rev', rule') BY <1>1 DEF Timed
<1>3. Rewrites BY DEF Rewrites, MeaningOf, PassInv, Filled
<1>. QED BY <1>2, <1>3, RewritesPass

LEMMA RowsRewrittenPass ==
  ASSUME KeptInv, PassInv,
         \/ DropTypeAndNumber \/ RestoreTypeAndNumber \/ AddBridge \/ DropBridge
  PROVE  PassInv'
<1>0. \A r \in Rows : /\ ~rows[r].exists => rows[r].reference = Null
                    /\ rows[r].exists \in BOOLEAN
  BY DEF PassInv, Filled, KeptInv, RowType
<1>1. CASE DropTypeAndNumber
  <2>1. rev' = 7 /\ rev = 6 /\ UNCHANGED <<key, parents, rule>>
    BY <1>1, UpgradeIs, Places DEF DropTypeAndNumber, KeptInv
  <2>2. \A r \in Rows : rows'[r].exists = rows[r].exists /\ rows'[r].reference = rows[r].reference
    BY <1>1 DEF DropTypeAndNumber, KeptInv, RowType
  <2>. QED BY <2>1, <2>2, ReferencesLeft
<1>2. CASE RestoreTypeAndNumber
  <2>1. rev' = 6 /\ rev = 7 /\ UNCHANGED <<key, parents, rule>>
    BY <1>2, DowngradeIs, Places DEF RestoreTypeAndNumber, KeptInv
  <2>2. \A r \in Rows : rows'[r].exists = rows[r].exists /\ rows'[r].reference = rows[r].reference
    <3>1. ASSUME NEW r \in Rows
          PROVE  FormerPosition(r).exists = rows[r].exists
                   /\ FormerPosition(r).reference = rows[r].reference
      BY DEF FormerPosition, KeptInv, RowType
    <3>2. CASE IsPosition
      <4>1. rows' = [r \in Rows |-> IF rows[r].exists THEN FormerPosition(r) ELSE Absent]
        BY <1>2, <3>2 DEF RestoreTypeAndNumber, Each
      <4>. QED BY <1>0, <3>1, <4>1, AbsentIs
    <3>3. CASE ~IsPosition BY <1>2, <3>3 DEF RestoreTypeAndNumber
    <3>. QED BY <3>2, <3>3
  <2>. QED BY <2>1, <2>2, ReferencesLeft
<1>3. CASE AddBridge
  <2>1. rev' = 9 /\ rev = 8 /\ UNCHANGED <<key, parents, rule>>
    BY <1>3, UpgradeIs, Places DEF AddBridge, KeptInv
  <2>2. \A r \in Rows : rows'[r].exists = rows[r].exists /\ rows'[r].reference = rows[r].reference
    <3>1. ASSUME NEW r \in Rows
          PROVE  Bridge(r).exists = rows[r].exists /\ Bridge(r).reference = rows[r].reference
      BY DEF Bridge, KeptInv, RowType
    <3>2. rows' = [r \in Rows |-> IF rows[r].exists THEN Bridge(r) ELSE Absent]
      BY <1>3 DEF AddBridge, Each
    <3>. QED BY <1>0, <3>1, <3>2, AbsentIs
  <2>. QED BY <2>1, <2>2, ReferencesLeft
<1>4. CASE DropBridge
  <2>1. rev' = 8 /\ rev = 9 /\ UNCHANGED <<key, parents, rule>>
    BY <1>4, DowngradeIs, Places DEF DropBridge, KeptInv
  <2>2. \A r \in Rows : rows'[r].exists = rows[r].exists /\ rows'[r].reference = rows[r].reference
    BY <1>4 DEF DropBridge, KeptInv, RowType
  <2>. QED BY <2>1, <2>2, ReferencesLeft
<1>. QED BY <1>1, <1>2, <1>3, <1>4

\* The cutover recreates key, NOT NULL and uniqueness at once, on rows that
\* bear them.
LEMMA CutoverFills ==
  ASSUME KeptInv, SchemaInv, PassInv, Cutover
  PROVE  PassInv'
<1>1. rev' = 10 /\ rev = 9 /\ UNCHANGED <<key, parents>> /\ AddKeys(CutoverKeys)
  BY UpgradeIs, Places DEF Cutover, KeptInv
<1>2. rows' = [r \in Rows |-> IF rows[r].exists THEN Promote(r) ELSE Absent]
  BY DEF Cutover, Each
<1>0. \A r \in Rows : rows[r].exists \in BOOLEAN BY DEF KeptInv, RowType
<1>3. ASSUME NEW r \in Rows
      PROVE  /\ rows'[r].exists = rows[r].exists
             /\ rows[r].exists => rows'[r].reference = FinalBackfill(r)
             /\ ~rows[r].exists => rows'[r].reference = Null
  <2>1. rows[r] \in RowType BY DEF KeptInv
  <2>2. Promote(r).exists = rows[r].exists /\ Promote(r).reference = FinalBackfill(r)
    BY <2>1 DEF Promote, RowType
  <2>. QED BY <1>0, <1>2, <2>2, AbsentIs
<1>4. Present' = Present BY <1>3 DEF Present
<1>5. ASSUME NEW r \in Present
      PROVE  Meaning(r)' = FinalBackfill(r) /\ rows'[r].reference = FinalBackfill(r)
  <2>1. r \in Rows /\ rows[r].exists BY DEF Present
  <2>2. Meaning(r)' = MeaningOf(rows'[r], 10) BY <1>1, MeaningNext
  <2>. QED BY <1>3, <2>1, <2>2 DEF MeaningOf
<1>6. At' = At BY <1>1 DEF At
<1>7. RecreatedNotNull /\ RecreatedUnique BY DEF Cutover
<1>8. Filled'
  <2>1. \A r \in Rows : ~rows'[r].exists => rows'[r].reference = Null BY <1>3
  <2>2. At \in Required => \A r \in Present : rows'[r].reference # Null
    BY <1>5, <1>7, CutoverIs DEF RecreatedNotNull
  <2>3. At \in UniqueColumns =>
          \A r, q \in Present : r # q /\ Meaning(r)' # Null => Meaning(r)' # Meaning(q)'
    BY <1>5, <1>7 DEF RecreatedUnique
  <2>. QED BY <1>4, <1>6, <2>1, <2>2, <2>3 DEF Filled
<1>9. Keyed'
  <2>1. RuleIn(CutoverKeys) # {} BY ModelRules
  <2>2. rule' # "none" BY <1>1, <2>1, AddedIsRule
  <2>3. Valid(rows') BY <1>1, <2>1 DEF AddKeys
  <2>4. Valid(rows)' BY <1>1, <2>3 DEF Valid, Dangles
  <2>5. Timed(10, rule') BY <2>2 DEF Timed
  <2>. QED BY <1>1, <2>4, <2>5, KeyedNext
<1>. QED BY <1>8, <1>9 DEF PassInv

LEMMA ExplicitPasses ==
  ASSUME KeptInv, SchemaInv, PassInv, MakeExplicit \/ MakeImplicit
  PROVE  PassInv'
<1>1. rev' \in {11, 12} /\ rev \in {11, 12} /\ UNCHANGED <<key, parents, rows>>
        /\ AddKeys(ExplicitKeys)
  BY UpgradeIs, DowngradeIs, Places DEF MakeExplicit, MakeImplicit, KeptInv
<1>2. rule' # "none" BY <1>1, ModelRules, AddedIsRule
<1>3. Timed(rev', rule') BY <1>1, <1>2 DEF Timed
<1>4. Rewrites BY <1>1, LeavesRows DEF PassInv
<1>. QED BY <1>1, <1>3, <1>4, RewritesPass

\* Migrations that take keys away, or add none.
LEMMA DroppedPass ==
  ASSUME KeptInv, PassInv, DropSetNullKeys \/ DropCascadeKeys \/ DropPreviousInt
  PROVE  PassInv'
<1>0. Timed(rev, rule) BY KeyedIs DEF PassInv
<1>1. CASE DropSetNullKeys
  <2>1. rev' = 2 /\ rev = 3 /\ UNCHANGED <<key, parents, rows>> /\ DropKeys(SetNullKeys)
    BY <1>1, DowngradeIs, Places DEF DropSetNullKeys, KeptInv
  <2>2. Timed(2, rule') BY <1>0, <2>1 DEF Timed, DropKeys
  <2>. QED BY <2>1, <2>2, LeavesRows, RewritesPass DEF PassInv
<1>2. CASE DropCascadeKeys
  <2>1. rev' = 3 /\ rev = 4 /\ UNCHANGED <<key, parents, rows>> /\ DropKeys(CascadeKeys)
    BY <1>2, DowngradeIs, Places DEF DropCascadeKeys, KeptInv
  <2>2. Timed(3, rule') BY <1>0, <2>1, CascadeColumns DEF Timed, DropKeys
  <2>. QED BY <2>1, <2>2, LeavesRows, RewritesPass DEF PassInv
<1>3. CASE DropPreviousInt
  <2>1. rev' = 11 /\ rev = 10 /\ UNCHANGED <<key, parents, rows, rule>>
    BY <1>3, UpgradeIs, Places DEF DropPreviousInt, KeptInv
  <2>2. Timed(11, rule') BY <1>0, <2>1 DEF Timed
  <2>. QED BY <2>1, <2>2, LeavesRows, RewritesPass DEF PassInv
<1>. QED BY <1>1, <1>2, <1>3

LEMMA MigrationsPass ==
  ASSUME KeptInv, SchemaInv, PassInv, Upgrades \/ Downgrades
  PROVE  PassInv'
<1>1. CASE AddRestrictKeys
  <2>1. rev = 1 /\ rev' = 2 /\ UNCHANGED <<key, parents, rows>> /\ AddKeys(RestrictKeys)
    BY <1>1, UpgradeIs, Places DEF AddRestrictKeys, KeptInv
  <2>. QED BY <2>1, KeysAlonePass
<1>2. CASE DropRestrictKeys
  <2>1. rev = 2 /\ rev' = 1 /\ UNCHANGED <<key, parents, rows>> /\ DropKeys(RestrictKeys)
    BY <1>2, DowngradeIs, Places DEF DropRestrictKeys, KeptInv
  <2>. QED BY <2>1, KeysAlonePass
<1>3. CASE SetUserRoleRules
  <2>1. rev = 4 /\ rev' = 5 /\ UNCHANGED <<key, parents, rows>> /\ AddKeys(UserRoleKeys)
    BY <1>3, UpgradeIs, Places DEF SetUserRoleRules, KeptInv
  <2>. QED BY <2>1, KeysAlonePass
<1>4. CASE ResetUserRoleRules
  <2>1. rev = 5 /\ rev' = 4 /\ UNCHANGED <<key, parents, rows>> /\ AddKeys(BaselineKeys)
    BY <1>4, DowngradeIs, Places DEF ResetUserRoleRules, KeptInv
  <2>. QED BY <2>1, KeysAlonePass
<1>5. CASE AddTokenKey
  <2>1. rev = 7 /\ rev' = 8 /\ UNCHANGED <<key, parents, rows>> /\ AddKeys(TokenKeys)
    BY <1>5, UpgradeIs, Places DEF AddTokenKey, KeptInv
  <2>. QED BY <2>1, KeysAlonePass
<1>6. CASE DropTokenKey
  <2>1. rev = 8 /\ rev' = 7 /\ UNCHANGED <<key, parents, rows>> /\ DropKeys(TokenKeys)
    BY <1>6, DowngradeIs, Places DEF DropTokenKey, KeptInv
  <2>. QED BY <2>1, KeysAlonePass
<1>. QED
  BY <1>1, <1>2, <1>3, <1>4, <1>5, <1>6, SetNullPasses, CascadePasses, PositionsPass,
     PositionsDropped, RowsRewrittenPass, CutoverFills, ExplicitPasses, DroppedPass
     DEF Upgrades, Downgrades

-----------------------------------------------------------------------------
(* The application.                                                        *)

\* A release changes rows: it leaves, removes or writes each of them.
LEMMA ReleasesPass ==
  ASSUME KeptInv, PassInv, UNCHANGED <<key, rev, rule>>,
         rule # "none" => \A r \in Rows : rows'[r].reference \in parents' \cup {Null, "other"},
         \A r \in Rows : ~rows'[r].exists => rows'[r].reference = Null,
         At \in Required => \A r \in Rows : rows'[r].exists => rows'[r].reference # Null,
         At \in UniqueColumns =>
           \A r, q \in Rows : rows'[r].exists /\ rows'[q].exists /\ r # q
             /\ MeaningOf(rows'[r], rev) # Null
                  => MeaningOf(rows'[r], rev) # MeaningOf(rows'[q], rev)
  PROVE  PassInv'
<1>1. rev \in 1..12 /\ rev' \in 1..12 BY DEF KeptInv
<1>2. Timed(rev', rule') BY KeyedIs DEF PassInv
<1>3. Keyed' BY <1>2, KeyedNext DEF Valid, Dangles
<1>4. ASSUME NEW r PROVE Meaning(r)' = MeaningOf(rows'[r], rev) BY <1>1, MeaningNext
<1>5. Filled' BY <1>4 DEF Filled, Present, At
<1>. QED BY <1>3, <1>5 DEF PassInv

LEMMA WrittenMeans ==
  ASSUME KeptInv, Served, NEW row \in RowType, NEW value \in parents \cup {Null}
  PROVE  /\ Written(row, value).exists
         /\ MeaningOf(Written(row, value), rev) = value
         /\ IF IsPosition /\ rev < 6 THEN Written(row, value).reference = row.reference
            ELSE Written(row, value).reference = value
<1>1. rev \in 1..12 /\ rev # 6 BY ChainIs DEF Served, KeptInv
<1>2. Since("0d68c97c7933") <=> rev >= 7 BY <1>1, SincePositions DEF Since
<1>3. value # "other" BY NullIsNoParent
<1>4. CASE IsPosition /\ rev < 6
  <2>1. Written(row, value) =
          [row EXCEPT !.exists = TRUE, !.position = IF value = Null THEN "other" ELSE value]
    BY <1>1, <1>2, <1>4 DEF Written
  <2>. QED BY <1>3, <1>4, <2>1 DEF RowType, MeaningOf, Told
<1>5. CASE ~(IsPosition /\ rev < 6)
  <2>1. Written(row, value) = [row EXCEPT !.exists = TRUE, !.reference = value]
    BY <1>1, <1>2, <1>5 DEF Written
  <2>. QED BY <1>5, <2>1 DEF RowType, MeaningOf
<1>. QED BY <1>4, <1>5

\* A row written for the first time or anew.
LEMMA WritingPasses ==
  ASSUME KeptInv, SchemaInv, PassInv, Served, UNCHANGED <<key, rev, rule, parents>>,
         NEW r \in Rows, NEW row \in RowType, row = Absent \/ row = rows[r],
         NEW value \in parents \cup (IF At \in Optional THEN {Null} ELSE {}),
         Distinct(r, value), rows' = [rows EXCEPT ![r] = Written(row, value)]
  PROVE  PassInv'
<1>. DEFINE wrote == Written(row, value)
<1>1. value \in parents \cup {Null} OBVIOUS
<1>2. /\ wrote.exists /\ MeaningOf(wrote, rev) = value
      /\ IF IsPosition /\ rev < 6 THEN wrote.reference = row.reference ELSE wrote.reference = value
  BY <1>1, WrittenMeans
<1>3. rows'[r] = wrote /\ \A q \in Rows \ {r} : rows'[q] = rows[q] BY DEF KeptInv
<1>. HIDE DEF wrote
<1>4. At \in Required => ~IsPosition /\ value # Null
  <2>1. At \in Required => ~IsPosition
    <3>1. <<key.table, key.column>> \in Required => key.column \notin PositionColumns
      BY RequiredIsNotNull
    <3>. QED BY <3>1 DEF At, IsPosition
  <2>2. At \in Required => At \notin Optional BY AtIs DEF Optional
  <2>. QED BY <2>1, <2>2, NullIsNoParent
<1>5. ASSUME rule # "none", NEW q \in Rows
      PROVE  rows'[q].reference \in parents' \cup {Null, "other"}
  <2>1. ~(IsPosition /\ rev < 6) BY <1>5 DEF PassInv, Keyed
  <2>2. ~Dangles(rows[q].reference) BY <1>5 DEF PassInv, Keyed, Valid
  <2>3. rows'[r].reference = value BY <1>2, <1>3, <2>1
  <2>. QED BY <1>1, <1>3, <2>2, <2>3 DEF Dangles
<1>6. \A q \in Rows : ~rows'[q].exists => rows'[q].reference = Null
  BY <1>2, <1>3 DEF PassInv, Filled
<1>7. ASSUME At \in Required, NEW q \in Rows, rows'[q].exists
      PROVE  rows'[q].reference # Null
  <2>1. CASE q = r BY <1>2, <1>3, <1>4, <1>7, <2>1
  <2>2. CASE q # r
    <3>1. q \in Present BY <1>3, <1>7, <2>2 DEF Present
    <3>. QED BY <1>3, <1>7, <2>2, <3>1 DEF PassInv, Filled
  <2>. QED BY <2>1, <2>2
<1>8. ASSUME At \in UniqueColumns, NEW q \in Rows, NEW s \in Rows, rows'[q].exists, rows'[s].exists,
             q # s, MeaningOf(rows'[q], rev) # Null
      PROVE  MeaningOf(rows'[q], rev) # MeaningOf(rows'[s], rev)
  <2>0. rev \in 1..12 BY DEF KeptInv
  <2>1. ASSUME NEW u \in Rows \ {r}, rows'[u].exists
        PROVE  u \in Present \ {r} /\ Meaning(u) = MeaningOf(rows'[u], rev)
    BY <1>3, <2>0, <2>1, MeaningIs DEF Present
  <2>2. ASSUME NEW u \in Rows \ {r}, rows'[u].exists, value # Null
        PROVE  MeaningOf(rows'[u], rev) # value
    BY <1>8, <2>1, <2>2 DEF Distinct
  <2>3. MeaningOf(rows'[r], rev) = value BY <1>2, <1>3
  <2>4. CASE q = r BY <1>8, <2>2, <2>3, <2>4
  <2>5. CASE s = r BY <1>8, <2>2, <2>3, <2>5
  <2>6. CASE q # r /\ s # r BY <1>8, <2>1, <2>6 DEF PassInv, Filled
  <2>. QED BY <2>4, <2>5, <2>6
<1>. QED BY <1>5, <1>6, <1>7, <1>8, ReleasesPass

\* Rows go, or lose their reference where they may, and what the others refer
\* to stays.
LEMMA RowsGonePass ==
  ASSUME KeptInv, PassInv, UNCHANGED <<key, rev, rule>>,
         \A r \in Rows : \/ rows'[r] = rows[r]
                         \/ rows'[r] = Absent
                         \/ /\ rows[r].exists /\ At \notin Required
                            /\ rows'[r].exists /\ rows'[r].reference = Null
                            /\ ~(IsPosition /\ rev < 6),
         rule # "none" => \A r \in Rows : rows'[r].reference \in parents' \cup {Null, "other"}
  PROVE  PassInv'
<1>1. Absent.exists = FALSE /\ Absent.reference = Null BY DEF Absent
<1>2. \A r \in Rows : ~rows'[r].exists => rows'[r].reference = Null
  BY <1>1 DEF PassInv, Filled
<1>3. ASSUME At \in Required, NEW r \in Rows, rows'[r].exists PROVE rows'[r].reference # Null
  <2>1. rows'[r] = rows[r] /\ r \in Present BY <1>1, <1>3 DEF Present
  <2>. QED BY <1>3, <2>1 DEF PassInv, Filled
<1>4. ASSUME NEW r \in Rows, rows'[r].exists
      PROVE  r \in Present /\ MeaningOf(rows'[r], rev) \in {Null, Meaning(r)}
  <2>1. Meaning(r) = MeaningOf(rows[r], rev) BY MeaningIs DEF KeptInv
  <2>. QED BY <1>1, <1>4, <2>1 DEF Present, MeaningOf
<1>5. ASSUME At \in UniqueColumns, NEW q \in Rows, NEW s \in Rows, rows'[q].exists, rows'[s].exists,
             q # s, MeaningOf(rows'[q], rev) # Null
      PROVE  MeaningOf(rows'[q], rev) # MeaningOf(rows'[s], rev)
  <2>1. q \in Present /\ s \in Present /\ MeaningOf(rows'[q], rev) = Meaning(q) BY <1>4, <1>5
  <2>2. Meaning(q) # Meaning(s) BY <1>5, <2>1 DEF PassInv, Filled
  <2>3. MeaningOf(rows'[s], rev) \in {Null, Meaning(s)} BY <1>4, <1>5
  <2>. QED BY <1>5, <2>1, <2>2, <2>3
<1>. QED BY <1>2, <1>3, <1>5, ReleasesPass

LEMMA RowStepsPass ==
  ASSUME KeptInv, SchemaInv, PassInv, NEW r \in Rows, Insert(r) \/ Repoint(r) \/ Delete(r)
  PROVE  PassInv'
<1>1. CASE Insert(r) BY <1>1, WritingPasses, AbsentIsRow DEF Insert
<1>2. CASE Repoint(r)
  <2>1. PICK value \in parents \cup (IF At \in Optional THEN {Null} ELSE {}) :
          Distinct(r, value) /\ rows' = [rows EXCEPT ![r] = Written(rows[r], value)]
    BY <1>2 DEF Repoint
  <2>2. rows[r] \in RowType BY DEF KeptInv
  <2>3. Served /\ UNCHANGED <<key, rev, rule, parents>> BY <1>2 DEF Repoint
  <2>. QED BY <2>1, <2>2, <2>3, WritingPasses
<1>3. CASE Delete(r)
  <2>1. UNCHANGED <<key, rev, rule, parents>> BY <1>3 DEF Delete
  <2>2. rows' = [rows EXCEPT ![r] = Absent] BY <1>3 DEF Delete
  <2>3. rows'[r] = Absent /\ \A q \in Rows \ {r} : rows'[q] = rows[q] BY <2>2 DEF KeptInv
  <2>4. ASSUME rule # "none", NEW q \in Rows
        PROVE  rows'[q].reference \in parents' \cup {Null, "other"}
    <3>1. ~Dangles(rows[q].reference) BY <2>4 DEF PassInv, Keyed, Valid
    <3>. QED BY <2>1, <2>3, <3>1 DEF Dangles, Absent
  <2>. QED BY <2>1, <2>3, <2>4, RowsGonePass
<1>. QED BY <1>1, <1>2, <1>3

LEMMA ParentStepsPass ==
  ASSUME KeptInv, SchemaInv, PassInv, NEW p \in Parents, InsertParent(p) \/ DeleteParent(p)
  PROVE  PassInv'
<1>1. CASE InsertParent(p)
  <2>1. UNCHANGED <<key, rev, rule, rows>> /\ parents' = parents \cup {p} BY <1>1 DEF InsertParent
  <2>2. ASSUME rule # "none", NEW q \in Rows
        PROVE  rows'[q].reference \in parents' \cup {Null, "other"}
    <3>1. ~Dangles(rows[q].reference) BY <2>2 DEF PassInv, Keyed, Valid
    <3>. QED BY <2>1, <3>1 DEF Dangles
  <2>. QED BY <2>1, <2>2, RowsGonePass
<1>2. CASE DeleteParent(p)
  <2>1. UNCHANGED <<key, rev, rule, notnull>> /\ parents' = parents \ {p} BY <1>2 DEF DeleteParent
  <2>2. ASSUME rule # "none", NEW q \in Rows, q \notin Children(p)
        PROVE  rows[q].reference \in parents' \cup {Null, "other"}
    <3>1. ~Dangles(rows[q].reference) BY <2>2 DEF PassInv, Keyed, Valid
    <3>2. rows[q].reference # p
      <4>1. CASE ~rows[q].exists
        <5>1. rows[q].reference = Null BY <4>1 DEF PassInv, Filled
        <5>. QED BY <5>1, NullAssumption
      <4>2. CASE rows[q].exists
        <5>1. Meaning(q) # p BY <2>2, <4>2 DEF Children, Present
        <5>2. ~(IsPosition /\ rev < 6) BY <2>2 DEF PassInv, Keyed
        <5>3. Meaning(q) = rows[q].reference BY <5>2, MeaningIs DEF MeaningOf, KeptInv
        <5>. QED BY <5>1, <5>3
      <4>. QED BY <4>1, <4>2
    <3>. QED BY <2>1, <3>1, <3>2 DEF Dangles
  <2>3. CASE DeleteParentUnkept(p)
    <3>1. rule = "none" /\ rows' = rows BY <2>3 DEF DeleteParentUnkept
    <3>. QED BY <2>1, <3>1, RowsGonePass
  <2>4. CASE DeleteParentRestricted(p)
    <3>1. Children(p) = {} /\ rows' = rows BY <2>4 DEF DeleteParentRestricted
    <3>. QED BY <2>1, <2>2, <3>1, RowsGonePass
  <2>5. CASE DeleteParentCascading(p)
    <3>1. rows' = [r \in Rows |-> IF r \in Children(p) THEN Absent ELSE rows[r]]
      BY <2>5 DEF DeleteParentCascading
    <3>2. \A r \in Rows : rows'[r] = rows[r] \/ rows'[r] = Absent BY <3>1
    <3>3. rule # "none" => \A r \in Rows : rows'[r].reference \in parents' \cup {Null, "other"}
      BY <2>2, <3>1 DEF Absent
    <3>. QED BY <2>1, <3>2, <3>3, RowsGonePass
  <2>6. CASE DeleteParentNulling(p)
    <3>1. /\ rows' = [r \in Rows |-> IF r \in Children(p) THEN [rows[r] EXCEPT !.reference = Null]
                                    ELSE rows[r]]
          /\ rule = "SET NULL" /\ "reference" \notin notnull
      BY <2>6 DEF DeleteParentNulling
    <3>2. At \notin Required
      <4>1. ~NotNullAt(rev) BY <3>1 DEF SchemaInv
      <4>. QED BY <4>1, BaselineIs DEF NotNullAt
    <3>3. ~(IsPosition /\ rev < 6) BY <3>1 DEF PassInv, Keyed
    <3>4. ASSUME NEW r \in Children(p)
          PROVE  r \in Rows /\ rows[r].exists /\ rows'[r].exists /\ rows'[r].reference = Null
      <4>1. r \in Rows /\ rows[r].exists BY DEF Children, Present
      <4>2. rows[r] \in RowType BY <4>1 DEF KeptInv
      <4>3. rows'[r] = [rows[r] EXCEPT !.reference = Null] BY <3>1, <4>1
      <4>. QED BY <4>1, <4>2, <4>3 DEF RowType
    <3>5. \A r \in Rows \ Children(p) : rows'[r] = rows[r] BY <3>1
    <3>6. rule # "none" => \A r \in Rows : rows'[r].reference \in parents' \cup {Null, "other"}
      BY <2>2, <3>4, <3>5
    <3>. QED BY <2>1, <3>2, <3>3, <3>4, <3>5, <3>6, RowsGonePass
  <2>. QED BY <1>2, <2>3, <2>4, <2>5, <2>6 DEF DeleteParent
<1>. QED BY <1>1, <1>2

LEMMA PassStep ==
  ASSUME KeptInv, SchemaInv, PassInv, [Next]_vars
  PROVE  PassInv'
<1>1. CASE UNCHANGED vars
  <2>1. UNCHANGED <<key, rev, rule, rows, parents>> BY <1>1 DEF vars
  <2>2. ASSUME rule # "none", NEW q \in Rows
        PROVE  rows'[q].reference \in parents' \cup {Null, "other"}
    <3>1. ~Dangles(rows[q].reference) BY <2>2 DEF PassInv, Keyed, Valid
    <3>. QED BY <2>1, <3>1 DEF Dangles
  <2>. QED BY <2>1, <2>2, RowsGonePass
<1>. QED BY <1>1, MigrationsPass, RowStepsPass, ParentStepsPass DEF Next

LEMMA PassInit ==
  ASSUME Init
  PROVE  PassInv
<1>1. rev = 1 /\ rows = [r \in Rows |-> Absent] BY DEF Init
<1>2. rule = "none" \/ ~Early
  <2>1. Early => RuleIn(BaselineKeys) = {} BY OtherColumns DEF Early
  <2>. QED BY <2>1 DEF Init
<1>3. \A r \in Rows : rows[r].reference = Null /\ ~rows[r].exists BY <1>1 DEF Absent
<1>4. Filled BY <1>3 DEF Filled, Present
<1>5. Keyed BY <1>1, <1>2, <1>3 DEF Keyed, Valid, Dangles, Early
<1>. QED BY <1>4, <1>5 DEF PassInv

-----------------------------------------------------------------------------
(* What the next migration does when it is not refused.                    *)

NextRows ==
  IF rev = 2 THEN Table(SetOrphan)
  ELSE IF rev = 3 THEN Table(DropOrphan)
  ELSE IF rev = 5 /\ IsPosition THEN Table(FillPosition)
  ELSE IF rev = 6 THEN [r \in Rows |-> [rows[r] EXCEPT !.position = Null]]
  ELSE IF rev = 8 THEN Table(Bridge)
  ELSE IF rev = 9 THEN Table(Promote)
  ELSE rows

NextKeys ==
  CASE rev = 1 -> RestrictKeys [] rev = 2 -> SetNullKeys [] rev = 3 -> CascadeKeys
    [] rev = 4 -> UserRoleKeys [] rev = 5 -> PositionKeys [] rev = 7 -> TokenKeys
    [] rev = 9 -> CutoverKeys [] rev = 11 -> ExplicitKeys [] OTHER -> {}

NextRules == IF RuleIn(NextKeys) = {} THEN {rule} ELSE RuleIn(NextKeys)

NextNotNull ==
  IF rev = 2 /\ At \in NullablePrep THEN {}
  ELSE IF rev = 9 THEN RenamedNotNull
  ELSE IF rev = 10 THEN notnull \ {"previous"} ELSE notnull

\* A step to one of these states.
Passing ==
  /\ rev' = rev + 1
  /\ UNCHANGED <<key, parents>>
  /\ rows' = NextRows
  /\ rule' \in NextRules
  /\ notnull' = NextNotNull
  /\ moved' = IF rev \in {8, 9} THEN {} ELSE moved

\* From a database that passes what the next migration checks there is such a
\* step, and every such step is the migration: it is not refused.
THEOREM PassingIsUpgrade ==
  ASSUME rev \in 1..12, ~AtHead, Passes
  PROVE  NextRules # {} /\ (Passing => Upgrades)
<1>0. NextRules # {} BY DEF NextRules
<1>. SUFFICES ASSUME Passing PROVE Upgrades
  BY <1>0
<1>1. rev \in 1..11 BY ChainIs DEF AtHead
<1>2. Upgrade(Chain[rev + 1]) BY <1>1 DEF Passing, Upgrade
<1>3. ASSUME NEW keys, keys = NextKeys, Addable(keys, rows') PROVE AddKeys(keys)
  BY <1>3 DEF Addable, AddKeys, Passing, NextRules
<1>4. rule' = rule \/ RuleIn(NextKeys) # {} BY DEF Passing, NextRules
<1>5. RuleIn({}) = {} BY DEF RuleIn
<1>6. CASE rev = 1
  <2>1. NextKeys = RestrictKeys /\ rows' = rows /\ UNCHANGED <<notnull, moved>>
    BY <1>6 DEF NextKeys, Passing, NextRows, NextNotNull
  <2>2. AddKeys(RestrictKeys) BY <1>3, <1>6, <2>1 DEF Passes
  <2>. QED BY <1>2, <1>6, <2>1, <2>2, ChainIs DEF AddRestrictKeys, Upgrades
<1>7. CASE rev = 2
  <2>1. NextKeys = SetNullKeys /\ rows' = Table(SetOrphan) /\ moved' = moved
          /\ notnull' = IF At \in NullablePrep THEN {} ELSE notnull
    BY <1>7 DEF NextKeys, Passing, NextRows, NextNotNull
  <2>2. AddKeys(SetNullKeys) BY <1>3, <1>7, <2>1 DEF Passes
  <2>3. Each(SetOrphan) BY <2>1 DEF Each, Table
  <2>. QED BY <1>2, <1>7, <2>1, <2>2, <2>3, ChainIs DEF AddSetNullKeys, Upgrades
<1>8. CASE rev = 3
  <2>1. NextKeys = CascadeKeys /\ rows' = Table(DropOrphan) /\ UNCHANGED <<notnull, moved>>
    BY <1>8 DEF NextKeys, Passing, NextRows, NextNotNull
  <2>2. AddKeys(CascadeKeys) BY <1>3, <1>8, <2>1 DEF Passes
  <2>3. Each(DropOrphan) BY <2>1 DEF Each, Table
  <2>. QED BY <1>2, <1>8, <2>1, <2>2, <2>3, ChainIs DEF AddCascadeKeys, Upgrades
<1>9. CASE rev = 4
  <2>1. NextKeys = UserRoleKeys /\ rows' = rows /\ UNCHANGED <<notnull, moved>>
    BY <1>9 DEF NextKeys, Passing, NextRows, NextNotNull
  <2>2. AddKeys(UserRoleKeys) BY <1>3, <1>9, <2>1 DEF Passes
  <2>. QED BY <1>2, <1>9, <2>1, <2>2, ChainIs DEF SetUserRoleRules, Upgrades
<1>10. CASE rev = 5
  <2>1. NextKeys = PositionKeys /\ UNCHANGED <<notnull, moved>>
          /\ rows' = IF IsPosition THEN Table(FillPosition) ELSE rows
    BY <1>10 DEF NextKeys, Passing, NextRows, NextNotNull
  <2>2. AddKeys(PositionKeys) BY <1>3, <1>10, <2>1 DEF Passes
  <2>3. IF IsPosition THEN Each(FillPosition) ELSE rows' = rows BY <2>1 DEF Each, Table
  <2>. QED BY <1>2, <1>10, <2>1, <2>2, <2>3, ChainIs DEF AddPositionColumns, Upgrades
<1>11. CASE rev = 6
  <2>1. NextKeys = {} /\ UNCHANGED <<notnull, moved>>
          /\ rows' = [r \in Rows |-> [rows[r] EXCEPT !.position = Null]]
    BY <1>11 DEF NextKeys, Passing, NextRows, NextNotNull
  <2>2. rule' = rule BY <1>4, <1>5, <2>1
  <2>. QED BY <1>2, <1>11, <2>1, <2>2, ChainIs DEF DropTypeAndNumber, Upgrades
<1>12. CASE rev = 7
  <2>1. NextKeys = TokenKeys /\ rows' = rows /\ UNCHANGED <<notnull, moved>>
    BY <1>12 DEF NextKeys, Passing, NextRows, NextNotNull
  <2>2. AddKeys(TokenKeys) BY <1>3, <1>12, <2>1 DEF Passes
  <2>. QED BY <1>2, <1>12, <2>1, <2>2, ChainIs DEF AddTokenKey, Upgrades
<1>13. CASE rev = 8
  <2>1. NextKeys = {} /\ notnull' = notnull /\ moved' = {} /\ rows' = Table(Bridge)
    BY <1>13 DEF NextKeys, Passing, NextRows, NextNotNull
  <2>2. rule' = rule BY <1>4, <1>5, <2>1
  <2>3. Each(Bridge) BY <2>1 DEF Each, Table
  <2>. QED BY <1>2, <1>13, <2>1, <2>2, <2>3, ChainIs DEF AddBridge, Upgrades
<1>14. CASE rev = 9
  <2>1. NextKeys = CutoverKeys /\ rows' = Table(Promote) /\ moved' = {} /\ notnull' = RenamedNotNull
    BY <1>14 DEF NextKeys, Passing, NextRows, NextNotNull
  <2>2. AddKeys(CutoverKeys) BY <1>3, <1>14, <2>1 DEF Passes
  <2>3. Each(Promote) BY <2>1 DEF Each, Table
  <2>4. BackfillComplete /\ RecreatedNotNull /\ RecreatedUnique BY <1>14 DEF Passes
  <2>. QED BY <1>2, <1>14, <2>1, <2>2, <2>3, <2>4, ChainIs DEF Cutover, Upgrades
<1>15. CASE rev = 10
  <2>1. NextKeys = {} /\ rows' = rows /\ moved' = moved /\ notnull' = notnull \ {"previous"}
    BY <1>15 DEF NextKeys, Passing, NextRows, NextNotNull
  <2>2. rule' = rule BY <1>4, <1>5, <2>1
  <2>. QED BY <1>2, <1>15, <2>1, <2>2, ChainIs DEF DropPreviousInt, Upgrades
<1>16. CASE rev = 11
  <2>1. NextKeys = ExplicitKeys /\ rows' = rows /\ UNCHANGED <<notnull, moved>>
    BY <1>16 DEF NextKeys, Passing, NextRows, NextNotNull
  <2>2. AddKeys(ExplicitKeys) BY <1>3, <1>16, <2>1 DEF Passes
  <2>. QED BY <1>2, <1>16, <2>1, <2>2, ChainIs DEF MakeExplicit, Upgrades
<1>. QED
  BY <1>1, <1>6, <1>7, <1>8, <1>9, <1>10, <1>11, <1>12, <1>13, <1>14, <1>15, <1>16

\* A migration meets nothing that it checks and finds wanting, but for rows
\* changed under the bridge and orphans in a column without a clean-up: what the
\* keys and the cutover's gates ask of the rows holds, whatever releases and
\* migrations ran before.  A database that passes has a step to take
\* (PassingIsUpgrade).
THEOREM RefusalsHaveCause == Spec => [](~AtHead /\ ~Cause => Passes /\ NextRules # {})
<1>1. Init => KeptInv /\ SchemaInv /\ PassInv
  BY KeptInit, SchemaInit, PassInit
<1>2. KeptInv /\ SchemaInv /\ PassInv /\ [Next]_vars => KeptInv' /\ SchemaInv' /\ PassInv'
  BY KeptStep, SchemaStep, PassStep
<1>3. KeptInv /\ SchemaInv /\ PassInv => (~AtHead /\ ~Cause => Passes /\ NextRules # {})
  BY WithoutCausePasses, PassingIsUpgrade DEF KeptInv
<1>. QED
  BY <1>1, <1>2, <1>3, PTL DEF Spec
=============================================================================
