-------------------------- MODULE Catalogue_proofs --------------------------
(***************************************************************************)
(* Proofs about the master data, for any bounds: as many rows, referring   *)
(* rows and clicks as there may be.                                        *)
(***************************************************************************)
EXTENDS Catalogue, FiniteSetTheorems, WellFoundedInduction, TLAPS

-----------------------------------------------------------------------------
(* The foreign keys.  A key that lets a row go takes a part of the row     *)
(* along; a key that holds it is one the service's guard looks into, but   *)
(* for three tables that refer to positions.                               *)

Parts(t) ==
  CASE t = "ordinariumworks" -> {"ordinariumwork_positions"}
    [] t = "performances" -> {"performance_positions", "performance_proprium",
                              "performance_rehearsals", "booking_logs"}
    [] OTHER -> {}

PositionTables == {"instruments", "voices", "choirjobs"}

KeyOK(k) ==
  k[3] \in Tables =>
    /\ k[4] # "RESTRICT" => k[1] \in Parts(k[3])
    /\ k[4] = "RESTRICT" =>
         \/ k[1] \in Services[k[3]].guard
         \/ /\ k[3] \in PositionTables
            /\ k[1] \in {"user_positions", "booking_logs", "bookings"}

LEMMA Guards ==
  /\ Services["instruments"].guard = {"ordinariumwork_positions", "performance_positions"}
  /\ Services["voices"].guard = {"ordinariumwork_positions", "performance_positions"}
  /\ Services["choirjobs"].guard = {"performance_positions"}
  /\ Services["propriumelements"].guard = {"performance_proprium"}
  /\ Services["locations"].guard = {"performances"}
  /\ Services["roles"].guard = {"user_roles"}
  /\ Services["artists"].guard = {"ordinariumworks", "propriumworks", "performances"}
  /\ Services["ordinariumworks"].guard = {"performances"}
  /\ Services["propriumworks"].guard = {"performance_proprium"}
  /\ Services["performances"].guard = {"bookings", "booking_requests"}
BY DEF Services, Tables, Ordered, CoreelementService, CoreelementGuards, PositionGuard, Offering,
       ArtistService, ArtistGuard, OrdinariumworkService, OrdinariumworkGuard,
       PropriumworkService, PropriumworkGuard, PerformanceService, PerformanceGuard

LEMMA PositionGuarded ==
  ASSUME NEW t \in PositionTables
  PROVE  "performance_positions" \in Services[t].guard
BY Guards DEF PositionTables

\* The position columns of a table.
LEMMA PositionKeysAre ==
  ASSUME NEW t, NEW k \in Keys(t, "RESTRICT", Positions)
  PROVE  k[1] = t /\ k[3] \in PositionTables /\ k[4] = "RESTRICT"
BY DEF Keys, Positions, PositionTables

LEMMA BookingKeysFit == \A k \in BookingKeys : KeyOK(k)
<1>1. ASSUME NEW k \in Keys("bookings", "RESTRICT", Positions) PROVE KeyOK(k)
  BY PositionKeysAre, <1>1 DEF KeyOK
<1>2. ASSUME NEW k \in Keys("bookings", "RESTRICT",
                            [performance_id |-> "performances", user_id |-> "users"])
      PROVE  KeyOK(k)
  <2>1. k[1] = "bookings" /\ k[3] \in {"performances", "users"} /\ k[4] = "RESTRICT"
    BY <1>2 DEF Keys
  <2>. QED
    BY <2>1, Guards DEF KeyOK, Tables, Ordered
<1>. QED
  BY <1>1, <1>2 DEF BookingKeys

LEMMA BookingRequestKeysFit == \A k \in BookingRequestKeys : KeyOK(k)
<1>1. ASSUME NEW k \in Keys("booking_requests", "RESTRICT", [performance_id |-> "performances"])
      PROVE  KeyOK(k)
  <2>1. k[1] = "booking_requests" /\ k[3] \in {"performances"} /\ k[4] = "RESTRICT"
    BY <1>1 DEF Keys
  <2>. QED
    BY <2>1, Guards DEF KeyOK
<1>2. ASSUME NEW k \in Keys("booking_requests", "CASCADE", [user_id |-> "users"])
      PROVE  KeyOK(k)
  <2>1. k[3] \in {"users"}
    BY <1>2 DEF Keys
  <2>. QED
    BY <2>1 DEF KeyOK, Tables, Ordered
<1>. QED
  BY <1>1, <1>2 DEF BookingRequestKeys

LEMMA PastKeysAre ==
  ASSUME NEW t, NEW rule,
         NEW k \in Keys(t, rule, [performance_id |-> "performances", user_id |-> "users"])
  PROVE  k[1] = t /\ k[3] \in {"performances", "users"} /\ k[4] = rule
BY DEF Keys

LEMMA AgentKeysAre ==
  ASSUME NEW t, NEW rule,
         NEW k \in Keys(t, rule, [client_user_agent_id |-> "client_user_agents",
                                  user_id |-> "users"])
  PROVE  k[3] \in {"client_user_agents", "users"}
BY DEF Keys

LEMMA LogKeysFit == \A k \in BookingLogKeys \cup RequestLogKeys : KeyOK(k)
<1>1. ASSUME NEW k \in Keys("booking_logs", "RESTRICT", Positions) PROVE KeyOK(k)
  BY PositionKeysAre, <1>1 DEF KeyOK
<1>2. ASSUME NEW k \in Keys("booking_logs", "SET NULL",
                            [performance_id |-> "performances", user_id |-> "users"])
      PROVE  KeyOK(k)
  <2>1. k[1] = "booking_logs" /\ k[3] \in {"performances", "users"} /\ k[4] = "SET NULL"
    BY <1>2, PastKeysAre, Zenon
  <2>. QED
    BY <2>1 DEF KeyOK, Tables, Ordered, Parts
<1>3. ASSUME NEW k \in RequestLogKeys PROVE KeyOK(k)
  <2>1. k[3] \in {"client_user_agents", "users"}
    BY <1>3, AgentKeysAre, Zenon DEF RequestLogKeys
  <2>. QED
    BY <2>1 DEF KeyOK, Tables, Ordered
<1>. QED
  BY <1>1, <1>2, <1>3 DEF BookingLogKeys

LEMMA WorkKeysFit == \A k \in WorkPositionKeys \cup WorkKeys : KeyOK(k)
<1>1. ASSUME NEW k \in Keys("ordinariumwork_positions", "RESTRICT", TwoPositions) PROVE KeyOK(k)
  <2>1. k[1] = "ordinariumwork_positions" /\ k[3] \in {"instruments", "voices"}
          /\ k[4] = "RESTRICT"
    BY <1>1 DEF Keys, TwoPositions
  <2>. QED
    BY <2>1, Guards DEF KeyOK
<1>2. ASSUME NEW k \in Keys("ordinariumwork_positions", "CASCADE",
                            [ordinariumwork_id |-> "ordinariumworks"])
      PROVE  KeyOK(k)
  <2>1. k[1] = "ordinariumwork_positions" /\ k[3] = "ordinariumworks" /\ k[4] = "CASCADE"
    BY <1>2 DEF Keys
  <2>. QED
    BY <2>1 DEF KeyOK, Parts
<1>3. ASSUME NEW works \in {"ordinariumworks", "propriumworks"},
             NEW k \in Keys(works, "RESTRICT", [artist_id |-> "artists"])
      PROVE  KeyOK(k)
  <2>1. k[1] = works /\ k[3] = "artists" /\ k[4] = "RESTRICT"
    BY <1>3 DEF Keys
  <2>. QED
    BY <2>1, Guards DEF KeyOK
<1>. QED
  BY <1>1, <1>2, <1>3 DEF WorkPositionKeys, WorkKeys

LEMMA PerformanceKeysFit == \A k \in PerformanceKeys \cup PerformancePartKeys : KeyOK(k)
<1>1. ASSUME NEW k \in PerformanceKeys PROVE KeyOK(k)
  <2>1. k[1] = "performances" /\ k[3] \in {"locations", "ordinariumworks", "artists"}
          /\ k[4] = "RESTRICT"
    BY <1>1 DEF Keys, PerformanceKeys
  <2>. QED
    BY <2>1, Guards DEF KeyOK
<1>2. ASSUME NEW part \in {"performance_positions", "performance_proprium",
                           "performance_rehearsals"},
             NEW k \in Keys(part, "CASCADE", [performance_id |-> "performances"])
      PROVE  KeyOK(k)
  <2>1. k[1] = part /\ k[3] = "performances" /\ k[4] = "CASCADE"
    BY <1>2 DEF Keys
  <2>. QED
    BY <2>1 DEF KeyOK, Parts
<1>3. ASSUME NEW k \in Keys("performance_positions", "RESTRICT", Positions) PROVE KeyOK(k)
  BY PositionKeysAre, PositionGuarded, <1>3 DEF KeyOK
<1>4. ASSUME NEW k \in Keys("performance_proprium", "RESTRICT",
                [propriumelement_id |-> "propriumelements", propriumwork_id |-> "propriumworks"])
      PROVE  KeyOK(k)
  <2>1. k[1] = "performance_proprium" /\ k[3] \in {"propriumelements", "propriumworks"}
          /\ k[4] = "RESTRICT"
    BY <1>4 DEF Keys
  <2>. QED
    BY <2>1, Guards DEF KeyOK
<1>5. ASSUME NEW k \in PerformancePartKeys PROVE KeyOK(k)
  <2>. DEFINE parts == {"performance_positions", "performance_proprium",
                        "performance_rehearsals"}
              Cascading(part) == Keys(part, "CASCADE", [performance_id |-> "performances"])
  <2>1. CASE k \in UNION {Cascading(part) : part \in parts}
    <3>1. PICK part \in parts : k \in Cascading(part)
      BY <2>1, Zenon
    <3>. QED
      BY <3>1, <1>2
  <2>. QED
    BY <1>5, <2>1, <1>3, <1>4, Zenon DEF PerformancePartKeys
<1>. QED
  BY <1>1, <1>5

LEMMA UserPartKeysFit == \A k \in UserPartKeys : KeyOK(k)
<1>1. ASSUME NEW part, NEW k \in Keys(part, "CASCADE", [user_id |-> "users"]) PROVE KeyOK(k)
  <2>1. k[3] = "users"
    BY <1>1 DEF Keys
  <2>. QED
    BY <2>1 DEF KeyOK, Tables, Ordered
<1>2. ASSUME NEW k \in Keys("oauth2_bindings", "CASCADE", [local_id |-> "users"])
      PROVE  KeyOK(k)
  <2>1. k[3] = "users"
    BY <1>2 DEF Keys
  <2>. QED
    BY <2>1 DEF KeyOK, Tables, Ordered
<1>3. ASSUME NEW k \in Keys("user_positions", "RESTRICT", Positions) PROVE KeyOK(k)
  BY PositionKeysAre, <1>3 DEF KeyOK
<1>4. ASSUME NEW k \in Keys("user_roles", "RESTRICT", [role_id |-> "roles"]) PROVE KeyOK(k)
  <2>1. k[1] = "user_roles" /\ k[3] = "roles" /\ k[4] = "RESTRICT"
    BY <1>4 DEF Keys
  <2>. QED
    BY <2>1, Guards DEF KeyOK
<1>. DEFINE parts == {"user_positions", "user_roles", "personal_access_tokens"}
            Cascading(part) == Keys(part, "CASCADE", [user_id |-> "users"])
<1>5. ASSUME NEW k \in UNION {Cascading(part) : part \in parts} PROVE KeyOK(k)
  <2>1. PICK part \in parts : k \in Cascading(part)
    BY <1>5, Zenon
  <2>. QED
    BY <2>1, <1>1
<1>. QED
  BY <1>5, <1>2, <1>3, <1>4, Zenon DEF UserPartKeys

LEMMA KeysFit == \A k \in ModelKeys : KeyOK(k)
BY BookingKeysFit, BookingRequestKeysFit, LogKeysFit, WorkKeysFit, PerformanceKeysFit,
   UserPartKeysFit DEF ModelKeys

LEMMA ReferrersArePartsOrHold ==
  ASSUME table \in Tables, NEW r \in Referrers
  PROVE  r \in Parts(table) \/ r \in Referring({"RESTRICT"})
BY KeysFit DEF KeyOK, Referrers, Referring

LEMMA HoldersAreGuarded ==
  ASSUME table \in Tables, NEW r \in Referring({"RESTRICT"})
  PROVE  \/ r \in Service.guard
         \/ /\ table \in PositionTables
            /\ r \in {"user_positions", "booking_logs", "bookings"}
BY KeysFit DEF KeyOK, Referring, Service

-----------------------------------------------------------------------------
(* The services.                                                           *)

Coarser == {"artists", "ordinariumworks", "propriumworks", "scores", "performances"}

Names == {Service.stored[s] : s \in Service.sent}

LEMMA ServicesApart ==
  /\ \A t \in Ordered : Services[t] = CoreelementService(t)
  /\ Services["artists"] = ArtistService
  /\ Services["ordinariumworks"] = OrdinariumworkService
  /\ Services["propriumworks"] = PropriumworkService
  /\ Services["scores"] = ScoreService
  /\ Services["fees"] = FeeService
  /\ Services["shorturls"] = ShorturlService
  /\ Services["performances"] = PerformanceService
BY DEF Services, Tables, Ordered

ServiceOK(t) ==
  LET s == Services[t] IN
  /\ \A sent \in s.sent :
       /\ t # "artists" \/ s.stored[sent] # "GROSS" =>
            s.sameness[s.stored[sent]] = s.sameness[sent]
       /\ s.stored[sent] # Unchanged
       /\ \A other \in s.sent :
            /\ t \notin Coarser \/ t = "artists"
            /\ s.sameness[s.stored[sent]] = s.sameness[s.stored[other]]
            => s.stored[sent] = s.stored[other]
  /\ \A sent, other \in s.sent :
       s.stored[sent] = s.stored[other] => s.sameness[s.stored[sent]] = s.sameness[s.stored[other]]
  /\ t \notin Coarser \/ t = "artists" => s.unique
  /\ t \notin Coarser => \A one, other \in s.scopes : s.likeness[one] = s.likeness[other] => one = other
  /\ Unchanged \notin s.scopes
  /\ "move" \in s.offers => t \in Ordered


LEMMA NamesRead ==
  /\ Stripped["gross"] = "gross" /\ Stripped["mittel"] = "mittel"
  /\ Stripped["klein"] = "klein" /\ Stripped["_klein"] = "klein"
  /\ Upper["gross"] = "GROSS" /\ Upper["grosz"] = "GROSS" /\ Upper["klein"] = "KLEIN"
  /\ Lower["gross"] = "gross" /\ Lower["Gross"] = "gross" /\ Lower["GROSS"] = "gross"
  /\ Lower["klein"] = "klein" /\ Lower["KLEIN"] = "klein"
  /\ AsSent["gross"] = "gross" /\ AsSent["Gross"] = "Gross"
  /\ AsSent["19:00"] = "19:00" /\ AsSent["19:30"] = "19:30" /\ AsSent["20:00"] = "20:00"
  /\ Hour["19:00"] = "19" /\ Hour["19:30"] = "19" /\ Hour["20:00"] = "20"
BY DEF Stripped, Upper, Lower, AsSent, Hour, Spellings, Times

LEMMA AlikeIs ==
  ASSUME NEW scopes
  PROVE  DOMAIN Alike(scopes) = scopes /\ \A scope \in scopes : Alike(scopes)[scope] = scope
BY DEF Alike

LEMMA CoreelementsServed ==
  ASSUME NEW t \in Ordered PROVE ServiceOK(t)
<1>1. /\ Services[t].sent = {"gross", "mittel", "klein", "_klein"}
      /\ Services[t].stored = Stripped /\ Services[t].sameness = Stripped
      /\ Services[t].scopes = {"all"} /\ Services[t].likeness = Alike({"all"})
      /\ Services[t].unique
  <2>1. Services[t] = CoreelementService(t)
    BY ServicesApart
  <2>. QED
    BY <2>1, AlikeIs DEF CoreelementService, Offering, CoreelementNames
<1>2. t # "artists" /\ t \notin Coarser
  BY DEF Ordered, Coarser
<1>. QED
  BY <1>1, <1>2, NamesRead, AlikeIs DEF ServiceOK, Unchanged

LEMMA ArtistsServed == ServiceOK("artists")
<1>1. /\ Services["artists"].sent = {"gross", "grosz", "klein"}
      /\ Services["artists"].stored = Upper /\ Services["artists"].sameness = Lower
      /\ Services["artists"].scopes = Givennames /\ Services["artists"].unique
      /\ Services["artists"].offers = {"update", "delete"}
  BY ServicesApart DEF ArtistService, Offering, ArtistNames, LowerGivenname
<1>. QED
  BY <1>1, NamesRead DEF ServiceOK, Unchanged, Coarser, Givennames

LEMMA WorksServed ==
  ASSUME NEW t \in {"ordinariumworks", "propriumworks"} PROVE ServiceOK(t)
<1>1. /\ Services[t].sent = {"gross", "Gross"}
      /\ Services[t].stored = AsSent /\ Services[t].sameness = Lower
      /\ Services[t].scopes = {"Haydn", "Mozart"} /\ Services[t].offers = {"update", "delete"}
  BY ServicesApart, AlikeIs DEF OrdinariumworkService, Offering, OrdinariumworkNames,
                       PropriumworkService, PropriumworkNames
<1>. QED
  BY <1>1, NamesRead DEF ServiceOK, Unchanged, Coarser

LEMMA ScoresServed == ServiceOK("scores")
<1>1. /\ Services["scores"].sent = {"gross", "Gross"}
      /\ Services["scores"].stored = AsSent /\ Services["scores"].sameness = AsSent
      /\ Services["scores"].scopes = {"Kyrie", "Gloria"}
      /\ Services["scores"].offers = {"update"}
  BY ServicesApart, AlikeIs DEF ScoreService, Offering, ScoreNames
<1>. QED
  BY <1>1, NamesRead DEF ServiceOK, Unchanged, Coarser

LEMMA FeesAndLinksServed ==
  ASSUME NEW t \in {"fees", "shorturls"} PROVE ServiceOK(t)
<1>1. /\ Services[t].sent = {"gross", "klein", "_klein"}
      /\ Services[t].stored = Stripped /\ Services[t].sameness = Stripped
      /\ Services[t].scopes = {"all"} /\ Services[t].likeness = Alike({"all"})
      /\ Services[t].unique /\ Services[t].offers \subseteq {"update", "delete", "hit"}
  BY ServicesApart, AlikeIs DEF FeeService, Offering, FeeNames, ShorturlService, ShorturlNames
<1>. QED
  BY <1>1, NamesRead, AlikeIs DEF ServiceOK, Unchanged

LEMMA PerformancesServed == ServiceOK("performances")
<1>1. /\ Services["performances"].sent = Times
      /\ Services["performances"].stored = AsSent /\ Services["performances"].sameness = Hour
      /\ Services["performances"].scopes = {"church"}
      /\ Services["performances"].offers = {"update", "delete"}
  BY ServicesApart, AlikeIs DEF PerformanceService, Offering, PerformanceTimes
<1>. QED
  BY <1>1, NamesRead DEF ServiceOK, Unchanged, Coarser, Times

LEMMA TablesServed == \A t \in Tables : ServiceOK(t)
BY CoreelementsServed, ArtistsServed, WorksServed, ScoresServed, FeesAndLinksServed,
   PerformancesServed DEF Tables

-----------------------------------------------------------------------------
(* The inductive invariant.                                                *)

RequestsOK ==
  /\ clients \in {{1}, {1, 2}}
  /\ request = [c \in clients |-> request[c]]

Orders == IF table \in Ordered THEN 1..created ELSE {0}

Row == [name : Names, scope : Service.scopes, order : Orders, counter : Nat, hits : Nat]

Typed ==
  /\ table \in Tables
  /\ created \in Nat
  /\ rows \in [Ids -> Row]
  /\ Ids \subseteq 1..created
  /\ refs \in [Ids -> SUBSET Referrers]

\* Every creation under way may still take place.
RoomLeft == created + Cardinality(Creating) <= Bound(MaxRows)

UniqueKept ==
  Service.unique => \A i, j \in Ids :
    i # j => ~(rows[i].name = rows[j].name /\ rows[i].scope = rows[j].scope)

\* Users are booked only for positions that the performance has.
PositionsTaken ==
  \A i \in Ids : "bookings" \in refs[i] /\ table # "performances" =>
    "performance_positions" \in refs[i]

Counted == \A i \in Ids : rows[i].counter <= rows[i].hits

CountedAlone == \A i \in Ids : rows[i].counter = rows[i].hits

Same(row, other) ==
  /\ Service.likeness[row.scope] = Service.likeness[other.scope]
  /\ Service.sameness[row.name] = Service.sameness[other.name]

\* A request may spell the surname with a sharp s.
Sharp(row) == table = "artists" /\ row.name = "GROSS"

Apart(row, other) == ~Same(row, other) \/ Sharp(row) \/ Sharp(other)

Distinct ==
  \A i, j \in Ids : i # j =>
    Apart(rows[i], rows[j]) /\ (table \in Ordered => rows[i].order # rows[j].order)

\* What a request under way is about to write.
CallOK(c) ==
  /\ request[c].step \in {"order", "insert"} =>
       request[c] \in [step : {"order", "insert"}, name : Names, scope : Service.scopes,
                       order : Nat]
  /\ request[c].step = "order" => table \in Ordered
  /\ request[c].step = "insert" =>
       request[c].order \in IF table \in Ordered THEN 1..(created + 1) ELSE {0}
  /\ request[c].step = "update" =>
       /\ request[c].changes.name \in Names \cup {Unchanged}
       /\ request[c].changes.scope \in Service.scopes \cup {Unchanged}
  /\ request[c].step = "swap" =>
       table \in Ordered /\ \A i \in DOMAIN request[c].orders : request[c].orders[i] \in 1..created
  /\ request[c].step = "refer" => request[c].child \in Referrers
  /\ request[c].step = "hit" =>
       /\ request[c].id \in 1..created /\ request[c].counter \in Nat
       /\ request[c].id \in Ids => request[c].counter <= rows[request[c].id].hits

Neighbours(i, j) == i \in Ids /\ j \in Ids /\ Place(j) = Place(i) + 1

\* Without interference what was checked still holds when it is relied on.
CallFresh(c) ==
  /\ request[c].step \in {"order", "insert"} => \A i \in Ids : Apart(rows[i], request[c])
  /\ request[c].step = "insert" /\ table \in Ordered =>
       \A i \in Ids : rows[i].order < request[c].order
  /\ request[c].step = "update" =>
       /\ request[c].id \in Ids
       /\ \A i \in Ids \ {request[c].id} :
            Apart(rows[i], Written(rows[request[c].id], request[c].changes))
  /\ request[c].step = "delete" => refs[request[c].id] \cap Service.guard = {}
  /\ request[c].step = "swap" =>
       \E i, j \in Ids : Neighbours(i, j) /\ request[c].orders = Exchanged(i, j)
  /\ request[c].step = "refer" => request[c].id \in Ids
  /\ request[c].step = "hit" =>
       request[c].id \in Ids /\ request[c].counter = rows[request[c].id].counter

RowsInv == Typed /\ UniqueKept /\ PositionsTaken /\ Counted

CatalogueInv ==
  /\ RequestsOK /\ RowsInv /\ RoomLeft
  /\ \A c \in clients : CallOK(c)
  /\ AloneRefusedInTime
  /\ Alone => Distinct /\ CountedAlone /\ \A c \in clients : CallFresh(c)

LEMMA PairHasTwo == IsFiniteSet({1, 2}) /\ Cardinality({1, 2}) = 2
<1>1. Cardinality({1}) = 1 /\ IsFiniteSet({1})
  BY FS_Singleton
<1>2. 2 \notin {1} /\ {1} \cup {2} = {1, 2}
  OBVIOUS
<1>3. IsFiniteSet({1} \cup {2}) /\ Cardinality({1} \cup {2}) = 2
  BY <1>1, <1>2, FS_AddElement
<1>. QED
  BY <1>2, <1>3

LEMMA ClientsAreFew ==
  ASSUME RequestsOK
  PROVE  IsFiniteSet(clients) /\ Cardinality(clients) \in 1..2 /\ (Alone => clients = {1})
<1>1. Cardinality({1}) = 1 /\ IsFiniteSet({1})
  BY FS_Singleton
<1>. QED
  BY <1>1, PairHasTwo DEF RequestsOK, Alone

\* One request goes on, the others stay as they are.
LEMMA OneGoes ==
  ASSUME RequestsOK, NEW c \in clients, NEW next, Continue(c, next), UNCHANGED clients
  PROVE  /\ RequestsOK'
         /\ request'[c] = next
         /\ \A d \in clients \ {c} : request'[d] = request[d]
BY DEF RequestsOK, Continue

LEMMA TableStays ==
  ASSUME UNCHANGED table
  PROVE  /\ Service' = Service /\ Names' = Names /\ Referrers' = Referrers
         /\ \A rules : Referring(rules)' = Referring(rules)
<1>1. Service' = Service
  BY DEF Service
<1>2. ASSUME NEW rules PROVE Referring(rules)' = Referring(rules)
  BY DEF Referring
<1>. QED
  BY <1>1, <1>2 DEF Names, Referrers

LEMMA ServiceKnown ==
  ASSUME table \in Tables
  PROVE  /\ \A sent \in Service.sent :
              /\ table # "artists" \/ Service.stored[sent] # "GROSS" =>
                   Service.sameness[Service.stored[sent]] = Service.sameness[sent]
              /\ Service.stored[sent] \in Names
         /\ Unchanged \notin Names /\ Unchanged \notin Service.scopes
         /\ \A name, other \in Names :
              /\ table \notin Coarser \/ table = "artists"
              /\ Service.sameness[name] = Service.sameness[other]
              => name = other
         /\ table \notin Coarser \/ table = "artists" => Service.unique
         /\ table \notin Coarser => \A one, other \in Service.scopes :
              Service.likeness[one] = Service.likeness[other] => one = other
         /\ Offers("move") => table \in Ordered
BY TablesServed DEF ServiceOK, Service, Names, Offers

-----------------------------------------------------------------------------
(* The room that is left for rows.                                         *)

LEMMA CreatingGoes ==
  ASSUME RequestsOK, NEW c \in clients, NEW next, Continue(c, next), UNCHANGED clients
  PROVE  /\ Creating' = IF next.step \in {"order", "insert"} THEN Creating \cup {c}
                                                           ELSE Creating \ {c}
         /\ IsFiniteSet(Creating) /\ Cardinality(Creating) \in Nat
<1>1. IsFiniteSet(Creating)
  <2>1. Creating \in SUBSET clients
    BY DEF Creating
  <2>. QED
    BY <2>1, ClientsAreFew, FS_Subset
<1>2. Cardinality(Creating) \in Nat
  BY <1>1, FS_CardinalityType
<1>. QED
  BY <1>1, <1>2, OneGoes DEF Creating

LEMMA RoomKept ==
  ASSUME CatalogueInv, NEW c \in clients, NEW next, Continue(c, next), UNCHANGED clients,
         \/ created' = created /\ (next.step \in {"order", "insert"} => c \in Creating)
         \/ created' = created + 1 /\ c \in Creating /\ next.step \notin {"order", "insert"}
         \/ created' = created /\ created + Cardinality(Creating) < Bound(MaxRows)
  PROVE  RoomLeft'
<1>1. /\ Creating' = IF next.step \in {"order", "insert"} THEN Creating \cup {c}
                                                        ELSE Creating \ {c}
      /\ IsFiniteSet(Creating) /\ Cardinality(Creating) \in Nat
  BY CreatingGoes DEF CatalogueInv
<1>2. /\ Cardinality(Creating \cup {c}) = IF c \in Creating THEN Cardinality(Creating)
                                                           ELSE Cardinality(Creating) + 1
      /\ Cardinality(Creating \ {c}) = IF c \in Creating THEN Cardinality(Creating) - 1
                                                        ELSE Cardinality(Creating)
  BY <1>1, FS_AddElement, FS_RemoveElement
<1>3. Cardinality(clients) \in 1..2
  BY ClientsAreFew DEF CatalogueInv
<1>4. Bound(MaxRows)' = Bound(MaxRows) /\ Bound(MaxRows) \in Nat
  BY <1>3, CatalogueAssumption DEF Bound
<1>5. created \in Nat /\ created + Cardinality(Creating) <= Bound(MaxRows)
  BY DEF CatalogueInv, RowsInv, Typed, RoomLeft
<1>6. created' + Cardinality(Creating)' <= Bound(MaxRows)
  <2>1. CASE next.step \in {"order", "insert"}
    BY <1>1, <1>2, <1>4, <1>5, <2>1
  <2>2. CASE next.step \notin {"order", "insert"}
    BY <1>1, <1>2, <1>4, <1>5, <2>2
  <2>. QED
    BY <2>1, <2>2
<1>. QED
  BY <1>4, <1>6 DEF RoomLeft

-----------------------------------------------------------------------------
(* What is left to show of a step.                                         *)

RefusedInTime(c) ==
  request[c].step = "failed" =>
    \/ /\ request[c].at = "delete" /\ table \in PositionTables
       /\ refs[request[c].id] \cap {"user_positions", "booking_logs"} # {}
    \/ request[c].cause \in {"unique", "twice"} /\ \E i \in Ids : Sharp(rows[i])

LEMMA StepGoes ==
  ASSUME CatalogueInv, NEW c \in clients, NEW next, Continue(c, next), UNCHANGED <<table, clients>>,
         RowsInv', RoomLeft', created \leq created', Ids' \cap 1..created \subseteq Ids,
         \A i \in Ids \cap Ids' : rows[i].hits \leq rows'[i].hits,
         CallOK(c)',
         Alone => Distinct' /\ CountedAlone' /\ CallFresh(c)' /\ RefusedInTime(c)'
  PROVE  CatalogueInv'
<1>1. RequestsOK' /\ request'[c] = next /\ \A d \in clients \ {c} : request'[d] = request[d]
  BY OneGoes DEF CatalogueInv
<1>2. Alone' = Alone /\ (Alone => clients = {c})
  BY ClientsAreFew DEF Alone, CatalogueInv
<1>3. created \in Nat /\ created' \in Nat /\ Ids \subseteq 1..created
      /\ rows \in [Ids -> Row] /\ rows' \in [Ids' -> Row']
  BY DEF CatalogueInv, RowsInv, Typed, Ids
<1>4. ASSUME NEW d \in clients, d # c PROVE CallOK(d)'
  <2>1. CallOK(d) /\ request'[d] = request[d]
    BY <1>1, <1>4 DEF CatalogueInv
  <2>2. request[d].step = "hit" =>
          /\ request[d].id \in 1..created' /\ request[d].counter \in Nat
          /\ request[d].id \in Ids' => request[d].counter <= rows'[request[d].id].hits
    <3>1. ASSUME NEW i \in Ids \cap Ids' PROVE rows[i].hits \in Nat /\ rows'[i].hits \in Nat
      BY <1>3 DEF Row
    <3>. QED
      BY <2>1, <1>3, <3>1 DEF CallOK
  <2>. QED
    BY <2>1, <2>2, <1>3, TableStays DEF CallOK
<1>5. CallOK(c)'
  OBVIOUS
<1>6. AloneRefusedInTime'
  BY <1>2 DEF AloneRefusedInTime, RefusedInTime, PositionTables, Misspelled, Sharp
<1>7. Alone' => Distinct' /\ CountedAlone' /\ \A d \in clients' : CallFresh(d)'
  BY <1>2
<1>. QED
  BY <1>1, <1>4, <1>6, <1>7 DEF CatalogueInv

\* A step that writes no row.
LEMMA RowsStay ==
  ASSUME RowsInv, UNCHANGED <<table, rows, refs, created>>
  PROVE  RowsInv' /\ Distinct' = Distinct /\ CountedAlone' = CountedAlone
<1>1. Ids' = Ids /\ Row' = Row /\ Service' = Service /\ Referrers' = Referrers
  BY TableStays DEF Ids, Row, Orders
<1>2. Typed'
  BY <1>1 DEF RowsInv, Typed
<1>3. UniqueKept' /\ PositionsTaken' /\ Counted'
  BY <1>1 DEF RowsInv, UniqueKept, PositionsTaken, Counted
<1>4. Distinct' = Distinct
  BY <1>1, Zenon DEF Distinct, Apart, Same, Sharp
<1>5. CountedAlone' = CountedAlone
  BY <1>1, Zenon DEF CountedAlone
<1>. QED
  BY <1>2, <1>3, <1>4, <1>5 DEF RowsInv

LEMMA StepReads ==
  ASSUME CatalogueInv, NEW c \in clients, NEW next, Continue(c, next),
         UNCHANGED <<table, clients, rows, refs, created>>,
         RoomLeft', CallOK(c)', Alone => CallFresh(c)' /\ RefusedInTime(c)'
  PROVE  CatalogueInv'
<1>1. RowsInv' /\ Distinct' = Distinct /\ CountedAlone' = CountedAlone
  BY RowsStay DEF CatalogueInv
<1>2. created \in Nat /\ \A i \in Ids : rows[i] \in Row
  BY DEF CatalogueInv, RowsInv, Typed
<1>3. created \leq created' /\ Ids' \cap 1..created \subseteq Ids
      /\ \A i \in Ids \cap Ids' : rows[i].hits \leq rows'[i].hits
  BY <1>2 DEF Ids, Row
<1>4. Alone => Distinct' /\ CountedAlone' /\ CallFresh(c)' /\ RefusedInTime(c)'
  BY <1>1 DEF CatalogueInv
<1>. QED
  BY <1>1, <1>3, <1>4, StepGoes

\* One that only ends a request.
LEMMA StepEnds ==
  ASSUME CatalogueInv, NEW c \in clients, NEW next, Continue(c, next),
         UNCHANGED <<table, clients, rows, refs, created>>,
         next.step \in {"rest", "failed"}, Alone => RefusedInTime(c)'
  PROVE  CatalogueInv'
<1>1. request'[c] = next
  BY OneGoes DEF CatalogueInv
<1>2. CallOK(c)' /\ CallFresh(c)'
  BY <1>1 DEF CallOK, CallFresh
<1>3. RoomLeft'
  BY RoomKept
<1>. QED
  BY <1>2, <1>3, StepReads

-----------------------------------------------------------------------------
(* Lookups.                                                                *)

LEMMA AtMostOne ==
  ASSUME NEW S, IsFiniteSet(S), \A x, y \in S : x = y
  PROVE  Cardinality(S) <= 1
<1>1. CASE S = {}
  BY <1>1, FS_EmptySet
<1>2. CASE S # {}
  <2>1. PICK x \in S : S = {x}
    BY <1>2
  <2>. QED
    BY <2>1, FS_Singleton
<1>. QED
  BY <1>1, <1>2

LEMMA IdsFinite ==
  ASSUME Typed PROVE IsFiniteSet(Ids) /\ \A S \in SUBSET Ids : IsFiniteSet(S)
<1>1. IsFiniteSet(1..created)
  BY FS_Interval DEF Typed
<1>. QED
  BY <1>1, FS_Subset DEF Typed

LEMMA FoundAlone ==
  ASSUME Typed, Distinct, NEW sent, NEW scope, NEW apart, \A i \in Ids : ~Sharp(rows[i])
  PROVE  Cardinality(Found(sent, scope, apart)) <= 1
<1>1. IsFiniteSet(Found(sent, scope, apart))
  BY IdsFinite DEF Found
<1>2. \A i, j \in Found(sent, scope, apart) : i = j
  BY DEF Found, Distinct, Apart, Same
<1>. QED
  BY <1>1, <1>2, AtMostOne

\* How a check ends a request.
Foreseen(after) ==
  /\ after.step \in {"rest", "failed"}
  /\ Alone /\ after.step = "failed" =>
       after.cause = "twice" /\ \E i \in Ids : Sharp(rows[i])

\* What follows a check.
LEMMA AfterCheckIs ==
  ASSUME CatalogueInv, NEW step, NEW sent, NEW scope, NEW apart, NEW id, NEW next,
         NEW found, found = Found(sent, scope, apart), NEW after,
         after = AfterCheck(step, found, id, next)
  PROVE  \/ found = {} /\ after = next
         \/ found # {} /\ Foreseen(after)
<1>1. Alone /\ (\A i \in Ids : ~Sharp(rows[i])) => Cardinality(Found(sent, scope, apart)) <= 1
  BY FoundAlone DEF CatalogueInv, RowsInv
<1>2. Alone /\ (\A i \in Ids : ~Sharp(rows[i])) => ~(Cardinality(Found(sent, scope, apart)) > 1)
  <2>1. Cardinality(Found(sent, scope, apart)) \in Nat
    BY IdsFinite, FS_CardinalityType DEF Found, CatalogueInv, RowsInv
  <2>. QED
    BY <1>1, <2>1
<1>. QED
  BY <1>2 DEF AfterCheck, Failed, Rest, Foreseen

LEMMA CheckCreateStep ==
  ASSUME CatalogueInv, NEW c \in clients, CheckCreate(c) PROVE CatalogueInv'
<1>1. UNCHANGED <<table, clients, rows, refs, created>>
  BY DEF CheckCreate, UnchangedButRequest
<1>2. PICK sent \in Service.sent, scope \in Service.scopes :
        /\ Found(sent, scope, {}) # {} \/ created + Cardinality(Creating) < Bound(MaxRows)
        /\ Continue(c, AfterCheck("create", Found(sent, scope, {}), 0,
             [step |-> IF table \in Ordered THEN "order" ELSE "insert",
              name |-> Service.stored[sent], scope |-> scope, order |-> 0]))
  BY DEF CheckCreate
<1>. DEFINE next == [step |-> IF table \in Ordered THEN "order" ELSE "insert",
                     name |-> Service.stored[sent], scope |-> scope, order |-> 0]
            found == Found(sent, scope, {})
            after == AfterCheck("create", found, 0, next)
<1>3. \/ found = {} /\ after = next
      \/ found # {} /\ Foreseen(after)
  BY AfterCheckIs
<1>4. Continue(c, after) /\ request'[c] = after
  BY <1>1, <1>2, OneGoes DEF CatalogueInv
<1>5. CASE found # {}
  <2>1. Foreseen(after)
    BY <1>3, <1>5
  <2>. HIDE DEF after
  <2>2. Alone => RefusedInTime(c)'
    BY <1>1, <1>4, <2>1 DEF RefusedInTime, Foreseen, Sharp, Ids
  <2>. QED
    BY <1>1, <1>4, <2>1, <2>2, StepEnds DEF Foreseen
<1>6. CASE found = {}
  <2>1. request'[c] = next /\ Continue(c, next)
    BY <1>3, <1>4, <1>6
  <2>2. table \in Tables
    BY DEF CatalogueInv, RowsInv, Typed
  <2>3. created + Cardinality(Creating) < Bound(MaxRows)
    BY <1>2, <1>6
  <2>4. RoomLeft'
    <3>. HIDE DEF next
    <3>. QED
      BY <1>1, <2>1, <2>3, RoomKept
  <2>5. Service' = Service /\ Names' = Names
    BY <1>1, TableStays
  <2>6. CallOK(c)'
    BY <1>1, <2>1, <2>2, <2>5, ServiceKnown DEF CallOK
  <2>7. CallFresh(c)'
    <3>1. \A i \in Ids : Apart(rows[i], next)
      BY <1>6, <2>2, ServiceKnown DEF Found, Apart, Same, Sharp
    <3>2. Ids' = Ids /\ rows' = rows
      BY <1>1 DEF Ids
    <3>3. \A i \in Ids' : Apart(rows[i], request[c])'
      BY <1>1, <3>1, <3>2, <2>1, <2>5 DEF Apart, Same, Sharp
    <3>4. request'[c].step \in {"order", "insert"}
          /\ (request'[c].step = "insert" => table' \notin Ordered)
      BY <1>1, <2>1
    <3>. QED
      BY <1>1, <3>3, <3>4 DEF CallFresh
  <2>8. RefusedInTime(c)'
    BY <2>1 DEF RefusedInTime
  <2>. QED
    BY <1>1, <2>1, <2>4, <2>6, <2>7, <2>8, StepReads
<1>. QED
  BY <1>5, <1>6

-----------------------------------------------------------------------------
(* The place of a new row is behind all others.                            *)

\* Every non-empty set of numbers has a least element.
LEMMA LeastNumber ==
  ASSUME NEW T \in SUBSET Nat, T # {}
  PROVE  \E n \in T : \A m \in T : n <= m
<1>1. OpToRel(<, Nat) = {p \in Nat \X Nat : p[1] < p[2]}
  BY Zenon DEF OpToRel
<1>2. PICK n \in T : \A m \in T : <<m, n>> \notin OpToRel(<, Nat)
  BY WFMin, NatLessThanWellFounded, Zenon
<1>3. \A m \in T : ~(m < n)
  <2>1. ASSUME NEW m \in T, m < n PROVE FALSE
    <3>1. <<m, n>> \in {p \in Nat \X Nat : p[1] < p[2]}
      BY <2>1
    <3>. QED
      BY <1>1, <1>2, <3>1, Zenon
  <2>. QED
    BY <2>1
<1>. QED
  BY <1>3

LEMMA MaxBounds ==
  ASSUME NEW S \in SUBSET Nat, S # {}, NEW limit \in Nat, \A s \in S : s <= limit
  PROVE  Max(S) \in S /\ \A s \in S : s <= Max(S)
<1>. DEFINE above == {n \in Nat : \A s \in S : s <= n}
<1>1. limit \in above
  OBVIOUS
<1>2. PICK n \in above : \A m \in above : n <= m
  BY <1>1, LeastNumber
<1>3. n \in S
  <2>1. SUFFICES ASSUME n \notin S PROVE FALSE
    OBVIOUS
  <2>2. \A s \in S : s < n
    BY <1>2, <2>1
  <2>3. PICK s \in S : s \in Nat /\ n \in Nat /\ s < n
    BY <1>2, <2>2
  <2>4. n - 1 \in Nat /\ \A x \in S : x <= n - 1
    BY <1>2, <2>2, <2>3
  <2>5. n - 1 \in above
    BY <2>4
  <2>. QED
    BY <2>3, <2>5, <1>2
<1>4. \E x \in S : \A y \in S : x >= y
  BY <1>2, <1>3
<1>. QED
  BY <1>4 DEF Max

LEMMA ReadOrderStep ==
  ASSUME CatalogueInv, NEW c \in clients, ReadOrder(c) PROVE CatalogueInv'
<1>1. UNCHANGED <<table, clients, rows, refs, created>> /\ request[c].step = "order"
  BY DEF ReadOrder, UnchangedButRequest, At
<1>. DEFINE orders == {rows[i].order : i \in Ids} \cup {0}
            next == [step |-> "insert", name |-> request[c].name, scope |-> request[c].scope,
                     order |-> Max(orders) + 1]
<1>2. Continue(c, next)
  BY DEF ReadOrder
<1>3. request'[c] = next
  BY <1>1, <1>2, OneGoes DEF CatalogueInv
<1>4. created \in Nat /\ \A i \in Ids : rows[i] \in Row
  BY DEF CatalogueInv, RowsInv, Typed
<1>5. table \in Ordered
      /\ request[c] \in [step : {"order", "insert"}, name : Names, scope : Service.scopes,
                         order : Nat]
  BY <1>1 DEF CatalogueInv, CallOK
<1>6. \A i \in Ids : rows[i].order \in 1..created
  BY <1>4, <1>5 DEF Row, Orders
<1>7. Max(orders) \in orders /\ \A n \in orders : n <= Max(orders)
  <2>1. orders \in SUBSET Nat /\ orders # {} /\ \A n \in orders : n <= created
    BY <1>4, <1>6
  <2>. HIDE DEF orders
  <2>. QED
    BY <1>4, <2>1, MaxBounds
<1>. DEFINE max == Max(orders)
<1>8. max \in 0..created /\ \A i \in Ids : rows[i].order < max + 1
  <2>1. \A n \in orders : n \in 0..created
    BY <1>4, <1>6
  <2>2. max \in 0..created
    BY <1>7, <2>1
  <2>3. ASSUME NEW i \in Ids PROVE rows[i].order \in Nat /\ rows[i].order <= max
    BY <1>6, <1>7
  <2>. HIDE DEF max, orders
  <2>. QED
    BY <2>2, <2>3
<1>. HIDE DEF max
<1>9. next = [step |-> "insert", name |-> request[c].name, scope |-> request[c].scope,
              order |-> max + 1]
  BY DEF max
<1>. HIDE DEF next
<1>10. Service' = Service /\ Names' = Names /\ Ids' = Ids
  BY <1>1, TableStays DEF Ids
<1>11. CallOK(c)'
  BY <1>1, <1>3, <1>4, <1>5, <1>8, <1>9, <1>10 DEF CallOK
<1>12. Alone => CallFresh(c)'
  <2>1. SUFFICES ASSUME Alone PROVE CallFresh(c)'
    OBVIOUS
  <2>2. \A i \in Ids : Apart(rows[i], request[c])
    BY <1>1, <2>1 DEF CatalogueInv, CallFresh
  <2>3. \A i \in Ids' : Apart(rows[i], request[c])'
    BY <1>1, <2>2, <1>3, <1>9, <1>10 DEF Apart, Same, Sharp
  <2>. QED
    BY <1>1, <1>3, <1>8, <1>9, <1>10, <2>3 DEF CallFresh
<1>13. RefusedInTime(c)'
  BY <1>3, <1>9 DEF RefusedInTime
<1>14. RoomLeft'
  <2>1. c \in Creating
    BY <1>1 DEF Creating
  <2>. QED
    BY <1>1, <1>2, <2>1, RoomKept
<1>. QED
  BY <1>1, <1>2, <1>11, <1>12, <1>13, <1>14, StepReads

-----------------------------------------------------------------------------
(* Insert.                                                                 *)

LEMMA InsertStep ==
  ASSUME CatalogueInv, NEW c \in clients, Insert(c) PROVE CatalogueInv'
<1>1. UNCHANGED <<table, clients>> /\ request[c].step = "insert"
  BY DEF Insert, At
<1>2. /\ request[c].name \in Names /\ request[c].scope \in Service.scopes
      /\ request[c].order \in IF table \in Ordered THEN 1..(created + 1) ELSE {0}
  BY <1>1 DEF CatalogueInv, CallOK
<1>3. /\ table \in Tables /\ created \in Nat /\ Ids \subseteq 1..created
      /\ \A i \in Ids : rows[i] \in Row /\ refs[i] \subseteq Referrers
      /\ DOMAIN refs = Ids /\ rows = [i \in Ids |-> rows[i]]
  BY DEF CatalogueInv, RowsInv, Typed
<1>4. Service' = Service /\ Names' = Names /\ Referrers' = Referrers
  BY <1>1, TableStays
<1>5. Alone => Distinct /\ CountedAlone /\ CallFresh(c)
  BY DEF CatalogueInv
<1>6. CASE Clashes(request[c].name, request[c].scope, {})
  <2>. DEFINE next == Failed("create", "unique", 0)
  <2>1. Continue(c, next) /\ UNCHANGED <<rows, refs, created>>
    BY <1>6 DEF Insert
  <2>2. Alone => \E i \in Ids : Sharp(rows[i])
    BY <1>1, <1>5, <1>6 DEF Clashes, CallFresh, Apart, Same, Sharp
  <2>3. request'[c] = next
    BY <1>1, <2>1, OneGoes DEF CatalogueInv
  <2>4. Alone => RefusedInTime(c)'
    BY <1>1, <2>1, <2>2, <2>3 DEF RefusedInTime, Failed, Sharp, Ids
  <2>5. next.step = "failed"
    BY DEF Failed
  <2>. HIDE DEF next
  <2>. QED
    BY <1>1, <2>1, <2>4, <2>5, StepEnds
<1>7. CASE ~Clashes(request[c].name, request[c].scope, {})
  <2>. DEFINE new == created + 1
              row == [name |-> request[c].name, scope |-> request[c].scope,
                      order |-> request[c].order, counter |-> 0, hits |-> 0]
  <2>1. /\ created' = new
        /\ rows' = [i \in Ids \cup {new} |-> IF i = new THEN row ELSE rows[i]]
        /\ refs' = [i \in Ids \cup {new} |-> IF i = new THEN {} ELSE refs[i]]
        /\ Continue(c, Rest)
    BY <1>7 DEF Insert
  <2>2. new \notin Ids /\ new \in Nat
    BY <1>3
  <2>3. Ids' = Ids \cup {new} /\ rows'[new] = row /\ refs'[new] = {} /\ DOMAIN refs' = Ids'
    BY <2>1 DEF Ids
  <2>4. \A i \in Ids : rows'[i] = rows[i] /\ refs'[i] = refs[i]
    BY <2>1, <2>2
  <2>5. row.name = request[c].name /\ row.scope = request[c].scope
        /\ row.order = request[c].order /\ row.counter = 0 /\ row.hits = 0
    OBVIOUS
  <2>6. row \in Row'
    BY <1>1, <1>2, <1>4, <2>1 DEF Row, Orders
  <2>. HIDE DEF row
  <2>7. Typed'
    <3>1. \A i \in Ids : rows[i] \in Row'
      BY <1>1, <1>3, <1>4, <2>1 DEF Row, Orders
    <3>2. rows' \in [Ids' -> Row']
      BY <2>1, <2>3, <2>4, <2>6, <3>1
    <3>3. refs' \in [Ids' -> SUBSET Referrers']
      BY <1>3, <1>4, <2>1, <2>3, <2>4
    <3>4. Ids' \subseteq 1..created' /\ created' \in Nat
      BY <1>3, <2>1, <2>3
    <3>. QED
      BY <1>1, <1>3, <3>2, <3>3, <3>4 DEF Typed
  <2>8. UniqueKept'
    BY <1>4, <1>7, <2>3, <2>4, <2>5 DEF CatalogueInv, RowsInv, UniqueKept, Clashes
  <2>9. PositionsTaken'
    BY <1>1, <2>3, <2>4 DEF CatalogueInv, RowsInv, PositionsTaken
  <2>10. Counted'
    BY <2>3, <2>4, <2>5 DEF CatalogueInv, RowsInv, Counted
  <2>11. request'[c] = Rest
    BY <1>1, <2>1, OneGoes DEF CatalogueInv
  <2>12. CallOK(c)' /\ CallFresh(c)' /\ RefusedInTime(c)'
    BY <2>11 DEF CallOK, CallFresh, RefusedInTime, Rest
  <2>13. Alone => CountedAlone'
    BY <1>5, <2>3, <2>4, <2>5 DEF CountedAlone
  <2>14. Alone => Distinct'
    <3>1. SUFFICES ASSUME Alone, NEW i \in Ids', NEW j \in Ids', i # j
                   PROVE  /\ Apart(rows[i], rows[j])'
                          /\ table \in Ordered => rows'[i].order # rows'[j].order
      BY <1>1 DEF Distinct
    <3>2. CASE i \in Ids /\ j \in Ids
      BY <1>1, <1>4, <1>5, <2>4, <3>1, <3>2 DEF Distinct, Apart, Same, Sharp
    <3>3. \A k \in Ids : Apart(rows[k], row) /\ (table \in Ordered => rows[k].order # row.order)
      <4>1. ASSUME NEW k \in Ids PROVE Apart(rows[k], row)
        BY <1>1, <1>5, <2>5, <3>1 DEF CallFresh, Apart, Same, Sharp
      <4>2. ASSUME NEW k \in Ids, table \in Ordered PROVE rows[k].order # row.order
        <5>1. rows[k].order < request[c].order /\ rows[k].order \in Nat /\ request[c].order \in Nat
          BY <1>1, <1>2, <1>3, <1>5, <3>1, <4>2 DEF CallFresh, Row, Orders
        <5>. QED
          BY <2>5, <5>1
      <4>. QED
        BY <4>1, <4>2
    <3>4. CASE i = new /\ j \in Ids
      BY <1>1, <1>4, <2>3, <2>4, <3>3, <3>4 DEF Apart, Same, Sharp
    <3>5. CASE j = new /\ i \in Ids
      BY <1>1, <1>4, <2>3, <2>4, <3>3, <3>5 DEF Apart, Same, Sharp
    <3>. QED
      BY <2>3, <3>1, <3>2, <3>4, <3>5
  <2>15. RoomLeft'
    <3>1. c \in Creating
      BY <1>1 DEF Creating
    <3>2. Rest.step \notin {"order", "insert"}
      BY DEF Rest
    <3>. QED
      BY <1>1, <2>1, <3>1, <3>2, RoomKept
  <2>16. /\ created \leq created' /\ Ids' \cap 1..created \subseteq Ids
         /\ \A i \in Ids \cap Ids' : rows[i].hits \leq rows'[i].hits
    BY <1>3, <2>1, <2>3, <2>4 DEF Row
  <2>17. RowsInv'
    BY <2>7, <2>8, <2>9, <2>10 DEF RowsInv
  <2>. QED
    BY <1>1, <2>1, <2>12, <2>13, <2>14, <2>15, <2>16, <2>17, StepGoes
<1>. QED
  BY <1>6, <1>7

-----------------------------------------------------------------------------
(* Update.                                                                 *)

LEMMA RowsAre ==
  ASSUME CatalogueInv
  PROVE  /\ table \in Tables /\ created \in Nat /\ Ids \subseteq 1..created
         /\ \A i \in Ids : rows[i] \in Row /\ refs[i] \subseteq Referrers
         /\ DOMAIN refs = Ids /\ rows = [i \in Ids |-> rows[i]] /\ refs = [i \in Ids |-> refs[i]]
BY DEF CatalogueInv, RowsInv, Typed

LEMMA FieldsAre ==
  ASSUME NEW row \in Row, created \in Nat
  PROVE  /\ row.name \in Names /\ row.scope \in Service.scopes /\ row.order \in Orders
         /\ row.counter \in Nat /\ row.hits \in Nat /\ row.order \in Nat
BY DEF Row, Orders

LEMMA CheckUpdateStep ==
  ASSUME CatalogueInv, NEW c \in clients, CheckUpdate(c) PROVE CatalogueInv'
<1>1. UNCHANGED <<table, clients, rows, refs, created>>
  BY DEF CheckUpdate, UnchangedButRequest
<1>2. PICK id \in Ids, sent \in Service.sent, scope \in Service.scopes :
        Continue(c, AfterCheck("update", Found(sent, scope, {id}), id,
          [step |-> "update", id |-> id,
           changes |-> Changes([name |-> Service.stored[sent], scope |-> scope], rows[id])]))
  BY DEF CheckUpdate
<1>. DEFINE new == [name |-> Service.stored[sent], scope |-> scope]
            changes == Changes(new, rows[id])
            next == [step |-> "update", id |-> id, changes |-> changes]
            found == Found(sent, scope, {id})
            after == AfterCheck("update", found, id, next)
<1>3. \/ found = {} /\ after = next
      \/ found # {} /\ Foreseen(after)
  <2>1. found = Found(sent, scope, {id}) /\ after = AfterCheck("update", found, id, next)
    OBVIOUS
  <2>. HIDE DEF found, after, next
  <2>. QED
    BY <2>1, AfterCheckIs
<1>4. Continue(c, after) /\ request'[c] = after
  BY <1>1, <1>2, OneGoes DEF CatalogueInv
<1>5. CASE found # {}
  <2>1. Foreseen(after)
    BY <1>3, <1>5
  <2>. HIDE DEF after
  <2>2. Alone => RefusedInTime(c)'
    BY <1>1, <1>4, <2>1 DEF RefusedInTime, Foreseen, Sharp, Ids
  <2>. QED
    BY <1>1, <1>4, <2>1, <2>2, StepEnds DEF Foreseen
<1>6. CASE found = {}
  <2>1. request'[c] = next /\ Continue(c, next)
    BY <1>3, <1>4, <1>6
  <2>2. table \in Tables /\ rows[id] \in Row /\ created \in Nat
    BY RowsAre
  <2>3. /\ Service.stored[sent] \in Names /\ Service.stored[sent] # Unchanged
        /\ scope \in Service.scopes /\ scope # Unchanged
        /\ table # "artists" \/ Service.stored[sent] # "GROSS" =>
             Service.sameness[Service.stored[sent]] = Service.sameness[sent]
    BY <2>2, ServiceKnown
  <2>4. /\ changes.name \in Names \cup {Unchanged}
        /\ changes.scope \in Service.scopes \cup {Unchanged}
    BY <2>3 DEF Changes
  <2>5. Written(rows[id], changes).name = Service.stored[sent]
        /\ Written(rows[id], changes).scope = scope
    BY <2>3 DEF Written, Changes
  <2>. HIDE DEF changes
  <2>6. Service' = Service /\ Names' = Names /\ Ids' = Ids
    BY <1>1, TableStays DEF Ids
  <2>7. CallOK(c)'
    BY <1>1, <2>1, <2>4, <2>6 DEF CallOK
  <2>8. CallFresh(c)'
    <3>1. \A i \in Ids \ {id} : Apart(rows[i], Written(rows[id], changes))
      BY <1>6, <2>3, <2>5 DEF Found, Apart, Same, Sharp
    <3>. QED
      BY <1>1, <2>1, <2>6, <3>1 DEF CallFresh, Apart, Same, Sharp
  <2>. HIDE DEF next
  <2>9. next.step = "update"
    BY DEF next
  <2>10. RoomLeft' /\ RefusedInTime(c)'
    BY <1>1, <2>1, <2>9, RoomKept DEF RefusedInTime
  <2>. QED
    BY <1>1, <2>1, <2>7, <2>8, <2>10, StepReads
<1>. QED
  BY <1>5, <1>6

\* A row is written: what the others are told from is kept.
LEMMA RowWritten ==
  ASSUME CatalogueInv, NEW c \in clients, UNCHANGED <<table, clients, refs, created>>,
         NEW id \in Ids, NEW row \in Row, rows' = [rows EXCEPT ![id] = row], Continue(c, Rest),
         row.counter \leq row.hits, rows[id].hits \leq row.hits,
         Service.unique => \A i \in Ids \ {id} : ~(rows[i].name = row.name /\ rows[i].scope = row.scope),
         Alone => /\ \A i \in Ids \ {id} : Apart(rows[i], row)
                  /\ row.order = rows[id].order /\ row.counter = row.hits
  PROVE  CatalogueInv'
<1>1. /\ table \in Tables /\ created \in Nat /\ Ids \subseteq 1..created
      /\ \A i \in Ids : rows[i] \in Row /\ refs[i] \subseteq Referrers
      /\ DOMAIN refs = Ids /\ rows = [i \in Ids |-> rows[i]]
  BY RowsAre
<1>2. Service' = Service /\ Names' = Names /\ Referrers' = Referrers /\ Row' = Row
  BY TableStays DEF Row, Orders
<1>3. Ids' = Ids /\ rows'[id] = row /\ \A i \in Ids \ {id} : rows'[i] = rows[i]
  BY <1>1 DEF Ids
<1>4. Typed'
  <2>1. rows' \in [Ids' -> Row']
    BY <1>1, <1>2, <1>3
  <2>. QED
    BY <1>2, <1>3, <2>1 DEF Typed, CatalogueInv, RowsInv
<1>5. UniqueKept'
  BY <1>2, <1>3 DEF CatalogueInv, RowsInv, UniqueKept
<1>6. PositionsTaken'
  BY <1>3 DEF CatalogueInv, RowsInv, PositionsTaken
<1>7. Counted'
  BY <1>3 DEF CatalogueInv, RowsInv, Counted
<1>8. Alone => CountedAlone'
  BY <1>3 DEF CatalogueInv, CountedAlone
<1>9. Alone => Distinct'
  <2>1. SUFFICES ASSUME Alone, NEW i \in Ids, NEW j \in Ids, i # j
                 PROVE  /\ Apart(rows[i], rows[j])'
                        /\ table \in Ordered => rows'[i].order # rows'[j].order
    BY <1>3 DEF Distinct
  <2>2. Distinct
    BY <2>1 DEF CatalogueInv
  <2>3. CASE i # id /\ j # id
    BY <1>2, <1>3, <2>1, <2>2, <2>3 DEF Distinct, Apart, Same, Sharp
  <2>4. CASE i = id
    BY <1>2, <1>3, <2>1, <2>2, <2>4 DEF Distinct, Apart, Same, Sharp
  <2>5. CASE j = id
    BY <1>2, <1>3, <2>1, <2>2, <2>5 DEF Distinct, Apart, Same, Sharp
  <2>. QED
    BY <2>3, <2>4, <2>5
<1>10. request'[c] = Rest
  BY OneGoes DEF CatalogueInv
<1>11. CallOK(c)' /\ CallFresh(c)' /\ RefusedInTime(c)'
  BY <1>10 DEF CallOK, CallFresh, RefusedInTime, Rest
<1>12. Rest.step \notin {"order", "insert"}
  BY DEF Rest
<1>13. RoomLeft'
  BY <1>12, RoomKept
<1>14. /\ created \leq created' /\ Ids' \cap 1..created \subseteq Ids
       /\ \A i \in Ids \cap Ids' : rows[i].hits \leq rows'[i].hits
  <2>1. \A i \in Ids : rows[i].hits \in Nat
    BY <1>1 DEF Row
  <2>. QED
    BY <1>1, <1>3, <2>1
<1>15. RowsInv'
  BY <1>4, <1>5, <1>6, <1>7 DEF RowsInv
<1>. QED
  BY <1>8, <1>9, <1>11, <1>13, <1>14, <1>15, StepGoes

LEMMA UpdateStep ==
  ASSUME CatalogueInv, NEW c \in clients, Update(c) PROVE CatalogueInv'
<1>. DEFINE id == request[c].id
            changes == request[c].changes
            row == Written(rows[id], changes)
<1>1. UNCHANGED <<table, clients, refs, created>> /\ request[c].step = "update"
  BY DEF Update, At
<1>2. /\ changes.name \in Names \cup {Unchanged}
      /\ changes.scope \in Service.scopes \cup {Unchanged}
  BY <1>1 DEF CatalogueInv, CallOK
<1>3. Alone => /\ Distinct /\ CountedAlone /\ id \in Ids
               /\ \A i \in Ids \ {id} : Apart(rows[i], row)
  BY <1>1 DEF CatalogueInv, CallFresh
<1>4. /\ table \in Tables /\ created \in Nat /\ Ids \subseteq 1..created
      /\ \A i \in Ids : rows[i] \in Row
  BY RowsAre
<1>5. CASE id \notin Ids
  <2>1. PICK next \in {Failed("update", "stale", id), Rest} : Continue(c, next) /\ UNCHANGED rows
    BY <1>5 DEF Update
  <2>2. next.step \in {"rest", "failed"}
    BY DEF Failed, Rest
  <2>. QED
    BY <1>1, <1>3, <1>5, <2>1, <2>2, StepEnds
<1>6. CASE id \in Ids
  <2>1. /\ row.name = IF changes.name = Unchanged THEN rows[id].name ELSE changes.name
        /\ row.scope = IF changes.scope = Unchanged THEN rows[id].scope ELSE changes.scope
        /\ row.order = rows[id].order /\ row.counter = rows[id].counter
        /\ row.hits = rows[id].hits
        /\ row = [name |-> row.name, scope |-> row.scope, order |-> row.order,
                  counter |-> row.counter, hits |-> row.hits]
    BY DEF Written
  <2>2. IF Clashes(row.name, row.scope, {id})
          THEN Continue(c, Failed("update", "unique", id)) /\ UNCHANGED rows
          ELSE rows' = [rows EXCEPT ![id] = row] /\ Continue(c, Rest)
    BY <1>6 DEF Update
  <2>. HIDE DEF row, changes, id
  <2>3. /\ rows[id].name \in Names /\ rows[id].scope \in Service.scopes
        /\ rows[id].order \in Orders /\ rows[id].counter \in Nat /\ rows[id].hits \in Nat
    BY <1>4, <1>6, FieldsAre
  <2>4. row \in Row
    BY <1>2, <2>1, <2>3 DEF Row
  <2>5. CASE Clashes(row.name, row.scope, {id})
    <3>1. Continue(c, Failed("update", "unique", id)) /\ UNCHANGED rows
      BY <2>2, <2>5
    <3>2. Alone => \E i \in Ids : Sharp(rows[i])
      BY <1>3, <2>5 DEF Clashes, Apart, Same, Sharp
    <3>3. request'[c] = Failed("update", "unique", id)
      BY <1>1, <3>1, OneGoes DEF CatalogueInv
    <3>4. Alone => RefusedInTime(c)'
      BY <1>1, <3>1, <3>2, <3>3 DEF RefusedInTime, Failed, Sharp, Ids
    <3>5. Failed("update", "unique", id).step = "failed"
      BY DEF Failed
    <3>. QED
      BY <1>1, <3>1, <3>4, <3>5, StepEnds
  <2>6. CASE ~Clashes(row.name, row.scope, {id})
    <3>1. rows' = [rows EXCEPT ![id] = row] /\ Continue(c, Rest)
      BY <2>2, <2>6
    <3>2. row.counter \leq row.hits /\ rows[id].hits \leq row.hits
      BY <1>6, <2>1, <2>3 DEF CatalogueInv, RowsInv, Counted
    <3>3. Service.unique =>
            \A i \in Ids \ {id} : ~(rows[i].name = row.name /\ rows[i].scope = row.scope)
      BY <2>6 DEF Clashes
    <3>4. Alone => row.order = rows[id].order /\ row.counter = row.hits
      BY <1>3, <1>6, <2>1 DEF CountedAlone
    <3>. QED
      BY <1>1, <1>3, <1>6, <2>4, <3>1, <3>2, <3>3, <3>4, RowWritten
  <2>. QED
    BY <2>5, <2>6
<1>. QED
  BY <1>5, <1>6

-----------------------------------------------------------------------------
(* Delete.                                                                 *)

\* The referring rows change, the rows do not.
LEMMA RefsWritten ==
  ASSUME CatalogueInv, NEW c \in clients, UNCHANGED <<table, clients, rows, created>>,
         Continue(c, Rest), refs' \in [Ids -> SUBSET Referrers],
         \A i \in Ids : "bookings" \in refs'[i] /\ table # "performances" =>
           "performance_positions" \in refs'[i]
  PROVE  CatalogueInv'
<1>1. /\ table \in Tables /\ created \in Nat /\ Ids \subseteq 1..created /\ rows \in [Ids -> Row]
      /\ UniqueKept /\ Counted
  BY DEF CatalogueInv, RowsInv, Typed
<1>2. /\ Service' = Service /\ Names' = Names /\ Referrers' = Referrers
      /\ Row' = Row /\ Ids' = Ids
  BY TableStays DEF Row, Orders, Ids
<1>3. Typed'
  BY <1>1, <1>2 DEF Typed
<1>4. UniqueKept' /\ PositionsTaken' /\ Counted'
  BY <1>1, <1>2 DEF UniqueKept, PositionsTaken, Counted
<1>5. Distinct' = Distinct
  BY <1>2, Zenon DEF Distinct, Apart, Same, Sharp
<1>6. CountedAlone' = CountedAlone
  BY <1>2, Zenon DEF CountedAlone
<1>7. request'[c] = Rest
  BY OneGoes DEF CatalogueInv
<1>8. CallOK(c)' /\ CallFresh(c)' /\ RefusedInTime(c)'
  BY <1>7 DEF CallOK, CallFresh, RefusedInTime, Rest
<1>9. Rest.step \notin {"order", "insert"}
  BY DEF Rest
<1>10. RoomLeft'
  BY <1>9, RoomKept
<1>11. /\ created \leq created' /\ Ids' \cap 1..created \subseteq Ids
       /\ \A i \in Ids \cap Ids' : rows[i].hits \leq rows'[i].hits
  BY <1>1, <1>2 DEF Row
<1>12. RowsInv'
  BY <1>3, <1>4 DEF RowsInv
<1>13. Alone => Distinct' /\ CountedAlone'
  BY <1>5, <1>6 DEF CatalogueInv
<1>. QED
  BY <1>8, <1>10, <1>11, <1>12, <1>13, StepGoes

LEMMA CheckDeleteStep ==
  ASSUME CatalogueInv, NEW c \in clients, CheckDelete(c) PROVE CatalogueInv'
<1>1. UNCHANGED <<table, clients, rows, refs, created>>
  BY DEF CheckDelete, UnchangedButRequest
<1>2. PICK id \in Ids : /\ refs[id] \cap Service.guard = {}
                        /\ Continue(c, [step |-> "delete", id |-> id])
  BY DEF CheckDelete
<1>. DEFINE next == [step |-> "delete", id |-> id]
<1>3. request'[c] = next
  BY <1>1, <1>2, OneGoes DEF CatalogueInv
<1>4. CallOK(c)' /\ RefusedInTime(c)'
  BY <1>3 DEF CallOK, RefusedInTime
<1>5. CallFresh(c)'
  BY <1>1, <1>2, <1>3, TableStays DEF CallFresh
<1>6. next.step \notin {"order", "insert"} /\ Continue(c, next)
  BY <1>2
<1>. HIDE DEF next
<1>7. RoomLeft'
  BY <1>1, <1>6, RoomKept
<1>. QED
  BY <1>1, <1>4, <1>5, <1>6, <1>7, StepReads

\* What holds back the deletion of a row that was free of what the service
\* looks into.
LEMMA HeldBack ==
  ASSUME CatalogueInv, NEW id \in Ids, refs[id] \cap Service.guard = {},
         refs[id] \cap Referring({"RESTRICT"}) # {}
  PROVE  table \in PositionTables /\ refs[id] \cap {"user_positions", "booking_logs"} # {}
<1>1. PICK r \in refs[id] : r \in Referring({"RESTRICT"})
  OBVIOUS
<1>2. table \in PositionTables /\ r \in {"user_positions", "booking_logs", "bookings"}
  BY <1>1, RowsAre, HoldersAreGuarded
<1>3. r # "bookings"
  <2>1. SUFFICES ASSUME r = "bookings" PROVE FALSE
    OBVIOUS
  <2>2. "performance_positions" \in refs[id]
    BY <1>1, <1>2, <2>1 DEF PositionTables, CatalogueInv, RowsInv, PositionsTaken
  <2>3. "performance_positions" \in Service.guard
    BY <1>2, PositionGuarded DEF Service
  <2>. QED
    BY <2>2, <2>3
<1>. QED
  BY <1>1, <1>2, <1>3

LEMMA DeleteStep ==
  ASSUME CatalogueInv, NEW c \in clients, Delete(c) PROVE CatalogueInv'
<1>. DEFINE id == request[c].id
            held == id \in Ids /\ refs[id] \cap Referring({"RESTRICT"}) # {}
<1>1. UNCHANGED <<table, clients, created>> /\ request[c].step = "delete"
  BY DEF Delete, At
<1>2. /\ table \in Tables /\ created \in Nat /\ Ids \subseteq 1..created
      /\ \A i \in Ids : rows[i] \in Row /\ refs[i] \subseteq Referrers
  BY RowsAre
<1>3. CASE held
  <2>. DEFINE next == Failed("delete", "key", id)
  <2>1. Continue(c, next) /\ UNCHANGED <<rows, refs>>
    BY <1>3 DEF Delete
  <2>2. request'[c] = next /\ next.step = "failed" /\ next.at = "delete" /\ next.id = id
    BY <1>1, <2>1, OneGoes DEF CatalogueInv, Failed
  <2>. HIDE DEF next
  <2>3. Alone => refs[id] \cap Service.guard = {}
    BY <1>1 DEF CatalogueInv, CallFresh
  <2>4. Alone => RefusedInTime(c)'
    BY <1>1, <1>3, <2>1, <2>2, <2>3, HeldBack DEF RefusedInTime
  <2>. QED
    BY <1>1, <2>1, <2>2, <2>4, StepEnds
<1>4. CASE ~held
  <2>1. /\ rows' = [i \in Ids \ {id} |-> rows[i]]
        /\ refs' = [i \in Ids \ {id} |-> refs[i]]
        /\ Continue(c, Rest)
    BY <1>4 DEF Delete
  <2>. HIDE DEF id
  <2>2. /\ Ids' = Ids \ {id} /\ DOMAIN refs' = Ids'
        /\ \A i \in Ids' : rows'[i] = rows[i] /\ refs'[i] = refs[i]
    BY <2>1 DEF Ids
  <2>3. /\ Service' = Service /\ Names' = Names /\ Referrers' = Referrers /\ Row' = Row
    BY <1>1, TableStays DEF Row, Orders
  <2>4. Typed'
    <3>1. rows' \in [Ids' -> Row] /\ refs' \in [Ids' -> SUBSET Referrers]
      BY <1>2, <2>1, <2>2
    <3>2. Ids' \subseteq 1..created
      BY <1>2, <2>2
    <3>. QED
      BY <1>1, <1>2, <2>3, <3>1, <3>2 DEF Typed
  <2>5. UniqueKept' /\ PositionsTaken' /\ Counted'
    BY <1>1, <2>2, <2>3 DEF CatalogueInv, RowsInv, UniqueKept, PositionsTaken, Counted
  <2>6. Alone => Distinct'
    BY <1>1, <2>2, <2>3 DEF CatalogueInv, Distinct, Apart, Same, Sharp
  <2>7. Alone => CountedAlone'
    BY <2>2 DEF CatalogueInv, CountedAlone
  <2>8. request'[c] = Rest
    BY <1>1, <2>1, OneGoes DEF CatalogueInv
  <2>9. CallOK(c)' /\ CallFresh(c)' /\ RefusedInTime(c)'
    BY <2>8 DEF CallOK, CallFresh, RefusedInTime, Rest
  <2>10. Rest.step \notin {"order", "insert"}
    BY DEF Rest
  <2>11. RoomLeft'
    BY <1>1, <2>1, <2>10, RoomKept
  <2>12. /\ created \leq created' /\ Ids' \cap 1..created \subseteq Ids
         /\ \A i \in Ids \cap Ids' : rows[i].hits \leq rows'[i].hits
    <3>1. created \in Nat /\ \A i \in Ids : rows[i].hits \in Nat
      BY RowsAre, FieldsAre
    <3>2. created' = created /\ Ids' \subseteq Ids /\ \A i \in Ids' : rows'[i] = rows[i]
      BY <1>1, <1>2, <2>2
    <3>. QED
      BY <3>1, <3>2
  <2>13. RowsInv'
    BY <2>4, <2>5 DEF RowsInv
  <2>. QED
    BY <1>1, <2>1, <2>6, <2>7, <2>9, <2>11, <2>12, <2>13, StepGoes
<1>. QED
  BY <1>3, <1>4

-----------------------------------------------------------------------------
(* Referring rows.                                                         *)

LEMMA CheckReferredStep ==
  ASSUME CatalogueInv, NEW c \in clients, CheckReferred(c) PROVE CatalogueInv'
<1>1. UNCHANGED <<table, clients, rows, refs, created>>
  BY DEF CheckReferred, UnchangedButRequest
<1>2. PICK id \in Ids, child \in Referrers :
        Continue(c, [step |-> "refer", id |-> id, child |-> child])
  BY DEF CheckReferred
<1>. DEFINE next == [step |-> "refer", id |-> id, child |-> child]
<1>3. request'[c] = next
  BY <1>1, <1>2, OneGoes DEF CatalogueInv
<1>4. CallOK(c)' /\ RefusedInTime(c)' /\ CallFresh(c)'
  BY <1>1, <1>3, TableStays DEF CallOK, RefusedInTime, CallFresh, Ids
<1>5. next.step \notin {"order", "insert"} /\ Continue(c, next)
  BY <1>2
<1>. HIDE DEF next
<1>6. RoomLeft'
  BY <1>1, <1>5, RoomKept
<1>. QED
  BY <1>1, <1>4, <1>5, <1>6, StepReads

LEMMA ReferStep ==
  ASSUME CatalogueInv, NEW c \in clients, Refer(c) PROVE CatalogueInv'
<1>. DEFINE id == request[c].id
            child == request[c].child
<1>1. UNCHANGED <<table, clients, rows, created>> /\ request[c].step = "refer"
  BY DEF Refer, At
<1>2. child \in Referrers /\ (Alone => id \in Ids)
  BY <1>1 DEF CatalogueInv, CallOK, CallFresh
<1>3. CASE id \notin Ids
  <2>1. Continue(c, Failed("refer", "key", id)) /\ UNCHANGED refs
    BY <1>3 DEF Refer
  <2>2. Failed("refer", "key", id).step = "failed"
    BY DEF Failed
  <2>. QED
    BY <1>1, <1>2, <1>3, <2>1, <2>2, StepEnds
<1>4. CASE id \in Ids /\ TakesPosition(child) /\ "performance_positions" \notin refs[id]
  <2>1. Continue(c, Rest) /\ UNCHANGED refs
    BY <1>4 DEF Refer
  <2>2. request'[c] = Rest /\ Rest.step = "rest"
    BY <1>1, <2>1, OneGoes DEF CatalogueInv, Rest
  <2>3. RefusedInTime(c)'
    BY <2>2 DEF RefusedInTime
  <2>. QED
    BY <1>1, <2>1, <2>2, <2>3, StepEnds
<1>5. CASE id \in Ids /\ (TakesPosition(child) => "performance_positions" \in refs[id])
  <2>1. refs' = [refs EXCEPT ![id] = refs[id] \cup {child}] /\ Continue(c, Rest)
    BY <1>5 DEF Refer
  <2>. HIDE DEF id, child
  <2>2. refs \in [Ids -> SUBSET Referrers]
    BY DEF CatalogueInv, RowsInv, Typed
  <2>3. refs' \in [Ids -> SUBSET Referrers]
    BY <1>2, <1>5, <2>1, <2>2
  <2>4. ASSUME NEW i \in Ids, "bookings" \in refs'[i], table # "performances"
        PROVE  "performance_positions" \in refs'[i]
    BY <1>5, <2>1, <2>2, <2>4 DEF CatalogueInv, RowsInv, PositionsTaken, TakesPosition
  <2>. QED
    BY <1>1, <2>1, <2>3, <2>4, RefsWritten
<1>. QED
  BY <1>3, <1>4, <1>5

LEMMA UnreferStep ==
  ASSUME CatalogueInv, NEW c \in clients, Unrefer(c) PROVE CatalogueInv'
<1>1. UNCHANGED <<table, clients, rows, created>> /\ Continue(c, Rest)
  BY DEF Unrefer
<1>. DEFINE Left(id, child) ==
              {r \in refs[id] \ {child} : ~(TakesPosition(r) /\ child = "performance_positions")}
<1>2. PICK id \in Ids : \E child \in refs[id] \ Kept :
        refs' = [refs EXCEPT ![id] = Left(id, child)]
  BY DEF Unrefer
<1>6. PICK child \in refs[id] \ Kept : refs' = [refs EXCEPT ![id] = Left(id, child)]
  BY <1>2
<1>3. refs \in [Ids -> SUBSET Referrers]
  BY DEF CatalogueInv, RowsInv, Typed
<1>4. refs' \in [Ids -> SUBSET Referrers]
  BY <1>6, <1>3
<1>5. ASSUME NEW i \in Ids, "bookings" \in refs'[i], table # "performances"
      PROVE  "performance_positions" \in refs'[i]
  BY <1>6, <1>3, <1>5 DEF CatalogueInv, RowsInv, PositionsTaken, TakesPosition
<1>. QED
  BY <1>1, <1>4, <1>5, RefsWritten

-----------------------------------------------------------------------------
(* Clicks.                                                                 *)

LEMMA ResolveStep ==
  ASSUME CatalogueInv, NEW c \in clients, Resolve(c) PROVE CatalogueInv'
<1>1. UNCHANGED <<table, clients, rows, refs, created>>
  BY DEF Resolve, UnchangedButRequest
<1>2. PICK id \in Ids : Continue(c, [step |-> "hit", id |-> id, counter |-> rows[id].counter])
  BY DEF Resolve
<1>. DEFINE next == [step |-> "hit", id |-> id, counter |-> rows[id].counter]
<1>3. request'[c] = next
  BY <1>1, <1>2, OneGoes DEF CatalogueInv
<1>4. rows[id].counter \in Nat /\ rows[id].counter <= rows[id].hits /\ id \in 1..created
  BY RowsAre, FieldsAre DEF CatalogueInv, RowsInv, Counted
<1>5. CallOK(c)' /\ RefusedInTime(c)' /\ CallFresh(c)'
  BY <1>1, <1>3, <1>4 DEF CallOK, RefusedInTime, CallFresh, Ids
<1>6. next.step \notin {"order", "insert"} /\ Continue(c, next)
  BY <1>2
<1>. HIDE DEF next
<1>7. RoomLeft'
  BY <1>1, <1>6, RoomKept
<1>. QED
  BY <1>1, <1>5, <1>6, <1>7, StepReads

LEMMA RecordHitStep ==
  ASSUME CatalogueInv, NEW c \in clients, RecordHit(c) PROVE CatalogueInv'
<1>. DEFINE id == request[c].id
            old == rows[id]
            row == [name |-> old.name, scope |-> old.scope, order |-> old.order,
                    counter |-> request[c].counter + 1, hits |-> old.hits + 1]
<1>1. UNCHANGED <<table, clients, refs, created>> /\ request[c].step = "hit"
  BY DEF RecordHit, At
<1>2. /\ request[c].counter \in Nat /\ (id \in Ids => request[c].counter <= old.hits)
      /\ Alone => id \in Ids /\ request[c].counter = old.counter
  BY <1>1 DEF CatalogueInv, CallOK, CallFresh
<1>3. CASE id \notin Ids
  <2>1. Continue(c, Failed("hit", "stale", id)) /\ UNCHANGED rows
    BY <1>3 DEF RecordHit
  <2>2. Failed("hit", "stale", id).step = "failed"
    BY DEF Failed
  <2>. QED
    BY <1>1, <1>2, <1>3, <2>1, <2>2, StepEnds
<1>4. CASE id \in Ids
  <2>1. rows' = [rows EXCEPT ![id] = row] /\ Continue(c, Rest)
    BY <1>4 DEF RecordHit
  <2>2. /\ old.name \in Names /\ old.scope \in Service.scopes /\ old.order \in Orders
        /\ old.counter \in Nat /\ old.hits \in Nat
    BY <1>4, RowsAre, FieldsAre
  <2>3. row \in Row
    BY <1>2, <2>2 DEF Row
  <2>4. /\ row.name = old.name /\ row.scope = old.scope /\ row.order = old.order
        /\ row.counter = request[c].counter + 1 /\ row.hits = old.hits + 1
    OBVIOUS
  <2>. HIDE DEF row
  <2>5. row.counter \leq row.hits /\ old.hits \leq row.hits
    BY <1>2, <1>4, <2>2, <2>4
  <2>6. Service.unique =>
          \A i \in Ids \ {id} : ~(rows[i].name = row.name /\ rows[i].scope = row.scope)
    BY <1>4, <2>4 DEF CatalogueInv, RowsInv, UniqueKept
  <2>7. Alone => /\ \A i \in Ids \ {id} : Apart(rows[i], row)
                 /\ row.order = old.order /\ row.counter = row.hits
    BY <1>2, <1>4, <2>4 DEF CatalogueInv, Distinct, CountedAlone, Apart, Same, Sharp
  <2>8. rows[id].hits <= row.hits /\ (Alone => row.order = rows[id].order)
    BY <2>5, <2>7 DEF old
  <2>. QED
    BY <1>1, <1>4, <2>1, <2>3, <2>5, <2>6, <2>7, <2>8, RowWritten
<1>. QED
  BY <1>3, <1>4

-----------------------------------------------------------------------------
(* Moves.                                                                  *)

LEMMA PlacesAreNumbers ==
  ASSUME CatalogueInv
  PROVE  \A i \in Ids : /\ IsFiniteSet(Above(i)) /\ Cardinality(Above(i)) \in Nat
                        /\ Place(i) \in Nat /\ rows[i].order \in Nat
<1>. SUFFICES ASSUME NEW i \in Ids
              PROVE  /\ IsFiniteSet(Above(i)) /\ Cardinality(Above(i)) \in Nat
                     /\ Place(i) \in Nat /\ rows[i].order \in Nat
  OBVIOUS
<1>1. IsFiniteSet(Above(i))
  BY IdsFinite DEF Above, CatalogueInv, RowsInv
<1>2. Cardinality(Above(i)) \in Nat
  BY <1>1, FS_CardinalityType
<1>3. rows[i].order \in Nat
  BY RowsAre, FieldsAre
<1>. QED
  BY <1>1, <1>2, <1>3 DEF Place

LEMMA ReadListStep ==
  ASSUME CatalogueInv, NEW c \in clients, ReadList(c) PROVE CatalogueInv'
<1>1. UNCHANGED <<table, clients, rows, refs, created>> /\ Offers("move")
  BY DEF ReadList, UnchangedButRequest
<1>2. PICK i \in Ids, j \in Ids :
        /\ Place(j) - Place(i) \in {-1, 1}
        /\ Continue(c, [step |-> "swap", orders |-> Exchanged(i, j)])
  BY DEF ReadList
<1>. DEFINE next == [step |-> "swap", orders |-> Exchanged(i, j)]
<1>3. request'[c] = next /\ Continue(c, next)
  BY <1>1, <1>2, OneGoes DEF CatalogueInv
<1>4. table \in Ordered
  BY <1>1, RowsAre, ServiceKnown
<1>5. rows[i].order \in 1..created /\ rows[j].order \in 1..created
  BY <1>4, RowsAre, FieldsAre DEF Orders
<1>6. CallOK(c)'
  BY <1>1, <1>3, <1>4, <1>5 DEF CallOK, Exchanged
<1>7. Neighbours(i, j) \/ Neighbours(j, i)
  BY <1>2, PlacesAreNumbers DEF Neighbours
<1>8. i # j
  BY <1>2, PlacesAreNumbers
<1>9. Exchanged(i, j) = Exchanged(j, i)
  BY <1>8 DEF Exchanged
<1>10. PICK k \in Ids, l \in Ids : Neighbours(k, l) /\ next.orders = Exchanged(k, l)
  BY <1>7, <1>9
<1>11. Ids' = Ids /\ Neighbours(k, l)' /\ Exchanged(k, l)' = Exchanged(k, l)
  BY <1>1, <1>10 DEF Neighbours, Place, Above, Ids, Exchanged
<1>12. next.step = "swap"
  OBVIOUS
<1>. HIDE DEF next
<1>13. CallFresh(c)'
  BY <1>3, <1>10, <1>11, <1>12 DEF CallFresh
<1>14. RefusedInTime(c)' /\ RoomLeft'
  BY <1>1, <1>3, <1>12, RoomKept DEF RefusedInTime
<1>. QED
  BY <1>1, <1>3, <1>6, <1>13, <1>14, StepReads

\* What a swap does: the orders of the rows moved change, nothing else.
LEMMA Swapped ==
  ASSUME CatalogueInv, NEW c \in clients, Swap(c),
         ~(Cardinality({request[c].orders[i] : i \in DOMAIN request[c].orders}) = 1),
         DOMAIN request[c].orders \subseteq Ids
  PROVE  /\ Continue(c, Rest) /\ Ids' = Ids /\ rows' = [i \in Ids |-> rows'[i]]
         /\ \A i \in Ids :
              /\ rows'[i].order = IF i \in DOMAIN request[c].orders THEN request[c].orders[i]
                                                                  ELSE rows[i].order
              /\ rows'[i].name = rows[i].name /\ rows'[i].scope = rows[i].scope
              /\ rows'[i].counter = rows[i].counter /\ rows'[i].hits = rows[i].hits
              /\ rows'[i] \in Row
<1>. DEFINE orders == request[c].orders
            moved == DOMAIN orders
<1>1. /\ rows' = [i \in Ids |-> IF i \in moved THEN [rows[i] EXCEPT !.order = orders[i]]
                                              ELSE rows[i]]
      /\ Continue(c, Rest)
  BY DEF Swap
<1>2. table \in Ordered /\ \A i \in moved : orders[i] \in 1..created
  BY DEF Swap, At, CatalogueInv, CallOK
<1>3. \A i \in Ids : rows[i] \in Row
  BY RowsAre
<1>. HIDE DEF orders
<1>4. Ids' = Ids /\ rows' = [i \in Ids |-> rows'[i]]
  BY <1>1 DEF Ids
<1>5. ASSUME NEW i \in Ids
      PROVE  /\ rows'[i].order = IF i \in moved THEN orders[i] ELSE rows[i].order
             /\ rows'[i].name = rows[i].name /\ rows'[i].scope = rows[i].scope
             /\ rows'[i].counter = rows[i].counter /\ rows'[i].hits = rows[i].hits
             /\ rows'[i] \in Row
  <2>1. CASE i \in moved
    <3>1. rows'[i] = [rows[i] EXCEPT !.order = orders[i]]
      BY <1>1, <2>1
    <3>. QED
      BY <1>2, <1>3, <2>1, <3>1 DEF Row, Orders
  <2>2. CASE i \notin moved
    BY <1>1, <1>3, <2>2
  <2>. QED
    BY <2>1, <2>2
<1>. QED
  BY <1>1, <1>4, <1>5 DEF orders

LEMMA SwapStep ==
  ASSUME CatalogueInv, NEW c \in clients, Swap(c) PROVE CatalogueInv'
<1>. DEFINE orders == request[c].orders
            moved == DOMAIN orders
<1>1. UNCHANGED <<table, clients, refs, created>> /\ request[c].step = "swap"
  BY DEF Swap, At
<1>2. CASE Cardinality({orders[i] : i \in moved}) = 1
  <2>1. Continue(c, Rest) /\ UNCHANGED rows
    BY <1>2 DEF Swap
  <2>2. request'[c] = Rest /\ Rest.step = "rest"
    BY <1>1, <2>1, OneGoes DEF CatalogueInv, Rest
  <2>3. RefusedInTime(c)'
    BY <2>2 DEF RefusedInTime
  <2>. QED
    BY <1>1, <2>1, <2>2, <2>3, StepEnds
<1>3. CASE ~(Cardinality({orders[i] : i \in moved}) = 1) /\ ~(moved \subseteq Ids)
  <2>1. Continue(c, Failed("move", "stale", Min(moved))) /\ UNCHANGED rows
    BY <1>3 DEF Swap
  <2>2. Failed("move", "stale", Min(moved)).step = "failed"
    BY DEF Failed
  <2>3. ~Alone
    <3>1. SUFFICES ASSUME Alone PROVE FALSE
      OBVIOUS
    <3>2. PICK a \in Ids, b \in Ids : orders = Exchanged(a, b)
      BY <1>1, <3>1 DEF CatalogueInv, CallFresh
    <3>3. moved = {a, b}
      BY <3>2 DEF Exchanged
    <3>. QED
      BY <1>3, <3>3
  <2>. QED
    BY <1>1, <2>1, <2>2, <2>3, StepEnds
<1>4. CASE ~(Cardinality({orders[i] : i \in moved}) = 1) /\ moved \subseteq Ids
  <2>1. /\ Continue(c, Rest) /\ Ids' = Ids /\ rows' = [i \in Ids |-> rows'[i]]
        /\ \A i \in Ids :
             /\ rows'[i].order = IF i \in moved THEN orders[i] ELSE rows[i].order
             /\ rows'[i].name = rows[i].name /\ rows'[i].scope = rows[i].scope
             /\ rows'[i].counter = rows[i].counter /\ rows'[i].hits = rows[i].hits
             /\ rows'[i] \in Row
    BY <1>4, Swapped
  <2>2. Service' = Service /\ Referrers' = Referrers /\ Row' = Row
    BY <1>1, TableStays DEF Row, Orders
  <2>3. Typed /\ UniqueKept /\ PositionsTaken /\ Counted
    BY DEF CatalogueInv, RowsInv
  <2>4. Typed'
    BY <1>1, <2>1, <2>2, <2>3 DEF Typed
  <2>5. UniqueKept' /\ PositionsTaken' /\ Counted'
    BY <1>1, <2>1, <2>2, <2>3 DEF UniqueKept, PositionsTaken, Counted
  <2>6. Alone => CountedAlone'
    BY <2>1 DEF CatalogueInv, CountedAlone
  <2>7. Alone => Distinct'
    <3>1. SUFFICES ASSUME Alone PROVE Distinct'
      OBVIOUS
    <3>2. Distinct /\ CallFresh(c)
      BY <3>1 DEF CatalogueInv
    <3>3. PICK a \in Ids, b \in Ids : orders = Exchanged(a, b)
      BY <1>1, <3>2 DEF CallFresh
    <3>4. /\ moved = {a, b} /\ orders[a] = rows[b].order /\ orders[b] = rows[a].order
      BY <3>3 DEF Exchanged
    <3>. HIDE DEF orders
    <3>5. ASSUME NEW i \in Ids, NEW j \in Ids, i # j
          PROVE  Apart(rows[i], rows[j])'
      BY <1>1, <2>1, <2>2, <3>2, <3>5 DEF Distinct, Apart, Same, Sharp
    <3>6. ASSUME NEW i \in Ids, NEW j \in Ids, i # j, table \in Ordered
          PROVE  rows'[i].order # rows'[j].order
      BY <2>1, <3>2, <3>4, <3>6 DEF Distinct
    <3>. QED
      BY <1>1, <2>1, <3>5, <3>6 DEF Distinct
  <2>8. request'[c] = Rest
    BY <1>1, <2>1, OneGoes DEF CatalogueInv
  <2>9. CallOK(c)' /\ CallFresh(c)' /\ RefusedInTime(c)'
    BY <2>8 DEF CallOK, CallFresh, RefusedInTime, Rest
  <2>10. Rest.step \notin {"order", "insert"}
    BY DEF Rest
  <2>11. RoomLeft'
    BY <1>1, <2>1, <2>10, RoomKept
  <2>12. /\ created \leq created' /\ Ids' \cap 1..created \subseteq Ids
         /\ \A i \in Ids \cap Ids' : rows[i].hits \leq rows'[i].hits
    BY <1>1, <2>1, <2>3 DEF Row, Typed
  <2>13. RowsInv'
    BY <2>4, <2>5 DEF RowsInv
  <2>. QED
    BY <1>1, <2>1, <2>6, <2>7, <2>9, <2>11, <2>12, <2>13, StepGoes
<1>. QED
  BY <1>2, <1>3, <1>4

-----------------------------------------------------------------------------
(* The theorems.                                                           *)

LEMMA InitHolds ==
  ASSUME Init PROVE CatalogueInv
<1>1. /\ table \in Tables /\ clients \in {{1}, {1, 2}} /\ rows = [i \in {} |-> 0]
      /\ refs = [i \in {} |-> {}] /\ created = 0 /\ request = [c \in clients |-> Rest]
  BY DEF Init
<1>2. RequestsOK
  BY <1>1 DEF RequestsOK
<1>3. Ids = {}
  BY <1>1 DEF Ids
<1>4. RowsInv
  BY <1>1, <1>3 DEF RowsInv, Typed, UniqueKept, PositionsTaken, Counted
<1>5. RoomLeft
  <2>1. Creating = {}
    BY <1>1 DEF Creating, Rest
  <2>2. Cardinality(Creating) = 0
    BY <2>1, FS_EmptySet
  <2>3. Bound(MaxRows) \in Nat
    BY <1>2, ClientsAreFew, CatalogueAssumption DEF Bound
  <2>. QED
    BY <1>1, <2>2, <2>3 DEF RoomLeft
<1>6. \A c \in clients : request[c].step = "rest"
  BY <1>1 DEF Rest
<1>7. \A c \in clients : CallOK(c) /\ CallFresh(c)
  BY <1>6 DEF CallOK, CallFresh
<1>8. AloneRefusedInTime /\ Distinct /\ CountedAlone
  BY <1>3, <1>6 DEF AloneRefusedInTime, Distinct, CountedAlone
<1>. QED
  BY <1>2, <1>4, <1>5, <1>7, <1>8 DEF CatalogueInv

LEMMA NextHolds ==
  ASSUME CatalogueInv, Next PROVE CatalogueInv'
<1>1. PICK c \in {1, 2} :
        \/ CheckCreate(c) \/ ReadOrder(c) \/ Insert(c)
        \/ CheckUpdate(c) \/ Update(c)
        \/ CheckDelete(c) \/ Delete(c)
        \/ ReadList(c) \/ Swap(c)
        \/ CheckReferred(c) \/ Refer(c) \/ Unrefer(c)
        \/ Resolve(c) \/ RecordHit(c)
  BY DEF Next
<1>2. c \in clients
  BY <1>1 DEF CheckCreate, ReadOrder, Insert, CheckUpdate, Update, CheckDelete, Delete, ReadList,
              Swap, CheckReferred, Refer, Unrefer, Resolve, RecordHit, Idle, At
<1>3. CASE CheckCreate(c) \/ ReadOrder(c) \/ Insert(c)
  BY <1>2, <1>3, CheckCreateStep, ReadOrderStep, InsertStep
<1>4. CASE CheckUpdate(c) \/ Update(c)
  BY <1>2, <1>4, CheckUpdateStep, UpdateStep
<1>5. CASE CheckDelete(c) \/ Delete(c)
  BY <1>2, <1>5, CheckDeleteStep, DeleteStep
<1>6. CASE ReadList(c) \/ Swap(c)
  BY <1>2, <1>6, ReadListStep, SwapStep
<1>7. CASE CheckReferred(c) \/ Refer(c) \/ Unrefer(c)
  BY <1>2, <1>7, CheckReferredStep, ReferStep, UnreferStep
<1>8. CASE Resolve(c) \/ RecordHit(c)
  BY <1>2, <1>8, ResolveStep, RecordHitStep
<1>. QED
  BY <1>1, <1>3, <1>4, <1>5, <1>6, <1>7, <1>8

LEMMA StutterHolds ==
  ASSUME CatalogueInv, UNCHANGED vars PROVE CatalogueInv'
<1>1. UNCHANGED <<table, clients, rows, refs, created>> /\ request' = request
  BY DEF vars
<1>2. RowsInv' /\ Distinct' = Distinct /\ CountedAlone' = CountedAlone
  BY <1>1, RowsStay DEF CatalogueInv
<1>3. /\ Service' = Service /\ Names' = Names /\ Referrers' = Referrers /\ Ids' = Ids
      /\ Alone' = Alone /\ RequestsOK'
  BY <1>1, TableStays DEF Ids, Alone, RequestsOK, CatalogueInv
<1>4. ASSUME NEW c \in clients PROVE CallOK(c)'
  BY <1>1, <1>3 DEF CatalogueInv, CallOK
<1>5. ASSUME NEW c \in clients, Alone PROVE CallFresh(c)'
  <2>1. CallFresh(c)
    BY <1>5 DEF CatalogueInv
  <2>2. ASSUME request[c].step = "swap"
        PROVE  \E i, j \in Ids : Neighbours(i, j)' /\ request[c].orders = Exchanged(i, j)'
    <3>1. PICK i \in Ids, j \in Ids : Neighbours(i, j) /\ request[c].orders = Exchanged(i, j)
      BY <2>1, <2>2 DEF CallFresh
    <3>2. Neighbours(i, j)' /\ Exchanged(i, j)' = Exchanged(i, j)
      BY <1>1, <1>3, <3>1 DEF Neighbours, Place, Above, Exchanged
    <3>. QED
      BY <3>1, <3>2
  <2>. QED
    BY <1>1, <1>3, <2>1, <2>2 DEF CallFresh, Apart, Same, Sharp, Written
<1>6. RoomLeft' /\ AloneRefusedInTime'
  BY <1>1, <1>3 DEF CatalogueInv, RoomLeft, Creating, Bound, AloneRefusedInTime,
                       Misspelled
<1>. QED
  BY <1>1, <1>2, <1>3, <1>4, <1>5, <1>6 DEF CatalogueInv

\* The invariant is inductive, for any bounds.
THEOREM CatalogueInductive == Spec => []CatalogueInv
BY InitHolds, NextHolds, StutterHolds, PTL DEF Spec

LEMMA InvChecks ==
  ASSUME CatalogueInv PROVE ChecksHold /\ ClicksCounted
<1>1. /\ table \in Tables /\ created \in Nat /\ Ids \subseteq 1..created
      /\ \A i \in Ids : rows[i] \in Row /\ refs[i] \subseteq Referrers
      /\ DOMAIN refs = Ids
  BY RowsAre
<1>2. created <= Bound(MaxRows) /\ Bound(MaxRows) \in Nat
  <2>1. Creating \in SUBSET clients
    BY DEF Creating
  <2>2. Cardinality(Creating) \in Nat
    BY <2>1, ClientsAreFew, FS_Subset, FS_CardinalityType DEF CatalogueInv
  <2>3. Bound(MaxRows) \in Nat
    BY ClientsAreFew, CatalogueAssumption DEF Bound, CatalogueInv
  <2>. QED
    BY <1>1, <2>2, <2>3 DEF CatalogueInv, RoomLeft
<1>3. TypeOK
  <2>1. ASSUME NEW i \in Ids
        PROVE  /\ rows[i].name \in {Service.stored[s] : s \in Service.sent}
               /\ rows[i].scope \in Service.scopes
               /\ rows[i].order \in IF table \in Ordered THEN 1..Bound(MaxRows) ELSE {0}
    BY <1>1, <1>2, FieldsAre DEF Names, Orders
  <2>2. DOMAIN request = clients
    BY DEF CatalogueInv, RequestsOK
  <2>. QED
    BY <1>1, <1>2, <2>1, <2>2 DEF TypeOK
<1>4. AloneDistinct
  <2>1. SUFFICES ASSUME Alone, NEW i \in Ids, NEW j \in Ids, i # j, Same(rows[i], rows[j])
                 PROVE  Misspelled(i) /\ rows[i].scope # rows[j].scope
    BY DEF CatalogueInv, AloneDistinct, Distinct, Same
  <2>2. Sharp(rows[i]) \/ Sharp(rows[j])
    BY <2>1 DEF CatalogueInv, Distinct, Apart
  <2>3. rows[i].name \in Names /\ rows[j].name \in Names
    BY <1>1, FieldsAre
  <2>4. table = "artists" /\ Service.unique /\ rows[i].name = rows[j].name
    BY <1>1, <2>1, <2>2, <2>3, ServiceKnown DEF Sharp, Same
  <2>. QED
    BY <2>1, <2>2, <2>4 DEF CatalogueInv, RowsInv, UniqueKept, Misspelled, Sharp
<1>5. LookupsUnambiguous
  <2>1. SUFFICES ASSUME table \notin Coarser, NEW sent, NEW scope
                 PROVE  Cardinality(Found(sent, scope, {})) <= 1
    BY DEF LookupsUnambiguous, Coarser
  <2>2. \A i, j \in Found(sent, scope, {}) : i = j
    <3>1. SUFFICES ASSUME NEW i \in Ids, NEW j \in Ids,
                          Service.likeness[rows[i].scope] = Service.likeness[rows[j].scope],
                          Service.sameness[rows[i].name] = Service.sameness[rows[j].name]
                   PROVE  i = j
      BY DEF Found
    <3>2. /\ rows[i].name \in Names /\ rows[j].name \in Names
          /\ rows[i].scope \in Service.scopes /\ rows[j].scope \in Service.scopes
      BY <1>1, FieldsAre
    <3>3. rows[i].name = rows[j].name /\ rows[i].scope = rows[j].scope /\ Service.unique
      BY <1>1, <2>1, <3>1, <3>2, ServiceKnown
    <3>. QED
      BY <3>1, <3>3 DEF CatalogueInv, RowsInv, UniqueKept
  <2>3. IsFiniteSet(Found(sent, scope, {}))
    BY IdsFinite DEF Found, CatalogueInv, RowsInv
  <2>. QED
    BY <2>2, <2>3, AtMostOne
<1>6. ClicksCounted
  BY DEF CatalogueInv, RowsInv, Counted, CountedAlone, ClicksCounted
<1>. QED
  BY <1>3, <1>4, <1>5, <1>6 DEF ChecksHold, CatalogueInv

\* The services' checks foresee what the database would refuse: while nothing
\* interferes, rows stay distinct and a request is refused by its service, not
\* by the database, artists apart whose surname may be spelled with a sharp s;
\* whatever interferes, lookups by name stay unambiguous in the tables whose
\* constraint tells apart what the check does, that is all but artists, works,
\* scores and performances (_validate and the deletion guards of the
\* catalogue's services).
THEOREM ChecksDo == Spec => []ChecksHold
BY CatalogueInductive, InvChecks, PTL

\* The counter of a short link never exceeds the clicks made, and misses none
\* while they come one by one (shorturl_service.resolve_and_record_hit).
THEOREM ClicksAreCounted == Spec => []ClicksCounted
BY CatalogueInductive, InvChecks, PTL

\* A row goes only by Delete, and only when no key holds it.
LEMMA GoneRowWasFree ==
  ASSUME CatalogueInv, Next, NEW i \in Ids, i \notin Ids'
  PROVE  refs[i] \subseteq Parts(table)
<1>1. PICK c \in {1, 2} :
        \/ CheckCreate(c) \/ ReadOrder(c) \/ Insert(c)
        \/ CheckUpdate(c) \/ Update(c)
        \/ CheckDelete(c) \/ Delete(c)
        \/ ReadList(c) \/ Swap(c)
        \/ CheckReferred(c) \/ Refer(c) \/ Unrefer(c)
        \/ Resolve(c) \/ RecordHit(c)
  BY DEF Next
<1>2. rows' # rows
  BY DEF Ids
<1>3. ~Insert(c)
  BY DEF Insert, Ids
<1>4. ~Update(c) /\ ~RecordHit(c)
  BY DEF Update, RecordHit, Ids
<1>5. ~Swap(c)
  BY DEF Swap, Ids
<1>6. Delete(c)
  BY <1>1, <1>2, <1>3, <1>4, <1>5 DEF CheckCreate, ReadOrder, CheckUpdate, CheckDelete, ReadList,
       CheckReferred, Refer, Unrefer, Resolve, UnchangedButRequest
<1>7. i = request[c].id /\ ~(refs[i] \cap Referring({"RESTRICT"}) # {})
  BY <1>2, <1>6 DEF Delete, Ids
<1>. QED
  BY <1>7, RowsAre, ReferrersArePartsOrHold

\* However a deletion races with requests that refer to the row, what goes
\* with it or loses it is one of the row's parts: the keys of every other
\* table hold it (ON DELETE RESTRICT in app/db/models).
THEOREM DeletionsTakeParts == Spec => DeletionTakesParts
<1>1. ASSUME CatalogueInv, [Next]_vars
      PROVE  [\A i \in Ids : i \notin Ids' =>
               refs[i] \subseteq
                 (CASE table = "ordinariumworks" -> {"ordinariumwork_positions"}
                    [] table = "performances" -> {"performance_positions", "performance_proprium",
                                                  "performance_rehearsals", "booking_logs"}
                    [] OTHER -> {})]_vars
  BY <1>1, GoneRowWasFree DEF Parts
<1>. QED
  BY <1>1, CatalogueInductive, PTL DEF Spec, DeletionTakesParts

-----------------------------------------------------------------------------
(* The order of the list.                                                  *)

LEMMA AboveIs ==
  ASSUME CatalogueInv, Alone, table \in Ordered, NEW k \in Ids
  PROVE  Above(k) = {l \in Ids : rows[l].order < rows[k].order}
<1>1. \A l \in Ids \ {k} : rows[l].order # rows[k].order
  BY DEF CatalogueInv, Distinct
<1>2. \A l \in Ids : rows[l].order \in Nat /\ l \in Nat
  BY RowsAre, PlacesAreNumbers
<1>. QED
  BY <1>1, <1>2 DEF Above

\* Between two neighbours there is none.
LEMMA NeighboursTouch ==
  ASSUME CatalogueInv, Alone, table \in Ordered, NEW i, NEW j, Neighbours(i, j)
  PROVE  /\ i # j /\ rows[i].order < rows[j].order
         /\ i \notin Above(i) /\ Above(j) = Above(i) \cup {i}
<1>1. i \in Ids /\ j \in Ids /\ Place(j) = Place(i) + 1
  BY DEF Neighbours
<1>2. /\ IsFiniteSet(Above(i)) /\ IsFiniteSet(Above(j))
      /\ Cardinality(Above(i)) \in Nat /\ Cardinality(Above(j)) \in Nat
      /\ rows[i].order \in Nat /\ rows[j].order \in Nat
      /\ \A l \in Ids : rows[l].order \in Nat
  BY <1>1, PlacesAreNumbers
<1>3. Cardinality(Above(j)) = Cardinality(Above(i)) + 1
  BY <1>1, <1>2 DEF Place
<1>4. i # j
  BY <1>2, <1>3
<1>5. /\ Above(i) = {l \in Ids : rows[l].order < rows[i].order}
      /\ Above(j) = {l \in Ids : rows[l].order < rows[j].order}
  BY <1>1, AboveIs
<1>6. rows[i].order # rows[j].order
  BY <1>1, <1>4 DEF CatalogueInv, Distinct
<1>7. ~(rows[j].order < rows[i].order)
  <2>1. SUFFICES ASSUME rows[j].order < rows[i].order PROVE FALSE
    OBVIOUS
  <2>2. Above(j) \in SUBSET Above(i)
    BY <1>2, <1>5, <2>1
  <2>3. Cardinality(Above(j)) <= Cardinality(Above(i))
    BY <1>2, <2>2, FS_Subset
  <2>. QED
    BY <1>2, <1>3, <2>3
<1>8. rows[i].order < rows[j].order
  BY <1>2, <1>6, <1>7
<1>9. i \notin Above(i)
  BY <1>2, <1>5
<1>10. Above(i) \cup {i} \in SUBSET Above(j)
  BY <1>1, <1>2, <1>5, <1>8
<1>11. Cardinality(Above(i) \cup {i}) = Cardinality(Above(i)) + 1
  BY <1>2, <1>9, FS_AddElement
<1>12. Above(j) = Above(i) \cup {i}
  BY <1>2, <1>3, <1>10, <1>11, FS_Subset
<1>. QED
  BY <1>4, <1>8, <1>9, <1>12

\* A move alone: the two neighbours change places, the others keep theirs.
LEMMA NeighboursSwap ==
  ASSUME CatalogueInv, CatalogueInv', Alone, NEW c \in clients, Swap(c),
         NEW i, NEW j, Neighbours(i, j), request[c].orders = Exchanged(i, j)
  PROVE  /\ Place(i)' = Place(j) /\ Place(j)' = Place(i)
         /\ \A k \in Ids \ {i, j} : Place(k)' = Place(k)
<1>1. i \in Ids /\ j \in Ids
  BY DEF Neighbours
<1>2. table \in Ordered /\ UNCHANGED <<table, clients>>
  BY DEF Swap, At, CatalogueInv, CallOK
<1>3. /\ i # j /\ rows[i].order < rows[j].order
      /\ i \notin Above(i) /\ Above(j) = Above(i) \cup {i}
  BY <1>2, NeighboursTouch
<1>4. /\ \A k \in Ids : Above(k) = {l \in Ids : rows[l].order < rows[k].order}
      /\ \A k \in Ids : IsFiniteSet(Above(k)) /\ rows[k].order \in Nat /\ k \in Nat
      /\ \A k, l \in Ids : k # l => rows[k].order # rows[l].order
  BY <1>2, AboveIs, PlacesAreNumbers, RowsAre DEF CatalogueInv, Distinct
<1>. DEFINE orders == request[c].orders
<1>5. DOMAIN orders = {i, j} /\ orders[i] = rows[j].order /\ orders[j] = rows[i].order
  BY <1>3 DEF Exchanged
<1>6. ~(Cardinality({orders[k] : k \in DOMAIN orders}) = 1)
  <2>1. {orders[k] : k \in DOMAIN orders} = {rows[i].order, rows[j].order}
    BY <1>5
  <2>2. rows[i].order \notin {rows[j].order}
    BY <1>1, <1>3, <1>4
  <2>3. IsFiniteSet({rows[j].order}) /\ Cardinality({rows[j].order}) = 1
    BY FS_Singleton
  <2>4. Cardinality({rows[j].order} \cup {rows[i].order}) = 2
    <3>. DEFINE S == {rows[j].order}
                x == rows[i].order
    <3>1. IsFiniteSet(S) /\ Cardinality(S) = 1 /\ x \notin S
      BY <2>2, <2>3
    <3>. HIDE DEF S, x
    <3>2. Cardinality(S \cup {x}) = 2
      BY <3>1, FS_AddElement
    <3>. QED
      BY <3>2 DEF S, x
  <2>5. {rows[j].order} \cup {rows[i].order} = {rows[i].order, rows[j].order}
    OBVIOUS
  <2>. QED
    BY <2>1, <2>4, <2>5
<1>7. Ids' = Ids
      /\ \A k \in Ids : rows'[k].order = IF k = i THEN rows[j].order
                                        ELSE IF k = j THEN rows[i].order ELSE rows[k].order
  <2>1. DOMAIN orders \subseteq Ids
    BY <1>1, <1>5
  <2>. QED
    BY <1>5, <1>6, <2>1, Swapped
<1>. HIDE DEF orders
<1>8. ASSUME NEW k \in Ids PROVE Above(k)' = {l \in Ids : rows'[l].order < rows'[k].order}
  <2>1. \A l \in Ids \ {k} : rows'[l].order # rows'[k].order
    BY <1>1, <1>4, <1>7, <1>8
  <2>2. \A l \in Ids : rows'[l].order \in Nat /\ l \in Nat
    BY <1>1, <1>4, <1>7
  <2>. QED
    BY <1>7, <1>8, <2>1, <2>2 DEF Above
<1>9. Above(i)' = Above(i) \cup {j}
  <2>1. ASSUME NEW l \in Ids
        PROVE  rows'[l].order < rows'[i].order <=> l \in Above(i) \cup {j}
    <3>1. l \in Above(j) <=> rows[l].order < rows[j].order
      BY <1>1, <1>4
    <3>. QED
      BY <1>1, <1>3, <1>4, <1>7, <3>1
  <2>2. Above(i) \cup {j} \subseteq Ids
    BY <1>1, <1>4
  <2>. QED
    BY <1>1, <1>8, <2>1, <2>2
<1>10. Above(j)' = Above(i)
  <2>1. ASSUME NEW l \in Ids
        PROVE  rows'[l].order < rows'[j].order <=> l \in Above(i)
    BY <1>1, <1>3, <1>4, <1>7
  <2>2. Above(i) \subseteq Ids
    BY <1>1, <1>4
  <2>. QED
    BY <1>1, <1>8, <2>1, <2>2
<1>11. ASSUME NEW k \in Ids \ {i, j} PROVE Above(k)' = Above(k)
  <2>1. i \in Above(k) <=> j \in Above(k)
    <3>1. k \notin Above(j) \/ k \in Above(i)
      BY <1>3, <1>11
    <3>2. rows[k].order < rows[j].order => rows[k].order < rows[i].order
      BY <1>1, <1>4, <3>1
    <3>. QED
      BY <1>1, <1>3, <1>4, <3>2
  <2>2. ASSUME NEW l \in Ids
        PROVE  rows'[l].order < rows'[k].order <=> l \in Above(k)
    BY <1>1, <1>3, <1>4, <1>7, <1>11, <2>1
  <2>3. Above(k) \subseteq Ids
    BY <1>4
  <2>. QED
    BY <1>8, <2>2, <2>3
<1>12. Cardinality(Above(i) \cup {j}) = Cardinality(Above(i) \cup {i})
  <2>1. j \notin Above(i)
    BY <1>1, <1>3, <1>4
  <2>2. IsFiniteSet(Above(i))
    BY <1>1, <1>4
  <2>. QED
    BY <1>3, <2>1, <2>2, FS_AddElement
<1>13. Place(i)' = Place(j)
  BY <1>3, <1>9, <1>12 DEF Place
<1>14. Place(j)' = Place(i)
  BY <1>10 DEF Place
<1>15. \A k \in Ids \ {i, j} : Place(k)' = Place(k)
  BY <1>11 DEF Place
<1>. QED
  BY <1>13, <1>14, <1>15

LEMMA SwapMovesByOne ==
  ASSUME CatalogueInv, Next, NEW c \in clients, Alone, request[c].step = "swap"
  PROVE  \E i, j \in Ids :
           /\ Place(j) = Place(i) + 1
           /\ Place(i)' = Place(j) /\ Place(j)' = Place(i)
           /\ \A k \in Ids \ {i, j} : Place(k)' = Place(k)
<1>1. clients = {c}
  BY ClientsAreFew DEF CatalogueInv
<1>2. Swap(c)
  <2>1. \A d \in {1, 2} : d \notin clients \/ request[d].step = "swap"
    BY <1>1
  <2>2. \A d \in {1, 2} : ~Idle(d) /\ \A step : At(d, step) => step = "swap"
    BY <2>1 DEF Idle, At
  <2>3. PICK d \in {1, 2} :
          \/ CheckCreate(d) \/ ReadOrder(d) \/ Insert(d)
          \/ CheckUpdate(d) \/ Update(d)
          \/ CheckDelete(d) \/ Delete(d)
          \/ ReadList(d) \/ Swap(d)
          \/ CheckReferred(d) \/ Refer(d) \/ Unrefer(d)
          \/ Resolve(d) \/ RecordHit(d)
    BY DEF Next
  <2>5. /\ ~CheckCreate(d) /\ ~CheckUpdate(d) /\ ~CheckDelete(d) /\ ~ReadList(d)
        /\ ~CheckReferred(d) /\ ~Unrefer(d) /\ ~Resolve(d)
    BY <2>2, Zenon DEF CheckCreate, CheckUpdate, CheckDelete, ReadList, CheckReferred, Unrefer,
                       Resolve
  <2>6. ~ReadOrder(d) /\ ~Insert(d) /\ ~Update(d) /\ ~Delete(d) /\ ~Refer(d) /\ ~RecordHit(d)
    BY <2>2, Zenon DEF ReadOrder, Insert, Update, Delete, Refer, RecordHit
  <2>7. Swap(d)
    BY <2>3, <2>5, <2>6
  <2>4. d \in clients
    BY <2>7 DEF Swap, At
  <2>. QED
    BY <1>1, <2>4, <2>7
<1>3. PICK i \in Ids, j \in Ids : Neighbours(i, j) /\ request[c].orders = Exchanged(i, j)
  BY DEF CatalogueInv, CallFresh
<1>4. CatalogueInv'
  BY NextHolds
<1>. QED
  BY <1>2, <1>3, <1>4, NeighboursSwap DEF Neighbours

\* A move without interference exchanges two neighbours of the list and
\* leaves every other element at its place (move_coreelement).
THEOREM MovesGoByOne == Spec => MovesByOne
<1>1. ASSUME CatalogueInv, [Next]_vars
      PROVE  [\A c \in clients : Alone /\ request[c].step = "swap" =>
               \E i, j \in Ids :
                 /\ Place(j) = Place(i) + 1
                 /\ Place(i)' = Place(j) /\ Place(j)' = Place(i)
                 /\ \A k \in Ids \ {i, j} : Place(k)' = Place(k)]_vars
  BY <1>1, SwapMovesByOne
<1>. QED
  BY <1>1, CatalogueInductive, PTL DEF Spec, MovesByOne
=============================================================================
