---------------------------- MODULE MigrationKeys ----------------------------
(***************************************************************************)
(* The foreign keys as the migrations in alembic/versions list them, each  *)
(* list written by hand in its own migration.  Nothing in the code makes   *)
(* them agree with one another or with the models (ForeignKeys).           *)
(***************************************************************************)
EXTENDS ForeignKeys

Columns(table, columns) == {<<table, c>> : c \in columns}

-----------------------------------------------------------------------------
(* 6e1829d5f417, schema_baseline: the columns that are NOT NULL.  Only     *)
(* user_roles has keys, without a rule; positions are a type and a number. *)

BaselineBookings ==
  UNION {Columns(t, {"performance_id", "user_id"}) :
           t \in {"bookings", "booking_requests", "booking_logs"}}

BaselineWorks ==
  Columns("oauth2_bindings", {"local_id"})
    \cup Columns("ordinariumwork_positions", {"ordinariumwork_id"})
    \cup Columns("ordinariumworks", {"artist_id"})

BaselinePerformances ==
  Columns("performances", {"location_id", "ordinariumwork_id"})
    \cup Columns("performance_positions", {"performance_id"})
    \cup Columns("performance_proprium", {"performance_id", "propriumelement_id", "propriumwork_id"})
    \cup Columns("performance_rehearsals", {"performance_id"})
    \cup Columns("personal_access_tokens", {"user_id"})   \* still tokenable_id
    \cup Columns("propriumworks", {"artist_id"})

BaselineUsers ==
  Columns("user_positions", {"user_id"}) \cup Columns("user_roles", {"user_id", "role_id"})

BaselineKeys == Keys("user_roles", "NO ACTION", [user_id |-> "users", role_id |-> "roles"])

-----------------------------------------------------------------------------
(* The migrations that add keys one kind at a time.                        *)

\* 1319fb6d1fac
RestrictKeys ==
  UNION {Keys("bookings", "RESTRICT", [performance_id |-> "performances", user_id |-> "users"]),
         Keys("booking_requests", "RESTRICT", [performance_id |-> "performances"]),
         Keys("performance_proprium", "RESTRICT", [propriumelement_id |-> "propriumelements",
                                                   propriumwork_id |-> "propriumworks"]),
         Keys("performances", "RESTRICT", [location_id |-> "locations",
                ordinariumwork_id |-> "ordinariumworks", artist_id |-> "artists"]),
         Keys("ordinariumworks", "RESTRICT", [artist_id |-> "artists"]),
         Keys("propriumworks", "RESTRICT", [artist_id |-> "artists"])}

\* 9895db228a15
SetNullKeys ==
  Keys("booking_logs", "SET NULL", [performance_id |-> "performances", user_id |-> "users"])
    \cup Keys("request_logs", "SET NULL", [client_user_agent_id |-> "client_user_agents",
                                           user_id |-> "users"])

NullablePrep == Columns("booking_logs", {"performance_id", "user_id"})

OrphanCleanup == Columns("booking_logs", {"performance_id", "user_id"})

\* 81159257db39
CascadeKeys ==
  (UNION {Keys(t, "CASCADE", [performance_id |-> "performances"]) :
            t \in {"performance_positions", "performance_proprium", "performance_rehearsals"}})
    \cup (UNION {Keys(t, "CASCADE", [user_id |-> "users"]) :
            t \in {"booking_requests", "user_positions"}})
    \cup Keys("oauth2_bindings", "CASCADE", [local_id |-> "users"])
    \cup Keys("ordinariumwork_positions", "CASCADE", [ordinariumwork_id |-> "ordinariumworks"])

OrphanDeletion == Columns("ordinariumwork_positions", {"ordinariumwork_id"})

\* 486c6e00cbd4
UserRoleKeys ==
  Keys("user_roles", "CASCADE", [user_id |-> "users"])
    \cup Keys("user_roles", "RESTRICT", [role_id |-> "roles"])

\* 7f5f0d1ca83e
PositionKeys ==
  (UNION {Keys(t, "RESTRICT", Positions) :
            t \in {"bookings", "booking_logs", "performance_positions", "user_positions"}})
    \cup Keys("ordinariumwork_positions", "RESTRICT", TwoPositions)

\* 372cab77ea9b
TokenKeys == Keys("personal_access_tokens", "CASCADE", [user_id |-> "users"])

-----------------------------------------------------------------------------
(* b70c44b3cf7b, the cutover to UUIDs: every key at once, with what is NOT *)
(* NULL and what is unique.                                                *)

CutoverKeys ==
  UNION {
    Keys("booking_logs", "SET NULL", [performance_id |-> "performances", user_id |-> "users"]),
    Keys("booking_logs", "RESTRICT", Positions),
    Keys("booking_requests", "RESTRICT", [performance_id |-> "performances"]),
    Keys("booking_requests", "CASCADE", [user_id |-> "users"]),
    Keys("bookings", "RESTRICT", Positions),
    Keys("bookings", "RESTRICT", [performance_id |-> "performances", user_id |-> "users"]),
    Keys("oauth2_bindings", "CASCADE", [local_id |-> "users"]),
    Keys("ordinariumwork_positions", "CASCADE", [ordinariumwork_id |-> "ordinariumworks"]),
    Keys("ordinariumwork_positions", "RESTRICT", TwoPositions),
    Keys("ordinariumworks", "RESTRICT", [artist_id |-> "artists"]),
    Keys("performance_positions", "CASCADE", [performance_id |-> "performances"]),
    Keys("performance_positions", "RESTRICT", Positions),
    Keys("performance_proprium", "CASCADE", [performance_id |-> "performances"]),
    Keys("performance_proprium", "RESTRICT", [propriumelement_id |-> "propriumelements",
                                              propriumwork_id |-> "propriumworks"]),
    Keys("performance_rehearsals", "CASCADE", [performance_id |-> "performances"]),
    Keys("performances", "RESTRICT", [location_id |-> "locations",
           ordinariumwork_id |-> "ordinariumworks", artist_id |-> "artists"]),
    Keys("personal_access_tokens", "CASCADE", [user_id |-> "users"]),
    Keys("propriumworks", "RESTRICT", [artist_id |-> "artists"]),
    Keys("request_logs", "SET NULL", [client_user_agent_id |-> "client_user_agents",
                                      user_id |-> "users"]),
    Keys("user_positions", "CASCADE", [user_id |-> "users"]),
    Keys("user_positions", "RESTRICT", Positions),
    Keys("user_roles", "CASCADE", [user_id |-> "users"]),
    Keys("user_roles", "RESTRICT", [role_id |-> "roles"])}

CutoverNotNull ==
  {<<k[1], k[2]>> : k \in {c \in CutoverKeys : c[4] = "CASCADE"}}
    \cup Columns("booking_requests", {"performance_id"})
    \cup Columns("bookings", {"performance_id", "user_id"})
    \cup Columns("ordinariumworks", {"artist_id"})
    \cup Columns("performance_proprium", {"propriumelement_id", "propriumwork_id"})
    \cup Columns("performances", {"location_id", "ordinariumwork_id"})
    \cup Columns("propriumworks", {"artist_id"})
    \cup Columns("user_roles", {"role_id"})

UniqueColumns ==
  UNION {Columns("booking_requests", {"performance_id", "user_id"}),
         Columns("bookings", {"performance_id", "user_id"} \cup PositionColumns),
         Columns("ordinariumwork_positions", {"ordinariumwork_id"} \cup DOMAIN TwoPositions),
         Columns("ordinariumworks", {"artist_id"}),
         Columns("performance_positions", {"performance_id"} \cup PositionColumns),
         Columns("performance_proprium", {"performance_id", "propriumelement_id"}),
         Columns("performance_rehearsals", {"performance_id"}),
         Columns("propriumworks", {"artist_id"}),
         Columns("user_positions", {"user_id"} \cup PositionColumns),
         Columns("user_roles", {"user_id", "role_id"})}

-----------------------------------------------------------------------------
(* c5d4bc206313 recreates every key, table by table, with ON UPDATE; its   *)
(* downgrade recreates them without.                                       *)

ExplicitBookingKeys ==
  UNION {
    Keys("booking_logs", "SET NULL", [performance_id |-> "performances", user_id |-> "users"]),
    Keys("booking_logs", "RESTRICT", Positions),
    Keys("booking_requests", "RESTRICT", [performance_id |-> "performances"]),
    Keys("booking_requests", "CASCADE", [user_id |-> "users"]),
    Keys("bookings", "RESTRICT", Positions),
    Keys("bookings", "RESTRICT", [performance_id |-> "performances", user_id |-> "users"])}

ExplicitWorkKeys ==
  UNION {
    Keys("oauth2_bindings", "CASCADE", [local_id |-> "users"]),
    Keys("ordinariumwork_positions", "CASCADE", [ordinariumwork_id |-> "ordinariumworks"]),
    Keys("ordinariumwork_positions", "RESTRICT", TwoPositions),
    Keys("ordinariumworks", "RESTRICT", [artist_id |-> "artists"])}

ExplicitPerformanceKeys ==
  UNION {
    Keys("performance_positions", "CASCADE", [performance_id |-> "performances"]),
    Keys("performance_positions", "RESTRICT", Positions),
    Keys("performance_proprium", "CASCADE", [performance_id |-> "performances"]),
    Keys("performance_proprium", "RESTRICT", [propriumelement_id |-> "propriumelements",
                                              propriumwork_id |-> "propriumworks"]),
    Keys("performance_rehearsals", "CASCADE", [performance_id |-> "performances"]),
    Keys("performances", "RESTRICT", [location_id |-> "locations",
           ordinariumwork_id |-> "ordinariumworks", artist_id |-> "artists"])}

\* Mutant: deleting a role takes it from its holders.
ExplicitUserKeysCascading ==
  Keys("personal_access_tokens", "CASCADE", [user_id |-> "users"])
    \cup Keys("user_roles", "CASCADE", [user_id |-> "users", role_id |-> "roles"])

ExplicitUserKeys ==
  UNION {
    Keys("personal_access_tokens", "CASCADE", [user_id |-> "users"]),
    Keys("propriumworks", "RESTRICT", [artist_id |-> "artists"]),
    Keys("request_logs", "SET NULL", [client_user_agent_id |-> "client_user_agents",
                                      user_id |-> "users"]),
    Keys("user_positions", "CASCADE", [user_id |-> "users"]),
    Keys("user_positions", "RESTRICT", Positions),
    Keys("user_roles", "CASCADE", [user_id |-> "users"]),
    Keys("user_roles", "RESTRICT", [role_id |-> "roles"])}

ExplicitKeys ==
  UNION {ExplicitBookingKeys, ExplicitWorkKeys, ExplicitPerformanceKeys, ExplicitUserKeys}
=============================================================================
