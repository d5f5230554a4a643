----------------------------- MODULE ForeignKeys -----------------------------
(***************************************************************************)
(* The foreign keys of the database, as the models declare them            *)
(* (app/db/models): the one list the services' deletions rely on and the   *)
(* migrations must arrive at.  A key is <<table, column, parent, rule>>,   *)
(* rule what ON DELETE does.  No id is ever updated: ON UPDATE is left out.*)
(***************************************************************************)
Keys(table, rule, refs) == {<<table, c, refs[c], rule>> : c \in DOMAIN refs}

\* OrdinariumworkPosition declares its two position columns itself.
TwoPositions == [instrument_id |-> "instruments", voice_id |-> "voices"]

\* PositionColumns: of the three exactly one is set.
Positions == [instrument_id |-> "instruments", voice_id |-> "voices", choirjob_id |-> "choirjobs"]

PositionColumns == DOMAIN Positions

BookingKeys ==
  Keys("bookings", "RESTRICT", Positions)
    \cup Keys("bookings", "RESTRICT", [performance_id |-> "performances", user_id |-> "users"])

\* Mutant: a performance's booking requests go with it.
BookingRequestKeysCascading ==
  Keys("booking_requests", "CASCADE", [performance_id |-> "performances",
                                       user_id |-> "users"])

BookingRequestKeys ==
  Keys("booking_requests", "RESTRICT", [performance_id |-> "performances"])
    \cup Keys("booking_requests", "CASCADE", [user_id |-> "users"])

BookingLogKeys ==
  Keys("booking_logs", "RESTRICT", Positions)
    \cup Keys("booking_logs", "SET NULL", [performance_id |-> "performances",
                                           user_id |-> "users"])

RequestLogKeys ==
  Keys("request_logs", "SET NULL", [client_user_agent_id |-> "client_user_agents",
                                    user_id |-> "users"])

WorkPositionKeys ==
  Keys("ordinariumwork_positions", "RESTRICT", TwoPositions)
    \cup Keys("ordinariumwork_positions", "CASCADE",
              [ordinariumwork_id |-> "ordinariumworks"])

WorkKeys ==
  UNION {Keys(works, "RESTRICT", [artist_id |-> "artists"]) :
           works \in {"ordinariumworks", "propriumworks"}}

PerformanceKeys ==
  Keys("performances", "RESTRICT", [location_id |-> "locations",
         ordinariumwork_id |-> "ordinariumworks", artist_id |-> "artists"])

\* A performance's setup, proprium and rehearsals go with it.
PerformancePartKeys ==
  (UNION {Keys(part, "CASCADE", [performance_id |-> "performances"]) :
            part \in {"performance_positions", "performance_proprium",
                      "performance_rehearsals"}})
    \cup Keys("performance_positions", "RESTRICT", Positions)
    \cup Keys("performance_proprium", "RESTRICT",
              [propriumelement_id |-> "propriumelements", propriumwork_id |-> "propriumworks"])

\* So do a user's positions, roles, sessions and linked accounts.
UserPartKeys ==
  (UNION {Keys(part, "CASCADE", [user_id |-> "users"]) :
            part \in {"user_positions", "user_roles", "personal_access_tokens"}})
    \cup Keys("oauth2_bindings", "CASCADE", [local_id |-> "users"])
    \cup Keys("user_positions", "RESTRICT", Positions)
    \cup Keys("user_roles", "RESTRICT", [role_id |-> "roles"])

ModelKeys ==
  UNION {BookingKeys, BookingRequestKeys, BookingLogKeys, RequestLogKeys, WorkPositionKeys,
         WorkKeys, PerformanceKeys, PerformancePartKeys, UserPartKeys}

\* The columns that may be null: Mapped[uuid.UUID | None].
NullableColumns ==
  {<<k[1], k[2]>> : k \in {m \in ModelKeys :
      \/ m[2] \in PositionColumns
      \/ m[4] = "SET NULL"
      \/ m[1] = "performances" /\ m[2] = "artist_id"}}
=============================================================================
