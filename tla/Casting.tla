------------------------------ MODULE Casting ------------------------------
(***************************************************************************)
(* The booking life of one performance: users ask to be cast and withdraw, *)
(* the disposition saves casts and rejects requests, the setup changes,    *)
(* time passes.  Every action is one committed transaction of a service    *)
(* function (module CastTransactions interleaves them).                    *)
(***************************************************************************)
EXTENDS CastEngine

CONSTANTS
  MaxQuantity,      \* bound on a position's quantity (the schema admits 1..99)
  QualificationSets \* the sets of positions a user may be qualified for

ASSUME MaxQuantityAssumption == MaxQuantity \in Nat
ASSUME QualificationAssumption == QualificationSets \subseteq SUBSET Positions

VARIABLES
  phase,      \* the performance: not there, upcoming, or its schedule is past
  setup,      \* performance_positions: quantity per position
  qualified,  \* user_positions
  requests,   \* booking_requests: none, open, or with notbooked_at set
  bookings,   \* rows of bookings
  log         \* rows of booking_logs, see LogState

vars == <<phase, setup, qualified, requests, bookings, log>>

Setups == [Positions -> 0..MaxQuantity]

TypeOK ==
  /\ phase \in {"absent", "upcoming", "past"}
  /\ setup \in Setups
  /\ qualified \in [Users -> SUBSET Positions]
  /\ requests \in [Users -> {"none", "open", "rejected"}]
  /\ bookings \subseteq Row
  /\ log \in [Users -> LogState]

Init ==
  /\ phase = "absent"
  /\ setup = [p \in Positions |-> 0]
  /\ qualified \in [Users -> QualificationSets]
  /\ requests = [u \in Users |-> "none"]
  /\ bookings = {}
  /\ log = [u \in Users |-> NoLog]

-----------------------------------------------------------------------------
(* user_booking_status *)

Booked(u) == \E b \in bookings : b.user = u

Regular(u) == \E b \in bookings : b.user = u /\ b.order < setup[b.pos]

IsBookable(u) == qualified[u] \cap InSetup(setup) # {}

Status(u) ==
  CASE phase # "upcoming" \/ ~IsBookable(u)         -> "NOT_BOOKABLE"
    [] phase = "upcoming" /\ IsBookable(u) /\ Booked(u) ->
         IF Regular(u) THEN "BOOKED" ELSE "STANDBY"
    [] OTHER -> IF requests[u] = "rejected" THEN "REJECTED"
                ELSE IF requests[u] = "open" THEN "REQUESTED" ELSE "BOOKABLE"

-----------------------------------------------------------------------------
(* performance_service *)

CreatePerformance(newSetup) ==
  /\ phase = "absent"
  /\ phase' = "upcoming"
  /\ setup' = newSetup
  /\ UNCHANGED <<qualified, requests, bookings, log>>

\* update_performance with reconcile_setup_change: removed positions lose
\* their bookings, every other list is rewritten in its order and judged
\* against the quantity it had before.
UpdatePerformance(newSetup) ==
  LET old == VisitedCasts(setup, CurrentCasts(bookings))
      new == VisitedCasts(newSetup, old)
  IN  /\ phase = "upcoming"
      /\ setup' = newSetup
      /\ bookings' = Rewritten(bookings, InSetup(setup), new)
      /\ log' = [u \in Users |-> LogAfter(log[u], old, new, newSetup, setup, u)]
      /\ UNCHANGED <<phase, qualified, requests>>

\* The log rows of a deleted performance stay, but no longer name it.
DeletePerformance ==
  /\ phase = "upcoming"
  /\ bookings = {}
  /\ \A u \in Users : requests[u] = "none"
  /\ phase' = "absent"
  /\ setup' = [p \in Positions |-> 0]
  /\ log' = [u \in Users |-> NoLog]
  /\ UNCHANGED <<qualified, requests, bookings>>

TimePasses ==
  /\ phase = "upcoming"
  /\ phase' = "past"
  /\ UNCHANGED <<setup, qualified, requests, bookings, log>>

-----------------------------------------------------------------------------
(* booking_service: save_cast *)

\* Mutants: the booked users are not taken off the list; being booked
\* settles the request.
RequestsAfterUnfiltered(rejected, rows) ==
  [u \in Users |->
     IF requests[u] = "none" THEN "none"
     ELSE IF u \in rejected THEN "rejected" ELSE "open"]

RequestsAfterSettled(rejected, rows) ==
  [u \in Users |->
     IF requests[u] = "none" \/ \E b \in rows : b.user = u THEN "none"
     ELSE IF u \in rejected THEN "rejected" ELSE "open"]

\* _apply_notbooked, after the cast is applied: every rejection is cleared,
\* then the listed users that have a request and ended up without a booking
\* are rejected.
RequestsAfter(rejected, rows) ==
  [u \in Users |->
     IF requests[u] = "none" THEN "none"
     ELSE IF u \in rejected /\ ~\E b \in rows : b.user = u THEN "rejected"
     ELSE "open"]

SaveCast(casts, rejected) ==
  /\ phase = "upcoming"
  /\ bookings' = RowsAfterSave(bookings, setup, casts)
  /\ log' = [u \in Users |->
               LogAfter(log[u], SeenCasts(bookings, setup, casts),
                        VisitedCasts(setup, casts), setup, setup, u)]
  /\ requests' = RequestsAfter(rejected, RowsAfterSave(bookings, setup, casts))
  /\ UNCHANGED <<phase, setup, qualified>>

-----------------------------------------------------------------------------
(* booking_service: change_user_request_status, the user's own toggle *)

RequestBooking(u) ==
  /\ Status(u) = "BOOKABLE"
  /\ requests' = [requests EXCEPT ![u] = "open"]
  /\ UNCHANGED <<phase, setup, qualified, bookings, log>>

\* _cancel_booking_or_request: the request goes, and with a booking the rest
\* of the position's list is rewritten without it (cancel_auth_user_booking).
CancelBookingOrRequest(u) ==
  LET old == CurrentCasts(bookings)
      new == WithoutUser(bookings, u)
  IN  /\ Status(u) \in {"REQUESTED", "REJECTED", "STANDBY", "BOOKED"}
      /\ requests' = [requests EXCEPT ![u] = "none"]
      /\ bookings' = Rewritten(bookings, PositionsOf(bookings, u), new)
      /\ log' = [v \in Users |-> LogAfter(log[v], old, new, setup, setup, v)]
      /\ UNCHANGED <<phase, setup, qualified>>

-----------------------------------------------------------------------------
\* user_service.update_user: the administrator replaces the qualifications.
SyncUserPositions(u, desired) ==
  /\ qualified' = [qualified EXCEPT ![u] = desired]
  /\ UNCHANGED <<phase, setup, requests, bookings, log>>

\* The hourly purge_stale_booking_requests.
PurgeStaleBookingRequests ==
  /\ phase = "past"
  /\ requests' = [u \in Users |-> "none"]
  /\ UNCHANGED <<phase, setup, qualified, bookings, log>>

-----------------------------------------------------------------------------
\* Next for the cast lists "payloads" the save_cast requests are drawn from.
\* Naming a user without a request as rejected changes nothing.
NextWith(payloads) ==
  \/ \E s \in Setups : CreatePerformance(s) \/ UpdatePerformance(s)
  \/ DeletePerformance
  \/ TimePasses
  \/ \E casts \in payloads, rejected \in SUBSET {u \in Users : requests[u] # "none"} :
       SaveCast(casts, rejected)
  \/ \E u \in Users : RequestBooking(u) \/ CancelBookingOrRequest(u)
  \/ \E u \in Users, desired \in QualificationSets : SyncUserPositions(u, desired)
  \/ PurgeStaleBookingRequests

\* Everything the request schema accepts ...
Payloads == [Positions -> Casts]

\* ... and what a form sends that shows every user at one place only.
DisjointPayloads ==
  {casts \in Payloads :
     \A p, q \in Positions : p # q => DOMAIN casts[p] \cap DOMAIN casts[q] = {}}

Next == NextWith(Payloads)

Spec == Init /\ [][Next]_vars

DisjointSpec == Init /\ [][NextWith(DisjointPayloads)]_vars

-----------------------------------------------------------------------------
Board ==
  INSTANCE StatusBoard WITH
    status <- [u \in Users |-> Status(u)],
    asked  <- {u \in Users : requests[u] # "none"}

\* Every handler moves the statuses as StatusBoard allows: a toggle moves its
\* own user and at most fills the place given up, no save of the cast loses a
\* request, no setup change casts anybody, only a past performance's requests
\* are cleared.
ImplementsBoard == Board!Spec

-----------------------------------------------------------------------------
\* UNIQUE (performance_id, user_id): the service never makes a statement of
\* its own violate it, whatever the lists of one save_cast repeat.
OneBookingPerUser ==
  \A b, c \in bookings : b.user = c.user => b = c

\* Two members of one position never hold the same place in its list.
OrdersDistinct ==
  \A b, c \in bookings : b.pos = c.pos /\ b.order = c.order => b = c

\* No booking is left on a position the performance does not have.  Such a
\* row would be invisible in the cast form and block delete_performance.
BookedOnSetup ==
  \A b \in bookings : setup[b.pos] > 0

\* The bookings stay one list per position of the setup: whatever save_cast
\* requests repeat and however the setup shrinks and grows, a user has one
\* booking, at a place nobody else has, where the cast form shows it.
BookingsConsistent ==
  TypeOK /\ OneBookingPerUser /\ OrdersDistinct /\ BookedOnSetup

\* A performance that is gone took no booking and no request with it.
DeletedLeavesNothing ==
  phase = "absent" => bookings = {} /\ \A u \in Users : requests[u] = "none"

\* Nobody is cast and marked "not booked" at once (_apply_notbooked runs
\* after _apply_cast, cancelling takes the request away).
RejectedNotBooked ==
  \A u \in Users : requests[u] = "rejected" => ~Booked(u)

\* Requests and bookings agree through saves, cancellations, purges and
\* deletions.
RequestsConsistent == RejectedNotBooked /\ DeletedLeavesNothing

\* A user whose newest log entry says "book" holds a regular place: nobody
\* is told "booked" on the strength of an entry that a later demotion,
\* cancellation, cast or setup change left standing.
BookEntryHonest ==
  \A u \in Users : log[u].last = "book" => Regular(u)

\* The lists have no gaps: place k is taken only if 0 .. k-1 are.
NoGaps ==
  \A b \in bookings : \A k \in 0..b.order :
    \E c \in bookings : c.pos = b.pos /\ c.order = k

\* Who is promoted without being moved by the same change is told: the log's
\* newest entry about them is a "book" entry, whether a save of the cast, a
\* cancellation or a larger quantity promotes them.
PromotionTold ==
  [][(\A b \in bookings, c \in bookings' : b.user = c.user => b.pos = c.pos) =>
       \A u \in Users : ~Regular(u) /\ Regular(u)' => log'[u].last = "book"]_vars

\* The user's status (order < quantity) and the list billing and the mails
\* to the cast use (_truncate_cast: the first quantity entries) agree on who
\* is regular.
ViewsAgree ==
  \A b \in bookings :
    b.order < setup[b.pos] <=> Index(RowsAt(bookings, b.pos), b.user) < setup[b.pos]

\* The lists stay as billing, the mails to the cast and the status read them.
ListsAgree == NoGaps /\ ViewsAgree

\* The newest log entry of every user tells whether they are regular.
LogTellsRegular ==
  \A u \in Users : Regular(u) <=> log[u].last = "book"
=============================================================================
