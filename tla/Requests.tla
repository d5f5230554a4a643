------------------------------ MODULE Requests ------------------------------
(***************************************************************************)
(* Requests to the services.  Each runs in a worker thread with a database *)
(* session of its own; no service but the booking service locks what it    *)
(* has read, and at READ COMMITTED other requests may commit between any   *)
(* two statements of this one.  A request is a record that says which      *)
(* statement comes next and what it has read so far.                       *)
(***************************************************************************)
EXTENDS Integers, FiniteSets

VARIABLES
  clients,   \* the requests that may be under way at once
  request    \* [client -> the request under way, or how the last one ended]

\* One request at a time: nothing interferes with it.
Alone == Cardinality(clients) = 1

\* None is under way; the last one was answered.
Rest == [step |-> "rest"]

\* The last one was rolled back: a constraint of the database refused it
\* ("unique", "key": 409), or it met an exception that no handler names, a
\* row gone ("stale") or two rows for one ("twice"): 500.
Failed(step, cause, id) == [step |-> "failed", at |-> step, cause |-> cause, id |-> id]

\* A bound is a pair: for one client and for two.
Bound(limits) == limits[Cardinality(clients)]

Idle(c) == c \in clients /\ request[c].step \in {"rest", "failed"}

At(c, step) == c \in clients /\ request[c].step = step

Continue(c, next) == request' = [request EXCEPT ![c] = next]

=============================================================================
