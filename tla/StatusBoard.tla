---------------------------- MODULE StatusBoard ----------------------------
(***************************************************************************)
(* What the booking of one performance promises its users, without casts,  *)
(* lists, quantities or logs: the status each of them is shown (app/       *)
(* schemas/performance.py, BookingStatus) and who has a request on file.   *)
(***************************************************************************)
CONSTANT Users

VARIABLES
  status,   \* the status shown to each user
  asked     \* the users with a request on file

vars == <<status, asked>>

Pending == {"REQUESTED", "REJECTED"}
InCast  == {"STANDBY", "BOOKED"}

Consistent(s, u, on_file) ==
  CASE s = "BOOKABLE" -> ~on_file
    [] s \in Pending  -> on_file
    [] OTHER          -> TRUE

TypeOK ==
  /\ status \in [Users -> {"NOT_BOOKABLE", "BOOKABLE"} \cup Pending \cup InCast]
  /\ asked \subseteq Users

Init ==
  /\ status = [u \in Users |-> "NOT_BOOKABLE"]
  /\ asked = {}

\* The user's own switch, off to on: it touches nobody else.
Ask(u) ==
  /\ status[u] = "BOOKABLE"
  /\ status' = [status EXCEPT ![u] = "REQUESTED"]
  /\ asked' = asked \cup {u}

\* On to off: nobody else loses anything; only a regular place given up is
\* filled, by one user who was waiting.
Withdraw(u) ==
  /\ status[u] \in Pending \cup InCast
  /\ \/ status' = [status EXCEPT ![u] = "BOOKABLE"]
     \/ /\ status[u] = "BOOKED"
        /\ \E v \in Users \ {u} :
             /\ status[v] = "STANDBY"
             /\ status' = [status EXCEPT ![u] = "BOOKABLE", ![v] = "BOOKED"]
  /\ asked' = asked \ {u}

\* The disposition decides: it may cast anybody, but no request is lost and
\* none appears.
Decide ==
  /\ asked' = asked
  /\ status' \in [Users -> {"NOT_BOOKABLE", "BOOKABLE"} \cup Pending \cup InCast]
  /\ \A u \in Users :
       /\ status[u] = "NOT_BOOKABLE" <=> status'[u] = "NOT_BOOKABLE"
       /\ Consistent(status'[u], u, u \in asked)

\* Setup or qualifications change: places are lost, gained back or change
\* hands between regular and standby, but nobody is cast by it, nor moves
\* between requested and rejected.
Restage ==
  /\ asked' = asked
  /\ status' \in [Users -> {"NOT_BOOKABLE", "BOOKABLE"} \cup Pending \cup InCast]
  /\ \A u \in Users :
       /\ Consistent(status'[u], u, u \in asked)
       /\ status[u] \in {"BOOKABLE"} \cup Pending =>
            status'[u] \in {status[u], "NOT_BOOKABLE"}
       /\ status[u] \in InCast => status'[u] # "REJECTED"

\* The performance is over or withdrawn; its requests are then cleared.
Close ==
  /\ status' = [u \in Users |-> "NOT_BOOKABLE"]
  /\ asked' = asked

Clear ==
  /\ \A u \in Users : status[u] = "NOT_BOOKABLE"
  /\ asked' = {}
  /\ status' = status

Next ==
  \/ \E u \in Users : Ask(u) \/ Withdraw(u)
  \/ Decide
  \/ Restage
  \/ Close
  \/ Clear

Spec == Init /\ [][Next]_vars
=============================================================================
