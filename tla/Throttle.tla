------------------------------ MODULE Throttle ------------------------------
(***************************************************************************)
(* The login throttle of one address at one IP address.  It has no counter *)
(* of its own: it reads the audit log, where every attempt leaves an entry *)
(* in a transaction of its own.  Time passes in half seconds, since the    *)
(* wait a client is told is cut to whole ones.                             *)
(***************************************************************************)
EXTENDS Requests, Sequences, FiniteSetsExt

CONSTANTS
  MAX_LOGIN_ATTEMPTS,
  LOGIN_THROTTLE_WINDOW   \* in half seconds

ASSUME ThrottleAssumption ==
  MAX_LOGIN_ATTEMPTS \in Nat \ {0} /\ LOGIN_THROTTLE_WINDOW \in Nat \ {0}

VARIABLES
  failures,   \* "Failed" since the last "Login", each with what is left of its window
  wait        \* what is left of the wait last announced; NoWait once somebody is let in

throttleVars == <<failures, wait>>

NoWait == -1

ThrottleInit == failures = << >> /\ wait = NoWait

Trying == {c \in clients : At(c, "try")}

LockedOut == Len(failures) >= MAX_LOGIN_ATTEMPTS

\* How long until fewer than the limit are left: the limit-th from the end.
\* Mutant: the oldest one.
RetryAfterOldest == 2 * Max({1, failures[1] \div 2})

RetryAfter == 2 * Max({1, failures[Len(failures) - MAX_LOGIN_ATTEMPTS + 1] \div 2})

-----------------------------------------------------------------------------
CheckLoginThrottle(c) ==
  /\ Idle(c) /\ ~LockedOut
  /\ Continue(c, [step |-> "try"])
  /\ wait' = NoWait
  /\ UNCHANGED failures

LockoutCounted(c) ==
  /\ Idle(c) /\ LockedOut
  /\ failures' = Append(Tail(failures), LOGIN_THROTTLE_WINDOW)
  /\ UNCHANGED <<wait, request>>

\* "Lockout" is an event of its own.  While another attempt is under way no
\* announcement can be kept.
Lockout(c) ==
  /\ Idle(c) /\ LockedOut
  /\ wait' = IF Trying = {} THEN RetryAfter ELSE wait
  /\ UNCHANGED <<failures, request>>

Fail(c) ==
  /\ At(c, "try")
  /\ failures' = Append(failures, LOGIN_THROTTLE_WINDOW)
  /\ Continue(c, Rest)
  /\ UNCHANGED wait

Succeed(c) ==
  /\ At(c, "try")
  /\ failures' = << >>
  /\ Continue(c, Rest)
  /\ UNCHANGED wait

\* The entries are in the order they were made: the first n leave the window.
Pass ==
  /\ \/ failures # << >>
     \/ wait >= 0
  /\ \E n \in 0..Len(failures) :
       /\ \A i \in 1..Len(failures) : i <= n <=> failures[i] <= 1
       /\ failures' = [i \in 1..Len(failures) - n |-> failures[i + n] - 1]
  /\ wait' = IF wait > 0 THEN wait - 1 ELSE NoWait
  /\ UNCHANGED request

ThrottleNext ==
  /\ UNCHANGED clients
  /\ \/ \E c \in clients : CheckLoginThrottle(c) \/ Lockout(c) \/ Fail(c) \/ Succeed(c)
     \/ Pass

-----------------------------------------------------------------------------
ThrottleOK ==
  /\ \A i \in DOMAIN failures : failures[i] \in 1..LOGIN_THROTTLE_WINDOW
  /\ \A i, j \in DOMAIN failures : i < j => failures[i] <= failures[j]
  /\ wait \in NoWait..2 * LOGIN_THROTTLE_WINDOW

\* Attempts that pass the check at once may overshoot the limit, each by one.
FailuresBounded == Len(failures) < MAX_LOGIN_ATTEMPTS + Cardinality(clients)

\* A client that waits as long as it was told waits long enough but for a
\* fraction of a second: by then less than the limit is left, or about to be.
WaitSuffices ==
  wait = 0 => \/ ~LockedOut
              \/ failures[Len(failures) - MAX_LOGIN_ATTEMPTS + 1] <= 1

\* The throttle counts as it says, and asks for the wait it enforces.
ThrottleSafe == ThrottleOK /\ FailuresBounded /\ WaitSuffices

\* However often a client that is locked out tries again, it gets in again.
LockoutEnds == LockedOut ~> ~LockedOut
=============================================================================
