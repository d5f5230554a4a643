------------------------------- MODULE Worker -------------------------------
(***************************************************************************)
(* The worker process and arq, the queue it works off.  A job that was     *)
(* started stays in the queue until it ends: when the worker dies, or is   *)
(* told to stop and the job is not done in job_completion_wait, the job    *)
(* runs again.  An ordinary exception ends it.                             *)
(***************************************************************************)
EXTENDS Integers, FiniteSets

CONSTANTS
  MAX_TRIES,    \* arq starts a job that often
  MaxTroubles   \* bound, for one job at a time and for two: what goes wrong

ASSUME WorkerAssumption == MAX_TRIES \in Nat \ {0} /\ MaxTroubles \in [1..2 -> Nat]

VARIABLES
  parallel,    \* jobs arq runs at a time (max_jobs)
  up,          \* the worker runs
  troubles     \* what went wrong so far

workerVars == <<parallel, up, troubles>>

WorkerInit ==
  /\ parallel \in 1..2
  /\ up = TRUE
  /\ troubles = 0

Trouble == troubles < MaxTroubles[parallel] /\ troubles' = troubles + 1

Smoothly == UNCHANGED troubles

Stays == UNCHANGED <<parallel, up>>

GoesDown == up /\ up' = FALSE /\ Trouble /\ UNCHANGED parallel

Restarts == ~up /\ up' = TRUE /\ UNCHANGED <<parallel, troubles>>

WorkerOK == parallel \in 1..2 /\ up \in BOOLEAN /\ troubles \in 0..MaxTroubles[parallel]
=============================================================================
