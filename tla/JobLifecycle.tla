---------------------------- MODULE JobLifecycle ----------------------------
(***************************************************************************)
(* What the job queue promises to the code that enqueues jobs and to the   *)
(* handlers that run them, without rows, locks, clocks or processes.       *)
(*                                                                         *)
(* A job is submitted once, is run by at most one execution at a time and  *)
(* at most MaxAttempts times, and ends done or failed -- unless the        *)
(* execution that runs it disappears, which leaves it an orphan: no part   *)
(* of the queue ever takes an orphan up again.  JobQueue implements this   *)
(* specification; the handler modules are composed with it.                *)
(***************************************************************************)
EXTENDS Naturals

CONSTANTS
    Job,           \* the (tenant, type, idempotency key) triples that occur
    MaxAttempts    \* jobs.max_attempts, which no statement of the code sets

VARIABLES
    state,         \* state[j]: where job j is in its life
    tries          \* tries[j]: how often j has been reserved

lifecycleVars == <<state, tries>>

JobState == {"absent", "pending", "active", "done", "failed", "orphan"}

LifecycleTypeOK ==
    /\ state \in [Job -> JobState]
    /\ tries \in [Job -> 0..MaxAttempts]

LifecycleInit ==
    /\ state = [j \in Job |-> "absent"]
    /\ tries = [j \in Job |-> 0]

Move(j, from, to) ==
    /\ state[j] = from
    /\ state' = [state EXCEPT ![j] = to]

(***************************************************************************)
(* The first enqueue of a key creates the job; every later one is skipped, *)
(* whatever has become of the job in the meantime.                         *)
(***************************************************************************)
Submit(j) == Move(j, "absent", "pending") /\ UNCHANGED tries

Start(j) ==
    /\ Move(j, "pending", "active")
    /\ tries' = [tries EXCEPT ![j] = @ + 1]

Finish(j) == Move(j, "active", "done") /\ UNCHANGED tries

Retry(j) ==
    /\ tries[j] < MaxAttempts
    /\ Move(j, "active", "pending")
    /\ UNCHANGED tries

GiveUp(j) ==
    /\ tries[j] = MaxAttempts
    /\ Move(j, "active", "failed")
    /\ UNCHANGED tries

(***************************************************************************)
(* The reservation was committed, but the worker never learned of it.      *)
(***************************************************************************)
LoseReservation(j) ==
    /\ Move(j, "pending", "orphan")
    /\ tries' = [tries EXCEPT ![j] = @ + 1]

(***************************************************************************)
(* The executions of the jobs in S disappear together, as in the crash of  *)
(* a worker process.  The jobs in finished had already been recorded as    *)
(* completed when that happened.                                           *)
(***************************************************************************)
Abandon(S) ==
    /\ S # {}
    /\ \A j \in S : state[j] = "active"
    /\ \E finished \in SUBSET S :
          state' = [j \in Job |-> IF j \in finished THEN "done"
                                  ELSE IF j \in S THEN "orphan"
                                  ELSE state[j]]
    /\ UNCHANGED tries

LifecycleNext ==
    \/ \E j \in Job : \/ Submit(j)
                      \/ Start(j)
                      \/ Finish(j)
                      \/ Retry(j)
                      \/ GiveUp(j)
                      \/ LoseReservation(j)
    \/ \E S \in SUBSET Job : Abandon(S)

LifecycleSpec == LifecycleInit /\ [][LifecycleNext]_lifecycleVars
=============================================================================
