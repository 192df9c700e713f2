---------------------------- MODULE HandlerRuns -----------------------------
(***************************************************************************)
(* Runs of job handlers by processOnce: what JobLifecycle says of the      *)
(* jobs, plus where each run is, and the ways a run can fail.  A handler   *)
(* is a chain of awaited calls; the modules of the handlers give every     *)
(* call its effect.  As a job has one run at a time (JobQueue shows it), a *)
(* run is named by its job.                                                *)
(***************************************************************************)
EXTENDS JobLifecycle, FiniteSets

CONSTANTS
    MaxActive,   \* how many runs overlap, in one worker process or several
    MaxFaults    \* how many failures of any kind a behaviour has

VARIABLES
    at,          \* at[j]: the call the run of j is about to make, or "none"
    faults       \* failures so far

Fault == faults < MaxFaults /\ faults' = faults + 1

Active == {j \in Job : state[j] = "active"}

Goto(j, from, to) ==
    /\ at[j] = from
    /\ at' = [at EXCEPT ![j] = to]

(***************************************************************************)
(* reserveNext, and the handler up to its first call that matters.         *)
(***************************************************************************)
Reserve(j, first) ==
    /\ Cardinality(Active) < MaxActive
    /\ Start(j)
    /\ Goto(j, "none", first)
    /\ UNCHANGED faults

(***************************************************************************)
(* The call at "from" takes effect and is answered; or, a fault, it takes  *)
(* effect and its answer is lost, and the run sees a rejection.            *)
(***************************************************************************)
Call(j, from, to) ==
    \/ Goto(j, from, to) /\ UNCHANGED faults
    \/ Goto(j, from, "thrown") /\ Fault

\* A call is rejected without effect, complete() included.
CallFails(j) ==
    /\ Fault
    /\ at[j] \notin {"none", "thrown"}
    /\ at' = [at EXCEPT ![j] = "thrown"]
    /\ UNCHANGED <<state, tries>>

\* enqueue(): INSERT ... ON CONFLICT DO NOTHING.
EnqueueOnce(j) ==
    \/ Submit(j)
    \/ state[j] # "absent" /\ UNCHANGED <<state, tries>>

\* Mutant: an error of the handler is logged, without fail().
SettleWithoutFail(j) ==
    /\ \/ Goto(j, "returned", "none") /\ Finish(j)
       \/ Goto(j, "thrown", "none") /\ UNCHANGED <<state, tries>>
    /\ UNCHANGED faults

\* After the handler: complete(), or fail() with or without another attempt.
Settle(j) ==
    /\ \/ Goto(j, "returned", "none") /\ Finish(j)
       \/ Goto(j, "thrown", "none") /\ (Retry(j) \/ GiveUp(j))
    /\ UNCHANGED faults

\* The reservation was committed, but the worker never learned of it.
ReservationLost(j) ==
    /\ Fault
    /\ LoseReservation(j)
    /\ UNCHANGED at

\* The runs of the jobs in S die with their worker process, or end with a
\* rejected fail().  Only a run that had returned may have been recorded.
RunsLost(S) ==
    /\ Fault
    /\ Abandon(S)
    /\ \A j \in S : state'[j] = "done" => at[j] = "returned"
    /\ at' = [j \in Job |-> IF j \in S THEN "none" ELSE at[j]]

RunsInit ==
    /\ at = [j \in Job |-> "none"]
    /\ faults = 0

\* A run is under way exactly while its job is active.
RunsTypeOK ==
    /\ LifecycleTypeOK
    /\ DOMAIN at = Job
    /\ \A j \in Job : at[j] # "none" <=> state[j] = "active"
    /\ faults \in 0..MaxFaults

(***************************************************************************)
(* The inductive invariant of the jobs and their runs: with the types, a   *)
(* job that can be run has an attempt left, and a running one has had one. *)
(***************************************************************************)
RunsInv ==
    /\ RunsTypeOK
    /\ \A j \in Job : /\ state[j] = "absent" => tries[j] = 0
                      /\ state[j] = "pending" => tries[j] < MaxAttempts
                      /\ state[j] = "active" => tries[j] >= 1

-----------------------------------------------------------------------------
(***************************************************************************)
(* Each of the steps that handlers are composed of keeps RunsInv, for any  *)
(* number of jobs, runs, attempts and faults.                              *)
(***************************************************************************)
Bounded == MaxAttempts \in Nat \ {0} /\ MaxFaults \in Nat

LEMMA ReserveKeepsRuns ==
  ASSUME Bounded, RunsInv, NEW j \in Job, NEW first, first # "none", Reserve(j, first)
  PROVE  RunsInv'
  BY DEF Bounded, RunsInv, RunsTypeOK, LifecycleTypeOK, JobState, Reserve, Start, Move, Goto

LEMMA CallKeepsRuns ==
  ASSUME Bounded, RunsInv, NEW j \in Job, NEW from, NEW to, from # "none", to # "none",
         Goto(j, from, to), UNCHANGED faults \/ Fault, UNCHANGED <<state, tries>>
  PROVE  RunsInv'
  BY DEF Bounded, RunsInv, RunsTypeOK, LifecycleTypeOK, JobState, Goto, Fault

LEMMA EnqueueKeepsRuns ==
  ASSUME Bounded, RunsInv, NEW j \in Job, NEW from, NEW to, from # "none", to # "none",
         Goto(j, from, to) \/ UNCHANGED at, UNCHANGED faults \/ Fault,
         NEW k \in Job, EnqueueOnce(k)
  PROVE  RunsInv'
  BY DEF Bounded, RunsInv, RunsTypeOK, LifecycleTypeOK, JobState, Goto, Fault,
         EnqueueOnce, Submit, Move

LEMMA CallFailsKeepsRuns ==
  ASSUME Bounded, RunsInv, NEW j \in Job, CallFails(j)
  PROVE  RunsInv'
  BY DEF Bounded, RunsInv, RunsTypeOK, LifecycleTypeOK, JobState, CallFails, Fault

LEMMA SettleKeepsRuns ==
  ASSUME Bounded, RunsInv, NEW j \in Job, Settle(j)
  PROVE  RunsInv'
  BY DEF Bounded, RunsInv, RunsTypeOK, LifecycleTypeOK, JobState, Settle, Goto, Finish,
         Retry, GiveUp, Move

LEMMA ReservationLostKeepsRuns ==
  ASSUME Bounded, RunsInv, NEW j \in Job, ReservationLost(j)
  PROVE  RunsInv'
  BY DEF Bounded, RunsInv, RunsTypeOK, LifecycleTypeOK, JobState, ReservationLost, Fault,
         LoseReservation, Move

LEMMA RunsLostKeepsRuns ==
  ASSUME Bounded, RunsInv, NEW S \in SUBSET Job, RunsLost(S)
  PROVE  RunsInv'
  BY DEF Bounded, RunsInv, RunsTypeOK, LifecycleTypeOK, JobState, RunsLost, Fault, Abandon
=============================================================================
