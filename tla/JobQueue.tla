------------------------------ MODULE JobQueue ------------------------------
(***************************************************************************)
(* The Postgres job queue (packages/queue) and the worker loop that drains *)
(* it (processOnce and startWorker in apps/worker).  The handlers are      *)
(* opaque here: one returns or throws.                                     *)
(*                                                                         *)
(* A row of the table jobs is identified by its (tenant, type, key)        *)
(* triple, which the table keeps unique and which every caller supplies.   *)
(* The columns locked_at and locked_by are written and never read, so they *)
(* are left out.                                                           *)
(***************************************************************************)
EXTENDS Integers, FiniteSets

CONSTANTS
    Job,           \* the (tenant, type, idempotency key) triples that occur
    NoJob,         \* the value of held for an execution that holds no job
    Process,       \* the worker processes
    MaxInFlight,   \* how many runs of processOnce overlap in one process
    MaxAttempts,   \* jobs.max_attempts
    EnqueueDelay,  \* the run_at offsets callers ask for, in clock ticks
    MaxLag,        \* how far overdue a job is told apart, in clock ticks
    MaxFaults      \* how many crashes and database errors a behaviour has

ASSUME QueueAssumption ==
    /\ NoJob \notin Job
    /\ MaxInFlight \in Nat \ {0}
    /\ MaxAttempts \in Nat \ {0}
    /\ EnqueueDelay \subseteq Nat
    /\ MaxLag \in Nat
    /\ MaxFaults \in Nat

(***************************************************************************)
(* setInterval starts a run of processOnce every pollIntervalMs and does   *)
(* not wait for the previous one, so runs of one process overlap.          *)
(***************************************************************************)
Exec == Process \X (1..MaxInFlight)

VARIABLES
    status,     \* jobs.status, or "absent" while the row does not exist
    attempts,   \* jobs.attempts
    runIn,      \* jobs.run_at minus now(), never below -MaxLag
    pc,         \* pc[e]: the statement execution e is about to issue
    held,       \* held[e]: the job of the row e selected
    seen,       \* seen[e]: jobs.attempts as fail() read it
    faults      \* crashes and database errors so far

rows == <<status, attempts, runIn>>
execs == <<pc, held, seen>>
vars == <<status, attempts, runIn, pc, held, seen, faults>>

Init ==
    /\ status = [j \in Job |-> "absent"]
    /\ attempts = [j \in Job |-> 0]
    /\ runIn = [j \in Job |-> 0]
    /\ pc = [e \in Exec |-> "idle"]
    /\ held = [e \in Exec |-> NoJob]
    /\ seen = [e \in Exec |-> 0]
    /\ faults = 0

-----------------------------------------------------------------------------
(***************************************************************************)
(* The rows.                                                               *)
(***************************************************************************)

\* Mutant: ON CONFLICT ... DO UPDATE SET status = 'queued'.
EnqueueResets(j, delay) ==
    /\ status' = [status EXCEPT ![j] = "queued"]
    /\ runIn' = [runIn EXCEPT ![j] = delay]
    /\ UNCHANGED <<attempts, execs, faults>>

\* Mutant: the key is forgotten once the job is settled.
EnqueueAgain(j, delay) ==
    /\ status[j] \in {"absent", "completed", "failed"}
    /\ EnqueueResets(j, delay)

\* INSERT ... ON CONFLICT (tenant_id, type, idempotency_key) DO NOTHING: a
\* second enqueue of the same key changes nothing.
Enqueue(j, delay) ==
    /\ status[j] = "absent"
    /\ status' = [status EXCEPT ![j] = "queued"]
    /\ runIn' = [runIn EXCEPT ![j] = delay]
    /\ UNCHANGED <<attempts, execs, faults>>

Due(j) == status[j] = "queued" /\ runIn[j] <= 0

\* Mutant: SELECT without FOR UPDATE SKIP LOCKED.
NeverLocked(j) == FALSE

\* The row lock that SELECT ... FOR UPDATE holds until the transaction ends.
Locked(j) == \E e \in Exec : pc[e] = "selected" /\ held[e] = j

Tick ==
    /\ runIn' = [j \in Job |-> IF status[j] # "absent" /\ runIn[j] > -MaxLag
                               THEN runIn[j] - 1 ELSE runIn[j]]
    /\ UNCHANGED <<status, attempts, execs, faults>>

\* Mutant: the attempt is not counted.
MarkRunningUncounted(j) ==
    /\ status' = [status EXCEPT ![j] = "running"]
    /\ UNCHANGED <<attempts, runIn>>

\* UPDATE jobs SET status = 'running', attempts = attempts + 1.
MarkRunning(j) ==
    /\ status' = [status EXCEPT ![j] = "running"]
    /\ attempts' = [attempts EXCEPT ![j] = @ + 1]
    /\ UNCHANGED runIn

MarkCompleted(j) ==
    /\ status' = [status EXCEPT ![j] = "completed"]
    /\ UNCHANGED <<attempts, runIn>>

\* Mutant: the attempt under way is counted a second time.
MarkFailedOneLess(j, read) ==
    /\ status' = [status EXCEPT ![j] = IF read + 1 < MaxAttempts THEN "queued"
                                       ELSE "failed"]
    /\ runIn' = [runIn EXCEPT ![j] = 2^read]
    /\ UNCHANGED attempts

\* The second statement of fail(), with the attempts the first one read.
MarkFailed(j, read) ==
    /\ status' = [status EXCEPT ![j] = IF read < MaxAttempts THEN "queued"
                                       ELSE "failed"]
    /\ runIn' = [runIn EXCEPT ![j] = 2^read]
    /\ UNCHANGED attempts

-----------------------------------------------------------------------------
(***************************************************************************)
(* One run of processOnce.                                                 *)
(***************************************************************************)
Goto(e, from, to) ==
    /\ pc[e] = from
    /\ pc' = [pc EXCEPT ![e] = to]

\* What execution e remembers of a job is gone when the run ends.
EndRun(e, from) ==
    /\ Goto(e, from, "idle")
    /\ held' = [held EXCEPT ![e] = NoJob]
    /\ seen' = [seen EXCEPT ![e] = 0]

\* SELECT ... ORDER BY run_at ASC LIMIT 1 FOR UPDATE SKIP LOCKED.
ReserveSelect(e) ==
    /\ Goto(e, "idle", "selected")
    /\ \E j \in Job :
          /\ Due(j) /\ ~Locked(j)
          /\ \A k \in Job : Due(k) /\ ~Locked(k) => runIn[j] <= runIn[k]
          /\ held' = [held EXCEPT ![e] = j]
    /\ UNCHANGED <<rows, seen, faults>>

ReserveCommit(e) ==
    /\ Goto(e, "selected", "handling")
    /\ MarkRunning(held[e])
    /\ UNCHANGED <<held, seen, faults>>

HandlerReturns(e) ==
    /\ Goto(e, "handling", "completing")
    /\ UNCHANGED <<rows, held, seen, faults>>

\* Mutant: an error of the handler leaves processOnce without fail().
HandlerThrowsUncaught(e) ==
    /\ EndRun(e, "handling")
    /\ UNCHANGED <<rows, faults>>

HandlerThrows(e) ==
    /\ Goto(e, "handling", "failing")
    /\ UNCHANGED <<rows, held, seen, faults>>

Complete(e) ==
    /\ EndRun(e, "completing")
    /\ MarkCompleted(held[e])
    /\ UNCHANGED faults

\* The first statement of fail().
FailRead(e) ==
    /\ Goto(e, "failing", "requeueing")
    /\ seen' = [seen EXCEPT ![e] = attempts[held[e]]]
    /\ UNCHANGED <<rows, held, faults>>

FailWrite(e) ==
    /\ EndRun(e, "requeueing")
    /\ MarkFailed(held[e], seen[e])
    /\ UNCHANGED faults

-----------------------------------------------------------------------------
(***************************************************************************)
(* Faults.  A statement that rejects may or may not have taken effect.     *)
(***************************************************************************)
Fault == faults < MaxFaults /\ faults' = faults + 1

\* reserveNext rolls back and rethrows; startWorker logs it.
ReserveError(e) ==
    /\ Fault
    /\ EndRun(e, "selected")
    /\ UNCHANGED rows

\* COMMIT took effect and its answer was lost.
ReserveLost(e) ==
    /\ Fault
    /\ EndRun(e, "selected")
    /\ MarkRunning(held[e])

\* complete() is inside the try: its rejection goes to fail() as well.
CompleteError(e) ==
    /\ Fault
    /\ Goto(e, "completing", "failing")
    /\ UNCHANGED <<held, seen>>
    /\ \/ MarkCompleted(held[e])
       \/ UNCHANGED rows

\* A rejection of fail() leaves processOnce; startWorker logs it.
FailError(e) ==
    /\ Fault
    /\ \/ EndRun(e, "failing") /\ UNCHANGED rows
       \/ /\ EndRun(e, "requeueing")
          /\ MarkFailed(held[e], seen[e]) \/ UNCHANGED rows

\* A process dies with all its runs and is started again: open transactions
\* roll back, and nothing looks for the rows it had marked running.
Crash(p) ==
    /\ Fault
    /\ \E e \in Exec : e[1] = p /\ pc[e] # "idle"
    /\ pc' = [e \in Exec |-> IF e[1] = p THEN "idle" ELSE pc[e]]
    /\ held' = [e \in Exec |-> IF e[1] = p THEN NoJob ELSE held[e]]
    /\ seen' = [e \in Exec |-> IF e[1] = p THEN 0 ELSE seen[e]]
    /\ UNCHANGED rows

-----------------------------------------------------------------------------
Step(e) ==
    \/ ReserveSelect(e)
    \/ ReserveCommit(e)
    \/ HandlerReturns(e)
    \/ HandlerThrows(e)
    \/ Complete(e)
    \/ FailRead(e)
    \/ FailWrite(e)

FaultStep(e) ==
    \/ ReserveError(e)
    \/ ReserveLost(e)
    \/ CompleteError(e)
    \/ FailError(e)

Next ==
    \/ \E j \in Job, delay \in EnqueueDelay : Enqueue(j, delay)
    \/ \E e \in Exec : Step(e) \/ FaultStep(e)
    \/ \E p \in Process : Crash(p)
    \/ Tick

\* The timer of startWorker fires again and again, an issued statement is
\* answered or rejected, a handler returns or throws, and time passes.
Fairness ==
    /\ \A e \in Exec : WF_vars(Step(e))
    /\ WF_vars(Tick)

Spec == Init /\ [][Next]_vars
FairSpec == Spec /\ Fairness

-----------------------------------------------------------------------------
TypeOK ==
    /\ status \in [Job -> {"absent", "queued", "running", "completed", "failed"}]
    /\ attempts \in [Job -> 0..MaxAttempts]
    /\ runIn \in [Job -> Int]
    /\ pc \in [Exec -> {"idle", "selected", "handling", "completing",
                        "failing", "requeueing"}]
    /\ held \in [Exec -> Job \cup {NoJob}]
    /\ seen \in [Exec -> 0..MaxAttempts]
    /\ faults \in 0..MaxFaults

\* Execution e has reserved job j and has not settled it yet.
Owns(e, j) ==
    /\ held[e] = j
    /\ pc[e] \in {"handling", "completing", "failing", "requeueing"}

Orphan(j) == status[j] = "running" /\ \A e \in Exec : ~Owns(e, j)
Settled(j) == status[j] \in {"completed", "failed"}

(***************************************************************************)
(* Two runs of processOnce, in one worker process or in two, never work on *)
(* the same job at the same time.  This is what FOR UPDATE SKIP LOCKED,    *)
(* the status column and the skipped duplicate enqueue are for, together.  *)
(***************************************************************************)
ExclusiveExecution ==
    \A j \in Job : \A e, f \in Exec : Owns(e, j) /\ Owns(f, j) => e = f

(***************************************************************************)
(* A job is reserved at most MaxAttempts times, a queued job always has an *)
(* attempt left, and a job is given up only when it has none: fail()       *)
(* decides with the attempts it read in an earlier statement.              *)
(***************************************************************************)
RetryBudget ==
    \A j \in Job : /\ attempts[j] <= MaxAttempts
                   /\ status[j] = "queued" => attempts[j] < MaxAttempts
                   /\ status[j] = "failed" => attempts[j] = MaxAttempts

(***************************************************************************)
(* A row is left running with nobody working on it only by a crash or a    *)
(* database error, and the damage is bounded: one fault orphans at most    *)
(* the jobs one process has in flight.                                     *)
(***************************************************************************)
Orphans == {j \in Job : Orphan(j)}

OrphansBounded == Cardinality(Orphans) <= MaxInFlight * faults

(***************************************************************************)
(* The inductive invariant behind the safety properties: what each run     *)
(* knows about the row it holds between two of its statements.             *)
(***************************************************************************)
\* A run holds a row exactly while it is between two statements.
HoldsWhileBusy == \A e \in Exec : held[e] = NoJob <=> pc[e] = "idle"

\* No row is held twice, be it by its row lock or by its status.
HeldOnce ==
    \A e, f \in Exec : held[e] = held[f] /\ held[e] # NoJob => e = f

\* The status of the row agrees with the place of the run that holds it.  A
\* rejected complete() may have marked the row before its run goes to fail().
RowAgrees ==
    \A e \in Exec :
       /\ pc[e] = "selected" => status[held[e]] = "queued"
       /\ pc[e] \in {"handling", "completing"} => status[held[e]] = "running"
       /\ pc[e] \in {"failing", "requeueing"} =>
             status[held[e]] \in {"running", "completed"}

\* The attempts that fail() read are still those of the row when it writes.
ReadIsCurrent ==
    \A e \in Exec : pc[e] = "requeueing" => seen[e] = attempts[held[e]]

UntouchedRows == \A j \in Job : status[j] = "absent" => attempts[j] = 0

(***************************************************************************)
(* All of it together is preserved by every step: no run finds the row it  *)
(* holds changed under it by another run, a crash or a failed statement.   *)
(***************************************************************************)
QueueInv ==
    /\ TypeOK
    /\ HoldsWhileBusy
    /\ HeldOnce
    /\ RowAgrees
    /\ ReadIsCurrent
    /\ UntouchedRows
    /\ RetryBudget

(***************************************************************************)
(* Every enqueued job is eventually completed, failed, or orphaned by a    *)
(* fault: delays run out, retries are used up, nothing is forgotten.       *)
(***************************************************************************)
EveryJobSettles ==
    \A j \in Job : status[j] = "queued" ~> Settled(j) \/ Orphan(j)

(***************************************************************************)
(* The queue implements JobLifecycle.  A job is active while an execution  *)
(* owns it, also when its row already says completed and complete() was    *)
(* rejected: fail() then puts it back, and no completed job is re-run in   *)
(* the eyes of the abstract specification.                                 *)
(***************************************************************************)
Life ==
    [j \in Job |->
        IF \E e \in Exec : Owns(e, j) THEN "active"
        ELSE CASE status[j] = "absent"    -> "absent"
               [] status[j] = "queued"    -> "pending"
               [] status[j] = "running"   -> "orphan"
               [] status[j] = "completed" -> "done"
               [] status[j] = "failed"    -> "failed"]

Lifecycle == INSTANCE JobLifecycle WITH state <- Life, tries <- attempts

ImplementsLifecycle == Lifecycle!LifecycleSpec
=============================================================================
