--------------------------- MODULE JobQueueProofs ---------------------------
(***************************************************************************)
(* Proofs about JobQueue, for any number of jobs, processes, overlapping   *)
(* runs, attempts and faults.  QueueInv is inductive; the safety           *)
(* properties follow from it, and with its help every step of the queue is *)
(* a step of JobLifecycle or leaves its variables alone.                   *)
(***************************************************************************)
EXTENDS JobQueue, FiniteSetTheorems, TLAPS

\* The empty table, with no run under way, satisfies the invariant.
LEMMA InitEstablishesInv == Init => QueueInv
  BY QueueAssumption
  DEF Init, QueueInv, TypeOK, HoldsWhileBusy, HeldOnce, RowAgrees, ReadIsCurrent,
      UntouchedRows, RetryBudget

\* An enqueue touches only a row that did not exist, which no run can hold.
LEMMA EnqueueKeepsInv ==
  ASSUME QueueInv, NEW j \in Job, NEW delay \in EnqueueDelay, Enqueue(j, delay)
  PROVE  QueueInv'
  BY QueueAssumption
  DEF QueueInv, TypeOK, HoldsWhileBusy, HeldOnce, RowAgrees, ReadIsCurrent,
      UntouchedRows, RetryBudget, Owns, Enqueue, execs

\* The passing of time only changes run_at, which no safety property reads.
LEMMA TickKeepsInv ==
  ASSUME QueueInv, Tick
  PROVE  QueueInv'
  BY QueueAssumption
  DEF QueueInv, TypeOK, HoldsWhileBusy, HeldOnce, RowAgrees, ReadIsCurrent,
      UntouchedRows, RetryBudget, Owns, Tick, execs

\* Each statement of a run of processOnce keeps the invariant.
LEMMA StepKeepsInv ==
  ASSUME QueueInv, NEW e \in Exec, Step(e)
  PROVE  QueueInv'
<1> USE QueueAssumption
        DEF QueueInv, TypeOK, HoldsWhileBusy, HeldOnce, RowAgrees, ReadIsCurrent,
            UntouchedRows, RetryBudget, Owns, Goto, rows
<1>1. CASE ReserveSelect(e)
  BY <1>1 DEF ReserveSelect, Due, Locked
<1>2. CASE ReserveCommit(e)
  BY <1>2 DEF ReserveCommit, MarkRunning
<1>3. CASE HandlerReturns(e)
  BY <1>3 DEF HandlerReturns
<1>4. CASE HandlerThrows(e)
  BY <1>4 DEF HandlerThrows
<1>5. CASE Complete(e)
  BY <1>5 DEF Complete, EndRun, MarkCompleted
<1>6. CASE FailRead(e)
  BY <1>6 DEF FailRead
<1>7. CASE FailWrite(e)
  BY <1>7 DEF FailWrite, EndRun, MarkFailed
<1> QED
  BY <1>1, <1>2, <1>3, <1>4, <1>5, <1>6, <1>7 DEF Step

\* Neither does a statement that fails, with or without effect.
LEMMA FaultStepKeepsInv ==
  ASSUME QueueInv, NEW e \in Exec, FaultStep(e)
  PROVE  QueueInv'
<1> USE QueueAssumption
        DEF QueueInv, TypeOK, HoldsWhileBusy, HeldOnce, RowAgrees, ReadIsCurrent,
            UntouchedRows, RetryBudget, Owns, Goto, rows,
            Fault
<1>1. CASE ReserveError(e)
  BY <1>1 DEF ReserveError, EndRun
<1>2. CASE ReserveLost(e)
  BY <1>2 DEF ReserveLost, EndRun, MarkRunning
<1>3. CASE CompleteError(e)
  BY <1>3 DEF CompleteError, MarkCompleted
<1>4. CASE FailError(e)
  BY <1>4 DEF FailError, EndRun, MarkFailed
<1> QED
  BY <1>1, <1>2, <1>3, <1>4 DEF FaultStep

\* A crash drops all runs of one process: its selected rows stay queued, its
\* running rows become orphans, and a fault has been counted.
LEMMA CrashKeepsInv ==
  ASSUME QueueInv, NEW p \in Process, Crash(p)
  PROVE  QueueInv'
  BY QueueAssumption
  DEF QueueInv, TypeOK, HoldsWhileBusy, HeldOnce, RowAgrees, ReadIsCurrent,
      UntouchedRows, RetryBudget, Owns, Crash, rows, Fault

\* QueueInv is inductive.
LEMMA NextKeepsInv == QueueInv /\ [Next]_vars => QueueInv'
<1> SUFFICES ASSUME QueueInv, [Next]_vars
             PROVE  QueueInv'
  OBVIOUS
<1>1. CASE UNCHANGED vars
  BY <1>1 DEF vars, QueueInv, TypeOK, HoldsWhileBusy, HeldOnce, RowAgrees,
              ReadIsCurrent, UntouchedRows, RetryBudget, Owns
<1>2. CASE Next
  BY <1>2, EnqueueKeepsInv, StepKeepsInv, FaultStepKeepsInv, CrashKeepsInv,
     TickKeepsInv DEF Next
<1> QED
  BY <1>1, <1>2

(***************************************************************************)
(* Every reachable state of the queue satisfies the inductive invariant,   *)
(* however many processes, overlapping runs and faults there are.          *)
(***************************************************************************)
THEOREM QueueInvariant == Spec => []QueueInv
  BY InitEstablishesInv, NextKeepsInv, PTL DEF Spec

(***************************************************************************)
(* The variables always have their types; a run that is idle holds no job. *)
(***************************************************************************)
THEOREM TypeCorrectness == Spec => []TypeOK
<1>1. QueueInv => TypeOK
  BY DEF QueueInv
<1> QED
  BY <1>1, QueueInvariant, PTL

(***************************************************************************)
(* Two runs of processOnce never work on the same job: HeldOnce says so of *)
(* every run that has selected a row, reserved or not.                     *)
(***************************************************************************)
THEOREM ExclusionHolds == Spec => []ExclusiveExecution
<1>1. QueueInv => ExclusiveExecution
  BY QueueAssumption DEF QueueInv, HeldOnce, ExclusiveExecution, Owns
<1> QED
  BY <1>1, QueueInvariant, PTL

(***************************************************************************)
(* No job is reserved more than MaxAttempts times or given up before, even *)
(* though fail() decides with attempts it read in an earlier statement.    *)
(***************************************************************************)
THEOREM RetryBudgetHolds == Spec => []RetryBudget
<1>1. QueueInv => RetryBudget
  BY DEF QueueInv
<1> QED
  BY <1>1, QueueInvariant, PTL

-----------------------------------------------------------------------------
(***************************************************************************)
(* The bound on orphans.  Only a fault makes new ones, and their number is *)
(* that of the runs it ends.                                               *)
(***************************************************************************)
OrphanInv == IsFiniteSet(Orphans) /\ OrphansBounded

\* A step without a fault that makes no orphan keeps the bound.
LEMMA NoNewOrphan ==
  ASSUME OrphanInv, TypeOK, faults' = faults, Orphans' \subseteq Orphans
  PROVE  OrphanInv'
<1>1. IsFiniteSet(Orphans') /\ Cardinality(Orphans') <= Cardinality(Orphans)
  BY FS_Subset DEF OrphanInv
<1>2. Cardinality(Orphans) \in Nat /\ Cardinality(Orphans') \in Nat
  BY <1>1, FS_CardinalityType DEF OrphanInv
<1>3. MaxInFlight * faults \in Int
  BY QueueAssumption DEF TypeOK
<1> QED
  BY <1>1, <1>2, <1>3 DEF OrphanInv, OrphansBounded

\* A fault that makes no more orphans than a process has runs keeps it too.
LEMMA OneFaultsOrphans ==
  ASSUME OrphanInv, TypeOK, faults' = faults + 1,
         NEW T, IsFiniteSet(T), Cardinality(T) <= MaxInFlight,
         Orphans' \subseteq Orphans \cup T
  PROVE  OrphanInv'
<1>1. /\ IsFiniteSet(Orphans \cup T)
      /\ Cardinality(Orphans \cup T) =
           Cardinality(Orphans) + Cardinality(T) - Cardinality(Orphans \cap T)
  BY FS_Union DEF OrphanInv
<1>2. IsFiniteSet(Orphans \cap T)
  BY FS_Subset DEF OrphanInv
<1>3. IsFiniteSet(Orphans') /\ Cardinality(Orphans') <= Cardinality(Orphans \cup T)
  BY <1>1, FS_Subset
<1>4. /\ Cardinality(Orphans) \in Nat
      /\ Cardinality(Orphans') \in Nat
      /\ Cardinality(T) \in Nat
      /\ Cardinality(Orphans \cap T) \in Nat
  BY <1>2, <1>3, FS_CardinalityType DEF OrphanInv
<1>5. Cardinality(Orphans') <= MaxInFlight * faults + MaxInFlight
  BY <1>1, <1>3, <1>4, QueueAssumption DEF OrphanInv, OrphansBounded, TypeOK
<1>6. MaxInFlight * faults + MaxInFlight = MaxInFlight * (faults + 1)
  BY QueueAssumption DEF TypeOK
<1> QED
  BY <1>3, <1>5, <1>6 DEF OrphanInv, OrphansBounded

\* The jobs held by the runs of one process are at most MaxInFlight.
LEMMA HeldByProcess ==
  ASSUME NEW p \in Process
  PROVE  LET T == {held[<<p, n>>] : n \in 1..MaxInFlight}
         IN  IsFiniteSet(T) /\ Cardinality(T) <= MaxInFlight
<1> DEFINE T == {held[<<p, n>>] : n \in 1..MaxInFlight}
           f == [n \in 1..MaxInFlight |-> held[<<p, n>>]]
<1>1. f \in Surjection(1..MaxInFlight, T)
  BY DEF Surjection
<1>2. IsFiniteSet(1..MaxInFlight) /\ Cardinality(1..MaxInFlight) = MaxInFlight
  BY FS_Interval, QueueAssumption
<1> QED
  BY <1>1, <1>2, FS_Surjection

\* A step of a run that does not fail leaves no row unattended.
LEMMA StepMakesNoOrphan ==
  ASSUME QueueInv, NEW e \in Exec, Step(e)
  PROVE  faults' = faults /\ Orphans' \subseteq Orphans
<1> USE QueueAssumption
        DEF QueueInv, TypeOK, HoldsWhileBusy, HeldOnce, RowAgrees, Orphans, Orphan,
            Owns, Goto, rows, EndRun
<1>1. CASE ReserveSelect(e)
  BY <1>1 DEF ReserveSelect
<1>2. CASE ReserveCommit(e)
  BY <1>2 DEF ReserveCommit, MarkRunning
<1>3. CASE HandlerReturns(e)
  BY <1>3 DEF HandlerReturns
<1>4. CASE HandlerThrows(e)
  BY <1>4 DEF HandlerThrows
<1>5. CASE Complete(e)
  BY <1>5 DEF Complete, MarkCompleted
<1>6. CASE FailRead(e)
  BY <1>6 DEF FailRead
<1>7. CASE FailWrite(e)
  BY <1>7 DEF FailWrite, MarkFailed
<1> QED
  BY <1>1, <1>2, <1>3, <1>4, <1>5, <1>6, <1>7 DEF Step

\* A statement that fails can orphan the job of its own run only.
LEMMA FaultStepOrphansItsJob ==
  ASSUME QueueInv, NEW e \in Exec, FaultStep(e)
  PROVE  faults' = faults + 1 /\ Orphans' \subseteq Orphans \cup {held[e]}
<1> USE QueueAssumption
        DEF QueueInv, TypeOK, HoldsWhileBusy, HeldOnce, RowAgrees, Orphans, Orphan,
            Owns, Goto, rows, EndRun, Fault
<1>1. CASE ReserveError(e)
  BY <1>1 DEF ReserveError
<1>2. CASE ReserveLost(e)
  BY <1>2 DEF ReserveLost, MarkRunning
<1>3. CASE CompleteError(e)
  BY <1>3 DEF CompleteError, MarkCompleted
<1>4. CASE FailError(e)
  BY <1>4 DEF FailError, MarkFailed
<1> QED
  BY <1>1, <1>2, <1>3, <1>4 DEF FaultStep

\* A crash can orphan the jobs of the process that dies.
LEMMA CrashOrphansItsJobs ==
  ASSUME QueueInv, NEW p \in Process, Crash(p)
  PROVE  /\ faults' = faults + 1
         /\ Orphans' \subseteq Orphans \cup {held[<<p, n>>] : n \in 1..MaxInFlight}
<1>1. ASSUME NEW j \in Orphans', j \notin Orphans
      PROVE  \E e \in Exec : e[1] = p /\ held[e] = j
  BY <1>1 DEF QueueInv, TypeOK, Crash, Orphans, Orphan, Owns, rows
<1>2. \A e \in Exec : e[1] = p => e = <<p, e[2]>> /\ e[2] \in 1..MaxInFlight
  BY DEF Exec
<1> QED
  BY <1>1, <1>2 DEF Crash, Fault

(***************************************************************************)
(* One fault, be it a rejected statement or the crash of a process,        *)
(* orphans at most MaxInFlight jobs, and nothing else orphans any.         *)
(***************************************************************************)
THEOREM OrphansBoundedHolds == Spec => []OrphansBounded
<1>1. Init => OrphanInv
  <2> SUFFICES ASSUME Init PROVE OrphanInv
    OBVIOUS
  <2>1. Orphans = {}
    BY DEF Init, Orphans, Orphan
  <2> QED
    BY <2>1, FS_EmptySet, QueueAssumption DEF Init, OrphanInv, OrphansBounded
<1>2. QueueInv /\ OrphanInv /\ [Next]_vars => OrphanInv'
  <2> SUFFICES ASSUME QueueInv, OrphanInv, [Next]_vars
               PROVE  OrphanInv'
    OBVIOUS
  <2>a. TypeOK
    BY DEF QueueInv
  <2>1. CASE UNCHANGED vars
    BY <2>1, <2>a, NoNewOrphan DEF vars, Orphans, Orphan, Owns
  <2>2. CASE Tick
    BY <2>2, <2>a, NoNewOrphan DEF Tick, execs, Orphans, Orphan, Owns
  <2>3. ASSUME NEW j \in Job, NEW delay \in EnqueueDelay, Enqueue(j, delay)
        PROVE  OrphanInv'
    BY <2>3, <2>a, NoNewOrphan DEF Enqueue, execs, Orphans, Orphan, Owns, TypeOK
  <2>4. ASSUME NEW e \in Exec, Step(e)
        PROVE  OrphanInv'
    BY <2>4, <2>a, StepMakesNoOrphan, NoNewOrphan
  <2>5. ASSUME NEW e \in Exec, FaultStep(e)
        PROVE  OrphanInv'
    <3>1. IsFiniteSet({held[e]}) /\ Cardinality({held[e]}) = 1
      BY FS_Singleton
    <3>2. faults' = faults + 1 /\ Orphans' \subseteq Orphans \cup {held[e]}
      BY <2>5, FaultStepOrphansItsJob
    <3> QED
      BY <2>a, <3>1, <3>2, OneFaultsOrphans, QueueAssumption
  <2>6. ASSUME NEW p \in Process, Crash(p)
        PROVE  OrphanInv'
    BY <2>6, <2>a, CrashOrphansItsJobs, HeldByProcess, OneFaultsOrphans
  <2> QED
    BY <2>1, <2>2, <2>3, <2>4, <2>5, <2>6 DEF Next
<1>3. OrphanInv => OrphansBounded
  BY DEF OrphanInv
<1> QED
  BY <1>1, <1>2, <1>3, QueueInvariant, PTL DEF Spec

-----------------------------------------------------------------------------
(***************************************************************************)
(* The queue implements JobLifecycle.  A step is a step of at most one     *)
(* job's life, or of the jobs of one crashed process, so the mapped state  *)
(* is compared job by job.                                                 *)
(***************************************************************************)

\* No row exists: every job is absent in the abstract specification.
LEMMA LifecycleInitially == Init => Lifecycle!LifecycleInit
  BY DEF Init, Lifecycle!LifecycleInit, Life, Owns

\* Life is determined by its values.
LEMMA LifeIsFunction == Life = [j \in Job |-> Life[j]]
<1> DEFINE LifeOf(j) ==
             IF \E e \in Exec : Owns(e, j) THEN "active"
             ELSE CASE status[j] = "absent"    -> "absent"
                    [] status[j] = "queued"    -> "pending"
                    [] status[j] = "running"   -> "orphan"
                    [] status[j] = "completed" -> "done"
                    [] status[j] = "failed"    -> "failed"
<1>1. Life = [j \in Job |-> LifeOf(j)]
  BY DEF Life
<1> HIDE DEF LifeOf
<1> QED
  BY <1>1

\* ... after a step as well.
LEMMA NextLifeIsFunction == (Life = [j \in Job |-> Life[j]])'
  BY LifeIsFunction, PTL

\* One job moves, all others stay where they are.
LEMMA MoveOne ==
  ASSUME NEW j \in Job, NEW from, NEW to,
         Life[j] = from, Life'[j] = to,
         \A k \in Job \ {j} : Life'[k] = Life[k]
  PROVE  Lifecycle!Move(j, from, to)
  BY LifeIsFunction, NextLifeIsFunction DEF Lifecycle!Move

\* The INSERT that finds no row of its key is the job's submission.
LEMMA EnqueueIsSubmit ==
  ASSUME QueueInv, NEW j \in Job, NEW delay \in EnqueueDelay, Enqueue(j, delay)
  PROVE  Lifecycle!Submit(j)
<1> USE DEF QueueInv, TypeOK, HoldsWhileBusy, HeldOnce, RowAgrees, Enqueue, execs, Owns
<1>1. Life[j] = "absent" /\ Life'[j] = "pending"
  BY DEF Life
<1>2. \A k \in Job \ {j} : Life'[k] = Life[k]
  BY DEF Life
<1> QED
  BY <1>1, <1>2, MoveOne DEF Lifecycle!Submit

\* Each statement of a run is at most one move of the job it holds.
LEMMA StepIsLifecycleStep ==
  ASSUME QueueInv, NEW e \in Exec, Step(e)
  PROVE  Lifecycle!LifecycleNext \/ UNCHANGED Lifecycle!lifecycleVars
<1> DEFINE j == held[e]
<1> USE QueueAssumption
        DEF QueueInv, TypeOK, HoldsWhileBusy, HeldOnce, RowAgrees, ReadIsCurrent,
            RetryBudget, Owns, Goto, rows
<1>1. CASE ReserveSelect(e) \/ HandlerReturns(e) \/ HandlerThrows(e) \/ FailRead(e)
  <2>1. \A k \in Job : Life'[k] = Life[k]
    BY <1>1 DEF ReserveSelect, HandlerReturns, HandlerThrows, FailRead, Life
  <2> QED
    BY <1>1, <2>1, LifeIsFunction, NextLifeIsFunction
    DEF ReserveSelect, HandlerReturns, HandlerThrows, FailRead, Lifecycle!lifecycleVars
<1>2. CASE ReserveCommit(e)
  <2>1. j \in Job /\ Life[j] = "pending" /\ Life'[j] = "active"
    BY <1>2 DEF ReserveCommit, MarkRunning, Life
  <2>2. \A k \in Job \ {j} : Life'[k] = Life[k]
    BY <1>2 DEF ReserveCommit, MarkRunning, Life
  <2>3. Lifecycle!Move(j, "pending", "active")
    BY <2>1, <2>2, MoveOne
  <2> QED
    BY <1>2, <2>1, <2>3
    DEF Lifecycle!Start, Lifecycle!LifecycleNext, ReserveCommit, MarkRunning
<1>3. CASE Complete(e)
  <2>1. j \in Job /\ Life[j] = "active" /\ Life'[j] = "done"
    BY <1>3 DEF Complete, EndRun, MarkCompleted, Life
  <2>2. \A k \in Job \ {j} : Life'[k] = Life[k]
    BY <1>3 DEF Complete, EndRun, MarkCompleted, Life
  <2>3. Lifecycle!Move(j, "active", "done")
    BY <2>1, <2>2, MoveOne
  <2> QED
    BY <1>3, <2>1, <2>3
    DEF Lifecycle!Finish, Lifecycle!LifecycleNext, Complete, MarkCompleted
<1>4. CASE FailWrite(e)
  <2>1. j \in Job /\ Life[j] = "active"
    BY <1>4 DEF FailWrite, EndRun, Life
  <2>2. \A k \in Job \ {j} : Life'[k] = Life[k]
    BY <1>4 DEF FailWrite, EndRun, MarkFailed, Life
  <2>3. CASE attempts[j] < MaxAttempts
    <3>1. Life'[j] = "pending"
      BY <1>4, <2>3 DEF FailWrite, EndRun, MarkFailed, Life
    <3>2. Lifecycle!Move(j, "active", "pending")
      BY <2>1, <2>2, <3>1, MoveOne
    <3> QED
      BY <1>4, <2>1, <2>3, <3>2
      DEF Lifecycle!Retry, Lifecycle!LifecycleNext, FailWrite, MarkFailed
  <2>4. CASE attempts[j] = MaxAttempts
    <3>1. Life'[j] = "failed"
      BY <1>4, <2>4 DEF FailWrite, EndRun, MarkFailed, Life
    <3>2. Lifecycle!Move(j, "active", "failed")
      BY <2>1, <2>2, <3>1, MoveOne
    <3> QED
      BY <1>4, <2>1, <2>4, <3>2
      DEF Lifecycle!GiveUp, Lifecycle!LifecycleNext, FailWrite, MarkFailed
  <2> QED
    BY <2>1, <2>3, <2>4
<1> QED
  BY <1>1, <1>2, <1>3, <1>4 DEF Step

\* A failed statement moves its job as if it had succeeded, or orphans it.
LEMMA FaultIsLifecycleStep ==
  ASSUME QueueInv, NEW e \in Exec, FaultStep(e)
  PROVE  Lifecycle!LifecycleNext \/ UNCHANGED Lifecycle!lifecycleVars
<1> DEFINE j == held[e]
<1> USE QueueAssumption
        DEF QueueInv, TypeOK, HoldsWhileBusy, HeldOnce, RowAgrees, ReadIsCurrent,
            RetryBudget, Owns, Goto, rows, EndRun
<1> DEFINE Stutters == (\A k \in Job : Life'[k] = Life[k]) /\ UNCHANGED attempts
           Moves(from, to) == /\ j \in Job
                              /\ Life[j] = from /\ Life'[j] = to
                              /\ \A k \in Job \ {j} : Life'[k] = Life[k]
<1>a. Stutters => UNCHANGED Lifecycle!lifecycleVars
  BY LifeIsFunction, NextLifeIsFunction DEF Lifecycle!lifecycleVars
<1>b. ASSUME NEW from, NEW to, Moves(from, to)
      PROVE  Lifecycle!Move(j, from, to)
  BY <1>b, MoveOne
<1>1. CASE ReserveError(e)
  BY <1>1, <1>a DEF ReserveError, Life
<1>2. CASE ReserveLost(e)
  <2>1. Moves("pending", "orphan")
    BY <1>2 DEF ReserveLost, MarkRunning, Life
  <2> QED
    BY <1>2, <2>1, <1>b
    DEF Lifecycle!LoseReservation, Lifecycle!LifecycleNext, ReserveLost, MarkRunning
<1>3. CASE CompleteError(e)
  BY <1>3, <1>a DEF CompleteError, MarkCompleted, Life
<1>4. CASE FailError(e)
  <2>1. j \in Job
    BY <1>4 DEF FailError
  <2>2. CASE /\ pc[e] = "requeueing"
             /\ EndRun(e, "requeueing")
             /\ MarkFailed(j, seen[e])
    <3>1. CASE attempts[j] < MaxAttempts
      <4>1. Moves("active", "pending")
        BY <2>1, <2>2, <3>1 DEF MarkFailed, Life
      <4> QED
        BY <2>1, <2>2, <3>1, <4>1, <1>b
        DEF Lifecycle!Retry, Lifecycle!LifecycleNext, MarkFailed
    <3>2. CASE attempts[j] = MaxAttempts
      <4>1. Moves("active", "failed")
        BY <2>1, <2>2, <3>2 DEF MarkFailed, Life
      <4> QED
        BY <2>1, <2>2, <3>2, <4>1, <1>b
        DEF Lifecycle!GiveUp, Lifecycle!LifecycleNext, MarkFailed
    <3> QED
      BY <2>1, <3>1, <3>2
  <2>3. CASE UNCHANGED rows /\ (EndRun(e, "failing") \/ EndRun(e, "requeueing"))
    <3>1. CASE status[j] = "running"
      <4>1. Moves("active", "orphan")
        BY <2>1, <2>3, <3>1 DEF Life
      <4>2. Lifecycle!Abandon({j})
        <5>1. Life' = [k \in Job |-> IF k \in {} THEN "done"
                                     ELSE IF k \in {j} THEN "orphan" ELSE Life[k]]
          BY <4>1, NextLifeIsFunction
        <5>2. {} \in SUBSET {j} /\ {j} # {} /\ \A k \in {j} : Life[k] = "active"
          BY <4>1
        <5>3. UNCHANGED attempts
          BY <2>3
        <5> HIDE DEF j
        <5> QED
          BY <5>1, <5>2, <5>3 DEF Lifecycle!Abandon
      <4> QED
        BY <2>1, <4>2 DEF Lifecycle!LifecycleNext
    <3>2. CASE status[j] = "completed"
      <4>1. Moves("active", "done")
        BY <2>1, <2>3, <3>2 DEF Life
      <4> QED
        BY <2>1, <2>3, <4>1, <1>b DEF Lifecycle!Finish, Lifecycle!LifecycleNext
    <3> QED
      BY <2>1, <2>3, <3>1, <3>2
  <2> QED
    BY <1>4, <2>2, <2>3 DEF FailError
<1> QED
  BY <1>1, <1>2, <1>3, <1>4 DEF FaultStep

\* A crash abandons exactly the jobs that the runs of the process own.
LEMMA CrashIsLifecycleStep ==
  ASSUME QueueInv, NEW p \in Process, Crash(p)
  PROVE  Lifecycle!LifecycleNext \/ UNCHANGED Lifecycle!lifecycleVars
<1> DEFINE S == {j \in Job : \E e \in Exec : e[1] = p /\ Owns(e, j)}
           D == {j \in S : status[j] = "completed"}
<1> USE QueueAssumption
        DEF QueueInv, TypeOK, HoldsWhileBusy, HeldOnce, RowAgrees, Owns, rows
<1>1. UNCHANGED attempts
  BY DEF Crash
<1>2. \A j \in S : Life[j] = "active"
  BY DEF Life
<1>3. \A j \in Job : Life'[j] = IF j \in D THEN "done"
                               ELSE IF j \in S THEN "orphan" ELSE Life[j]
  BY DEF Crash, Life
<1>4. CASE S = {}
  BY <1>1, <1>3, <1>4, LifeIsFunction, NextLifeIsFunction DEF Lifecycle!lifecycleVars
<1>5. CASE S # {}
  <2>1. Life' = [j \in Job |-> IF j \in D THEN "done"
                               ELSE IF j \in S THEN "orphan" ELSE Life[j]]
    BY <1>3, NextLifeIsFunction
  <2>2. S \in SUBSET Job /\ D \in SUBSET S
    OBVIOUS
  <2> HIDE DEF S, D
  <2>3. Lifecycle!Abandon(S)
    BY <1>1, <1>2, <1>5, <2>1, <2>2 DEF Lifecycle!Abandon
  <2> QED
    BY <2>2, <2>3 DEF Lifecycle!LifecycleNext
<1> QED
  BY <1>4, <1>5

(***************************************************************************)
(* Every behaviour of the queue is, seen through Life, a behaviour of      *)
(* JobLifecycle: handlers may rely on that specification alone.            *)
(***************************************************************************)
THEOREM QueueImplementsLifecycle == Spec => ImplementsLifecycle
<1>1. QueueInv /\ [Next]_vars => [Lifecycle!LifecycleNext]_(Lifecycle!lifecycleVars)
  <2> SUFFICES ASSUME QueueInv, [Next]_vars
               PROVE  Lifecycle!LifecycleNext \/ UNCHANGED Lifecycle!lifecycleVars
    OBVIOUS
  <2>1. CASE UNCHANGED vars
    BY <2>1 DEF vars, Lifecycle!lifecycleVars, Life, Owns
  <2>2. CASE Tick
    BY <2>2 DEF Tick, execs, Lifecycle!lifecycleVars, Life, Owns
  <2>3. ASSUME NEW j \in Job, NEW delay \in EnqueueDelay, Enqueue(j, delay)
        PROVE  Lifecycle!LifecycleNext
    BY <2>3, EnqueueIsSubmit DEF Lifecycle!LifecycleNext
  <2> QED
    BY <2>1, <2>2, <2>3, StepIsLifecycleStep, FaultIsLifecycleStep,
       CrashIsLifecycleStep DEF Next
<1> QED
  BY <1>1, LifecycleInitially, QueueInvariant, PTL
  DEF Spec, ImplementsLifecycle, Lifecycle!LifecycleSpec
=============================================================================
