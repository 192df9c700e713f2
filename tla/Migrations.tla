----------------------------- MODULE Migrations -----------------------------
(***************************************************************************)
(* scripts/migrate.ts and the four files of migrations/.                   *)
(*                                                                         *)
(* A file is one transaction.  That it was applied is recorded afterwards, *)
(* by a statement of its own.  A run that fails is repeated by hand, and   *)
(* nothing keeps two deployments from running at the same time.            *)
(***************************************************************************)
EXTENDS Integers, FiniteSetsExt

CONSTANTS
    Runner,        \* places where a run can be started
    MaxAttempts,   \* attempts at each statement: 3
    MaxFaults      \* lost connections and killed runs

ASSUME MigrationsAssumption ==
    /\ MaxAttempts \in Nat \ {0, 1}
    /\ MaxFaults \in Nat

\* 0001_init to 0004_fix_pdp_submissions_constraint, in the order of their names.
File == 1..4

\* IF NOT EXISTS guards what 1 to 3 create, not the constraint that 4 adds.
Repeatable == {1, 2, 3}

\* 2 to 4 alter tables that 1 creates.
Needs(f) == IF f = 1 THEN {} ELSE {1}

VARIABLES
    applied,     \* files whose transaction was committed
    tracked,     \* does the table schema_migrations exist?
    recorded,    \* its rows
    run,         \* run[r]: the state of the last run at r, its file, the attempt at
                 \*   the statement, the rows it has read, what was there when the
                 \*   attempt began, and whether it has met a fault
    faults       \* faults so far

vars == <<applied, tracked, recorded, run, faults>>

NoRun == [state |-> "idle", file |-> 0, attempt |-> 0, read |-> {}, found |-> {},
          faulty |-> FALSE]

\* The schema may be older than the table of the records.
Init ==
    /\ applied \in {{}, {1}}
    /\ tracked = FALSE
    /\ recorded = {}
    /\ run = [r \in Runner |-> NoRun]
    /\ faults = 0

Active(r) == run[r].state \in {"start", "apply", "record"}
In(r, state) == run[r].state = state

Becomes(r, next) == run' = [run EXCEPT ![r] = next]

\* A failed run stays at the file it failed at.
Failed(here) == [here EXCEPT !.state = "failed"]

-----------------------------------------------------------------------------
\* found tells whether the table was there when the run began.
StartRun(r) ==
    /\ ~Active(r)
    /\ Becomes(r, [NoRun EXCEPT !.state = "start", !.found = IF tracked THEN {0} ELSE {}])
    /\ UNCHANGED <<applied, tracked, recorded, faults>>

\* Mutant: the files that were applied are not left out.
AttemptEvery(here, after, now) ==
    LET left == {f \in File : f > after}
    IN IF left = {} THEN [here EXCEPT !.state = "done"]
       ELSE [here EXCEPT !.state = "apply", !.file = Min(left), !.attempt = 1, !.found = now]

\* The next file that is not among the rows read.
AttemptNext(here, after, now) ==
    LET left == {f \in File \ here.read : f > after}
    IN IF left = {} THEN [here EXCEPT !.state = "done"]
       ELSE [here EXCEPT !.state = "apply", !.file = Min(left), !.attempt = 1, !.found = now]

\* CREATE TABLE IF NOT EXISTS and SELECT, without retries.  PostgreSQL may refuse
\* the first of them when another run has created the table in the meantime.
ReadRecords(r) ==
    /\ In(r, "start")
    /\ tracked' = TRUE
    /\ \/ Becomes(r, AttemptNext([run[r] EXCEPT !.read = recorded], 0, applied))
       \/ tracked /\ 0 \notin run[r].found /\ Becomes(r, Failed(run[r]))
    /\ UNCHANGED <<applied, recorded, faults>>

\* Mutant: only the last attempt's error is kept, and the loop goes on to the record.
TryAgainOrGoOn(here, now) ==
    IF here.attempt = MaxAttempts
    THEN IF here.state = "apply" THEN [here EXCEPT !.state = "record", !.attempt = 1]
                                 ELSE Failed(here)
    ELSE [here EXCEPT !.attempt = @ + 1, !.found = now]

\* Mutant: attempts are not limited.
TryAgainForever(here, now) == [here EXCEPT !.attempt = @ + 1, !.found = now]

TryAgain(here, now) ==
    IF here.attempt = MaxAttempts THEN Failed(here)
    ELSE [here EXCEPT !.attempt = @ + 1, !.found = now]

\* PostgreSQL takes the file, or refuses it: for a missing table, for a constraint
\* that exists, or as another run has created the same in the meantime.
Accepted(f) == Needs(f) \subseteq applied /\ (f \in Repeatable \/ f \notin applied)
MayRefuse(f, found) == ~Accepted(f) \/ f \in applied \ found

Apply(r) ==
    LET f == run[r].file IN
    /\ In(r, "apply")
    /\ \/ /\ Accepted(f)
          /\ applied' = applied \cup {f}
          /\ Becomes(r, [run[r] EXCEPT !.state = "record", !.attempt = 1])
       \/ /\ MayRefuse(f, run[r].found)
          /\ Becomes(r, TryAgain(run[r], applied))
          /\ UNCHANGED applied
    /\ UNCHANGED <<tracked, recorded, faults>>

\* Mutant: a run ends when it has recorded a file.
RecordAndStop(r) ==
    /\ In(r, "record")
    /\ recorded' = recorded \cup {run[r].file}
    /\ Becomes(r, [run[r] EXCEPT !.state = "done"])
    /\ UNCHANGED <<applied, tracked, faults>>

\* INSERT ... ON CONFLICT DO NOTHING, and on to the next file.
Record(r) ==
    /\ In(r, "record")
    /\ recorded' = recorded \cup {run[r].file}
    /\ Becomes(r, AttemptNext(run[r], run[r].file, applied))
    /\ UNCHANGED <<applied, tracked, faults>>

\* The connection is lost, and with it the statement or only its answer.
LoseConnection(r) ==
    LET here == [run[r] EXCEPT !.faulty = TRUE] IN
    /\ faults < MaxFaults
    /\ faults' = faults + 1
    /\ \/ /\ In(r, "start")
          /\ tracked' \in {tracked, TRUE}
          /\ Becomes(r, Failed(here))
          /\ UNCHANGED <<applied, recorded>>
       \/ /\ In(r, "apply")
          /\ \/ UNCHANGED applied
             \/ Accepted(here.file) /\ applied' = applied \cup {here.file}
          /\ Becomes(r, TryAgain(here, applied'))
          /\ UNCHANGED <<tracked, recorded>>
       \/ /\ In(r, "record")
          /\ recorded' \in {recorded, recorded \cup {here.file}}
          /\ Becomes(r, TryAgain(here, applied))
          /\ UNCHANGED <<applied, tracked>>

\* A run is killed while its statement is under way.
Kill(r) ==
    /\ faults < MaxFaults
    /\ Active(r)
    /\ faults' = faults + 1
    /\ \/ UNCHANGED <<applied, recorded>>
       \/ /\ In(r, "apply") /\ Accepted(run[r].file)
          /\ applied' = applied \cup {run[r].file}
          /\ UNCHANGED recorded
       \/ /\ In(r, "record")
          /\ recorded' = recorded \cup {run[r].file}
          /\ UNCHANGED applied
    /\ Becomes(r, Failed([run[r] EXCEPT !.faulty = TRUE]))
    /\ UNCHANGED tracked

Step(r) == ReadRecords(r) \/ Apply(r) \/ Record(r)

Next == \E r \in Runner : StartRun(r) \/ Step(r) \/ LoseConnection(r) \/ Kill(r)

Spec == Init /\ [][Next]_vars

-----------------------------------------------------------------------------
TypeOK ==
    /\ applied \subseteq File
    /\ tracked \in BOOLEAN
    /\ recorded \subseteq File
    /\ run \in [Runner -> [state : {"idle", "start", "apply", "record", "done", "failed"},
                           file : {0} \cup File, attempt : 0..MaxAttempts,
                           read : SUBSET File, found : SUBSET ({0} \cup File),
                           faulty : BOOLEAN]]
    /\ faults \in 0..MaxFaults

(***************************************************************************)
(* The files are applied in the order of their names without a gap, and    *)
(* only what is applied is recorded, whatever is lost, killed or started   *)
(* at the same time.                                                       *)
(***************************************************************************)
AppliedInOrder ==
    /\ recorded \subseteq applied
    /\ \A f \in applied : 1..f \subseteq applied

(***************************************************************************)
(* A run that ends well leaves every file applied and recorded.            *)
(***************************************************************************)
DoneMeansMigrated ==
    \A r \in Runner : In(r, "done") => applied = File /\ recorded = File

(***************************************************************************)
(* A run that has met no fault fails only at file 4, which cannot be       *)
(* repeated, when it was applied without having been recorded before the   *)
(* run began; or at its first statement, when another run has created the  *)
(* table at the same time.                                                 *)
(***************************************************************************)
FailsOnlyForCause ==
    \A r \in Runner : In(r, "failed") /\ ~run[r].faulty =>
       IF run[r].file = 0 THEN tracked /\ Runner # {r}
       ELSE run[r].file = 4 /\ 4 \in applied \ run[r].read

(***************************************************************************)
(* The inductive invariant: what a run has read, done and found agrees     *)
(* with the database, however the other runs have changed it since.        *)
(***************************************************************************)
RunAgrees(r) ==
    LET here == run[r] IN
    /\ here.read \subseteq recorded
    /\ In(r, "start") => /\ here.file = 0
                         /\ tracked => 0 \in here.found \/ Runner # {r}
    /\ here.state \in {"apply", "record"} =>
          /\ here.file \in File \ here.read
          /\ \A f \in File : f < here.file => f \in recorded
    /\ In(r, "apply") /\ here.attempt > 1 /\ ~here.faulty =>
          here.file \in applied \cap here.found
    /\ In(r, "record") => here.file \in applied
    /\ In(r, "done") => recorded = File

MigrationsInv ==
    /\ TypeOK
    /\ AppliedInOrder
    /\ FailsOnlyForCause
    /\ \A r \in Runner : RunAgrees(r)

(***************************************************************************)
(* Reruns are safe: a run that has the database to itself and meets no     *)
(* fault does not fail, whatever an earlier run has left behind.           *)
(***************************************************************************)
RerunsAreSafe ==
    \A r \in Runner : Runner = {r} /\ ~run[r].faulty => ~In(r, "failed")
=============================================================================
