-------------------------- MODULE MigrationsProofs --------------------------
(***************************************************************************)
(* Proofs about Migrations, for any number of runs at the same time, of    *)
(* attempts (at least two) and of faults.                                  *)
(***************************************************************************)
EXTENDS Migrations, TLAPS

\* There is a next file when one is left, and it is the first that is left.
LEMMA FirstFile ==
  ASSUME NEW left \in SUBSET File, left # {}
  PROVE  Min(left) \in left /\ \A f \in left : Min(left) <= f
<1>1. \E x \in left : \A y \in left : x =< y
  <2>1. \A x \in left : x = 1 \/ x = 2 \/ x = 3 \/ x = 4
    BY DEF File
  <2>2. CASE 1 \in left
    BY <2>1, <2>2
  <2>3. CASE 1 \notin left /\ 2 \in left
    BY <2>1, <2>3
  <2>4. CASE 1 \notin left /\ 2 \notin left /\ 3 \in left
    BY <2>1, <2>4
  <2>5. CASE 1 \notin left /\ 2 \notin left /\ 3 \notin left
    BY <2>1, <2>5
  <2> QED
    BY <2>2, <2>3, <2>4, <2>5
<1> QED
  BY <1>1 DEF Min

Runs == [state : {"idle", "start", "apply", "record", "done", "failed"},
         file : {0} \cup File, attempt : 0..MaxAttempts,
         read : SUBSET File, found : SUBSET ({0} \cup File), faulty : BOOLEAN]

\* The step to the next file: it is one that the run has not read, and all files
\* before it are recorded; without one the run has come to its end.
LEMMA AttemptNextFile ==
  ASSUME NEW here \in Runs, NEW after \in 0..4, NEW now \in SUBSET File,
         NEW there, there = AttemptNext(here, after, now)
  PROVE  /\ there \in Runs
         /\ there.read = here.read
         /\ \/ there.state = "done" /\ \A f \in File : f <= after \/ f \in here.read
            \/ /\ there.state = "apply"
               /\ there.attempt = 1
               /\ there.file \in File \ here.read
               /\ \A f \in File : f < there.file => f <= after \/ f \in here.read
<1> DEFINE left == {f \in File \ here.read : f > after}
<1>1. CASE left = {}
  <2>1. there = [here EXCEPT !.state = "done"]
    BY <1>1 DEF AttemptNext
  <2>2. \A f \in File : f <= after \/ f \in here.read
    BY <1>1 DEF File
  <2> QED
    BY <2>1, <2>2 DEF Runs
<1>2. CASE left # {}
  <2>1. there = [here EXCEPT !.state = "apply", !.file = Min(left), !.attempt = 1, !.found = now]
    BY <1>2 DEF AttemptNext
  <2>2. Min(left) \in left /\ \A f \in left : Min(left) <= f
    BY <1>2, FirstFile
  <2>3. \A f \in File : f < Min(left) => f <= after \/ f \in here.read
    BY <2>2 DEF File
  <2>4. 1 \in 0..MaxAttempts
    BY MigrationsAssumption
  <2> HIDE DEF left
  <2>5. Min(left) \in File \ here.read
    BY <2>2 DEF left
  <2> QED
    BY <2>1, <2>3, <2>4, <2>5 DEF Runs
<1> QED
  BY <1>1, <1>2

-----------------------------------------------------------------------------
\* What a run in the state there has to agree with, for run r.
Agrees(r, there) ==
    /\ there \in Runs
    /\ there.read \subseteq recorded'
    /\ there.state = "start" => /\ there.file = 0
                                /\ tracked' => 0 \in there.found \/ Runner # {r}
    /\ there.state \in {"apply", "record"} =>
          /\ there.file \in File \ there.read
          /\ \A f \in File : f < there.file => f \in recorded'
    /\ there.state = "apply" /\ there.attempt > 1 /\ ~there.faulty =>
          there.file \in applied' \cap there.found
    /\ there.state = "record" => there.file \in applied'
    /\ there.state = "done" => recorded' = File
    /\ there.state = "failed" /\ ~there.faulty =>
          IF there.file = 0 THEN tracked' /\ Runner # {r}
          ELSE there.file = 4 /\ 4 \in applied' \ there.read

LEMMA InitEstablishesInv == Init => MigrationsInv
<1> SUFFICES ASSUME Init PROVE MigrationsInv
  OBVIOUS
<1>1. NoRun \in Runs
  BY MigrationsAssumption DEF NoRun, Runs
<1>2. TypeOK
  <2>1. run \in [Runner -> Runs]
    BY <1>1 DEF Init
  <2>2. applied \subseteq File /\ recorded \subseteq File /\ tracked \in BOOLEAN
    <3>1. 1 \in File
      BY DEF File
    <3>2. applied = {} \/ applied = {1}
      BY DEF Init
    <3>3. applied \subseteq File
      BY <3>1, <3>2
    <3> QED
      BY <3>3 DEF Init
  <2>3. faults \in 0..MaxFaults
    BY MigrationsAssumption DEF Init
  <2> QED
    BY <2>1, <2>2, <2>3 DEF TypeOK, Runs
<1>3. AppliedInOrder
  BY DEF Init, AppliedInOrder
<1>4. \A r \in Runner : run[r].state = "idle" /\ run[r].read = {}
  BY DEF Init, NoRun
<1>5. FailsOnlyForCause /\ \A r \in Runner : RunAgrees(r)
  BY <1>4 DEF FailsOnlyForCause, RunAgrees, In
<1> QED
  BY <1>2, <1>3, <1>5 DEF MigrationsInv

\* What the other runs have been through stays true when the database only grows
\* and their records stay as they are.
LEMMA OthersAgree ==
  ASSUME MigrationsInv, NEW r \in Runner, NEW there,
         run' = [run EXCEPT ![r] = there],
         applied \subseteq applied', recorded \subseteq recorded', recorded' \subseteq File,
         tracked => tracked', ~tracked => (tracked' => In(r, "start")),
         NEW q \in Runner, q # r
  PROVE  /\ RunAgrees(q)'
         /\ In(q, "failed")' /\ ~run'[q].faulty =>
              IF run'[q].file = 0 THEN tracked' /\ Runner # {q}
              ELSE run'[q].file = 4 /\ 4 \in applied' \ run'[q].read
<1>1. run'[q] = run[q]
  BY DEF MigrationsInv, TypeOK
<1>2. Runner # {q}
  OBVIOUS
<1>3. RunAgrees(q)
  BY DEF MigrationsInv
<1>4. RunAgrees(q)'
  BY <1>1, <1>2, <1>3 DEF RunAgrees, In
<1>5. In(q, "failed") /\ ~run[q].faulty =>
        IF run[q].file = 0 THEN tracked ELSE run[q].file = 4 /\ 4 \in applied \ run[q].read
  BY DEF MigrationsInv, FailsOnlyForCause
<1> QED
  BY <1>1, <1>2, <1>4, <1>5 DEF In

\* A step of run r keeps the invariant when the files stay in order, the records
\* only grow, and its new state agrees with the database.
LEMMA StepOfOneRun ==
  ASSUME MigrationsInv, NEW r \in Runner, NEW there, Agrees(r, there),
         run' = [run EXCEPT ![r] = there],
         applied \subseteq applied', recorded \subseteq recorded',
         applied' \subseteq File, AppliedInOrder', tracked' \in BOOLEAN,
         tracked => tracked', ~tracked => (tracked' => In(r, "start")),
         faults' \in 0..MaxFaults
  PROVE  MigrationsInv'
<1>1. recorded' \subseteq File
  BY DEF AppliedInOrder
<1>2. TypeOK'
  <2>1. run \in [Runner -> Runs]
    BY DEF MigrationsInv, TypeOK, Runs
  <2>2. run' \in [Runner -> Runs]
    BY <2>1 DEF Agrees
  <2> QED
    BY <1>1, <2>2 DEF TypeOK, Runs
<1>3. run'[r] = there
  BY DEF MigrationsInv, TypeOK
<1>4. ASSUME NEW q \in Runner
      PROVE  /\ RunAgrees(q)'
             /\ In(q, "failed")' /\ ~run'[q].faulty =>
                  IF run'[q].file = 0 THEN tracked' /\ Runner # {q}
                  ELSE run'[q].file = 4 /\ 4 \in applied' \ run'[q].read
  <2>1. CASE q = r
    BY <1>3, <2>1 DEF Agrees, RunAgrees, In
  <2>2. CASE q # r
    BY <1>1, <2>2, OthersAgree
  <2> QED
    BY <2>1, <2>2
<1> QED
  BY <1>2, <1>4 DEF MigrationsInv, FailsOnlyForCause

-----------------------------------------------------------------------------
\* A run has the type of a run, and what the invariant says of it.
LEMMA RunTypes ==
  ASSUME MigrationsInv, NEW r \in Runner
  PROVE  /\ run[r] \in Runs
         /\ RunAgrees(r)
         /\ applied \subseteq File /\ recorded \subseteq File /\ recorded \subseteq applied
         /\ tracked \in BOOLEAN
         /\ faults \in 0..MaxFaults
  BY DEF MigrationsInv, TypeOK, Runs, AppliedInOrder

LEMMA StartRunKeepsInv ==
  ASSUME MigrationsInv, NEW r \in Runner, StartRun(r)
  PROVE  MigrationsInv'
<1> DEFINE found == IF tracked THEN {0} ELSE {}
           there == [NoRun EXCEPT !.state = "start", !.found = found]
<1>0. found \in SUBSET ({0} \cup File) /\ (tracked => 0 \in found)
  BY RunTypes
<1> HIDE DEF found
<1>1. /\ there \in Runs /\ there.state = "start" /\ there.file = 0 /\ there.read = {}
      /\ there.found = found
  <2>1. NoRun \in Runs
    BY MigrationsAssumption DEF NoRun, Runs
  <2>2. NoRun.file = 0 /\ NoRun.read = {}
    BY DEF NoRun
  <2> QED
    BY <1>0, <2>1, <2>2 DEF Runs
<1>2. Agrees(r, there)
  BY <1>0, <1>1 DEF Agrees, StartRun
<1>3. run' = [run EXCEPT ![r] = there]
  BY DEF StartRun, Becomes, found
<1> HIDE DEF there
<1> QED
  BY <1>2, <1>3, RunTypes, StepOfOneRun
  DEF StartRun, MigrationsInv, AppliedInOrder

\* A run that has gone on to the next file, with everything up to the one before
\* recorded.
LEMMA NextFileAgrees ==
  ASSUME MigrationsInv, NEW r \in Runner, NEW here \in Runs, NEW after \in 0..4,
         here.read \subseteq recorded', recorded' \subseteq File,
         \A f \in File : f <= after => f \in recorded'
  PROVE  Agrees(r, AttemptNext(here, after, applied))
<1> DEFINE there == AttemptNext(here, after, applied)
<1>1. applied \in SUBSET File
  BY RunTypes
<1>2. /\ there \in Runs
      /\ there.read = here.read
      /\ \/ there.state = "done" /\ \A f \in File : f <= after \/ f \in here.read
         \/ /\ there.state = "apply"
            /\ there.attempt = 1
            /\ there.file \in File \ here.read
            /\ \A f \in File : f < there.file => f <= after \/ f \in here.read
  BY <1>1, AttemptNextFile
<1> HIDE DEF there
<1>3. Agrees(r, there)
  BY <1>2 DEF Agrees
<1> QED
  BY <1>3 DEF there

LEMMA ReadRecordsKeepsInv ==
  ASSUME MigrationsInv, NEW r \in Runner, ReadRecords(r)
  PROVE  MigrationsInv'
<1>1. /\ UNCHANGED <<applied, recorded, faults>> /\ tracked' = TRUE /\ In(r, "start")
      /\ AppliedInOrder'
  BY DEF ReadRecords, MigrationsInv, AppliedInOrder
<1>2. CASE Becomes(r, AttemptNext([run[r] EXCEPT !.read = recorded], 0, applied))
  <2> DEFINE here == [run[r] EXCEPT !.read = recorded]
  <2>1. here \in Runs /\ here.read = recorded
    BY RunTypes DEF Runs
  <2>2. \A f \in File : ~(f <= 0)
    BY DEF File
  <2> HIDE DEF here
  <2>3. Agrees(r, AttemptNext(here, 0, applied))
    BY <1>1, <2>1, <2>2, RunTypes, NextFileAgrees
  <2>4. run' = [run EXCEPT ![r] = AttemptNext(here, 0, applied)]
    BY <1>2 DEF Becomes, here
  <2> QED
    BY <1>1, <2>3, <2>4, RunTypes, StepOfOneRun
<1>3. CASE tracked /\ 0 \notin run[r].found /\ Becomes(r, Failed(run[r]))
  <2>1. Failed(run[r]) \in Runs
    BY RunTypes DEF Failed, Runs
  <2>2. /\ Failed(run[r]).state = "failed"
        /\ Failed(run[r]).file = 0 /\ Runner # {r}
        /\ Failed(run[r]).read \subseteq recorded
    BY <1>1, <1>3, RunTypes DEF Failed, Runs, RunAgrees, In
  <2>3. Agrees(r, Failed(run[r]))
    BY <1>1, <2>1, <2>2 DEF Agrees
  <2> QED
    BY <1>1, <1>3, <2>3, RunTypes, StepOfOneRun DEF Becomes
<1> QED
  BY <1>2, <1>3 DEF ReadRecords

\* The file a run is at can be added to the files applied: those before it are there.
LEMMA NextInOrder ==
  ASSUME MigrationsInv, NEW r \in Runner, run[r].state \in {"apply", "record"}
  PROVE  /\ run[r].file \in File \ run[r].read
         /\ \A g \in applied \cup {run[r].file} : 1..g \subseteq applied \cup {run[r].file}
         /\ Needs(run[r].file) \subseteq applied
<1> DEFINE f == run[r].file
<1>1. f \in File \ run[r].read /\ \A g \in File : g < f => g \in recorded
  BY RunTypes DEF RunAgrees
<1>2. recorded \subseteq applied /\ \A g \in applied : 1..g \subseteq applied
  BY DEF MigrationsInv, AppliedInOrder
<1>3. 1..f \subseteq applied \cup {f}
  BY <1>1, <1>2 DEF File
<1>4. Needs(f) \subseteq applied
  BY <1>1, <1>2 DEF Needs, File
<1> QED
  BY <1>1, <1>2, <1>3, <1>4

\* Another attempt, or the end after the last one, keeps a run in agreement when it
\* has met a fault, or was refused a file that was applied already.
LEMMA TryAgainAgrees ==
  ASSUME MigrationsInv, NEW r \in Runner, run[r].state \in {"apply", "record"},
         NEW here \in Runs, here.state = run[r].state, here.file = run[r].file,
         here.attempt = run[r].attempt, here.read = run[r].read,
         applied \subseteq applied', recorded \subseteq recorded', applied' \subseteq File,
         \/ here.faulty
         \/ /\ here.state = "apply" /\ here.file \in applied'
            /\ here.attempt = MaxAttempts => here.file = 4
  PROVE  Agrees(r, TryAgain(here, applied'))
<1>1. /\ here.file \in File \ here.read
      /\ \A f \in File : f < here.file => f \in recorded'
      /\ here.state = "record" => here.file \in applied'
      /\ here.read \subseteq recorded'
  BY RunTypes DEF RunAgrees, In
<1>2. 0 \notin File
  BY DEF File
<1>3. CASE here.attempt = MaxAttempts
  <2>1. TryAgain(here, applied') = [here EXCEPT !.state = "failed"]
    BY <1>3 DEF TryAgain, Failed
  <2> QED
    BY <1>1, <1>2, <1>3, <2>1 DEF Agrees, Runs
<1>4. CASE here.attempt # MaxAttempts
  <2> DEFINE there == [here EXCEPT !.attempt = here.attempt + 1, !.found = applied']
  <2>1. TryAgain(here, applied') = there
    BY <1>4 DEF TryAgain
  <2>2. here.attempt + 1 \in 0..MaxAttempts
    BY <1>4, MigrationsAssumption DEF Runs
  <2>3. /\ there \in Runs /\ there.state = here.state /\ there.file = here.file
        /\ there.read = here.read /\ there.faulty = here.faulty /\ there.found = applied'
    BY <2>2 DEF Runs
  <2> HIDE DEF there
  <2>4. Agrees(r, there)
    BY <1>1, <2>3 DEF Agrees
  <2> QED
    BY <2>1, <2>4
<1> QED
  BY <1>3, <1>4

LEMMA ApplyKeepsInv ==
  ASSUME MigrationsInv, NEW r \in Runner, Apply(r)
  PROVE  MigrationsInv'
<1> DEFINE f == run[r].file
<1>1. run[r].state = "apply" /\ UNCHANGED <<tracked, recorded, faults>>
  BY DEF Apply, In
<1>2. /\ f \in File \ run[r].read
      /\ \A g \in applied \cup {f} : 1..g \subseteq applied \cup {f}
      /\ Needs(f) \subseteq applied
  BY <1>1, NextInOrder
<1>3. CASE applied' = applied \cup {f} /\ Becomes(r, [run[r] EXCEPT !.state = "record", !.attempt = 1])
  <2> DEFINE there == [run[r] EXCEPT !.state = "record", !.attempt = 1]
  <2>1. 1 \in 0..MaxAttempts
    BY MigrationsAssumption
  <2>2. /\ there \in Runs /\ there.state = "record" /\ there.file = f
        /\ there.read = run[r].read
    BY <2>1, RunTypes DEF Runs
  <2>3. run' = [run EXCEPT ![r] = there]
    BY <1>3 DEF Becomes
  <2> HIDE DEF there
  <2>4. Agrees(r, there)
    BY <1>1, <1>2, <1>3, <2>2, RunTypes DEF Agrees, RunAgrees
  <2>5. AppliedInOrder'
    BY <1>1, <1>2, <1>3, RunTypes DEF AppliedInOrder
  <2> QED
    BY <1>1, <1>2, <1>3, <2>3, <2>4, <2>5, RunTypes, StepOfOneRun
<1>4. CASE MayRefuse(f, run[r].found) /\ Becomes(r, TryAgain(run[r], applied)) /\ UNCHANGED applied
  <2>1. f \in applied /\ (f = 4 \/ f \notin run[r].found)
    BY <1>2, <1>4 DEF MayRefuse, Accepted, Repeatable, File
  <2>2. run[r].attempt = MaxAttempts => run[r].faulty \/ f = 4
    BY <1>1, <2>1, RunTypes, MigrationsAssumption DEF RunAgrees, In
  <2>3. Agrees(r, TryAgain(run[r], applied'))
    BY <1>1, <1>4, <2>1, <2>2, RunTypes, TryAgainAgrees
  <2>4. AppliedInOrder'
    BY <1>1, <1>4 DEF MigrationsInv, AppliedInOrder
  <2> QED
    BY <1>1, <1>4, <2>3, <2>4, RunTypes, StepOfOneRun DEF Becomes
<1> QED
  BY <1>3, <1>4 DEF Apply

LEMMA RecordKeepsInv ==
  ASSUME MigrationsInv, NEW r \in Runner, Record(r)
  PROVE  MigrationsInv'
<1> DEFINE f == run[r].file
<1>1. /\ run[r].state = "record" /\ UNCHANGED <<applied, tracked, faults>>
      /\ recorded' = recorded \cup {f}
      /\ run' = [run EXCEPT ![r] = AttemptNext(run[r], f, applied)]
  BY DEF Record, In, Becomes
<1>2. /\ f \in File /\ f \in applied /\ \A g \in File : g < f => g \in recorded
      /\ run[r].read \subseteq recorded
  BY <1>1, RunTypes DEF RunAgrees, In
<1>3. f \in 0..4 /\ \A g \in File : g <= f => g \in recorded'
  BY <1>1, <1>2 DEF File
<1>4. Agrees(r, AttemptNext(run[r], f, applied))
  BY <1>1, <1>2, <1>3, RunTypes, NextFileAgrees
<1>5. AppliedInOrder'
  BY <1>1, <1>2 DEF MigrationsInv, AppliedInOrder
<1> QED
  BY <1>1, <1>4, <1>5, RunTypes, StepOfOneRun

\* A run that a fault has ended agrees with any database that has only grown.
LEMMA FaultyEndAgrees ==
  ASSUME MigrationsInv, NEW r \in Runner, recorded \subseteq recorded'
  PROVE  Agrees(r, Failed([run[r] EXCEPT !.faulty = TRUE]))
<1> DEFINE there == Failed([run[r] EXCEPT !.faulty = TRUE])
<1>1. there \in Runs /\ there.state = "failed" /\ there.faulty /\ there.read = run[r].read
  BY RunTypes DEF Failed, Runs
<1>2. run[r].read \subseteq recorded'
  BY RunTypes DEF RunAgrees
<1> HIDE DEF there
<1>3. Agrees(r, there)
  BY <1>1, <1>2 DEF Agrees
<1> QED
  BY <1>3 DEF there

LEMMA LoseConnectionKeepsInv ==
  ASSUME MigrationsInv, NEW r \in Runner, LoseConnection(r)
  PROVE  MigrationsInv'
<1> DEFINE here == [run[r] EXCEPT !.faulty = TRUE]
<1>1. faults' \in 0..MaxFaults
  BY RunTypes, MigrationsAssumption DEF LoseConnection
<1>2. /\ here \in Runs /\ here.faulty /\ here.state = run[r].state /\ here.file = run[r].file
      /\ here.attempt = run[r].attempt /\ here.read = run[r].read
  BY RunTypes DEF Runs
<1>3. CASE /\ In(r, "start") /\ tracked' \in {tracked, TRUE}
           /\ Becomes(r, Failed(here)) /\ UNCHANGED <<applied, recorded>>
  <2>1. Agrees(r, Failed(here))
    BY <1>3, FaultyEndAgrees
  <2>2. AppliedInOrder'
    BY <1>3 DEF MigrationsInv, AppliedInOrder
  <2>3. run' = [run EXCEPT ![r] = Failed(here)]
    BY <1>3 DEF Becomes
  <2>4. tracked' \in BOOLEAN /\ (tracked => tracked') /\ (~tracked => (tracked' => In(r, "start")))
    <3>1. tracked \in BOOLEAN /\ In(r, "start") /\ (tracked' = tracked \/ tracked' = TRUE)
      BY <1>3, RunTypes
    <3>2. CASE tracked' = tracked
      BY <3>1, <3>2, Zenon
    <3>3. CASE tracked' = TRUE
      BY <3>1, <3>3, Zenon
    <3> QED
      BY <3>1, <3>2, <3>3, Zenon
  <2>5. /\ applied \subseteq applied' /\ recorded \subseteq recorded'
        /\ applied' \subseteq File
    BY <1>3, RunTypes
  <2> HIDE DEF here
  <2> QED
    BY <1>1, <2>1, <2>2, <2>3, <2>4, <2>5, StepOfOneRun
<1>4. CASE /\ In(r, "apply")
           /\ UNCHANGED applied \/ (Accepted(here.file) /\ applied' = applied \cup {here.file})
           /\ Becomes(r, TryAgain(here, applied')) /\ UNCHANGED <<tracked, recorded>>
  <2>1. /\ run[r].file \in File
        /\ \A g \in applied \cup {run[r].file} : 1..g \subseteq applied \cup {run[r].file}
    BY <1>4, NextInOrder DEF In
  <2>2. applied \subseteq applied' /\ applied' \subseteq File /\ AppliedInOrder'
    BY <1>2, <1>4, <2>1, RunTypes DEF MigrationsInv, AppliedInOrder
  <2> HIDE DEF here
  <2>3. Agrees(r, TryAgain(here, applied'))
    BY <1>2, <1>4, <2>2, RunTypes, TryAgainAgrees DEF In
  <2> QED
    BY <1>1, <1>4, <2>2, <2>3, RunTypes, StepOfOneRun DEF Becomes
<1>5. CASE /\ In(r, "record") /\ recorded' \in {recorded, recorded \cup {here.file}}
           /\ Becomes(r, TryAgain(here, applied)) /\ UNCHANGED <<applied, tracked>>
  <2>1. run[r].file \in applied
    BY <1>5, RunTypes DEF RunAgrees
  <2>2. recorded \subseteq recorded' /\ AppliedInOrder'
    BY <1>2, <1>5, <2>1 DEF MigrationsInv, AppliedInOrder
  <2> HIDE DEF here
  <2>3. Agrees(r, TryAgain(here, applied'))
    BY <1>2, <1>5, <2>2, RunTypes, TryAgainAgrees DEF In
  <2> QED
    BY <1>1, <1>5, <2>2, <2>3, RunTypes, StepOfOneRun DEF Becomes
<1> QED
  BY <1>3, <1>4, <1>5 DEF LoseConnection

LEMMA KillKeepsInv ==
  ASSUME MigrationsInv, NEW r \in Runner, Kill(r)
  PROVE  MigrationsInv'
<1>1. faults' \in 0..MaxFaults
  BY RunTypes, MigrationsAssumption DEF Kill
<1>2. /\ applied \subseteq applied' /\ applied' \subseteq File
      /\ recorded \subseteq recorded' /\ AppliedInOrder'
  <2>1. CASE UNCHANGED <<applied, recorded>>
    BY <2>1, RunTypes DEF MigrationsInv, AppliedInOrder
  <2>2. CASE In(r, "apply") /\ applied' = applied \cup {run[r].file} /\ UNCHANGED recorded
    <3>1. /\ run[r].file \in File
          /\ \A g \in applied \cup {run[r].file} : 1..g \subseteq applied \cup {run[r].file}
      BY <2>2, NextInOrder DEF In
    <3> QED
      BY <2>2, <3>1, RunTypes DEF AppliedInOrder
  <2>3. CASE In(r, "record") /\ recorded' = recorded \cup {run[r].file} /\ UNCHANGED applied
    <3>1. run[r].file \in applied
      BY <2>3, RunTypes DEF RunAgrees
    <3> QED
      BY <2>3, <3>1, RunTypes DEF MigrationsInv, AppliedInOrder
  <2> QED
    BY <2>1, <2>2, <2>3 DEF Kill
<1>3. Agrees(r, Failed([run[r] EXCEPT !.faulty = TRUE]))
  BY <1>2, FaultyEndAgrees
<1>4. tracked' = tracked /\ run' = [run EXCEPT ![r] = Failed([run[r] EXCEPT !.faulty = TRUE])]
  BY DEF Kill, Becomes
<1> QED
  BY <1>1, <1>2, <1>3, <1>4, RunTypes, StepOfOneRun

\* Every step keeps the invariant, and so does none.
LEMMA NextKeepsInv ==
  ASSUME MigrationsInv, [Next]_vars
  PROVE  MigrationsInv'
<1>1. CASE Next
  BY <1>1, StartRunKeepsInv, ReadRecordsKeepsInv, ApplyKeepsInv, RecordKeepsInv,
     LoseConnectionKeepsInv, KillKeepsInv DEF Next, Step
<1>2. CASE UNCHANGED vars
  BY <1>2 DEF vars, MigrationsInv, TypeOK, AppliedInOrder, FailsOnlyForCause, RunAgrees, In
<1> QED
  BY <1>1, <1>2

-----------------------------------------------------------------------------
(***************************************************************************)
(* What each run has read, done and found agrees with the database in      *)
(* every reachable state, however the runs of migrate.ts interleave and    *)
(* whatever is lost or killed.                                             *)
(***************************************************************************)
THEOREM MigrationsInvariant == Spec => []MigrationsInv
<1>1. Init => MigrationsInv
  BY InitEstablishesInv
<1>2. MigrationsInv /\ [Next]_vars => MigrationsInv'
  BY NextKeepsInv
<1> QED
  BY <1>1, <1>2, PTL DEF Spec

(***************************************************************************)
(* The state of migrate.ts has its types: no attempt is made after the     *)
(* last one, and only the four files are applied or recorded.              *)
(***************************************************************************)
THEOREM TypesHold == Spec => []TypeOK
<1>1. MigrationsInv => TypeOK
  BY DEF MigrationsInv
<1> QED
  BY <1>1, MigrationsInvariant, PTL

(***************************************************************************)
(* The migrations are applied in the order of their names, without a gap,  *)
(* and only what is applied is recorded.                                   *)
(***************************************************************************)
THEOREM OrderHolds == Spec => []AppliedInOrder
<1>1. MigrationsInv => AppliedInOrder
  BY DEF MigrationsInv
<1> QED
  BY <1>1, MigrationsInvariant, PTL

(***************************************************************************)
(* A run of migrate.ts that ends well leaves the whole schema applied and  *)
(* recorded.                                                               *)
(***************************************************************************)
THEOREM DoneHolds == Spec => []DoneMeansMigrated
<1>1. MigrationsInv => DoneMeansMigrated
  BY DEF MigrationsInv, TypeOK, AppliedInOrder, RunAgrees, DoneMeansMigrated, In
<1> QED
  BY <1>1, MigrationsInvariant, PTL

(***************************************************************************)
(* A run that has met no fault fails only at file 4, applied but not       *)
(* recorded, or at its first statement because of another run.             *)
(***************************************************************************)
THEOREM CausesHold == Spec => []FailsOnlyForCause
<1>1. MigrationsInv => FailsOnlyForCause
  BY DEF MigrationsInv
<1> QED
  BY <1>1, MigrationsInvariant, PTL
=============================================================================
