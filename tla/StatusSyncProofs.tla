--------------------------- MODULE StatusSyncProofs ---------------------------
(***************************************************************************)
(* Proofs about StatusSync, for any invoices, any number of attempts, of   *)
(* overlapping runs and of faults, any deployments and any course that a   *)
(* status takes at the PDP.                                                *)
(***************************************************************************)
EXTENDS StatusSync, FiniteSetTheorems, TLAPS

-----------------------------------------------------------------------------
(***************************************************************************)
(* Jobs and submissions.                                                   *)
(***************************************************************************)
LEMMA JobFacts ==
  /\ \A i \in Invoice : /\ SubmitJob(i) \in Job /\ IsSubmit(SubmitJob(i))
                        /\ InvoiceOf(SubmitJob(i)) = i
                        /\ FirstSync(i) \in Job
  /\ \A s \in Submission : /\ ReconcileSync(s) \in Job
                           /\ \A n \in 1..MaxAttempts : RetrySync(s, n) \in Job
  /\ \A j \in Job : /\ InvoiceOf(j) \in Invoice
                    /\ IsSubmit(j) => j = SubmitJob(InvoiceOf(j))
<1>1. ASSUME NEW i \in Invoice
      PROVE  /\ SubmitJob(i) \in Job /\ IsSubmit(SubmitJob(i))
             /\ InvoiceOf(SubmitJob(i)) = i
             /\ FirstSync(i) \in Job /\ InvoiceOf(FirstSync(i)) \in Invoice
             /\ ~IsSubmit(FirstSync(i))
  BY DEF Job, SubmitJob, FirstSync, IsSubmit, InvoiceOf
<1>2. ASSUME NEW s \in Submission
      PROVE  /\ ReconcileSync(s) \in Job /\ InvoiceOf(ReconcileSync(s)) \in Invoice
             /\ ~IsSubmit(ReconcileSync(s))
  <2>1. s[1] \in Invoice
    BY DEF Submission
  <2>2. ReconcileSync(s)[1] = "SYNC reconcile" /\ ReconcileSync(s)[2] = s
    BY DEF ReconcileSync
  <2>3. ReconcileSync(s) \in Job
    BY DEF Job
  <2> QED
    BY <2>1, <2>2, <2>3 DEF IsSubmit, InvoiceOf
<1>3. ASSUME NEW s \in Submission, NEW n \in 1..MaxAttempts
      PROVE  /\ RetrySync(s, n) \in Job /\ InvoiceOf(RetrySync(s, n)) \in Invoice
             /\ ~IsSubmit(RetrySync(s, n))
  <2>1. s[1] \in Invoice
    BY DEF Submission
  <2>2. RetrySync(s, n)[1] = "SYNC retry" /\ RetrySync(s, n)[2] = s
    BY DEF RetrySync
  <2>3. RetrySync(s, n) \in Job
    BY DEF Job
  <2> QED
    BY <2>1, <2>2, <2>3 DEF IsSubmit, InvoiceOf
<1>4. ASSUME NEW j \in Job
      PROVE  \/ \E i \in Invoice : j = SubmitJob(i) \/ j = FirstSync(i)
             \/ \E s \in Submission : \/ j = ReconcileSync(s)
                                      \/ \E n \in 1..MaxAttempts : j = RetrySync(s, n)
  BY DEF Job
<1> QED
  BY <1>1, <1>2, <1>3, <1>4

LEMMA SubmissionFacts ==
  /\ \A i \in Invoice, n \in 1..MaxAttempts :
        <<i, n>> \in Submission /\ <<i, n>>[1] = i /\ <<i, n>>[2] = n
  /\ \A s \in Submission : /\ s[1] \in Invoice /\ s[2] \in 1..MaxAttempts
                           /\ s = <<s[1], s[2]>> /\ s # NoSubmission
  /\ \A i, k : \A n, m : SubmitKey(i, n) = SubmitKey(k, m) <=> i = k
  BY DEF Submission, NoSubmission, SubmitKey

LEMMA StatusFacts ==
  \A status \in PdpStatus : InvoiceStatusFor(status) \in InvoiceStatus
  BY DEF PdpStatus, InvoiceStatusFor, UpperCase, InvoiceStatus

LEMMA RunsBounded == Bounded
  BY StatusSyncAssumption DEF Bounded

-----------------------------------------------------------------------------
(***************************************************************************)
(* The parts of the invariant that different steps disturb.                *)
(***************************************************************************)
MemoryTyped ==
    /\ chosen \in [Job -> Submission \cup {NoSubmission}]
    /\ heard \in [Job -> PdpStatus \cup {"none"}]

PdpTyped ==
    /\ deployment \in Deployment
    /\ pdp \in [Submission -> PdpStatus \cup {"none"}]
    /\ had \in [Submission -> SUBSET PdpStatus]

RecordsFit ==
    /\ invoice \in [Invoice -> InvoiceStatus]
    /\ row \in [Invoice -> {NoRow} \cup
                [id : Submission, status : PdpStatus, recent : BOOLEAN]]
    /\ todo \subseteq Submission
    /\ ghl \in [Invoice -> InvoiceStatus \cup {"none"}]
    /\ RowTellsItsOwnStatus
    /\ ShownStatusWasGiven

LEMMA PartsOfInv ==
  SyncInv <=> /\ RunsInv /\ MemoryTyped /\ PdpTyped /\ PdpFits /\ RecordsFit
              /\ \A j \in Job : RunFits(j)
  BY DEF SyncInv, TypeOK, RunsInv, MemoryTyped, PdpTyped, RecordsFit

LEMMA PartsOfNextInv ==
  ASSUME RunsInv', MemoryTyped', PdpTyped', PdpFits', RecordsFit',
         \A j \in Job : RunFits(j)'
  PROVE  SyncInv'
  BY DEF SyncInv, TypeOK, RunsInv, MemoryTyped, PdpTyped, RecordsFit

\* What the PDP knew it still knows.
PdpGrows == \A s \in Submission : pdp[s] # "none" => pdp'[s] # "none" /\ had[s] \subseteq had'[s]

\* The runs other than j, and what they remember, stay as they are.
OthersStay(j) ==
    \A k \in Job \ {j} : at'[k] = at[k] /\ chosen'[k] = chosen[k] /\ heard'[k] = heard[k]

LEMMA KnownGrows ==
  ASSUME PdpGrows
  PROVE  \A i \in Invoice : /\ Known(i) \subseteq Known(i)'
                            /\ \A s \in Known(i) : had[s] \subseteq had'[s]
  BY DEF PdpGrows, Known

\* A run that is left alone fits a PDP that has only learned.
LEMMA RunStaysFit ==
  ASSUME NEW k \in Job, RunFits(k), PdpGrows,
         at'[k] = at[k], chosen'[k] = chosen[k], heard'[k] = heard[k]
  PROVE  RunFits(k)'
<1>1. InvoiceOf(k) \in Invoice
  BY JobFacts
<1>2. \A s \in Known(InvoiceOf(k)) : s \in Known(InvoiceOf(k))' /\ had[s] \subseteq had'[s]
  BY <1>1, KnownGrows
<1> QED
  BY <1>2 DEF RunFits

LEMMA RunsStayFit ==
  ASSUME SyncInv, NEW j \in Job, OthersStay(j), PdpGrows, RunFits(j)'
  PROVE  \A k \in Job : RunFits(k)'
  BY RunStaysFit DEF SyncInv, OthersStay

\* The rows, the invoices and GHL fit a PDP that has only learned.
LEMMA RecordsStayFit ==
  ASSUME SyncInv, PdpGrows, UNCHANGED <<invoice, row, todo, ghl>>
  PROVE  RecordsFit'
<1>1. RecordsFit
  BY PartsOfInv
<1>2. RowTellsItsOwnStatus'
  BY <1>1, KnownGrows DEF RecordsFit, RowTellsItsOwnStatus
<1>3. ShownStatusWasGiven'
  BY <1>1, KnownGrows DEF RecordsFit, ShownStatusWasGiven
<1> QED
  BY <1>1, <1>2, <1>3 DEF RecordsFit

\* What the PDP knows goes on fitting the attempts while it stays as it is.
LEMMA PdpStaysFit ==
  ASSUME SyncInv, UNCHANGED pdpVars,
         \A i \in Invoice : LET j == SubmitJob(i) IN
            /\ tries[j] <= tries'[j] /\ tries'[j] \in Nat
            /\ at'[j] = "submit" => at[j] = "submit" \/ tries[j] < tries'[j]
  PROVE  PdpTyped' /\ PdpFits' /\ PdpGrows
<1>1. PdpTyped /\ PdpFits
  BY PartsOfInv
<1>2. \A i \in Invoice : tries[SubmitJob(i)] \in Nat
  BY JobFacts, StatusSyncAssumption DEF SyncInv, RunsInv, RunsTypeOK, LifecycleTypeOK
<1>3. \A i \in Invoice : \A s \in Known(i) : s[2] \in Nat
  BY SubmissionFacts DEF Known
<1> QED
  BY <1>1, <1>2, <1>3 DEF PdpTyped, PdpFits, PdpGrows, pdpVars, Known

LEMMA InitEstablishesInv == Init => SyncInv
<1> SUFFICES ASSUME Init PROVE SyncInv
  OBVIOUS
<1>1. RunsInv
  BY StatusSyncAssumption
  DEF Init, RunsInit, RunsInv, RunsTypeOK, LifecycleTypeOK, JobState
<1>2. MemoryTyped /\ PdpTyped
  BY DEF Init, MemoryTyped, PdpTyped
<1>3. \A i \in Invoice : Known(i) = {}
  BY DEF Init, Known
<1>4. PdpFits
  BY <1>3 DEF Init, PdpFits
<1>5. \A j \in Job : RunFits(j)
  BY DEF Init, RunsInit, RunFits, SubmitCalls, SyncCalls
<1>6. RecordsFit
  BY DEF Init, RecordsFit, RowTellsItsOwnStatus, ShownStatusWasGiven, InvoiceStatus
<1> QED
  BY <1>1, <1>2, <1>4, <1>5, <1>6, PartsOfInv

-----------------------------------------------------------------------------
(***************************************************************************)
(* What the steps of HandlerRuns do to the places of the runs.             *)
(***************************************************************************)
LEMMA GotoEffect ==
  ASSUME RunsInv, NEW j \in Job, NEW from, NEW to, Goto(j, from, to)
  PROVE  /\ at[j] = from /\ at'[j] = to
         /\ \A k \in Job \ {j} : at'[k] = at[k]
  BY DEF RunsInv, RunsTypeOK, Goto

\* A call that is answered, or whose answer is lost, and that leaves the jobs alone or
\* enqueues one of them.
LEMMA CallEffect ==
  ASSUME SyncInv, NEW j \in Job, NEW from, NEW to, from # "none", to # "none",
         Call(j, from, to),
         UNCHANGED jobVars \/ \E k \in Job : EnqueueOnce(k)
  PROVE  /\ RunsInv'
         /\ at[j] = from /\ at'[j] \in {to, "thrown"}
         /\ \A k \in Job \ {j} : at'[k] = at[k]
         /\ UNCHANGED tries
<1>1. /\ Goto(j, from, to) \/ Goto(j, from, "thrown")
      /\ UNCHANGED faults \/ Fault
      /\ RunsInv
  BY DEF Call, SyncInv
<1>2. UNCHANGED tries
  BY DEF jobVars, EnqueueOnce, Submit
<1>3. RunsInv'
  BY <1>1, RunsBounded, CallKeepsRuns, EnqueueKeepsRuns DEF jobVars
<1> QED
  BY <1>1, <1>2, <1>3, GotoEffect

\* Steps that do not concern a run of SUBMIT_PDP about to make its call.
LEMMA PdpUntouched ==
  ASSUME SyncInv, UNCHANGED pdpVars, UNCHANGED tries,
         \A k \in Job : at'[k] = "submit" => at[k] = "submit"
  PROVE  PdpTyped' /\ PdpFits' /\ PdpGrows
<1>1. \A i \in Invoice : SubmitJob(i) \in Job
  BY JobFacts
<1>2. tries \in [Job -> Nat]
  BY StatusSyncAssumption DEF SyncInv, RunsInv, RunsTypeOK, LifecycleTypeOK
<1> QED
  BY <1>1, <1>2, PdpStaysFit

-----------------------------------------------------------------------------
(***************************************************************************)
(* SUBMIT_PDP.                                                             *)
(***************************************************************************)
LEMMA StartSubmitKeepsInv ==
  ASSUME SyncInv, NEW j \in Job, StartSubmit(j)
  PROVE  SyncInv'
<1>1. /\ Reserve(j, "submit") /\ IsSubmit(j)
      /\ UNCHANGED <<memory, invoice, row, todo, pdpVars, ghl>>
  BY DEF StartSubmit
<1>2. RunsInv /\ RunsInv'
  BY <1>1, RunsBounded, ReserveKeepsRuns DEF SyncInv
<1>3. /\ at'[j] = "submit" /\ \A k \in Job \ {j} : at'[k] = at[k]
      /\ tries' = [tries EXCEPT ![j] = tries[j] + 1]
  BY <1>1, <1>2, GotoEffect DEF Reserve, Start
<1>4. PdpTyped' /\ PdpFits' /\ PdpGrows
  <2>1. tries \in [Job -> Nat]
    BY <1>2, StatusSyncAssumption DEF RunsInv, RunsTypeOK, LifecycleTypeOK
  <2>2. \A i \in Invoice : SubmitJob(i) \in Job
    BY JobFacts
  <2> QED
    BY <1>1, <1>3, <2>1, <2>2, PdpStaysFit
<1>5. MemoryTyped' /\ OthersStay(j)
  BY <1>1, <1>3, PartsOfInv DEF MemoryTyped, memory, OthersStay
<1>6. RunFits(j)'
  BY <1>1, <1>3 DEF RunFits, SubmitCalls
<1>7. RecordsFit'
  BY <1>1, <1>4, RecordsStayFit
<1> QED
  BY <1>2, <1>4, <1>5, <1>6, <1>7, RunsStayFit, PartsOfNextInv

\* The PDP has a submission for the answer of submit: a new one, or, when it
\* dedupes, the one it has had for this key before.
LEMMA SubmissionReceived ==
  ASSUME SyncInv, NEW j \in Job, IsSubmit(j), at[j] = "submit",
         RunsInv', at'[j] # "submit", UNCHANGED tries,
         \A k \in Job \ {j} : at'[k] = at[k],
         NEW s \in Submission, PdpReceives(InvoiceOf(j), tries[j], s)
  PROVE  /\ PdpTyped' /\ PdpFits' /\ PdpGrows
         /\ s \in Known(InvoiceOf(j))'
         /\ {pdp'[s], "SUBMITTED"} \subseteq had'[s]
<1> DEFINE i == InvoiceOf(j)
           n == tries[j]
           same == {t \in Submission : pdp[t] # "none" /\ SubmitKey(t[1], t[2]) = SubmitKey(i, n)}
<1>1. i \in Invoice /\ j = SubmitJob(i)
  BY JobFacts
<1>2. n \in 1..MaxAttempts /\ \A k \in Job : tries[k] \in Nat
  <2>1. state[j] = "active" /\ tries \in [Job -> 0..MaxAttempts]
    BY DEF SyncInv, RunsInv, RunsTypeOK, LifecycleTypeOK
  <2>2. n >= 1 /\ n \in 0..MaxAttempts
    BY <2>1 DEF SyncInv, RunsInv
  <2> QED
    BY <2>1, <2>2, StatusSyncAssumption
<1>3. same = Known(i)
  BY SubmissionFacts DEF Known
<1>4. PdpTyped /\ PdpFits
  BY PartsOfInv
<1>5. CASE deployment.dedupes /\ same # {}
  <2>1. s \in same /\ UNCHANGED pdpVars
    BY <1>5 DEF PdpReceives, pdpVars
  <2>2. PdpTyped' /\ PdpFits' /\ PdpGrows
    BY <2>1, PdpUntouched
  <2>3. s \in Known(i) /\ {pdp[s], "SUBMITTED"} \subseteq had[s]
    BY <1>3, <1>4, <2>1 DEF PdpFits
  <2> QED
    BY <2>1, <2>2, <2>3 DEF pdpVars, Known
<1>6. CASE ~(deployment.dedupes /\ same # {})
  <2>1. /\ s = <<i, n>> /\ UNCHANGED deployment
        /\ pdp' = [pdp EXCEPT ![s] = "SUBMITTED"]
        /\ had' = [had EXCEPT ![s] = {"SUBMITTED"}]
    BY <1>6 DEF PdpReceives
  <2>2. s[1] = i /\ s[2] = n
    BY <1>1, <1>2, <2>1, SubmissionFacts
  <2>3. pdp[s] = "none"
    <3>1. ASSUME s \in Known(i) PROVE FALSE
      BY <1>1, <1>2, <1>4, <2>2, <3>1 DEF PdpFits
    <3> QED
      BY <2>2, <3>1 DEF Known
  <2>4. /\ pdp'[s] = "SUBMITTED" /\ had'[s] = {"SUBMITTED"}
        /\ \A t \in Submission \ {s} : pdp'[t] = pdp[t] /\ had'[t] = had[t]
    BY <1>4, <2>1 DEF PdpTyped
  <2>5. PdpGrows
    BY <2>3, <2>4 DEF PdpGrows
  <2>6. PdpTyped'
    BY <1>4, <2>1 DEF PdpTyped, PdpStatus
  <2>7. /\ Known(i)' = Known(i) \cup {s}
        /\ \A k \in Invoice \ {i} : Known(k)' = Known(k)
    BY <2>2, <2>4 DEF Known
  <2>8. \A t \in Submission : pdp'[t] # "none" => {pdp'[t], "SUBMITTED"} \subseteq had'[t]
    BY <1>4, <2>4 DEF PdpFits
  <2>9. ASSUME NEW k \in Invoice, NEW t \in Known(k)'
        PROVE  /\ t[2] <= tries'[SubmitJob(k)]
               /\ at'[SubmitJob(k)] = "submit" => t[2] < tries'[SubmitJob(k)]
    <3>1. CASE k = i
      BY <1>1, <1>2, <1>4, <2>2, <2>7, <3>1 DEF PdpFits
    <3>2. CASE k # i
      <4>1. SubmitJob(k) \in Job /\ SubmitJob(k) # j
        BY <1>1, <3>2, JobFacts
      <4> QED
        BY <1>4, <2>7, <3>2, <4>1 DEF PdpFits
    <3> QED
      BY <3>1, <3>2
  <2>10. deployment.dedupes => \A k \in Invoice : \A t, u \in Known(k)' : t = u
    BY <1>3, <1>4, <1>6, <2>7 DEF PdpFits
  <2>11. PdpFits'
    BY <2>1, <2>8, <2>9, <2>10 DEF PdpFits
  <2> QED
    BY <2>4, <2>5, <2>6, <2>7, <2>11
<1> QED
  BY <1>5, <1>6

LEMMA SubmitToPdpKeepsInv ==
  ASSUME SyncInv, NEW j \in Job, SubmitToPdp(j)
  PROVE  SyncInv'
<1>1. /\ IsSubmit(j) /\ Call(j, "submit", "upsert")
      /\ UNCHANGED <<jobVars, invoice, row, todo, ghl>>
  BY DEF SubmitToPdp
<1>2. PICK s \in Submission :
        /\ PdpReceives(InvoiceOf(j), tries[j], s)
        /\ chosen' = [chosen EXCEPT ![j] = s]
        /\ heard' \in {[heard EXCEPT ![j] = status] : status \in {"SUBMITTED", pdp'[s]}}
  BY DEF SubmitToPdp
<1>3. /\ RunsInv' /\ at[j] = "submit" /\ at'[j] \in {"upsert", "thrown"}
      /\ \A k \in Job \ {j} : at'[k] = at[k]
      /\ UNCHANGED tries
  BY <1>1, CallEffect
<1>4. /\ PdpTyped' /\ PdpFits' /\ PdpGrows
      /\ s \in Known(InvoiceOf(j))' /\ {pdp'[s], "SUBMITTED"} \subseteq had'[s]
  BY <1>1, <1>2, <1>3, SubmissionReceived
<1>5. /\ chosen'[j] = s /\ heard'[j] \in had'[s]
      /\ \A k \in Job \ {j} : chosen'[k] = chosen[k] /\ heard'[k] = heard[k]
      /\ MemoryTyped'
  BY <1>2, <1>4, PartsOfInv DEF MemoryTyped, PdpTyped
<1>6. RunFits(j)'
  BY <1>1, <1>3, <1>4, <1>5 DEF RunFits, SubmitCalls
<1>7. OthersStay(j)
  BY <1>3, <1>5 DEF OthersStay
<1>8. RecordsFit'
  BY <1>1, <1>4, RecordsStayFit
<1> QED
  BY <1>3, <1>4, <1>5, <1>6, <1>7, <1>8, RunsStayFit, PartsOfNextInv

\* A step of the run of j that leaves the PDP and the memory of the runs alone.
LEMMA RunStepKeepsInv ==
  ASSUME SyncInv, NEW j \in Job, RunsInv', at'[j] # "submit",
         \A k \in Job \ {j} : at'[k] = at[k],
         UNCHANGED <<tries, memory, pdpVars>>,
         RunFits(j)', RecordsFit'
  PROVE  SyncInv'
<1>1. PdpTyped' /\ PdpFits' /\ PdpGrows
  BY PdpUntouched
<1>2. MemoryTyped' /\ OthersStay(j)
  BY PartsOfInv DEF MemoryTyped, memory, OthersStay
<1> QED
  BY <1>1, <1>2, RunsStayFit, PartsOfNextInv

LEMMA UpsertSubmissionKeepsInv ==
  ASSUME SyncInv, NEW j \in Job, UpsertSubmission(j)
  PROVE  SyncInv'
<1> DEFINE i == InvoiceOf(j)
<1>1. /\ Call(j, "upsert", "mark")
      /\ row' = [row EXCEPT ![i] = [id |-> chosen[j], status |-> heard[j], recent |-> TRUE]]
      /\ UNCHANGED <<jobVars, memory, invoice, todo, pdpVars, ghl>>
  BY DEF UpsertSubmission
<1>2. /\ RunsInv' /\ at[j] = "upsert" /\ at'[j] \in {"mark", "thrown"}
      /\ \A k \in Job \ {j} : at'[k] = at[k]
      /\ UNCHANGED tries
  BY <1>1, CallEffect
<1>3. /\ i \in Invoice /\ chosen[j] \in Known(i) /\ heard[j] \in had[chosen[j]]
      /\ IsSubmit(j)
  <2>1. RunFits(j)
    BY PartsOfInv
  <2> QED
    BY <1>2, <2>1, JobFacts DEF RunFits, SyncCalls
<1>4. RunFits(j)'
  BY <1>1, <1>2, <1>3 DEF RunFits, SubmitCalls, memory, pdpVars, Known
<1>5. RecordsFit'
  <2>1. RecordsFit /\ PdpTyped
    BY PartsOfInv
  <2>2. chosen[j] \in Submission /\ heard[j] \in PdpStatus
    BY <1>3, <2>1 DEF PdpTyped, Known
  <2>3. /\ row'[i] = [id |-> chosen[j], status |-> heard[j], recent |-> TRUE]
        /\ \A k \in Invoice \ {i} : row'[k] = row[k]
        /\ row' \in [Invoice -> {NoRow} \cup
                       [id : Submission, status : PdpStatus, recent : BOOLEAN]]
    BY <1>1, <1>3, <2>1, <2>2 DEF RecordsFit
  <2>4. row'[i].id = chosen[j] /\ row'[i].status = heard[j]
    BY <2>3
  <2>5. RowTellsItsOwnStatus'
    <3> SUFFICES ASSUME NEW k \in Invoice, row'[k] # NoRow
                 PROVE  /\ row'[k].id \in Known(k)
                        /\ row'[k].status \in had[row'[k].id] \cup {"ERROR"}
      BY <1>1 DEF RowTellsItsOwnStatus, pdpVars, Known
    <3>1. CASE k = i
      BY <1>3, <2>4, <3>1
    <3>2. CASE k # i
      BY <2>1, <2>3, <3>2 DEF RecordsFit, RowTellsItsOwnStatus
    <3> QED
      BY <3>1, <3>2
  <2>6. ShownStatusWasGiven'
    BY <1>1, <2>1 DEF RecordsFit, ShownStatusWasGiven, pdpVars, Known
  <2> QED
    BY <1>1, <2>1, <2>3, <2>5, <2>6 DEF RecordsFit
<1> QED
  BY <1>1, <1>2, <1>4, <1>5, RunStepKeepsInv

LEMMA MarkSubmittedKeepsInv ==
  ASSUME SyncInv, NEW j \in Job, MarkSubmitted(j)
  PROVE  SyncInv'
<1> DEFINE i == InvoiceOf(j)
<1>1. /\ Call(j, "mark", "first sync")
      /\ invoice' = [invoice EXCEPT ![i] = "SUBMITTED"]
      /\ UNCHANGED <<jobVars, memory, row, todo, pdpVars, ghl>>
  BY DEF MarkSubmitted
<1>2. /\ RunsInv' /\ at[j] = "mark" /\ at'[j] \in {"first sync", "thrown"}
      /\ \A k \in Job \ {j} : at'[k] = at[k]
      /\ UNCHANGED tries
  BY <1>1, CallEffect
<1>3. i \in Invoice /\ chosen[j] \in Known(i) /\ IsSubmit(j)
  <2>1. RunFits(j)
    BY PartsOfInv
  <2> QED
    BY <1>2, <2>1, JobFacts DEF RunFits, SyncCalls
<1>4. RunFits(j)'
  BY <1>1, <1>2, <1>3 DEF RunFits, SubmitCalls, memory, pdpVars, Known
<1>5. RecordsFit'
  <2>1. RecordsFit
    BY PartsOfInv
  <2>2. /\ invoice' \in [Invoice -> InvoiceStatus]
        /\ \A k \in Invoice : invoice'[k] \in {invoice[k], "SUBMITTED"}
    BY <1>1, <2>1 DEF RecordsFit, InvoiceStatus
  <2>3. RowTellsItsOwnStatus'
    BY <1>1, <2>1 DEF RecordsFit, RowTellsItsOwnStatus, pdpVars, Known
  <2>4. ShownStatusWasGiven'
    <3>1. /\ UNCHANGED <<had, ghl>> /\ \A k \in Invoice : Known(k)' = Known(k)
          /\ ShownStatusWasGiven
      BY <1>1, <2>1 DEF RecordsFit, pdpVars, Known
    <3> QED
      BY <2>2, <3>1 DEF ShownStatusWasGiven
  <2> QED
    BY <1>1, <2>1, <2>2, <2>3, <2>4 DEF RecordsFit
<1> QED
  BY <1>1, <1>2, <1>4, <1>5, RunStepKeepsInv

\* Nothing but the jobs and the place of the run changes.
LEMMA RecordsUntouched ==
  ASSUME SyncInv, UNCHANGED <<pdpVars, invoice, row, todo, ghl>>
  PROVE  RecordsFit'
<1>1. PdpGrows
  BY DEF PdpGrows, pdpVars
<1> QED
  BY <1>1, RecordsStayFit

LEMMA EnqueueFirstSyncKeepsInv ==
  ASSUME SyncInv, NEW j \in Job, EnqueueFirstSync(j)
  PROVE  SyncInv'
<1>1. /\ Call(j, "first sync", "returned")
      /\ EnqueueOnce(FirstSync(InvoiceOf(j)))
      /\ UNCHANGED <<memory, invoice, row, todo, pdpVars, ghl>>
  BY DEF EnqueueFirstSync
<1>2. FirstSync(InvoiceOf(j)) \in Job
  BY JobFacts
<1>3. /\ RunsInv' /\ at[j] = "first sync" /\ at'[j] \in {"returned", "thrown"}
      /\ \A k \in Job \ {j} : at'[k] = at[k]
      /\ UNCHANGED tries
  BY <1>1, <1>2, CallEffect
<1>4. RunFits(j)'
  BY <1>3 DEF RunFits, SubmitCalls, SyncCalls
<1> QED
  BY <1>1, <1>3, <1>4, RunStepKeepsInv, RecordsUntouched

-----------------------------------------------------------------------------
(***************************************************************************)
(* SYNC_STATUS.                                                            *)
(***************************************************************************)
LEMMA StartSyncKeepsInv ==
  ASSUME SyncInv, NEW j \in Job, StartSync(j)
  PROVE  SyncInv'
<1> DEFINE i == InvoiceOf(j)
           first == IF row[i] = NoRow THEN "thrown" ELSE "get status"
<1>1. /\ ~IsSubmit(j) /\ Reserve(j, first)
      /\ chosen' = [chosen EXCEPT ![j] = row[i].id]
      /\ UNCHANGED <<heard, invoice, row, todo, pdpVars, ghl>>
  BY DEF StartSync
<1>2. RunsInv /\ RunsInv'
  BY <1>1, RunsBounded, ReserveKeepsRuns DEF SyncInv
<1>3. /\ at'[j] = first /\ \A k \in Job \ {j} : at'[k] = at[k]
      /\ tries' = [tries EXCEPT ![j] = tries[j] + 1]
  BY <1>1, <1>2, GotoEffect DEF Reserve, Start
<1>4. PdpTyped' /\ PdpFits' /\ PdpGrows
  <2>1. tries \in [Job -> Nat]
    BY <1>2, StatusSyncAssumption DEF RunsInv, RunsTypeOK, LifecycleTypeOK
  <2>2. \A k \in Invoice : /\ SubmitJob(k) \in Job
                           /\ at'[SubmitJob(k)] = "submit" => at[SubmitJob(k)] = "submit"
    BY <1>1, <1>3, JobFacts
  <2>3. \A k \in Invoice : /\ tries[SubmitJob(k)] <= tries'[SubmitJob(k)]
                           /\ tries'[SubmitJob(k)] \in Nat
    <3>1. tries' = [tries EXCEPT ![j] = tries[j] + 1]
      BY <1>3
    <3> QED
      BY <2>1, <2>2, <3>1
  <2>4. UNCHANGED pdpVars
    BY <1>1
  <2> QED
    BY <2>2, <2>3, <2>4, PdpStaysFit
<1>5. /\ i \in Invoice /\ row[i].id \in Submission \cup {NoSubmission}
      /\ row[i] # NoRow => row[i].id \in Known(i)
  <2>1. RecordsFit /\ i \in Invoice
    BY PartsOfInv, JobFacts
  <2> QED
    BY <2>1 DEF RecordsFit, RowTellsItsOwnStatus, NoRow
<1>6. /\ MemoryTyped' /\ chosen'[j] = row[i].id
      /\ OthersStay(j)
  BY <1>1, <1>3, <1>5, PartsOfInv DEF MemoryTyped, OthersStay
<1>7. RunFits(j)'
  BY <1>1, <1>3, <1>5, <1>6 DEF RunFits, SyncCalls, pdpVars, Known
<1>8. RecordsFit'
  BY <1>1, RecordsUntouched
<1> QED
  BY <1>2, <1>4, <1>6, <1>7, <1>8, RunsStayFit, PartsOfNextInv

LEMMA GetStatusKeepsInv ==
  ASSUME SyncInv, NEW j \in Job, GetStatus(j)
  PROVE  SyncInv'
<1>1. /\ Goto(j, "get status", "record")
      /\ heard' = [heard EXCEPT ![j] = pdp[chosen[j]]]
      /\ UNCHANGED <<jobVars, chosen, invoice, row, todo, pdpVars, ghl, faults>>
  BY DEF GetStatus
<1>2. RunsInv /\ RunsInv'
  BY <1>1, RunsBounded, CallKeepsRuns DEF SyncInv, jobVars
<1>3. /\ at[j] = "get status" /\ at'[j] = "record"
      /\ \A k \in Job \ {j} : at'[k] = at[k]
  BY <1>1, <1>2, GotoEffect
<1>4. PdpTyped' /\ PdpFits' /\ PdpGrows
  BY <1>1, <1>3, PdpUntouched DEF jobVars
<1>5. /\ chosen[j] \in Known(InvoiceOf(j)) /\ ~IsSubmit(j)
      /\ pdp[chosen[j]] \in had[chosen[j]] /\ pdp[chosen[j]] \in PdpStatus
  <2>1. RunFits(j) /\ PdpFits /\ PdpTyped
    BY PartsOfInv
  <2>2. chosen[j] \in Known(InvoiceOf(j)) /\ ~IsSubmit(j)
    BY <1>3, <2>1 DEF RunFits, SubmitCalls
  <2> QED
    BY <2>1, <2>2 DEF PdpFits, PdpTyped, Known
<1>6. /\ MemoryTyped' /\ heard'[j] = pdp[chosen[j]]
      /\ OthersStay(j)
  BY <1>1, <1>3, <1>5, PartsOfInv DEF MemoryTyped, OthersStay
<1>7. RunFits(j)'
  BY <1>1, <1>3, <1>5, <1>6 DEF RunFits, SyncCalls, pdpVars, Known
<1>8. RecordsFit'
  BY <1>1, RecordsUntouched
<1> QED
  BY <1>2, <1>4, <1>6, <1>7, <1>8, RunsStayFit, PartsOfNextInv

LEMMA GetStatusFailsKeepsInv ==
  ASSUME SyncInv, NEW j \in Job, GetStatusFails(j)
  PROVE  SyncInv'
<1>1. /\ Fault /\ Goto(j, "get status", "record error")
      /\ UNCHANGED <<jobVars, memory, invoice, row, todo, pdpVars, ghl>>
  BY DEF GetStatusFails
<1>2. RunsInv /\ RunsInv'
  BY <1>1, RunsBounded, CallKeepsRuns DEF SyncInv, jobVars
<1>3. /\ at[j] = "get status" /\ at'[j] = "record error"
      /\ \A k \in Job \ {j} : at'[k] = at[k]
  BY <1>1, <1>2, GotoEffect
<1>4. RunFits(j)'
  <2>1. RunFits(j)
    BY PartsOfInv
  <2> QED
    BY <1>1, <1>3, <2>1 DEF RunFits, SubmitCalls, SyncCalls, memory, pdpVars, Known
<1> QED
  BY <1>1, <1>2, <1>3, <1>4, RunStepKeepsInv, RecordsUntouched DEF jobVars

\* UPDATE ... WHERE submission_id = s writes to rows that name s, if any.
LEMMA UpdateKeepsRecords ==
  ASSUME SyncInv, UNCHANGED <<pdpVars, invoice, todo, ghl>>,
         NEW s \in Submission, NEW status \in PdpStatus,
         status \in had[s] \cup {"ERROR"}, UpdateSubmission(s, status)
  PROVE  RecordsFit'
<1>1. RecordsFit
  BY PartsOfInv
<1>2. UNCHANGED <<pdp, had, invoice, todo, ghl>> /\ \A i \in Invoice : Known(i)' = Known(i)
  BY DEF pdpVars, Known
<1>3. \A i \in Invoice :
        \/ row'[i] = row[i]
        \/ /\ row[i].id = s
           /\ row'[i] = [id |-> s, status |-> status, recent |-> TRUE]
  BY DEF UpdateSubmission
<1>4. row' \in [Invoice -> {NoRow} \cup [id : Submission, status : PdpStatus, recent : BOOLEAN]]
  BY <1>1 DEF RecordsFit, UpdateSubmission
<1>5. RowTellsItsOwnStatus'
  <2> SUFFICES ASSUME NEW i \in Invoice, row'[i] # NoRow
               PROVE  row'[i].id \in Known(i) /\ row'[i].status \in had[row'[i].id] \cup {"ERROR"}
    BY <1>2 DEF RowTellsItsOwnStatus
  <2>1. CASE row'[i] = row[i]
    BY <1>1, <2>1 DEF RecordsFit, RowTellsItsOwnStatus
  <2>2. CASE row[i].id = s /\ row'[i] = [id |-> s, status |-> status, recent |-> TRUE]
    <3>1. row'[i].id = s /\ row'[i].status = status
      BY <2>2
    <3>2. row[i] # NoRow
      BY <2>2, SubmissionFacts DEF NoRow
    <3>3. s \in Known(i)
      BY <1>1, <2>2, <3>2 DEF RecordsFit, RowTellsItsOwnStatus
    <3> QED
      BY <3>1, <3>3
  <2> QED
    BY <1>3, <2>1, <2>2
<1>6. ShownStatusWasGiven'
  BY <1>1, <1>2 DEF RecordsFit, ShownStatusWasGiven
<1> QED
  BY <1>1, <1>2, <1>4, <1>5, <1>6 DEF RecordsFit

\* What a run of SYNC_STATUS past its lookup knows.
LEMMA SyncRunKnows ==
  ASSUME SyncInv, NEW j \in Job,
         at[j] \in {"get status", "record error", "record", "show", "push", "ask again"}
  PROVE  /\ ~IsSubmit(j) /\ InvoiceOf(j) \in Invoice
         /\ chosen[j] \in Known(InvoiceOf(j)) /\ chosen[j] \in Submission
         /\ at[j] \notin {"get status", "record error"} =>
               heard[j] \in had[chosen[j]] /\ heard[j] \in PdpStatus
<1>1. RunFits(j) /\ PdpTyped
  BY PartsOfInv
<1>2. /\ ~IsSubmit(j) /\ InvoiceOf(j) \in Invoice /\ chosen[j] \in Known(InvoiceOf(j))
      /\ at[j] \notin {"get status", "record error"} => heard[j] \in had[chosen[j]]
  BY <1>1, JobFacts DEF RunFits, SubmitCalls, SyncCalls
<1> QED
  BY <1>1, <1>2 DEF PdpTyped, Known

LEMMA RecordErrorKeepsInv ==
  ASSUME SyncInv, NEW j \in Job, RecordError(j)
  PROVE  SyncInv'
<1>1. /\ Goto(j, "record error", "thrown")
      /\ UpdateSubmission(chosen[j], "ERROR")
      /\ UNCHANGED <<jobVars, memory, invoice, todo, pdpVars, ghl, faults>>
  BY DEF RecordError
<1>2. RunsInv /\ RunsInv'
  BY <1>1, RunsBounded, CallKeepsRuns DEF SyncInv, jobVars
<1>3. /\ at[j] = "record error" /\ at'[j] = "thrown"
      /\ \A k \in Job \ {j} : at'[k] = at[k]
  BY <1>1, <1>2, GotoEffect
<1>4. RunFits(j)'
  BY <1>3 DEF RunFits, SubmitCalls, SyncCalls
<1>5. RecordsFit'
  BY <1>1, <1>3, SyncRunKnows, UpdateKeepsRecords DEF PdpStatus
<1> QED
  BY <1>1, <1>2, <1>3, <1>4, <1>5, RunStepKeepsInv DEF jobVars

LEMMA RecordStatusKeepsInv ==
  ASSUME SyncInv, NEW j \in Job, RecordStatus(j)
  PROVE  SyncInv'
<1>1. /\ Call(j, "record", "show")
      /\ UpdateSubmission(chosen[j], heard[j])
      /\ UNCHANGED <<jobVars, memory, invoice, todo, pdpVars, ghl>>
  BY DEF RecordStatus
<1>2. /\ RunsInv' /\ at[j] = "record" /\ at'[j] \in {"show", "thrown"}
      /\ \A k \in Job \ {j} : at'[k] = at[k]
      /\ UNCHANGED tries
  BY <1>1, CallEffect
<1>3. RunFits(j)'
  BY <1>1, <1>2, SyncRunKnows DEF RunFits, SyncCalls, memory, pdpVars, Known
<1>4. RecordsFit'
  BY <1>1, <1>2, SyncRunKnows, UpdateKeepsRecords
<1> QED
  BY <1>1, <1>2, <1>3, <1>4, RunStepKeepsInv

\* The translation of a status that a submission of the invoice has had.
LEMMA GivenStatus ==
  ASSUME SyncInv, NEW i \in Invoice, NEW s \in Known(i), NEW status \in had[s]
  PROVE  InvoiceStatusFor(status) \in
            {InvoiceStatusFor(x) : x \in UNION {had[t] : t \in Known(i)}}
  OBVIOUS

LEMMA ShowStatusKeepsInv ==
  ASSUME SyncInv, NEW j \in Job, ShowStatus(j)
  PROVE  SyncInv'
<1> DEFINE i == InvoiceOf(j)
           shown == InvoiceStatusFor(heard[j])
           to == IF shown = "ERROR" THEN "ask again" ELSE "push"
<1>1. /\ Call(j, "show", to)
      /\ invoice' = [invoice EXCEPT ![i] = shown]
      /\ UNCHANGED <<jobVars, memory, row, todo, pdpVars, ghl>>
  BY DEF ShowStatus
<1>2. /\ RunsInv' /\ at[j] = "show" /\ at'[j] \in {to, "thrown"}
      /\ \A k \in Job \ {j} : at'[k] = at[k]
      /\ UNCHANGED tries
  <2>1. to # "none"
    OBVIOUS
  <2> HIDE DEF to
  <2> QED
    BY <1>1, <2>1, CallEffect
<1>3. /\ ~IsSubmit(j) /\ i \in Invoice /\ chosen[j] \in Known(i)
      /\ heard[j] \in had[chosen[j]] /\ heard[j] \in PdpStatus
  BY <1>2, SyncRunKnows
<1>4. RunFits(j)'
  <2>1. at'[j] \in {"ask again", "push", "thrown"} /\ (at'[j] = "push" => shown # "ERROR")
    BY <1>2
  <2>2. UNCHANGED <<chosen, heard, had>> /\ Known(i)' = Known(i)
    BY <1>1 DEF memory, pdpVars, Known
  <2> QED
    BY <1>3, <2>1, <2>2 DEF RunFits, SyncCalls
<1>5. RecordsFit'
  <2> HIDE DEF shown
  <2>1. RecordsFit
    BY PartsOfInv
  <2>2. shown \in InvoiceStatus
    BY <1>3, StatusFacts DEF shown
  <2>3. /\ invoice' \in [Invoice -> InvoiceStatus]
        /\ invoice'[i] = shown /\ \A k \in Invoice \ {i} : invoice'[k] = invoice[k]
    BY <1>1, <1>3, <2>1, <2>2 DEF RecordsFit
  <2>4. /\ UNCHANGED <<had, row, todo, ghl>> /\ \A k \in Invoice : Known(k)' = Known(k)
        /\ ShownStatusWasGiven /\ RowTellsItsOwnStatus
    BY <1>1, <2>1 DEF RecordsFit, pdpVars, Known
  <2>5. RowTellsItsOwnStatus'
    BY <2>4 DEF RowTellsItsOwnStatus
  <2>6. shown \in {InvoiceStatusFor(x) : x \in UNION {had[t] : t \in Known(i)}}
    BY <1>3, GivenStatus DEF shown
  <2>7. ShownStatusWasGiven'
    <3> SUFFICES ASSUME NEW k \in Invoice
                 PROVE  LET given == {InvoiceStatusFor(x) : x \in UNION {had[s] : s \in Known(k)}}
                        IN /\ invoice'[k] \in given \cup {"GENERATED", "SUBMITTED"}
                           /\ ghl[k] \in (given \ {"ERROR"}) \cup {"none"}
      BY <2>4 DEF ShownStatusWasGiven
    <3>1. CASE k = i
      BY <2>3, <2>4, <2>6, <3>1 DEF ShownStatusWasGiven
    <3>2. CASE k # i
      BY <2>3, <2>4, <3>2 DEF ShownStatusWasGiven
    <3> QED
      BY <3>1, <3>2
  <2> QED
    BY <2>1, <2>3, <2>4, <2>5, <2>7 DEF RecordsFit
<1>6. at'[j] # "submit"
  BY <1>2
<1> HIDE DEF to, shown, i
<1> QED
  BY <1>1, <1>2, <1>4, <1>5, <1>6, RunStepKeepsInv DEF jobVars

LEMMA PushStatusKeepsInv ==
  ASSUME SyncInv, NEW j \in Job, PushStatus(j)
  PROVE  SyncInv'
<1> DEFINE i == InvoiceOf(j)
           shown == InvoiceStatusFor(heard[j])
<1>1. /\ Call(j, "push", "ask again")
      /\ ghl' = [ghl EXCEPT ![i] = shown]
      /\ UNCHANGED <<jobVars, memory, invoice, row, todo, pdpVars>>
  BY DEF PushStatus
<1>2. /\ RunsInv' /\ at[j] = "push" /\ at'[j] \in {"ask again", "thrown"}
      /\ \A k \in Job \ {j} : at'[k] = at[k]
      /\ UNCHANGED tries
  BY <1>1, CallEffect
<1>3. /\ ~IsSubmit(j) /\ i \in Invoice /\ chosen[j] \in Known(i)
      /\ heard[j] \in had[chosen[j]] /\ heard[j] \in PdpStatus
  BY <1>2, SyncRunKnows
<1>4. RunFits(j)'
  BY <1>1, <1>2, <1>3 DEF RunFits, SyncCalls, memory, pdpVars, Known
<1>5. RecordsFit'
  <2>1. RecordsFit /\ shown # "ERROR"
    BY <1>2, PartsOfInv DEF RunFits
  <2> HIDE DEF shown
  <2>2. shown \in InvoiceStatus
    BY <1>3, StatusFacts DEF shown
  <2>3. /\ ghl' \in [Invoice -> InvoiceStatus \cup {"none"}]
        /\ ghl'[i] = shown /\ \A k \in Invoice \ {i} : ghl'[k] = ghl[k]
    BY <1>1, <1>3, <2>1, <2>2 DEF RecordsFit
  <2>4. /\ UNCHANGED <<had, row, todo, invoice>> /\ \A k \in Invoice : Known(k)' = Known(k)
        /\ ShownStatusWasGiven /\ RowTellsItsOwnStatus
    BY <1>1, <2>1 DEF RecordsFit, pdpVars, Known
  <2>5. RowTellsItsOwnStatus'
    BY <2>4 DEF RowTellsItsOwnStatus
  <2>6. shown \in {InvoiceStatusFor(x) : x \in UNION {had[t] : t \in Known(i)}}
    BY <1>3, GivenStatus DEF shown
  <2>7. ShownStatusWasGiven'
    <3> SUFFICES ASSUME NEW k \in Invoice
                 PROVE  LET given == {InvoiceStatusFor(x) : x \in UNION {had[s] : s \in Known(k)}}
                        IN /\ invoice[k] \in given \cup {"GENERATED", "SUBMITTED"}
                           /\ ghl'[k] \in (given \ {"ERROR"}) \cup {"none"}
      BY <2>4 DEF ShownStatusWasGiven
    <3>1. CASE k = i
      BY <2>1, <2>3, <2>4, <2>6, <3>1 DEF ShownStatusWasGiven
    <3>2. CASE k # i
      BY <2>3, <2>4, <3>2 DEF ShownStatusWasGiven
    <3> QED
      BY <3>1, <3>2
  <2> QED
    BY <2>1, <2>3, <2>4, <2>5, <2>7 DEF RecordsFit
<1> HIDE DEF shown, i
<1> QED
  BY <1>1, <1>2, <1>4, <1>5, RunStepKeepsInv DEF jobVars

LEMMA AskAgainKeepsInv ==
  ASSUME SyncInv, NEW j \in Job, AskAgain(j)
  PROVE  SyncInv'
<1>1. /\ Call(j, "ask again", "returned")
      /\ EnqueueOnce(RetrySync(chosen[j], tries[j])) \/ UNCHANGED jobVars
      /\ UNCHANGED <<memory, invoice, row, todo, pdpVars, ghl>>
  BY DEF AskAgain
<1>2. at[j] = "ask again" /\ RunsInv
  BY <1>1 DEF Call, Goto, SyncInv
<1>3. RetrySync(chosen[j], tries[j]) \in Job
  <2>1. chosen[j] \in Submission
    BY <1>2, SyncRunKnows
  <2>2. state[j] = "active" /\ tries[j] \in 0..MaxAttempts
    BY <1>2 DEF RunsInv, RunsTypeOK, LifecycleTypeOK
  <2>3. tries[j] >= 1
    BY <1>2, <2>2 DEF RunsInv
  <2>4. tries[j] \in 1..MaxAttempts
    BY <2>2, <2>3, StatusSyncAssumption
  <2> QED
    BY <2>1, <2>4, JobFacts
<1>4. /\ RunsInv' /\ at'[j] \in {"returned", "thrown"}
      /\ \A k \in Job \ {j} : at'[k] = at[k]
      /\ UNCHANGED tries
  BY <1>1, <1>3, CallEffect
<1>5. RunFits(j)'
  BY <1>4 DEF RunFits, SubmitCalls, SyncCalls
<1> QED
  BY <1>1, <1>4, <1>5, RunStepKeepsInv, RecordsUntouched

-----------------------------------------------------------------------------
(***************************************************************************)
(* The end of a run, and its failures.                                     *)
(***************************************************************************)
LEMMA EndRunKeepsInv ==
  ASSUME SyncInv, NEW j \in Job, EndRun(j)
  PROVE  SyncInv'
<1>1. Settle(j) /\ Forget({j}) /\ UNCHANGED <<invoice, row, todo, pdpVars, ghl>>
  BY DEF EndRun
<1>2. RunsInv /\ RunsInv'
  BY <1>1, RunsBounded, SettleKeepsRuns DEF SyncInv
<1>3. /\ at'[j] = "none" /\ \A k \in Job \ {j} : at'[k] = at[k]
      /\ UNCHANGED tries
  BY <1>1, <1>2, GotoEffect DEF Settle, Finish, Retry, GiveUp
<1>4. PdpTyped' /\ PdpFits' /\ PdpGrows
  BY <1>1, <1>3, PdpUntouched
<1>5. MemoryTyped' /\ OthersStay(j)
  BY <1>1, <1>3, PartsOfInv DEF MemoryTyped, OthersStay, Forget
<1>6. RunFits(j)'
  BY <1>3 DEF RunFits, SubmitCalls, SyncCalls
<1> QED
  BY <1>1, <1>2, <1>4, <1>5, <1>6, RecordsUntouched, RunsStayFit, PartsOfNextInv

LEMMA CallRejectedKeepsInv ==
  ASSUME SyncInv, NEW j \in Job, CallRejected(j)
  PROVE  SyncInv'
<1>1. CallFails(j) /\ UNCHANGED <<memory, invoice, row, todo, pdpVars, ghl>>
  BY DEF CallRejected
<1>2. RunsInv /\ RunsInv'
  BY <1>1, RunsBounded, CallFailsKeepsRuns DEF SyncInv
<1>3. /\ at'[j] = "thrown" /\ \A k \in Job \ {j} : at'[k] = at[k]
      /\ UNCHANGED tries
  BY <1>1, <1>2 DEF CallFails, RunsInv, RunsTypeOK
<1>4. RunFits(j)'
  BY <1>3 DEF RunFits, SubmitCalls, SyncCalls
<1> QED
  BY <1>1, <1>2, <1>3, <1>4, RunStepKeepsInv, RecordsUntouched

\* The attempt is counted, though no run of it exists.
LEMMA ReservationUnansweredKeepsInv ==
  ASSUME SyncInv, NEW j \in Job, ReservationUnanswered(j)
  PROVE  SyncInv'
<1>1. ReservationLost(j) /\ UNCHANGED <<memory, invoice, row, todo, pdpVars, ghl>>
  BY DEF ReservationUnanswered
<1>2. RunsInv /\ RunsInv'
  BY <1>1, RunsBounded, ReservationLostKeepsRuns DEF SyncInv
<1>3. UNCHANGED at /\ tries' = [tries EXCEPT ![j] = tries[j] + 1]
  BY <1>1 DEF ReservationLost, LoseReservation
<1>4. PdpTyped' /\ PdpFits' /\ PdpGrows
  <2>1. tries \in [Job -> Nat]
    BY <1>2, StatusSyncAssumption DEF RunsInv, RunsTypeOK, LifecycleTypeOK
  <2>2. \A i \in Invoice : SubmitJob(i) \in Job
    BY JobFacts
  <2> QED
    BY <1>1, <1>3, <2>1, <2>2, PdpStaysFit
<1>5. MemoryTyped' /\ OthersStay(j)
  BY <1>1, <1>3, PartsOfInv DEF MemoryTyped, memory, OthersStay
<1>6. RunFits(j)'
  BY <1>1, <1>3, <1>4, PartsOfInv, RunStaysFit DEF memory
<1> QED
  BY <1>1, <1>2, <1>4, <1>5, <1>6, RecordsUntouched, RunsStayFit, PartsOfNextInv

LEMMA CrashKeepsInv ==
  ASSUME SyncInv, Crash
  PROVE  SyncInv'
<1>1. PICK S \in SUBSET Active : RunsLost(S) /\ Forget(S)
  BY DEF Crash
<1>2. UNCHANGED <<invoice, row, pdpVars, ghl>> /\ todo' \in {todo, {}}
  BY DEF Crash
<1>3. RunsInv /\ RunsInv'
  <2>1. S \in SUBSET Job
    BY DEF Active
  <2> QED
    BY <1>1, <2>1, RunsBounded, RunsLostKeepsRuns DEF SyncInv
<1>4. /\ UNCHANGED tries
      /\ \A k \in Job : at'[k] = IF k \in S THEN "none" ELSE at[k]
  BY <1>1 DEF RunsLost, Abandon
<1>5. PdpTyped' /\ PdpFits' /\ PdpGrows
  BY <1>2, <1>4, PdpUntouched
<1>6. /\ MemoryTyped'
      /\ \A k \in Job \ S : chosen'[k] = chosen[k] /\ heard'[k] = heard[k]
  BY <1>1, PartsOfInv DEF MemoryTyped, Forget
<1>7. ASSUME NEW k \in Job PROVE RunFits(k)'
  <2>1. CASE k \in S
    BY <1>4, <2>1 DEF RunFits, SubmitCalls, SyncCalls
  <2>2. CASE k \notin S
    BY <1>4, <1>5, <1>6, <2>2, PartsOfInv, RunStaysFit
  <2> QED
    BY <2>1, <2>2
<1>8. RecordsFit'
  <2>1. RecordsFit /\ todo' \subseteq todo
    BY <1>2, PartsOfInv
  <2>2. RowTellsItsOwnStatus' /\ ShownStatusWasGiven'
    BY <1>2, <2>1 DEF RecordsFit, RowTellsItsOwnStatus, ShownStatusWasGiven, pdpVars, Known
  <2> QED
    BY <1>2, <2>1, <2>2 DEF RecordsFit
<1> QED
  BY <1>3, <1>5, <1>6, <1>7, <1>8, PartsOfNextInv

-----------------------------------------------------------------------------
(***************************************************************************)
(* RECONCILE_PDP, the clock and the PDP: no run moves.                     *)
(***************************************************************************)
LEMMA NoRunMoves ==
  ASSUME SyncInv, RunsInv', UNCHANGED <<at, tries, memory>>,
         PdpTyped', PdpFits', PdpGrows, RecordsFit'
  PROVE  SyncInv'
<1>1. MemoryTyped'
  BY PartsOfInv DEF MemoryTyped, memory
<1>2. \A k \in Job : RunFits(k)'
  BY PartsOfInv, RunStaysFit DEF memory
<1> QED
  BY <1>1, <1>2, PartsOfNextInv

\* What a reconciliation still has to enqueue is all it changes.
LEMMA TodoKeepsInv ==
  ASSUME SyncInv, RunsInv', todo' \subseteq Submission,
         UNCHANGED <<at, tries, memory, invoice, row, pdpVars, ghl>>
  PROVE  SyncInv'
<1>1. PdpTyped' /\ PdpFits' /\ PdpGrows
  BY PdpUntouched
<1>2. RecordsFit'
  <2>1. RecordsFit
    BY PartsOfInv
  <2>2. RowTellsItsOwnStatus' /\ ShownStatusWasGiven'
    BY <2>1 DEF RecordsFit, RowTellsItsOwnStatus, ShownStatusWasGiven, pdpVars, Known
  <2> QED
    BY <2>1, <2>2 DEF RecordsFit
<1> QED
  BY <1>1, <1>2, NoRunMoves

LEMMA ReconcileListKeepsInv ==
  ASSUME SyncInv, ReconcileList
  PROVE  SyncInv'
<1>1. /\ \E S \in SUBSET Listed : todo' = todo \cup S
      /\ UNCHANGED <<runVars, memory, invoice, row, pdpVars, ghl>>
  BY DEF ReconcileList
<1>2. Listed \subseteq Submission
  <2> SUFFICES ASSUME NEW i \in Invoice, IsListed(row[i].status)
               PROVE  row[i].id \in Submission
    BY DEF Listed
  <2>1. row[i] # NoRow
    BY DEF IsListed, PendingStatus, NoRow
  <2> QED
    BY <2>1 DEF SyncInv, RowTellsItsOwnStatus, Known
<1>3. todo' \subseteq Submission
  BY <1>1, <1>2 DEF SyncInv, TypeOK
<1>4. RunsInv' /\ UNCHANGED <<at, tries>>
  BY <1>1 DEF SyncInv, RunsInv, RunsTypeOK, LifecycleTypeOK, runVars
<1> QED
  BY <1>1, <1>3, <1>4, TodoKeepsInv

LEMMA ReconcileEnqueueKeepsInv ==
  ASSUME SyncInv, NEW s \in Submission, ReconcileEnqueue(s)
  PROVE  SyncInv'
<1>1. /\ todo' = todo \ {s} /\ EnqueueOnce(ReconcileSync(s))
      /\ UNCHANGED <<at, faults, memory, invoice, row, pdpVars, ghl>>
  BY DEF ReconcileEnqueue
<1>2. ReconcileSync(s) \in Job
  BY JobFacts
<1>3. RunsInv'
  BY <1>1, <1>2, RunsBounded, EnqueueKeepsRuns DEF SyncInv
<1>4. todo' \subseteq Submission /\ UNCHANGED tries
  BY <1>1 DEF SyncInv, TypeOK, EnqueueOnce, Submit
<1> QED
  BY <1>1, <1>3, <1>4, TodoKeepsInv

LEMMA ReconcileFailsKeepsInv ==
  ASSUME SyncInv, ReconcileFails
  PROVE  SyncInv'
<1>1. Fault /\ todo' = {} /\ UNCHANGED <<jobVars, at, memory, invoice, row, pdpVars, ghl>>
  BY DEF ReconcileFails
<1>2. RunsInv'
  BY <1>1, RunsBounded
  DEF SyncInv, RunsInv, RunsTypeOK, LifecycleTypeOK, Fault, Bounded, jobVars
<1> QED
  BY <1>1, <1>2, TodoKeepsInv DEF jobVars

LEMMA AgeKeepsInv ==
  ASSUME SyncInv, NEW i \in Invoice, Age(i)
  PROVE  SyncInv'
<1>1. /\ row[i].recent /\ row' = [row EXCEPT ![i].recent = FALSE]
      /\ UNCHANGED <<runVars, memory, invoice, todo, pdpVars, ghl>>
  BY DEF Age
<1>2. PdpTyped' /\ PdpFits' /\ PdpGrows
  BY <1>1, PdpUntouched DEF runVars
<1>3. RunsInv' /\ UNCHANGED <<at, tries>>
  BY <1>1 DEF SyncInv, RunsInv, RunsTypeOK, LifecycleTypeOK, runVars
<1>4. RecordsFit'
  <2>1. RecordsFit
    BY PartsOfInv
  <2>2. row[i] \in [id : Submission, status : PdpStatus, recent : BOOLEAN]
    BY <1>1, <2>1 DEF RecordsFit, NoRow
  <2>3. row[i] # NoRow
    BY <1>1 DEF NoRow
  <2>4. /\ row'[i].id = row[i].id /\ row'[i].status = row[i].status
        /\ \A k \in Invoice \ {i} : row'[k] = row[k]
    BY <1>1, <2>1, <2>2 DEF RecordsFit
  <2>5. row' \in [Invoice -> {NoRow} \cup
                    [id : Submission, status : PdpStatus, recent : BOOLEAN]]
    BY <1>1, <2>1, <2>2 DEF RecordsFit
  <2>6. RowTellsItsOwnStatus'
    <3>1. UNCHANGED had /\ \A k \in Invoice : Known(k)' = Known(k)
      BY <1>1 DEF pdpVars, Known
    <3> QED
      BY <2>1, <2>3, <2>4, <3>1 DEF RecordsFit, RowTellsItsOwnStatus
  <2>7. ShownStatusWasGiven'
    BY <1>1, <2>1 DEF RecordsFit, ShownStatusWasGiven, pdpVars, Known
  <2> QED
    BY <1>1, <2>1, <2>5, <2>6, <2>7 DEF RecordsFit
<1> QED
  BY <1>1, <1>2, <1>3, <1>4, NoRunMoves

LEMMA PdpProgressKeepsInv ==
  ASSUME SyncInv, NEW s \in Submission, PdpProgress(s)
  PROVE  SyncInv'
<1>1. PICK status \in PdpStatus :
        /\ <<pdp[s], status>> \in PdpMoves
        /\ pdp' = [pdp EXCEPT ![s] = status]
        /\ had' = [had EXCEPT ![s] = had[s] \cup {status}]
  BY DEF PdpProgress
<1>2. UNCHANGED <<runVars, memory, invoice, row, todo, deployment, ghl>>
  BY DEF PdpProgress
<1>3. RunsInv' /\ UNCHANGED <<at, tries>>
  BY <1>2 DEF SyncInv, RunsInv, RunsTypeOK, LifecycleTypeOK, runVars
<1>4. PdpTyped /\ PdpFits
  BY PartsOfInv
<1>5. pdp[s] # "none" /\ status # "none"
  BY <1>1, PdpMovesAssumption DEF PdpStatus
<1>6. /\ pdp'[s] = status /\ had'[s] = had[s] \cup {status}
      /\ \A t \in Submission \ {s} : pdp'[t] = pdp[t] /\ had'[t] = had[t]
      /\ PdpTyped'
  BY <1>1, <1>2, <1>4 DEF PdpTyped
<1>7. /\ PdpGrows /\ \A i \in Invoice : Known(i)' = Known(i)
  BY <1>5, <1>6 DEF PdpGrows, Known
<1>8. \A t \in Submission : pdp'[t] # "none" => {pdp'[t], "SUBMITTED"} \subseteq had'[t]
  BY <1>4, <1>5, <1>6 DEF PdpFits
<1>9. PdpFits'
  BY <1>2, <1>3, <1>4, <1>7, <1>8 DEF PdpFits
<1> QED
  BY <1>2, <1>3, <1>6, <1>7, <1>9, RecordsStayFit, NoRunMoves

-----------------------------------------------------------------------------
LEMMA StutterKeepsInv ==
  ASSUME SyncInv, UNCHANGED vars
  PROVE  SyncInv'
<1>1. RunsInv' /\ UNCHANGED <<at, tries, memory, invoice, row, todo, pdpVars, ghl>>
  BY DEF vars, memory, pdpVars, SyncInv, RunsInv, RunsTypeOK, LifecycleTypeOK
<1>2. todo' \subseteq Submission
  BY <1>1 DEF SyncInv, TypeOK
<1> QED
  BY <1>1, <1>2, TodoKeepsInv

LEMMA NextKeepsInv == SyncInv /\ [Next]_vars => SyncInv'
<1> SUFFICES ASSUME SyncInv, [Next]_vars PROVE SyncInv'
  OBVIOUS
<1>1. ASSUME NEW j \in Job, RunStep(j) PROVE SyncInv'
  <2>1. CASE StartSubmit(j)
    BY <2>1, StartSubmitKeepsInv
  <2>2. CASE SubmitToPdp(j)
    BY <2>2, SubmitToPdpKeepsInv
  <2>3. CASE UpsertSubmission(j)
    BY <2>3, UpsertSubmissionKeepsInv
  <2>4. CASE MarkSubmitted(j)
    BY <2>4, MarkSubmittedKeepsInv
  <2>5. CASE EnqueueFirstSync(j)
    BY <2>5, EnqueueFirstSyncKeepsInv
  <2>6. CASE StartSync(j)
    BY <2>6, StartSyncKeepsInv
  <2>7. CASE GetStatus(j)
    BY <2>7, GetStatusKeepsInv
  <2>8. CASE RecordError(j)
    BY <2>8, RecordErrorKeepsInv
  <2>9. CASE RecordStatus(j)
    BY <2>9, RecordStatusKeepsInv
  <2>10. CASE ShowStatus(j)
    BY <2>10, ShowStatusKeepsInv
  <2>11. CASE PushStatus(j)
    BY <2>11, PushStatusKeepsInv
  <2>12. CASE AskAgain(j)
    BY <2>12, AskAgainKeepsInv
  <2>13. CASE EndRun(j)
    BY <2>13, EndRunKeepsInv
  <2> QED
    BY <1>1, <2>1, <2>2, <2>3, <2>4, <2>5, <2>6, <2>7, <2>8, <2>9, <2>10, <2>11, <2>12, <2>13
    DEF RunStep
<1>2. ASSUME NEW j \in Job, GetStatusFails(j) PROVE SyncInv'
  BY <1>2, GetStatusFailsKeepsInv
<1>3. ASSUME NEW j \in Job, CallRejected(j) PROVE SyncInv'
  BY <1>3, CallRejectedKeepsInv
<1>4. ASSUME NEW j \in Job, ReservationUnanswered(j) PROVE SyncInv'
  BY <1>4, ReservationUnansweredKeepsInv
<1>5. ASSUME NEW s \in Submission, ReconcileEnqueue(s) PROVE SyncInv'
  BY <1>5, ReconcileEnqueueKeepsInv
<1>6. ASSUME NEW s \in Submission, PdpProgress(s) PROVE SyncInv'
  BY <1>6, PdpProgressKeepsInv
<1>7. ASSUME NEW i \in Invoice, Age(i) PROVE SyncInv'
  BY <1>7, AgeKeepsInv
<1>8. CASE ReconcileList
  BY <1>8, ReconcileListKeepsInv
<1>9. CASE ReconcileFails
  BY <1>9, ReconcileFailsKeepsInv
<1>10. CASE Crash
  BY <1>10, CrashKeepsInv
<1>11. CASE UNCHANGED vars
  BY <1>11, StutterKeepsInv
<1> QED
  BY <1>1, <1>2, <1>3, <1>4, <1>5, <1>6, <1>7, <1>8, <1>9, <1>10, <1>11 DEF Next

(***************************************************************************)
(* The inductive invariant: whatever interleaving, faults and crashes, a   *)
(* run of SUBMIT_PDP or SYNC_STATUS remembers a submission and a status of *)
(* it that were so at the PDP, and records nothing else.                   *)
(***************************************************************************)
THEOREM SyncInvariant == Spec => []SyncInv
  BY InitEstablishesInv, NextKeepsInv, PTL DEF Spec

(***************************************************************************)
(* Type correctness of the tables, the jobs, the runs and the two services *)
(* as the handlers of submission and synchronisation change them.          *)
(***************************************************************************)
THEOREM TypeCorrectness == Spec => []TypeOK
<1>1. SyncInv => TypeOK
  BY DEF SyncInv
<1> QED
  BY <1>1, SyncInvariant, PTL

(***************************************************************************)
(* As every attempt of SUBMIT_PDP sends the same Idempotency-Key, a PDP    *)
(* that honours the key never has two submissions of one invoice.          *)
(***************************************************************************)
THEOREM NoSecondSubmission == Spec => []NoDuplicateSubmission
<1>1. SyncInv => NoDuplicateSubmission
  <2> SUFFICES ASSUME SyncInv, deployment.dedupes, NEW i \in Invoice
               PROVE  Cardinality(Known(i)) <= 1
    BY DEF NoDuplicateSubmission
  <2>1. \A s, t \in Known(i) : s = t
    BY DEF SyncInv, PdpFits
  <2>2. CASE Known(i) = {}
    BY <2>2, FS_EmptySet
  <2>3. ASSUME NEW s \in Known(i) PROVE Cardinality(Known(i)) <= 1
    <3>1. Known(i) = {s}
      BY <2>1, <2>3
    <3>2. Cardinality({s}) = 1
      BY FS_Singleton
    <3> QED
      BY <3>1, <3>2
  <2> QED
    BY <2>2, <2>3
<1> QED
  BY <1>1, SyncInvariant, PTL

(***************************************************************************)
(* The UPDATE of SYNC_STATUS names the submission that was asked about, so *)
(* a row never shows the status of another submission than its own.        *)
(***************************************************************************)
THEOREM RowsTellTheirOwnStatus == Spec => []RowTellsItsOwnStatus
<1>1. SyncInv => RowTellsItsOwnStatus
  BY DEF SyncInv
<1> QED
  BY <1>1, SyncInvariant, PTL

(***************************************************************************)
(* What users see of an invoice after its submission, and what GHL is      *)
(* told, the PDP has said: no failure on the way makes a status up.        *)
(***************************************************************************)
THEOREM NoStatusIsMadeUp == Spec => []ShownStatusWasGiven
<1>1. SyncInv => ShownStatusWasGiven
  BY DEF SyncInv
<1> QED
  BY <1>1, SyncInvariant, PTL

-----------------------------------------------------------------------------
(***************************************************************************)
(* As long as nothing has failed.                                          *)
(***************************************************************************)
LEMMA KeysDiffer ==
  /\ \A i, k \in Invoice : /\ SubmitJob(i) # FirstSync(k)
                           /\ SubmitJob(i) = SubmitJob(k) => i = k
                           /\ FirstSync(i) = FirstSync(k) => i = k
                           /\ InvoiceOf(SubmitJob(i)) = i /\ InvoiceOf(FirstSync(i)) = i
                           /\ IsSubmit(SubmitJob(i)) /\ ~IsSubmit(FirstSync(i))
  /\ \A s \in Submission : /\ ReconcileSync(s) \in Job /\ ~IsSubmit(ReconcileSync(s))
                           /\ InvoiceOf(ReconcileSync(s)) = s[1]
                           /\ \A i \in Invoice : ReconcileSync(s) # FirstSync(i)
  /\ \A s \in Submission, n \in 1..MaxAttempts :
        /\ RetrySync(s, n) \in Job /\ ~IsSubmit(RetrySync(s, n))
        /\ InvoiceOf(RetrySync(s, n)) = s[1]
        /\ \A i \in Invoice : RetrySync(s, n) # FirstSync(i)
<1>1. \A i \in Invoice : /\ SubmitJob(i)[1] = "SUBMIT" /\ SubmitJob(i)[2] = i
                         /\ FirstSync(i)[1] = "SYNC" /\ FirstSync(i)[2] = i
  BY DEF SubmitJob, FirstSync
<1>2. \A s \in Submission : /\ ReconcileSync(s)[1] = "SYNC reconcile"
                            /\ ReconcileSync(s)[2] = s
  BY DEF ReconcileSync
<1>3. \A s \in Submission, n \in 1..MaxAttempts :
        RetrySync(s, n)[1] = "SYNC retry" /\ RetrySync(s, n)[2] = s
  BY DEF RetrySync
<1>4. \A i, k \in Invoice : /\ SubmitJob(i) # FirstSync(k)
                            /\ SubmitJob(i) = SubmitJob(k) => i = k
                            /\ FirstSync(i) = FirstSync(k) => i = k
  BY <1>1
<1>5. \A i \in Invoice : /\ InvoiceOf(SubmitJob(i)) = i /\ InvoiceOf(FirstSync(i)) = i
                         /\ IsSubmit(SubmitJob(i)) /\ ~IsSubmit(FirstSync(i))
  BY <1>1 DEF InvoiceOf, IsSubmit
<1>6. \A s \in Submission : /\ ~IsSubmit(ReconcileSync(s))
                            /\ InvoiceOf(ReconcileSync(s)) = s[1]
                            /\ \A i \in Invoice : ReconcileSync(s) # FirstSync(i)
  BY <1>1, <1>2 DEF InvoiceOf, IsSubmit
<1>7. \A s \in Submission, n \in 1..MaxAttempts :
        /\ ~IsSubmit(RetrySync(s, n)) /\ InvoiceOf(RetrySync(s, n)) = s[1]
        /\ \A i \in Invoice : RetrySync(s, n) # FirstSync(i)
  BY <1>1, <1>3 DEF InvoiceOf, IsSubmit
<1> QED
  BY <1>4, <1>5, <1>6, <1>7, JobFacts

Calm ==
    /\ faults = 0
    /\ \A j \in Job : RunsOnce(j)
    /\ \A s \in todo : row[s[1]] # NoRow
    /\ \A i \in Invoice : PollFits(i)

LEMMA PartsOfPolling == faults = 0 => (PollingFits <=> Calm)
  BY DEF PollingFits, Calm

LEMMA PartsOfNextPolling ==
  ASSUME faults' = 0 => Calm'
  PROVE  PollingFits'
  BY DEF PollingFits, Calm

\* The PDP has one submission of an invoice, that of the first attempt.
LEMMA FirstSubmission ==
  ASSUME SyncInv, Calm
  PROVE  /\ \A i \in Invoice : \A s \in Known(i) : s = <<i, 1>>
         /\ \A i \in Invoice : row[i] # NoRow => row[i].id = <<i, 1>>
<1>1. ASSUME NEW i \in Invoice, NEW s \in Known(i) PROVE s = <<i, 1>>
  <2>1. s \in Submission /\ s[1] = i /\ s = <<s[1], s[2]>> /\ s[2] \in 1..MaxAttempts
    BY <1>1, SubmissionFacts DEF Known
  <2>2. s[2] <= tries[SubmitJob(i)] /\ SubmitJob(i) \in Job
    BY <1>1, JobFacts DEF SyncInv, PdpFits
  <2>3. tries[SubmitJob(i)] \in {0, 1}
    BY <2>2 DEF Calm, RunsOnce
  <2>4. s[2] = 1
    BY <2>1, <2>2, <2>3, StatusSyncAssumption
  <2> QED
    BY <2>1, <2>4
<1> QED
  BY <1>1 DEF SyncInv, RowTellsItsOwnStatus

\* Without a failure a call is answered, and only then.
LEMMA CalmCall ==
  ASSUME SyncInv, NEW j \in Job, NEW from, NEW to, Call(j, from, to), faults' = 0
  PROVE  /\ at[j] = from /\ at'[j] = to
         /\ \A k \in Job \ {j} : at'[k] = at[k]
<1>1. RunsInv /\ faults \in Nat
  BY StatusSyncAssumption DEF SyncInv, RunsInv, RunsTypeOK
<1>2. Goto(j, from, to)
  BY <1>1 DEF Call, Fault
<1> QED
  BY <1>1, <1>2, GotoEffect

\* A run that stays at its place, and whose job stays as it is.
LEMMA RunStaysOnce ==
  ASSUME NEW k \in Job, RunsOnce(k), at'[k] = at[k], tries'[k] = tries[k],
         state'[k] = state[k], row[InvoiceOf(k)] # NoRow => row'[InvoiceOf(k)] # NoRow
  PROVE  RunsOnce(k)'
  BY DEF RunsOnce

\* An invoice that a step does not concern.
LEMMA PollStaysFit ==
  ASSUME NEW i \in Invoice, PollFits(i),
         \A k \in Job : state[k] # "absent" => state'[k] # "absent",
         \A k \in JobsOf(i) : at'[k] = at[k] /\ heard'[k] = heard[k],
         state'[SubmitJob(i)] = state[SubmitJob(i)],
         state'[FirstSync(i)] = state[FirstSync(i)],
         row'[i] = NoRow <=> row[i] = NoRow,
         row'[i].id = row[i].id, row'[i].status = row[i].status,
         row[i] # NoRow => row[i].id \in Submission
  PROVE  PollFits(i)'
<1>1. /\ SubmitJob(i) \in JobsOf(i) /\ FirstSync(i) \in JobsOf(i)
      /\ row[i] # NoRow => RetrySync(row[i].id, 1) \in Job
  BY JobFacts, KeysDiffer, StatusSyncAssumption DEF JobsOf
<1>2. /\ at'[SubmitJob(i)] = at[SubmitJob(i)] /\ state'[SubmitJob(i)] = state[SubmitJob(i)]
      /\ at'[FirstSync(i)] = at[FirstSync(i)] /\ state'[FirstSync(i)] = state[FirstSync(i)]
  BY <1>1
<1>3. BeforeFirstSync(i)' <=> BeforeFirstSync(i)
  BY <1>2 DEF BeforeFirstSync
<1>4. row[i] # NoRow /\ RetryIsComing(i) => RetryIsComing(i)'
  <2>1. JobsOf(i) \subseteq Job
    BY DEF JobsOf
  <2> QED
    BY <1>1, <1>2, <2>1 DEF RetryIsComing
<1>5. IsPending(row'[i].status) <=> IsPending(row[i].status)
  OBVIOUS
<1> QED
  BY <1>2, <1>3, <1>4, <1>5 DEF PollFits

\* A step that concerns the jobs and the row of one invoice.
LEMMA CalmStep ==
  ASSUME SyncInv, Calm, faults' = 0, NEW i \in Invoice,
         \A k \in Job \ JobsOf(i) : /\ at'[k] = at[k] /\ heard'[k] = heard[k]
                                    /\ state'[k] = state[k] /\ tries'[k] = tries[k],
         \A k \in Job : state[k] # "absent" => state'[k] # "absent",
         \A k \in Invoice \ {i} : row'[k] = row[k],
         \A k \in JobsOf(i) : RunsOnce(k)',
         \A s \in todo' : row'[s[1]] # NoRow,
         PollFits(i)'
  PROVE  Calm'
<1>1. ASSUME NEW k \in Job PROVE RunsOnce(k)'
  <2>1. CASE k \in JobsOf(i)
    BY <2>1
  <2>2. CASE k \notin JobsOf(i)
    <3>1. InvoiceOf(k) \in Invoice \ {i}
      BY <2>2, JobFacts DEF JobsOf
    <3> QED
      BY <2>2, <3>1, RunStaysOnce DEF Calm
  <2> QED
    BY <2>1, <2>2
<1>2. ASSUME NEW k \in Invoice, k # i PROVE PollFits(k)'
  <2>1. PollFits(k) /\ row'[k] = row[k]
    BY <1>2 DEF Calm
  <2>2. \A j \in JobsOf(k) : j \in Job \ JobsOf(i)
    BY <1>2 DEF JobsOf
  <2>3. SubmitJob(k) \in JobsOf(k) /\ FirstSync(k) \in JobsOf(k)
    BY JobFacts, KeysDiffer DEF JobsOf
  <2>4. row[k] # NoRow => row[k].id \in Submission
    BY SubmissionFacts DEF SyncInv, RowTellsItsOwnStatus, Known
  <2> QED
    BY <2>1, <2>2, <2>3, <2>4, PollStaysFit
<1> QED
  BY <1>1, <1>2 DEF Calm

\* A step of one run: the other runs of its invoice, and the jobs that are not
\* enqueued, stay as they are.
LEMMA CalmRunStep ==
  ASSUME SyncInv, Calm, faults' = 0, NEW j \in Job, NEW e \in JobsOf(InvoiceOf(j)),
         \A k \in Job \ {j} : at'[k] = at[k] /\ heard'[k] = heard[k],
         \A k \in Job \ {j, e} : state'[k] = state[k] /\ tries'[k] = tries[k],
         state[j] # "absent", state'[j] # "absent", state[e] # "absent" => state'[e] # "absent",
         \A k \in Invoice \ {InvoiceOf(j)} : row'[k] = row[k],
         row[InvoiceOf(j)] # NoRow => row'[InvoiceOf(j)] # NoRow,
         RunsOnce(j)', RunsOnce(e)', UNCHANGED todo,
         PollFits(InvoiceOf(j))'
  PROVE  Calm'
<1>1. InvoiceOf(j) \in Invoice /\ e \in Job /\ {j, e} \subseteq JobsOf(InvoiceOf(j))
  BY JobFacts DEF JobsOf
<1>2. \A k \in Job : state[k] # "absent" => state'[k] # "absent"
  BY <1>1
<1>3. ASSUME NEW k \in JobsOf(InvoiceOf(j)) PROVE RunsOnce(k)'
  <2>1. CASE k \in {j, e}
    BY <2>1
  <2>2. CASE k \notin {j, e}
    <3>1. k \in Job /\ InvoiceOf(k) = InvoiceOf(j)
      BY DEF JobsOf
    <3> QED
      BY <2>2, <3>1, RunStaysOnce DEF Calm
  <2> QED
    BY <2>1, <2>2
<1>4. \A s \in todo' : row'[s[1]] # NoRow
  <2>1. \A s \in todo : row[s[1]] # NoRow /\ s[1] \in Invoice
    BY SubmissionFacts DEF Calm, SyncInv, TypeOK
  <2> QED
    BY <2>1
<1> QED
  BY <1>1, <1>2, <1>3, <1>4, CalmStep

LEMMA InvoiceJobs ==
  ASSUME NEW j \in Job
  PROVE  LET i == InvoiceOf(j)
         IN /\ i \in Invoice /\ j \in JobsOf(i) /\ JobsOf(i) \subseteq Job
            /\ SubmitJob(i) \in JobsOf(i) /\ FirstSync(i) \in JobsOf(i)
            /\ SubmitJob(i) # FirstSync(i)
            /\ IsSubmit(j) <=> j = SubmitJob(i)
  BY JobFacts, KeysDiffer DEF JobsOf

\* What a run and its invoice are like while all is calm.
LEMMA CalmFacts ==
  ASSUME SyncInv, Calm, NEW j \in Job
  PROVE  /\ RunsOnce(j) /\ PollFits(InvoiceOf(j)) /\ InvoiceOf(j) \in Invoice
         /\ at[j] # "none" <=> state[j] = "active"
         /\ state \in [Job -> JobState] /\ tries \in [Job -> 0..MaxAttempts]
         /\ row[InvoiceOf(j)] # NoRow =>
               RetrySync(row[InvoiceOf(j)].id, 1) \in JobsOf(InvoiceOf(j))
<1>1. InvoiceOf(j) \in Invoice
  BY JobFacts
<1>2. row[InvoiceOf(j)] # NoRow =>
         /\ row[InvoiceOf(j)].id = <<InvoiceOf(j), 1>>
         /\ row[InvoiceOf(j)].id \in Submission /\ row[InvoiceOf(j)].id[1] = InvoiceOf(j)
  <2>1. 1 \in 1..MaxAttempts
    BY StatusSyncAssumption
  <2>2. <<InvoiceOf(j), 1>> \in Submission /\ <<InvoiceOf(j), 1>>[1] = InvoiceOf(j)
    BY <1>1, <2>1, SubmissionFacts
  <2> QED
    BY <1>1, <2>2, FirstSubmission
<1>3. \A s \in Submission : RetrySync(s, 1) \in JobsOf(s[1])
  BY KeysDiffer, StatusSyncAssumption DEF JobsOf
<1> QED
  BY <1>1, <1>2, <1>3 DEF Calm, SyncInv, RunsInv, RunsTypeOK, LifecycleTypeOK

LEMMA StartSubmitStaysCalm ==
  ASSUME SyncInv, Calm, faults' = 0, NEW j \in Job, StartSubmit(j)
  PROVE  Calm'
<1> DEFINE i == InvoiceOf(j)
<1>1. /\ Reserve(j, "submit") /\ IsSubmit(j)
      /\ UNCHANGED <<chosen, heard, row, todo>>
  BY DEF StartSubmit, memory
<1>2. RunsInv
  BY DEF SyncInv
<1>3. /\ state[j] = "pending" /\ state' = [state EXCEPT ![j] = "active"]
      /\ tries' = [tries EXCEPT ![j] = tries[j] + 1]
      /\ at'[j] = "submit" /\ \A k \in Job \ {j} : at'[k] = at[k]
  BY <1>1, <1>2, GotoEffect DEF Reserve, Start, Move
<1>4. j = SubmitJob(i) /\ i \in Invoice /\ FirstSync(i) \in Job \ {j}
  BY <1>1, InvoiceJobs
<1>5. /\ state'[j] = "active" /\ tries'[j] = 1
      /\ \A k \in Job \ {j} : state'[k] = state[k] /\ tries'[k] = tries[k]
  <2>1. tries[j] = 0
    BY <1>3, CalmFacts DEF RunsOnce
  <2>2. state \in [Job -> JobState] /\ tries \in [Job -> 0..MaxAttempts]
    BY CalmFacts
  <2> QED
    BY <1>3, <2>1, <2>2
<1>6. RunsOnce(j)'
  BY <1>1, <1>3, <1>5 DEF RunsOnce
<1>7. PollFits(i)'
  <2>1. PollFits(i) /\ at[j] = "none"
    BY <1>3, CalmFacts
  <2>2. row[i] # NoRow /\ RetryIsComing(i) => RetryIsComing(i)'
    <3>1. /\ \A k \in Job : state[k] # "absent" => state'[k] # "absent"
          /\ row[i] # NoRow => RetrySync(row[i].id, 1) \in Job
      BY <1>3, <1>5, CalmFacts DEF JobsOf
    <3> QED
      BY <1>1, <1>3, <1>4, <1>5, <2>1, <3>1 DEF RetryIsComing, JobsOf
  <2> QED
    BY <1>1, <1>3, <1>4, <1>5, <2>1, <2>2 DEF PollFits, BeforeFirstSync
<1> QED
  BY <1>1, <1>3, <1>5, <1>6, <1>7, InvoiceJobs, CalmRunStep

LEMMA SubmitToPdpStaysCalm ==
  ASSUME SyncInv, Calm, faults' = 0, NEW j \in Job, SubmitToPdp(j)
  PROVE  Calm'
<1> DEFINE i == InvoiceOf(j)
<1>1. /\ IsSubmit(j) /\ Call(j, "submit", "upsert")
      /\ UNCHANGED <<state, tries, row, todo>>
      /\ \E status : heard' = [heard EXCEPT ![j] = status]
  BY DEF SubmitToPdp, jobVars
<1>2. /\ at[j] = "submit" /\ at'[j] = "upsert" /\ \A k \in Job \ {j} : at'[k] = at[k]
  BY <1>1, CalmCall
<1>3. \A k \in Job \ {j} : heard'[k] = heard[k]
  BY <1>1 DEF SyncInv, TypeOK
<1>4. j = SubmitJob(i) /\ i \in Invoice /\ FirstSync(i) \in Job \ {j}
  BY <1>1, InvoiceJobs
<1>5. RunsOnce(j)' /\ state[j] # "absent"
  BY <1>1, <1>2, CalmFacts DEF RunsOnce
<1>6. PollFits(i)'
  <2>1. PollFits(i)
    BY CalmFacts
  <2>2. RetryIsComing(i) => RetryIsComing(i)'
    BY <1>1, <1>2, <1>3, <1>4 DEF RetryIsComing, JobsOf
  <2> QED
    BY <1>1, <1>2, <1>4, <2>1, <2>2 DEF PollFits, BeforeFirstSync
<1> QED
  BY <1>1, <1>2, <1>3, <1>5, <1>6, InvoiceJobs, CalmRunStep

LEMMA UpsertSubmissionStaysCalm ==
  ASSUME SyncInv, Calm, faults' = 0, NEW j \in Job, UpsertSubmission(j)
  PROVE  Calm'
<1> DEFINE i == InvoiceOf(j)
<1>1. /\ Call(j, "upsert", "mark")
      /\ row' = [row EXCEPT ![i] = [id |-> chosen[j], status |-> heard[j], recent |-> TRUE]]
      /\ UNCHANGED <<state, tries, chosen, heard, todo>>
  BY DEF UpsertSubmission, jobVars, memory
<1>2. /\ at[j] = "upsert" /\ at'[j] = "mark" /\ \A k \in Job \ {j} : at'[k] = at[k]
  BY <1>1, CalmCall
<1>3. /\ IsSubmit(j) /\ chosen[j] \in Submission
  <2>1. RunFits(j)
    BY PartsOfInv
  <2> QED
    BY <1>2, <2>1 DEF RunFits, SyncCalls, Known
<1>4. j = SubmitJob(i) /\ i \in Invoice /\ FirstSync(i) \in Job \ {j}
  BY <1>3, InvoiceJobs
<1>5. row'[i] # NoRow /\ \A k \in Invoice \ {i} : row'[k] = row[k]
  <2>1. row \in [Invoice -> {NoRow} \cup [id : Submission, status : PdpStatus, recent : BOOLEAN]]
    BY DEF SyncInv, TypeOK
  <2>2. row'[i] = [id |-> chosen[j], status |-> heard[j], recent |-> TRUE]
    BY <1>1, <1>4, <2>1
  <2>3. row'[i].id # NoSubmission
    BY <1>3, <2>2, SubmissionFacts
  <2> QED
    BY <1>1, <2>1, <2>3 DEF NoRow
<1>6. RunsOnce(j)' /\ state[j] # "absent"
  BY <1>1, <1>2, <1>3, CalmFacts DEF RunsOnce
<1>7. PollFits(i)'
  <2>1. PollFits(i)
    BY CalmFacts
  <2> QED
    BY <1>1, <1>2, <1>4, <1>5, <2>1 DEF PollFits, BeforeFirstSync, RetryIsComing
<1> QED
  BY <1>1, <1>2, <1>5, <1>6, <1>7, InvoiceJobs, CalmRunStep

LEMMA MarkSubmittedStaysCalm ==
  ASSUME SyncInv, Calm, faults' = 0, NEW j \in Job, MarkSubmitted(j)
  PROVE  Calm'
<1> DEFINE i == InvoiceOf(j)
<1>1. /\ Call(j, "mark", "first sync")
      /\ UNCHANGED <<state, tries, chosen, heard, row, todo>>
  BY DEF MarkSubmitted, jobVars, memory
<1>2. /\ at[j] = "mark" /\ at'[j] = "first sync" /\ \A k \in Job \ {j} : at'[k] = at[k]
  BY <1>1, CalmCall
<1>3. IsSubmit(j)
  <2>1. RunFits(j)
    BY PartsOfInv
  <2> QED
    BY <1>2, <2>1 DEF RunFits, SyncCalls
<1>4. j = SubmitJob(i) /\ i \in Invoice /\ FirstSync(i) \in Job \ {j}
  BY <1>3, InvoiceJobs
<1>5. RunsOnce(j)' /\ state[j] # "absent"
  BY <1>1, <1>2, <1>3, CalmFacts DEF RunsOnce
<1>6. PollFits(i)'
  <2>1. PollFits(i)
    BY CalmFacts
  <2> QED
    BY <1>1, <1>2, <1>4, <2>1 DEF PollFits, BeforeFirstSync, RetryIsComing
<1> QED
  BY <1>1, <1>2, <1>5, <1>6, InvoiceJobs, CalmRunStep

\* A job that did not exist is due, and one that did stays as it is.
LEMMA Enqueued ==
  ASSUME SyncInv, Calm, NEW j \in Job, EnqueueOnce(j), UNCHANGED row, at'[j] = at[j],
         ~IsSubmit(j), row[InvoiceOf(j)] # NoRow
  PROVE  /\ \A k \in Job \ {j} : state'[k] = state[k]
         /\ UNCHANGED tries
         /\ IF state[j] = "absent" THEN state'[j] = "pending" ELSE UNCHANGED state
         /\ state'[j] # "absent" /\ RunsOnce(j)'
<1>1. RunsOnce(j) /\ state \in [Job -> JobState] /\ (at[j] # "none" <=> state[j] = "active")
  BY CalmFacts
<1>2. /\ \A k \in Job \ {j} : state'[k] = state[k]
      /\ UNCHANGED tries
      /\ IF state[j] = "absent" THEN state'[j] = "pending" ELSE UNCHANGED state
  BY <1>1 DEF EnqueueOnce, Submit, Move
<1> QED
  BY <1>1, <1>2 DEF RunsOnce

LEMMA EnqueueFirstSyncStaysCalm ==
  ASSUME SyncInv, Calm, faults' = 0, NEW j \in Job, EnqueueFirstSync(j)
  PROVE  Calm'
<1> DEFINE i == InvoiceOf(j)
           e == FirstSync(i)
<1>1. /\ Call(j, "first sync", "returned") /\ EnqueueOnce(e)
      /\ UNCHANGED <<chosen, heard, row, todo>>
  BY DEF EnqueueFirstSync, memory
<1>2. /\ at[j] = "first sync" /\ at'[j] = "returned" /\ \A k \in Job \ {j} : at'[k] = at[k]
  BY <1>1, CalmCall
<1>3. IsSubmit(j)
  <2>1. RunFits(j)
    BY PartsOfInv
  <2> QED
    BY <1>2, <2>1 DEF RunFits, SyncCalls
<1>4. /\ j = SubmitJob(i) /\ i \in Invoice /\ e \in Job \ {j} /\ e \in JobsOf(i)
      /\ ~IsSubmit(e) /\ InvoiceOf(e) = i
  BY <1>3, InvoiceJobs, KeysDiffer
<1>5. state[e] = "absent" /\ row[i] # NoRow /\ state[j] = "active"
  BY <1>2, <1>4, CalmFacts DEF PollFits, BeforeFirstSync
<1> HIDE DEF i, e
<1>6. /\ state'[e] = "pending" /\ RunsOnce(e)' /\ UNCHANGED tries
      /\ \A k \in Job \ {e} : state'[k] = state[k]
  BY <1>1, <1>2, <1>4, <1>5, Enqueued
<1>7. RunsOnce(j)'
  BY <1>1, <1>2, <1>3, <1>4, <1>5, <1>6, CalmFacts DEF RunsOnce
<1>8. PollFits(i)'
  BY <1>1, <1>2, <1>4, <1>5, <1>6 DEF PollFits, BeforeFirstSync, RetryIsComing, e
<1> QED
  BY <1>1, <1>2, <1>4, <1>5, <1>6, <1>7, <1>8, CalmRunStep DEF i

LEMMA StartSyncStaysCalm ==
  ASSUME SyncInv, Calm, faults' = 0, NEW j \in Job, StartSync(j)
  PROVE  Calm'
<1> DEFINE i == InvoiceOf(j)
<1>1. /\ ~IsSubmit(j) /\ Reserve(j, IF row[i] = NoRow THEN "thrown" ELSE "get status")
      /\ UNCHANGED <<heard, row, todo>>
  BY DEF StartSync
<1>2. RunsInv /\ state[j] = "pending"
  BY <1>1 DEF SyncInv, Reserve, Start, Move
<1>3. row[i] # NoRow /\ tries[j] = 0 /\ at[j] = "none"
  BY <1>1, <1>2, CalmFacts DEF RunsOnce
<1>4. /\ state' = [state EXCEPT ![j] = "active"]
      /\ tries' = [tries EXCEPT ![j] = tries[j] + 1]
      /\ at'[j] = "get status" /\ \A k \in Job \ {j} : at'[k] = at[k]
  BY <1>1, <1>2, <1>3, GotoEffect DEF Reserve, Start, Move
<1>5. /\ state'[j] = "active" /\ tries'[j] = 1
      /\ \A k \in Job \ {j} : state'[k] = state[k] /\ tries'[k] = tries[k]
  <2>1. state \in [Job -> JobState] /\ tries \in [Job -> 0..MaxAttempts]
    BY CalmFacts
  <2>2. tries[j] = 0
    BY <1>3
  <2>3. /\ state' = [state EXCEPT ![j] = "active"]
        /\ tries' = [tries EXCEPT ![j] = tries[j] + 1]
    BY <1>4
  <2> QED
    BY <2>1, <2>2, <2>3
<1>6. RunsOnce(j)'
  BY <1>1, <1>3, <1>4, <1>5 DEF RunsOnce
<1>7. j # SubmitJob(i) /\ i \in Invoice /\ {SubmitJob(i), FirstSync(i)} \subseteq Job
  BY <1>1, InvoiceJobs
<1>8. PollFits(i)'
  <2>1. PollFits(i) /\ RetrySync(row[i].id, 1) \in Job
    BY <1>3, CalmFacts DEF JobsOf
  <2>2. RetryIsComing(i) => RetryIsComing(i)'
    <3>1. \A k \in Job : state[k] # "absent" => state'[k] # "absent"
      BY <1>5
    <3>2. CASE FirstSync(i) = j
      BY <1>4, <3>2 DEF RetryIsComing
    <3>3. CASE FirstSync(i) # j
      BY <1>1, <1>3, <1>4, <1>5, <1>7, <2>1, <3>1, <3>3 DEF RetryIsComing, JobsOf
    <3> QED
      BY <3>2, <3>3
  <2>3. BeforeFirstSync(i)' => BeforeFirstSync(i) /\ FirstSync(i) # j
    BY <1>2, <1>4, <1>5, <1>7, <2>1 DEF BeforeFirstSync, PollFits
  <2> QED
    BY <1>1, <1>3, <1>4, <1>5, <1>7, <2>1, <2>2, <2>3 DEF PollFits
<1> QED
  BY <1>1, <1>2, <1>4, <1>5, <1>6, <1>8, InvoiceJobs, CalmRunStep

\* A run of SYNC_STATUS goes from one call to the next, and leaves the jobs, the row
\* and the status it has heard, if it has asked already, as they are.
LEMMA SyncCallStaysCalm ==
  ASSUME SyncInv, Calm, faults' = 0, NEW j \in Job,
         at[j] \in {"get status", "show", "push"},
         at[j] = "get status" => at'[j] = "record",
         at[j] # "get status" => at'[j] \in {"push", "ask again"} /\ heard'[j] = heard[j],
         \A k \in Job \ {j} : at'[k] = at[k] /\ heard'[k] = heard[k],
         UNCHANGED <<state, tries, row, todo>>
  PROVE  Calm'
<1> DEFINE i == InvoiceOf(j)
<1>1. ~IsSubmit(j) /\ state[j] = "active"
  BY SyncRunKnows, CalmFacts
<1>2. RunsOnce(j)'
  BY <1>1, CalmFacts DEF RunsOnce
<1>3. j # SubmitJob(i) /\ i \in Invoice /\ {SubmitJob(i), FirstSync(i)} \subseteq Job
  BY <1>1, InvoiceJobs
<1>4. PollFits(i)'
  <2>1. PollFits(i) /\ at'[SubmitJob(i)] = at[SubmitJob(i)]
    BY <1>3, CalmFacts
  <2>2. RetryIsComing(i) => RetryIsComing(i)'
    <3>1. ASSUME at[FirstSync(i)] \in {"get status", "record"} PROVE RetryIsComing(i)'
      <4>1. at'[FirstSync(i)] \in {"get status", "record"}
        BY <1>3, <3>1
      <4> QED
        BY <4>1 DEF RetryIsComing
    <3>2. ASSUME NEW k \in JobsOf(i), at[k] \in {"show", "push", "ask again"},
                 IsPending(heard[k])
          PROVE  RetryIsComing(i)'
      <4>1. at'[k] \in {"show", "push", "ask again"} /\ IsPending(heard'[k])
        BY <3>2 DEF JobsOf
      <4> QED
        BY <4>1 DEF RetryIsComing
    <3> QED
      BY <2>1, <3>1, <3>2 DEF RetryIsComing
  <2> QED
    BY <2>1, <2>2 DEF PollFits, BeforeFirstSync
<1> QED
  BY <1>1, <1>2, <1>4, InvoiceJobs, CalmRunStep

LEMMA GetStatusStaysCalm ==
  ASSUME SyncInv, Calm, faults' = 0, NEW j \in Job, GetStatus(j)
  PROVE  Calm'
<1>1. /\ at[j] = "get status" /\ at'[j] = "record" /\ \A k \in Job \ {j} : at'[k] = at[k]
  BY GotoEffect DEF GetStatus, SyncInv
<1>2. \A k \in Job \ {j} : heard'[k] = heard[k]
  BY DEF GetStatus, SyncInv, TypeOK
<1> QED
  BY <1>1, <1>2, SyncCallStaysCalm DEF GetStatus, jobVars

LEMMA ShowStatusStaysCalm ==
  ASSUME SyncInv, Calm, faults' = 0, NEW j \in Job, ShowStatus(j)
  PROVE  Calm'
<1> DEFINE to == IF InvoiceStatusFor(heard[j]) = "ERROR" THEN "ask again" ELSE "push"
<1>1. Call(j, "show", to) /\ UNCHANGED <<state, tries, heard, row, todo>>
  BY DEF ShowStatus, jobVars, memory
<1>2. to \in {"push", "ask again"}
  OBVIOUS
<1> HIDE DEF to
<1>3. /\ at[j] = "show" /\ at'[j] = to /\ \A k \in Job \ {j} : at'[k] = at[k]
  BY <1>1, CalmCall
<1> QED
  BY <1>1, <1>2, <1>3, SyncCallStaysCalm

LEMMA PushStatusStaysCalm ==
  ASSUME SyncInv, Calm, faults' = 0, NEW j \in Job, PushStatus(j)
  PROVE  Calm'
<1>1. Call(j, "push", "ask again") /\ UNCHANGED <<state, tries, heard, row, todo>>
  BY DEF PushStatus, jobVars, memory
<1>2. /\ at[j] = "push" /\ at'[j] = "ask again" /\ \A k \in Job \ {j} : at'[k] = at[k]
  BY <1>1, CalmCall
<1> QED
  BY <1>1, <1>2, SyncCallStaysCalm

\* The run that has recorded a pending status is the one that will ask again.
LEMMA RecordStatusStaysCalm ==
  ASSUME SyncInv, Calm, faults' = 0, NEW j \in Job, RecordStatus(j)
  PROVE  Calm'
<1> DEFINE i == InvoiceOf(j)
<1>1. /\ Call(j, "record", "show") /\ UpdateSubmission(chosen[j], heard[j])
      /\ UNCHANGED <<state, tries, heard, todo>>
  BY DEF RecordStatus, jobVars, memory
<1>2. /\ at[j] = "record" /\ at'[j] = "show" /\ \A k \in Job \ {j} : at'[k] = at[k]
  BY <1>1, CalmCall
<1>3. ~IsSubmit(j) /\ state[j] = "active" /\ chosen[j] \in Known(i)
  BY <1>2, SyncRunKnows, CalmFacts
<1>4. j # SubmitJob(i) /\ i \in Invoice /\ j \in JobsOf(i)
      /\ {SubmitJob(i), FirstSync(i)} \subseteq Job
  BY <1>3, InvoiceJobs
<1>5. row[i] # NoRow
  BY <1>3, CalmFacts DEF RunsOnce
<1>6. chosen[j] = row[i].id /\ chosen[j][1] = i /\ chosen[j] # NoSubmission
  <2>1. chosen[j] = <<i, 1>> /\ row[i].id = <<i, 1>> /\ chosen[j] \in Submission
    BY <1>3, <1>4, <1>5, FirstSubmission DEF Known
  <2> QED
    BY <1>3, <2>1, SubmissionFacts DEF Known
<1>7. /\ row'[i] = [id |-> chosen[j], status |-> heard[j], recent |-> TRUE]
      /\ \A k \in Invoice \ {i} : row'[k] = row[k]
  <2>1. ASSUME NEW k \in Invoice, k # i PROVE row[k].id # chosen[j]
    <3>1. CASE row[k] = NoRow
      BY <1>6, <3>1 DEF NoRow
    <3>2. CASE row[k] # NoRow
      BY <1>6, <2>1, <3>2 DEF SyncInv, RowTellsItsOwnStatus, Known
    <3> QED
      BY <3>1, <3>2
  <2> QED
    BY <1>1, <1>4, <1>6, <2>1 DEF UpdateSubmission
<1>8. row'[i] # NoRow /\ row'[i].status = heard'[j]
  <2>1. row'[i].id # NoSubmission /\ row'[i].status = heard[j]
    BY <1>6, <1>7
  <2> QED
    BY <1>1, <2>1 DEF NoRow
<1>9. RunsOnce(j)'
  BY <1>1, <1>2, <1>3, <1>8, CalmFacts DEF RunsOnce
<1>10. PollFits(i)'
  <2>1. PollFits(i)
    BY CalmFacts
  <2>2. IsPending(row'[i].status) => RetryIsComing(i)'
    BY <1>2, <1>4, <1>8 DEF RetryIsComing
  <2> QED
    BY <1>1, <1>2, <1>4, <1>8, <2>1, <2>2 DEF PollFits, BeforeFirstSync
<1> QED
  BY <1>1, <1>2, <1>3, <1>7, <1>8, <1>9, <1>10, InvoiceJobs, CalmRunStep

\* The run that asks again enqueues the retry, or has heard that none is needed.
LEMMA AskAgainStaysCalm ==
  ASSUME SyncInv, Calm, faults' = 0, NEW j \in Job, AskAgain(j)
  PROVE  Calm'
<1> DEFINE i == InvoiceOf(j)
<1>0. PICK e : e = RetrySync(chosen[j], 1)
  OBVIOUS
<1>1. /\ Call(j, "ask again", "returned") /\ UNCHANGED <<heard, row, todo>>
      /\ IF IsPending(heard[j]) THEN EnqueueOnce(RetrySync(chosen[j], tries[j]))
                                ELSE UNCHANGED <<state, tries>>
  BY DEF AskAgain, jobVars, memory
<1>2. /\ at[j] = "ask again" /\ at'[j] = "returned" /\ \A k \in Job \ {j} : at'[k] = at[k]
  BY <1>1, CalmCall
<1>3. /\ ~IsSubmit(j) /\ state[j] = "active" /\ tries[j] = 1
      /\ chosen[j] \in Known(i) /\ chosen[j] \in Submission /\ chosen[j][1] = i
  BY <1>2, SyncRunKnows, CalmFacts DEF RunsOnce, Known
<1>4. /\ j # SubmitJob(i) /\ i \in Invoice /\ j \in JobsOf(i) /\ JobsOf(i) \subseteq Job
      /\ {SubmitJob(i), FirstSync(i)} \subseteq Job
  BY <1>3, InvoiceJobs
<1>5. row[i] # NoRow /\ chosen[j] = row[i].id
  <2>1. row[i] # NoRow
    BY <1>3, CalmFacts DEF RunsOnce
  <2> QED
    BY <1>3, <1>4, <2>1, FirstSubmission
<1>6. /\ e \in Job /\ e \in JobsOf(i) /\ ~IsSubmit(e) /\ InvoiceOf(e) = i
      /\ e # SubmitJob(i) /\ e # FirstSync(i)
  BY <1>0, <1>3, <1>4, KeysDiffer, StatusSyncAssumption DEF JobsOf
<1> HIDE DEF i
<1>7. /\ \A k \in Job \ {e} : state'[k] = state[k]
      /\ UNCHANGED tries /\ (state[e] # "absent" => state'[e] = state[e])
      /\ IsPending(heard[j]) => state'[e] # "absent"
  <2>1. CASE IsPending(heard[j])
    <3>1. EnqueueOnce(e)
      BY <1>0, <1>1, <1>3, <2>1
    <3> QED
      BY <1>6, <3>1, CalmFacts DEF EnqueueOnce, Submit, Move
  <2>2. CASE ~IsPending(heard[j])
    BY <1>1, <2>2
  <2> QED
    BY <2>1, <2>2
<1>8. RunsOnce(e)' /\ RunsOnce(j)'
  <2>1. state'[e] \in {state[e], "pending"}
    BY <1>0, <1>1, <1>3, <1>6, CalmFacts DEF EnqueueOnce, Submit, Move
  <2>2. state'[j] = "active"
    BY <1>3, <1>7
  <2>3. row'[i] # NoRow /\ InvoiceOf(j) = i
    BY <1>1, <1>5 DEF i
  <2>4. at'[j] = "returned" /\ tries'[j] = 1
    BY <1>2, <1>3, <1>7
  <2>5. RunsOnce(j)'
    BY <2>2, <2>3, <2>4 DEF RunsOnce
  <2>6. CASE e # j
    <3>1. RunsOnce(e) /\ at'[e] = at[e] /\ tries'[e] = tries[e]
      BY <1>2, <1>6, <1>7, <2>6, CalmFacts
    <3>2. \/ state[e] = "absent" /\ state'[e] \in {"absent", "pending"}
          \/ state[e] # "absent" /\ state'[e] = state[e]
      BY <1>7, <2>1
    <3> QED
      BY <1>6, <2>3, <2>5, <3>1, <3>2 DEF RunsOnce
  <2>7. CASE e = j
    BY <2>2, <2>3, <2>4, <2>5, <2>7 DEF RunsOnce
  <2> QED
    BY <2>5, <2>6, <2>7
<1>9. PollFits(i)'
  <2>1. PollFits(i)
    BY CalmFacts DEF i
  <2>2. /\ at'[SubmitJob(i)] = at[SubmitJob(i)] /\ state'[SubmitJob(i)] = state[SubmitJob(i)]
        /\ state'[FirstSync(i)] = state[FirstSync(i)]
        /\ at[FirstSync(i)] \in {"get status", "record"} => at'[FirstSync(i)] = at[FirstSync(i)]
    BY <1>2, <1>4, <1>6, <1>7
  <2>3. RetrySync(row'[i].id, 1) = e
    BY <1>0, <1>1, <1>5
  <2>4. RetryIsComing(i) => RetryIsComing(i)'
    <3>1. ASSUME state[e] # "absent" PROVE RetryIsComing(i)'
      BY <1>7, <2>3, <3>1 DEF RetryIsComing
    <3>2. ASSUME NEW k \in JobsOf(i), at[k] \in {"show", "push", "ask again"},
                 IsPending(heard[k])
          PROVE  RetryIsComing(i)'
      <4>1. CASE k = j
        BY <1>7, <2>3, <3>2, <4>1 DEF RetryIsComing
      <4>2. CASE k # j
        <5>1. at'[k] = at[k] /\ heard'[k] = heard[k]
          BY <1>1, <1>2, <1>4, <4>2
        <5> QED
          BY <3>2, <5>1 DEF RetryIsComing
      <4> QED
        BY <4>1, <4>2
    <3> QED
      BY <1>1, <2>2, <2>3, <3>1, <3>2 DEF RetryIsComing
  <2> QED
    BY <1>1, <2>1, <2>2, <2>4 DEF PollFits, BeforeFirstSync
<1>10. state'[j] # "absent" /\ e \in JobsOf(InvoiceOf(j)) /\ PollFits(InvoiceOf(j))'
  BY <1>3, <1>6, <1>7, <1>9 DEF i
<1>11. \A k \in Job \ {j, e} : state'[k] = state[k] /\ tries'[k] = tries[k]
  BY <1>7
<1>12. /\ \A k \in Job \ {j} : at'[k] = at[k] /\ heard'[k] = heard[k]
       /\ UNCHANGED <<row, todo>>
  BY <1>1, <1>2
<1> QED
  BY <1>3, <1>7, <1>8, <1>10, <1>11, <1>12, CalmRunStep

LEMMA EndRunStaysCalm ==
  ASSUME SyncInv, Calm, faults' = 0, NEW j \in Job, EndRun(j)
  PROVE  Calm'
<1> DEFINE i == InvoiceOf(j)
<1>1. Settle(j) /\ Forget({j}) /\ UNCHANGED <<row, todo>>
  BY DEF EndRun
<1>2. at[j] # "thrown" /\ tries[j] = 1 /\ state[j] = "active"
  BY <1>1, CalmFacts DEF RunsOnce, Settle, Finish, Retry, GiveUp, Move
<1>3. Goto(j, "returned", "none") /\ Finish(j) /\ RunsInv
  BY <1>1, <1>2 DEF Settle, Goto, SyncInv
<1>4. /\ at[j] = "returned" /\ at'[j] = "none" /\ state'[j] = "done" /\ UNCHANGED tries
      /\ \A k \in Job \ {j} : at'[k] = at[k] /\ state'[k] = state[k] /\ heard'[k] = heard[k]
  BY <1>1, <1>3, GotoEffect, CalmFacts DEF Finish, Move, Forget
<1>5. RunsOnce(j)'
  BY <1>1, <1>2, <1>4, CalmFacts DEF RunsOnce
<1>6. i \in Invoice /\ {SubmitJob(i), FirstSync(i)} \subseteq Job /\ JobsOf(i) \subseteq Job
  BY InvoiceJobs
<1>7. PollFits(i)'
  <2>1. PollFits(i) /\ (row[i] # NoRow => RetrySync(row[i].id, 1) \in Job)
    BY <1>6, CalmFacts
  <2>2. BeforeFirstSync(i)' => BeforeFirstSync(i)
    BY <1>4, <1>6 DEF BeforeFirstSync
  <2>3. state[FirstSync(i)] = "absent" => state'[FirstSync(i)] = "absent"
    BY <1>2, <1>4, <1>6
  <2>4. at'[SubmitJob(i)] \in {"mark", "first sync"} => at[SubmitJob(i)] = at'[SubmitJob(i)]
    BY <1>4, <1>6
  <2>5. row[i] # NoRow /\ RetryIsComing(i) => RetryIsComing(i)'
    <3>1. ASSUME NEW k \in JobsOf(i), at[k] \in {"show", "push", "ask again"},
                 IsPending(heard[k])
          PROVE  RetryIsComing(i)'
      <4>1. at'[k] = at[k] /\ heard'[k] = heard[k]
        BY <1>4, <1>6, <3>1
      <4> QED
        BY <3>1, <4>1 DEF RetryIsComing
    <3>2. ASSUME row[i] # NoRow, state[RetrySync(row[i].id, 1)] # "absent"
          PROVE  RetryIsComing(i)'
      <4>1. state'[RetrySync(row[i].id, 1)] # "absent"
        BY <1>4, <2>1, <3>2
      <4> QED
        BY <1>1, <4>1 DEF RetryIsComing
    <3>3. ASSUME at[SubmitJob(i)] \in {"mark", "first sync"} PROVE RetryIsComing(i)'
      <4>1. at'[SubmitJob(i)] = at[SubmitJob(i)]
        BY <1>4, <1>6, <3>3
      <4> QED
        BY <3>3, <4>1 DEF RetryIsComing
    <3>4. ASSUME \/ state[FirstSync(i)] = "pending"
                 \/ at[FirstSync(i)] \in {"get status", "record"}
          PROVE  RetryIsComing(i)'
      <4>1. FirstSync(i) # j
        BY <1>2, <1>4, <3>4
      <4>2. at'[FirstSync(i)] = at[FirstSync(i)] /\ state'[FirstSync(i)] = state[FirstSync(i)]
        BY <1>4, <1>6, <4>1
      <4> QED
        BY <3>4, <4>2 DEF RetryIsComing
    <3> QED
      BY <3>1, <3>2, <3>3, <3>4 DEF RetryIsComing
  <2> QED
    BY <1>1, <2>1, <2>2, <2>3, <2>4, <2>5 DEF PollFits
<1> QED
  BY <1>1, <1>2, <1>4, <1>5, <1>7, InvoiceJobs, CalmRunStep

\* Steps that leave the jobs, the runs and the rows alone, but for the age of a row.
LEMMA NoJobStaysCalm ==
  ASSUME SyncInv, Calm, faults' = 0, UNCHANGED <<state, tries, at, heard>>,
         \A i \in Invoice : /\ row'[i] = NoRow <=> row[i] = NoRow
                            /\ row'[i].id = row[i].id /\ row'[i].status = row[i].status,
         \A s \in todo' : row[s[1]] # NoRow /\ s[1] \in Invoice
  PROVE  Calm'
<1>1. ASSUME NEW k \in Job PROVE RunsOnce(k)'
  <2>1. RunsOnce(k) /\ InvoiceOf(k) \in Invoice
    BY CalmFacts
  <2> QED
    BY <2>1 DEF RunsOnce
<1>2. ASSUME NEW i \in Invoice PROVE PollFits(i)'
  <2>1. PollFits(i)
    BY DEF Calm
  <2>2. row[i] # NoRow => row[i].id \in Submission
    BY SubmissionFacts DEF SyncInv, RowTellsItsOwnStatus, Known
  <2> QED
    BY <2>1, <2>2, PollStaysFit
<1> QED
  BY <1>1, <1>2 DEF Calm

LEMMA TodoFacts ==
  ASSUME SyncInv, Calm
  PROVE  \A s \in todo : s \in Submission /\ s[1] \in Invoice /\ row[s[1]] # NoRow
  BY SubmissionFacts DEF SyncInv, TypeOK, Calm

LEMMA ReconcileEnqueueStaysCalm ==
  ASSUME SyncInv, Calm, faults' = 0, NEW s \in Submission, ReconcileEnqueue(s)
  PROVE  Calm'
<1> DEFINE i == s[1]
           e == ReconcileSync(s)
<1>1. /\ s \in todo /\ todo' = todo \ {s} /\ EnqueueOnce(e)
      /\ UNCHANGED <<at, heard, row>>
  BY DEF ReconcileEnqueue, memory
<1>2. i \in Invoice /\ row[i] # NoRow
  BY <1>1, TodoFacts
<1>3. /\ e \in Job /\ e \in JobsOf(i) /\ ~IsSubmit(e) /\ InvoiceOf(e) = i
      /\ {SubmitJob(i), FirstSync(i)} \subseteq Job
      /\ e # SubmitJob(i) /\ e # FirstSync(i)
  BY <1>2, KeysDiffer, JobFacts DEF JobsOf
<1> HIDE DEF i, e
<1>4. /\ \A k \in Job \ {e} : state'[k] = state[k]
      /\ UNCHANGED tries /\ (state[e] # "absent" => state'[e] # "absent") /\ RunsOnce(e)'
  BY <1>1, <1>2, <1>3, Enqueued
<1>5. \A k \in JobsOf(i) : RunsOnce(k)'
  <2> SUFFICES ASSUME NEW k \in JobsOf(i), k # e PROVE RunsOnce(k)'
    BY <1>4
  <2>1. k \in Job /\ RunsOnce(k)
    BY DEF JobsOf, Calm
  <2> QED
    BY <1>1, <1>4, <2>1, RunStaysOnce
<1>6. PollFits(i)'
  <2>1. row[i].id \in Submission /\ PollFits(i)
    BY <1>2, SubmissionFacts DEF SyncInv, RowTellsItsOwnStatus, Known, Calm
  <2>2. \A k \in Job : state[k] # "absent" => state'[k] # "absent"
    BY <1>4
  <2>3. /\ state'[SubmitJob(i)] = state[SubmitJob(i)]
        /\ state'[FirstSync(i)] = state[FirstSync(i)]
    BY <1>3, <1>4
  <2> QED
    BY <1>1, <1>2, <2>1, <2>2, <2>3, PollStaysFit
<1>7. \A t \in todo' : row'[t[1]] # NoRow
  BY <1>1, TodoFacts
<1>8. /\ \A k \in Job : state[k] # "absent" => state'[k] # "absent"
      /\ \A k \in Job \ JobsOf(i) : /\ at'[k] = at[k] /\ heard'[k] = heard[k]
                                    /\ state'[k] = state[k] /\ tries'[k] = tries[k]
  BY <1>1, <1>3, <1>4
<1> QED
  BY <1>1, <1>2, <1>5, <1>6, <1>7, <1>8, CalmStep

LEMMA ReconcileListStaysCalm ==
  ASSUME SyncInv, Calm, faults' = 0, ReconcileList
  PROVE  Calm'
<1>1. PICK S \in SUBSET Listed : todo' = todo \cup S
  BY DEF ReconcileList
<1>2. UNCHANGED <<state, tries, at, heard, row>>
  BY DEF ReconcileList, runVars, memory
<1>3. ASSUME NEW s \in Listed PROVE s[1] \in Invoice /\ row[s[1]] # NoRow
  <2>1. PICK i \in Invoice : s = row[i].id /\ IsListed(row[i].status)
    BY <1>3 DEF Listed
  <2>2. row[i] # NoRow
    BY <2>1 DEF NoRow, IsListed, PendingStatus
  <2>3. s[1] = i
    BY <2>1, <2>2 DEF SyncInv, RowTellsItsOwnStatus, Known
  <2> QED
    BY <2>2, <2>3
<1>4. \A s \in todo' : row[s[1]] # NoRow /\ s[1] \in Invoice
  BY <1>1, <1>3, TodoFacts
<1> QED
  BY <1>2, <1>4, NoJobStaysCalm

LEMMA AgeStaysCalm ==
  ASSUME SyncInv, Calm, faults' = 0, NEW i \in Invoice, Age(i)
  PROVE  Calm'
<1>1. /\ row[i].recent /\ row' = [row EXCEPT ![i].recent = FALSE]
      /\ UNCHANGED <<state, tries, at, heard, todo>>
  BY DEF Age, runVars, memory
<1>2. row \in [Invoice -> {NoRow} \cup [id : Submission, status : PdpStatus, recent : BOOLEAN]]
  BY DEF SyncInv, TypeOK
<1>3. row[i] # NoRow
  BY <1>1 DEF NoRow
<1>4. \A k \in Invoice \ {i} : row'[k] = row[k]
  BY <1>1, <1>2
<1>5. row'[i].id = row[i].id /\ row'[i].status = row[i].status
  BY <1>1, <1>2, <1>3
<1>6. row[i].id # NoSubmission
  BY <1>2, <1>3, SubmissionFacts
<1>7. row'[i] # NoRow
  BY <1>5, <1>6 DEF NoRow
<1> QED
  BY <1>1, <1>3, <1>4, <1>5, <1>7, TodoFacts, NoJobStaysCalm

\* Every step with a failure counts it.
LEMMA FailuresCount ==
  ASSUME SyncInv,
         \/ \E j \in Job : GetStatusFails(j) \/ CallRejected(j) \/ ReservationUnanswered(j)
         \/ ReconcileFails \/ Crash
  PROVE  faults' # 0
<1>1. Fault
  BY DEF GetStatusFails, CallRejected, CallFails, ReservationUnanswered, ReservationLost,
         ReconcileFails, Crash, RunsLost
<1>2. faults \in Nat
  BY StatusSyncAssumption DEF SyncInv, RunsInv, RunsTypeOK
<1> QED
  BY <1>1, <1>2 DEF Fault

\* A failure is not forgotten.
LEMMA FailuresStay ==
  ASSUME SyncInv, [Next]_vars, faults' = 0
  PROVE  faults = 0
<1>1. faults \in Nat
  BY StatusSyncAssumption DEF SyncInv, RunsInv, RunsTypeOK
<1>2. UNCHANGED faults \/ Fault
  <2>1. ASSUME NEW j \in Job, RunStep(j) PROVE UNCHANGED faults \/ Fault
    BY <2>1 DEF RunStep, StartSubmit, SubmitToPdp, UpsertSubmission, MarkSubmitted,
                EnqueueFirstSync, StartSync, GetStatus, RecordError, RecordStatus, ShowStatus,
                PushStatus, AskAgain, EndRun, Reserve, Call, Settle
  <2>2. ASSUME NEW s \in Submission, ReconcileEnqueue(s) \/ PdpProgress(s)
        PROVE  UNCHANGED faults \/ Fault
    BY <2>2 DEF ReconcileEnqueue, PdpProgress, runVars
  <2>3. ASSUME (\E i \in Invoice : Age(i)) \/ ReconcileList \/ UNCHANGED vars
        PROVE  UNCHANGED faults \/ Fault
    BY <2>3 DEF Age, ReconcileList, runVars, vars
  <2>4. ASSUME faults' = 0,
               \/ \E j \in Job : GetStatusFails(j) \/ CallRejected(j) \/ ReservationUnanswered(j)
               \/ ReconcileFails \/ Crash
        PROVE  FALSE
    BY <2>4, FailuresCount
  <2> QED
    BY <2>1, <2>2, <2>3, <2>4 DEF Next
<1> QED
  BY <1>1, <1>2 DEF Fault

LEMMA NextStaysCalm ==
  ASSUME SyncInv, Calm, [Next]_vars, faults' = 0
  PROVE  Calm'
<1>1. ASSUME NEW j \in Job, RunStep(j) PROVE Calm'
  <2>1. ~RecordError(j)
    BY CalmFacts DEF RunsOnce, RecordError, Goto
  <2> QED
    BY <1>1, <2>1, StartSubmitStaysCalm, SubmitToPdpStaysCalm, UpsertSubmissionStaysCalm,
       MarkSubmittedStaysCalm, EnqueueFirstSyncStaysCalm, StartSyncStaysCalm,
       GetStatusStaysCalm, RecordStatusStaysCalm, ShowStatusStaysCalm, PushStatusStaysCalm,
       AskAgainStaysCalm, EndRunStaysCalm
    DEF RunStep
<1>2. ASSUME NEW s \in Submission, ReconcileEnqueue(s) PROVE Calm'
  BY <1>2, ReconcileEnqueueStaysCalm
<1>3. ASSUME NEW s \in Submission, PdpProgress(s) PROVE Calm'
  <2>1. UNCHANGED <<state, tries, at, heard, row, todo>>
    BY <1>3 DEF PdpProgress, runVars, memory
  <2> QED
    BY <2>1, TodoFacts, NoJobStaysCalm
<1>4. ASSUME NEW i \in Invoice, Age(i) PROVE Calm'
  BY <1>4, AgeStaysCalm
<1>5. CASE ReconcileList
  BY <1>5, ReconcileListStaysCalm
<1>6. CASE UNCHANGED vars
  <2>1. UNCHANGED <<state, tries, at, heard, row, todo>>
    BY <1>6 DEF vars
  <2> QED
    BY <2>1, TodoFacts, NoJobStaysCalm
<1> QED
  BY <1>1, <1>2, <1>3, <1>4, <1>5, <1>6, FailuresCount DEF Next

(***************************************************************************)
(* While nothing has failed each job of SUBMIT_PDP and SYNC_STATUS is run  *)
(* once, and as long as a pending submission has no retry something is on  *)
(* its way to enqueue it, however runs, polls and reconciliation overlap.  *)
(***************************************************************************)
THEOREM PollingInvariant == Spec => []PollingFits
<1>1. Init => PollingFits
  <2> SUFFICES ASSUME Init PROVE Calm
    BY DEF PollingFits, Calm
  <2>1. faults = 0 /\ todo = {} /\ \A i \in Invoice : row[i] = NoRow
    BY DEF Init, RunsInit
  <2>2. \A j \in Job : RunsOnce(j)
    BY DEF Init, RunsInit, RunsOnce
  <2>3. ASSUME NEW i \in Invoice PROVE PollFits(i)
    <3>1. /\ FirstSync(i) \in Job /\ ~IsSubmit(FirstSync(i))
          /\ SubmitJob(i) \in Job
      BY JobFacts, KeysDiffer
    <3>2. state[FirstSync(i)] = "absent" /\ at[SubmitJob(i)] = "none"
      BY <3>1 DEF Init, RunsInit
    <3> QED
      BY <2>1, <3>2 DEF PollFits
  <2> QED
    BY <2>1, <2>2, <2>3 DEF Calm
<1>2. SyncInv /\ PollingFits /\ [Next]_vars => PollingFits'
  <2> SUFFICES ASSUME SyncInv, PollingFits, [Next]_vars, faults' = 0 PROVE Calm'
    BY PartsOfNextPolling
  <2>1. Calm
    BY FailuresStay, PartsOfPolling
  <2> QED
    BY <2>1, NextStaysCalm
<1> QED
  BY <1>1, <1>2, SyncInvariant, PTL DEF Spec

(***************************************************************************)
(* While nothing has failed, nobody stops asking about a pending           *)
(* submission before the one retry that its key allows has been run, in    *)
(* whatever case the PDP spells its status.                                *)
(***************************************************************************)
THEOREM PollingGoesOn == Spec => []PollingStopsOnlyAfterRetry
<1>1. SyncInv /\ PollingFits => PollingStopsOnlyAfterRetry
  <2> SUFFICES ASSUME SyncInv, Calm, NEW i \in Invoice, Quiet(i), row[i] # NoRow,
                      IsPending(row[i].status)
               PROVE  state[RetrySync(row[i].id, 1)] = "done"
    BY PartsOfPolling DEF PollingStopsOnlyAfterRetry
  <2>1. RetryIsComing(i)
    BY DEF Calm, PollFits
  <2>2. /\ SubmitJob(i) \in JobsOf(i) /\ FirstSync(i) \in JobsOf(i)
        /\ InvoiceOf(SubmitJob(i)) = i /\ SubmitJob(i) \in Job
    BY JobFacts, KeysDiffer DEF JobsOf
  <2>3. \A j \in JobsOf(i) : state[j] \in {"absent", "done"} /\ at[j] = "none"
    BY CalmFacts DEF Quiet, JobsOf
  <2>4. RetrySync(row[i].id, 1) \in JobsOf(i)
    BY <2>2, CalmFacts
  <2>5. state[RetrySync(row[i].id, 1)] # "absent"
    BY <2>1, <2>2, <2>3 DEF RetryIsComing
  <2> QED
    BY <2>3, <2>4, <2>5
<1> QED
  BY <1>1, SyncInvariant, PollingInvariant, PTL
=============================================================================
