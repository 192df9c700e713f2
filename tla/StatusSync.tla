----------------------------- MODULE StatusSync -----------------------------
(***************************************************************************)
(* Submission to the PDP (the e-invoicing platform) and everything that    *)
(* keeps the status of an invoice up to date afterwards: the handlers      *)
(* SUBMIT_PDP, SYNC_STATUS and RECONCILE_PDP of apps/worker, the table     *)
(* pdp_submissions, and the two services they call, the PDP and GHL.       *)
(*                                                                         *)
(* One tenant and one provider, so pdp_submissions has at most one row per *)
(* invoice.  Every invoice has its artifacts already.  The jobs run as in  *)
(* HandlerRuns; when a pending job is due and which one goes first is left *)
(* open.  The audit log is never read, so its INSERTs are no steps of      *)
(* their own: one that rejects is the statement after it rejecting without *)
(* effect.                                                                 *)
(***************************************************************************)
EXTENDS Naturals, FiniteSets

CONSTANTS
    Invoice,           \* the invoices of the tenant
    MaxAttempts,       \* jobs.max_attempts
    MaxActive,         \* how many jobs run at the same time
    Deployment,        \* the deployments to consider: does the PDP honour the
                       \* Idempotency-Key of a submit, and PDP_RECONCILE_BATCH
    PdpMoves,          \* the <<from, to>> steps a status takes at the PDP
    MaxFaults          \* how many failures of any kind a behaviour has

ASSUME StatusSyncAssumption ==
    /\ MaxAttempts \in Nat \ {0}
    /\ MaxActive \in Nat \ {0}
    /\ Deployment \subseteq [dedupes : BOOLEAN, batch : Nat]
    /\ MaxFaults \in Nat

(***************************************************************************)
(* Statuses at the PDP.  "processing" stands for a spelling that differs   *)
(* in case from the documented one, "OTHER" for a word the code does not   *)
(* know.                                                                   *)
(***************************************************************************)
PdpStatus == {"SUBMITTED", "PROCESSING", "processing", "PENDING", "SYNCED",
              "ACCEPTED", "REJECTED", "PAID", "ERROR", "FAILED", "OTHER"}

ASSUME PdpMovesAssumption == PdpMoves \subseteq PdpStatus \X PdpStatus

UpperCase(status) == IF status = "processing" THEN "PROCESSING" ELSE status

\* mapPdpStatusToInvoice
InvoiceStatusFor(status) ==
    CASE UpperCase(status) \in {"ACCEPTED", "REJECTED", "PAID"} -> UpperCase(status)
      [] UpperCase(status) \in {"ERROR", "FAILED"}              -> "ERROR"
      [] OTHER                                                  -> "SYNCED"

PendingStatus == {"SUBMITTED", "PROCESSING", "PENDING", "SYNCED"}

\* isPendingStatus folds case; the SQL of listPendingSubmissions does not.
IsPending(status) == UpperCase(status) \in PendingStatus
IsListed(status) == status \in PendingStatus

InvoiceStatus == {"GENERATED", "SUBMITTED", "SYNCED",
                  "ACCEPTED", "REJECTED", "PAID", "ERROR"}

(***************************************************************************)
(* The n-th attempt of the SUBMIT_PDP job of invoice i can create the      *)
(* submission <<i, n>> at the PDP.                                         *)
(***************************************************************************)
Submission == Invoice \X (1..MaxAttempts)
NoSubmission == <<>>
NoRow == [id |-> NoSubmission, status |-> "none", recent |-> FALSE]

(***************************************************************************)
(* The idempotency keys.  SUBMIT_PDP and the first SYNC_STATUS have one    *)
(* per invoice, the other SYNC_STATUS jobs are named for a submission: one *)
(* per attempt number of the job that asks again, and one for              *)
(* reconciliation.  Keys are kept for ever.                                *)
(***************************************************************************)
SubmitJob(i) == <<"SUBMIT", i>>
FirstSync(i) == <<"SYNC", i>>
RetrySync(s, n) == <<"SYNC retry", s, n>>
ReconcileSync(s) == <<"SYNC reconcile", s>>

Job == {SubmitJob(i) : i \in Invoice}
         \cup {FirstSync(i) : i \in Invoice}
         \cup {RetrySync(s, n) : s \in Submission, n \in 1..MaxAttempts}
         \cup {ReconcileSync(s) : s \in Submission}

IsSubmit(j) == j[1] = "SUBMIT"

\* payload.invoiceId
InvoiceOf(j) == IF j[1] \in {"SUBMIT", "SYNC"} THEN j[2] ELSE j[2][1]

VARIABLES
    state, tries,   \* the jobs, as in JobLifecycle
    at,             \* the runs and
    faults,         \*   failures, as in HandlerRuns
    chosen,         \* chosen[j]: the submission id the run of j remembers
    heard,          \* heard[j]: the status the PDP answered the run of j
    invoice,        \* invoices.status
    row,            \* the row of pdp_submissions: submission_id, status, and
                    \* whether last_checked_at is too recent for reconciliation
    todo,           \* submissions listed by RECONCILE_PDP, not yet enqueued
    deployment,     \* the deployment at hand, which never changes
    pdp,            \* the status of each submission at the PDP
    had,            \* the statuses it has had there so far
    ghl             \* the last status GHL was told

INSTANCE HandlerRuns

jobVars == <<state, tries>>
runVars == <<state, tries, at, faults>>
memory == <<chosen, heard>>
pdpVars == <<deployment, pdp, had>>
vars == <<state, tries, at, faults, chosen, heard, invoice, row, todo, deployment, pdp, had, ghl>>

Init ==
    /\ RunsInit
    /\ state = [j \in Job |-> IF IsSubmit(j) THEN "pending" ELSE "absent"]
    /\ tries = [j \in Job |-> 0]
    /\ chosen = [j \in Job |-> NoSubmission]
    /\ heard = [j \in Job |-> "none"]
    /\ invoice = [i \in Invoice |-> "GENERATED"]
    /\ row = [i \in Invoice |-> NoRow]
    /\ todo = {}
    /\ deployment \in Deployment
    /\ pdp = [s \in Submission |-> "none"]
    /\ had = [s \in Submission |-> {}]
    /\ ghl = [i \in Invoice |-> "none"]

-----------------------------------------------------------------------------
Forget(S) ==
    /\ chosen' = [j \in Job |-> IF j \in S THEN NoSubmission ELSE chosen[j]]
    /\ heard' = [j \in Job |-> IF j \in S THEN "none" ELSE heard[j]]

EndRun(j) ==
    /\ Settle(j)
    /\ Forget({j})
    /\ UNCHANGED <<invoice, row, todo, pdpVars, ghl>>

-----------------------------------------------------------------------------
(***************************************************************************)
(* SUBMIT_PDP.                                                             *)
(***************************************************************************)

\* The reads before the call find what GENERATE_FACTURX left and change nothing.
StartSubmit(j) ==
    /\ IsSubmit(j)
    /\ Reserve(j, "submit")
    /\ UNCHANGED <<memory, invoice, row, todo, pdpVars, ghl>>

\* Mutant: the Idempotency-Key names the attempt.
SubmitKeyPerAttempt(i, n) == <<"SUBMIT", i, n>>

\* The Idempotency-Key of the n-th attempt to submit invoice i.
SubmitKey(i, n) == <<"SUBMIT", i>>

\* The PDP side of pdpClient.submit: a provider that dedupes answers a repeated
\* Idempotency-Key with the submission it already has.
PdpReceives(i, n, s) ==
    LET same == {t \in Submission : pdp[t] # "none" /\ SubmitKey(t[1], t[2]) = SubmitKey(i, n)}
    IN /\ IF deployment.dedupes /\ same # {}
          THEN s \in same /\ UNCHANGED <<pdp, had>>
          ELSE /\ s = <<i, n>>
               /\ pdp' = [pdp EXCEPT ![s] = "SUBMITTED"]
               /\ had' = [had EXCEPT ![s] = {"SUBMITTED"}]
       /\ UNCHANGED deployment

\* Mutant: a missing status is taken as it is.
SubmitToPdpNoDefault(j) ==
    /\ IsSubmit(j)
    /\ Call(j, "submit", "upsert")
    /\ \E s \in Submission :
          /\ PdpReceives(InvoiceOf(j), tries[j], s)
          /\ chosen' = [chosen EXCEPT ![j] = s]
          /\ heard' \in {[heard EXCEPT ![j] = status] : status \in {"none", pdp'[s]}}
    /\ UNCHANGED <<jobVars, invoice, row, todo, ghl>>

\* The answer carries the id and either a status or none, read as SUBMITTED.
SubmitToPdp(j) ==
    /\ IsSubmit(j)
    /\ Call(j, "submit", "upsert")
    /\ \E s \in Submission :
          /\ PdpReceives(InvoiceOf(j), tries[j], s)
          /\ chosen' = [chosen EXCEPT ![j] = s]
          /\ heard' \in {[heard EXCEPT ![j] = status] : status \in {"SUBMITTED", pdp'[s]}}
    /\ UNCHANGED <<jobVars, invoice, row, todo, ghl>>

\* ON CONFLICT (tenant_id, invoice_id, provider) DO UPDATE SET submission_id ...
UpsertSubmission(j) ==
    /\ Call(j, "upsert", "mark")
    /\ row' = [row EXCEPT ![InvoiceOf(j)] =
                  [id |-> chosen[j], status |-> heard[j], recent |-> TRUE]]
    /\ UNCHANGED <<jobVars, memory, invoice, todo, pdpVars, ghl>>

MarkSubmitted(j) ==
    /\ Call(j, "mark", "first sync")
    /\ invoice' = [invoice EXCEPT ![InvoiceOf(j)] = "SUBMITTED"]
    /\ UNCHANGED <<jobVars, memory, row, todo, pdpVars, ghl>>

EnqueueFirstSync(j) ==
    /\ Call(j, "first sync", "returned")
    /\ EnqueueOnce(FirstSync(InvoiceOf(j)))
    /\ UNCHANGED <<memory, invoice, row, todo, pdpVars, ghl>>

-----------------------------------------------------------------------------
(***************************************************************************)
(* SYNC_STATUS.                                                            *)
(***************************************************************************)

\* getLatestSubmission; a missing row throws.
StartSync(j) ==
    /\ ~IsSubmit(j)
    /\ Reserve(j, IF row[InvoiceOf(j)] = NoRow THEN "thrown" ELSE "get status")
    /\ chosen' = [chosen EXCEPT ![j] = row[InvoiceOf(j)].id]
    /\ UNCHANGED <<heard, invoice, row, todo, pdpVars, ghl>>

GetStatus(j) ==
    /\ Goto(j, "get status", "record")
    /\ heard' = [heard EXCEPT ![j] = pdp[chosen[j]]]
    /\ UNCHANGED <<jobVars, chosen, invoice, row, todo, pdpVars, ghl, faults>>

\* Mutant: a failed lookup counts as the answer ERROR.
GetStatusFailsAsError(j) ==
    /\ Fault
    /\ Goto(j, "get status", "record")
    /\ heard' = [heard EXCEPT ![j] = "ERROR"]
    /\ UNCHANGED <<jobVars, chosen, invoice, row, todo, pdpVars, ghl>>

GetStatusFails(j) ==
    /\ Fault
    /\ Goto(j, "get status", "record error")
    /\ UNCHANGED <<jobVars, memory, invoice, row, todo, pdpVars, ghl>>

\* Mutant: the row is found by its invoice.
UpdateSubmissionOfInvoice(s, status) ==
    row' = [row EXCEPT ![s[1]] = [id |-> @.id, status |-> status, recent |-> TRUE]]

\* UPDATE pdp_submissions ... WHERE submission_id = ... AND tenant AND provider
UpdateSubmission(s, status) ==
    row' = [i \in Invoice |-> IF row[i].id = s
                              THEN [id |-> s, status |-> status, recent |-> TRUE]
                              ELSE row[i]]

\* The statement after it throws the error again.
RecordError(j) ==
    /\ Goto(j, "record error", "thrown")
    /\ UpdateSubmission(chosen[j], "ERROR")
    /\ UNCHANGED <<jobVars, memory, invoice, todo, pdpVars, ghl, faults>>

RecordStatus(j) ==
    /\ Call(j, "record", "show")
    /\ UpdateSubmission(chosen[j], heard[j])
    /\ UNCHANGED <<jobVars, memory, invoice, todo, pdpVars, ghl>>

\* Mutant: the invoice keeps its status while the PDP has not decided.
ShowStatusFinalOnly(j) ==
    /\ Call(j, "show", IF InvoiceStatusFor(heard[j]) = "ERROR" THEN "ask again" ELSE "push")
    /\ invoice' = [invoice EXCEPT ![InvoiceOf(j)] =
                      IF IsPending(heard[j]) THEN @ ELSE InvoiceStatusFor(heard[j])]
    /\ UNCHANGED <<jobVars, memory, row, todo, pdpVars, ghl>>

ShowStatus(j) ==
    /\ Call(j, "show", IF InvoiceStatusFor(heard[j]) = "ERROR" THEN "ask again" ELSE "push")
    /\ invoice' = [invoice EXCEPT ![InvoiceOf(j)] = InvoiceStatusFor(heard[j])]
    /\ UNCHANGED <<jobVars, memory, row, todo, pdpVars, ghl>>

PushStatus(j) ==
    /\ Call(j, "push", "ask again")
    /\ ghl' = [ghl EXCEPT ![InvoiceOf(j)] = InvoiceStatusFor(heard[j])]
    /\ UNCHANGED <<jobVars, memory, invoice, row, todo, pdpVars>>

\* Mutant: the case of the status matters, as in listPendingSubmissions.
AskAgainIfListed(j) ==
    /\ Call(j, "ask again", "returned")
    /\ IF IsListed(heard[j]) THEN EnqueueOnce(RetrySync(chosen[j], tries[j]))
                             ELSE UNCHANGED jobVars
    /\ UNCHANGED <<memory, invoice, row, todo, pdpVars, ghl>>

\* The key is the attempt number of this job, not of the chain of polls.
AskAgain(j) ==
    /\ Call(j, "ask again", "returned")
    /\ IF IsPending(heard[j]) THEN EnqueueOnce(RetrySync(chosen[j], tries[j]))
                              ELSE UNCHANGED jobVars
    /\ UNCHANGED <<memory, invoice, row, todo, pdpVars, ghl>>

-----------------------------------------------------------------------------
(***************************************************************************)
(* RECONCILE_PDP.  The scheduler enqueues one job per time bucket, under a *)
(* key of its own, and every run lists afresh; so the runs are not told    *)
(* apart, and "todo" is what all of them together still have to enqueue.   *)
(***************************************************************************)
Listed == {row[i].id : i \in {k \in Invoice : IsListed(row[k].status) /\ ~row[k].recent}}

ReconcileList ==
    /\ \E S \in SUBSET Listed :
          /\ S # {} /\ Cardinality(S) <= deployment.batch
          /\ Cardinality(S) < deployment.batch => S = Listed
          /\ todo' = todo \cup S
    /\ UNCHANGED <<runVars, memory, invoice, row, pdpVars, ghl>>

ReconcileEnqueue(s) ==
    /\ s \in todo
    /\ todo' = todo \ {s}
    /\ EnqueueOnce(ReconcileSync(s))
    /\ UNCHANGED <<at, faults, memory, invoice, row, pdpVars, ghl>>

\* last_checked_at falls behind PDP_RECONCILE_OLDER_MINUTES.
Age(i) ==
    /\ row[i].recent
    /\ row' = [row EXCEPT ![i].recent = FALSE]
    /\ UNCHANGED <<runVars, memory, invoice, todo, pdpVars, ghl>>

-----------------------------------------------------------------------------
(***************************************************************************)
(* The PDP works on a submission.                                          *)
(***************************************************************************)
PdpProgress(s) ==
    /\ \E status \in PdpStatus :
          /\ <<pdp[s], status>> \in PdpMoves
          /\ pdp' = [pdp EXCEPT ![s] = status]
          /\ had' = [had EXCEPT ![s] = @ \cup {status}]
    /\ UNCHANGED <<runVars, memory, invoice, row, todo, deployment, ghl>>

-----------------------------------------------------------------------------
(***************************************************************************)
(* Failures.  Call covers the ones with an effect.  What getStatus throws  *)
(* is caught by the handler, see GetStatusFails; a read before it that     *)
(* rejects is not.                                                         *)
(***************************************************************************)
CallRejected(j) ==
    /\ CallFails(j)
    /\ UNCHANGED <<memory, invoice, row, todo, pdpVars, ghl>>

ReservationUnanswered(j) ==
    /\ ReservationLost(j)
    /\ UNCHANGED <<memory, invoice, row, todo, pdpVars, ghl>>

\* A worker process dies: some of the runs, and perhaps a reconciliation.
Crash ==
    /\ \E S \in SUBSET Active : RunsLost(S) /\ Forget(S)
    /\ todo' \in {todo, {}}
    /\ UNCHANGED <<invoice, row, pdpVars, ghl>>

ReconcileFails ==
    /\ Fault
    /\ todo # {}
    /\ todo' = {}
    /\ UNCHANGED <<jobVars, at, memory, invoice, row, pdpVars, ghl>>

-----------------------------------------------------------------------------
RunStep(j) ==
    \/ StartSubmit(j)
    \/ SubmitToPdp(j)
    \/ UpsertSubmission(j)
    \/ MarkSubmitted(j)
    \/ EnqueueFirstSync(j)
    \/ StartSync(j)
    \/ GetStatus(j)
    \/ RecordError(j)
    \/ RecordStatus(j)
    \/ ShowStatus(j)
    \/ PushStatus(j)
    \/ AskAgain(j)
    \/ EndRun(j)

Next ==
    \/ \E j \in Job : \/ RunStep(j)
                      \/ GetStatusFails(j)
                      \/ CallRejected(j)
                      \/ ReservationUnanswered(j)
    \/ \E s \in Submission : ReconcileEnqueue(s) \/ PdpProgress(s)
    \/ \E i \in Invoice : Age(i)
    \/ ReconcileList
    \/ ReconcileFails
    \/ Crash

(***************************************************************************)
(* Calls are answered, due jobs are reserved, the reconciliation timer     *)
(* fires for ever, clocks advance and the PDP does not sit on a            *)
(* submission.                                                             *)
(***************************************************************************)
Fairness ==
    /\ \A j \in Job : WF_vars(RunStep(j))
    /\ \A s \in Submission : WF_vars(ReconcileEnqueue(s)) /\ WF_vars(PdpProgress(s))
    /\ \A i \in Invoice : WF_vars(Age(i))
    /\ WF_vars(ReconcileList)

Spec == Init /\ [][Next]_vars
FairSpec == Spec /\ Fairness

\* Only the worker keeps going: some due job is run or goes on, which one is open.
WorkerSpec == Spec /\ WF_vars(\E j \in Job : RunStep(j))

-----------------------------------------------------------------------------
TypeOK ==
    /\ RunsTypeOK
    /\ chosen \in [Job -> Submission \cup {NoSubmission}]
    /\ heard \in [Job -> PdpStatus \cup {"none"}]
    /\ invoice \in [Invoice -> InvoiceStatus]
    /\ row \in [Invoice -> {NoRow} \cup
                [id : Submission, status : PdpStatus, recent : BOOLEAN]]
    /\ todo \subseteq Submission
    /\ deployment \in Deployment
    /\ pdp \in [Submission -> PdpStatus \cup {"none"}]
    /\ had \in [Submission -> SUBSET PdpStatus]
    /\ ghl \in [Invoice -> InvoiceStatus \cup {"none"}]

\* The submissions of invoice i that the PDP has.
Known(i) == {s \in Submission : s[1] = i /\ pdp[s] # "none"}

JobsOf(i) == {j \in Job : InvoiceOf(j) = i}

\* Nothing of invoice i is pending or running, and no job of it was lost.
Quiet(i) == \A j \in JobsOf(i) : state[j] \in {"absent", "done"}

(***************************************************************************)
(* A PDP that honours the key it is sent never has two submissions of one  *)
(* invoice, however often the SUBMIT_PDP job is repeated after a crash or  *)
(* a lost answer.  The code alone cannot promise it.                       *)
(***************************************************************************)
NoDuplicateSubmission ==
    deployment.dedupes => \A i \in Invoice : Cardinality(Known(i)) <= 1

(***************************************************************************)
(* The row of an invoice names a submission of that invoice and shows a    *)
(* status which that very submission has had, or the mark of a failed      *)
(* lookup: an answer about a submission that has been replaced meanwhile   *)
(* is not attributed to its successor.                                     *)
(***************************************************************************)
RowTellsItsOwnStatus ==
    \A i \in Invoice : row[i] # NoRow =>
        /\ row[i].id \in Known(i)
        /\ row[i].status \in had[row[i].id] \cup {"ERROR"}

(***************************************************************************)
(* What the invoice shows after its submission, and what GHL was told, is  *)
(* the translation of a status the PDP has given the invoice: a failed     *)
(* lookup, a lost answer or a crash between the writes shows nothing else. *)
(***************************************************************************)
ShownStatusWasGiven ==
    \A i \in Invoice :
       LET given == {InvoiceStatusFor(status) : status \in UNION {had[s] : s \in Known(i)}}
       IN /\ invoice[i] \in given \cup {"GENERATED", "SUBMITTED"}
          /\ ghl[i] \in (given \ {"ERROR"}) \cup {"none"}

(***************************************************************************)
(* The inductive invariant: what a run remembers of a submission and its   *)
(* status was so at the PDP at some time, and a submission the PDP has was *)
(* sent by an attempt that has made its call.                              *)
(***************************************************************************)
SubmitCalls == {"none", "submit", "upsert", "mark", "first sync", "returned", "thrown"}
SyncCalls == {"none", "get status", "record", "record error", "show", "push", "ask again",
              "returned", "thrown"}

RunFits(j) ==
    /\ at[j] \in IF IsSubmit(j) THEN SubmitCalls ELSE SyncCalls
    /\ at[j] \notin {"none", "thrown", "submit", "returned"} => chosen[j] \in Known(InvoiceOf(j))
    /\ at[j] \in {"upsert", "record", "show", "push", "ask again"} =>
          heard[j] \in had[chosen[j]]
    /\ at[j] = "push" => InvoiceStatusFor(heard[j]) # "ERROR"

PdpFits ==
    /\ \A s \in Submission : pdp[s] # "none" => {pdp[s], "SUBMITTED"} \subseteq had[s]
    /\ \A i \in Invoice : \A s \in Known(i) :
          /\ s[2] <= tries[SubmitJob(i)]
          /\ at[SubmitJob(i)] = "submit" => s[2] < tries[SubmitJob(i)]
    /\ deployment.dedupes => \A i \in Invoice : \A s, t \in Known(i) : s = t

SyncInv ==
    /\ TypeOK
    /\ RunsInv
    /\ PdpFits
    /\ \A j \in Job : RunFits(j)
    /\ RowTellsItsOwnStatus
    /\ ShownStatusWasGiven

(***************************************************************************)
(* When nothing is under way, the invoice, the submission row and GHL tell *)
(* the same status: the three writes of a SYNC_STATUS run are not undone   *)
(* in part by another run.                                                 *)
(***************************************************************************)
AgreementWhenQuiet ==
    \A i \in Invoice : Quiet(i) /\ row[i] # NoRow =>
        /\ invoice[i] = InvoiceStatusFor(row[i].status)
        /\ invoice[i] \in {ghl[i], "ERROR"}

(***************************************************************************)
(* As long as nothing has failed, nobody stops asking about a pending      *)
(* submission unless the key of its first retry is used up.                *)
(***************************************************************************)
PollingStopsOnlyAfterRetry ==
    faults = 0 => \A i \in Invoice :
        Quiet(i) /\ row[i] # NoRow /\ IsPending(row[i].status) =>
            state[RetrySync(row[i].id, 1)] = "done"

(***************************************************************************)
(* What it rests on: without a failure each job is run once and none       *)
(* without a row to look at, and as long as the retry of a pending         *)
(* submission does not exist, something is on its way to enqueue it: the   *)
(* first poll, or a run that has heard that the submission is pending.     *)
(***************************************************************************)
RunsOnce(j) ==
    /\ at[j] \notin {"thrown", "record error"}
    /\ tries[j] = IF state[j] \in {"absent", "pending"} THEN 0 ELSE 1
    /\ ~IsSubmit(j) /\ state[j] # "absent" => row[InvoiceOf(j)] # NoRow

BeforeFirstSync(i) ==
    \/ state[SubmitJob(i)] = "pending"
    \/ at[SubmitJob(i)] \in {"submit", "upsert", "mark", "first sync"}

RetryIsComing(i) ==
    \/ state[RetrySync(row[i].id, 1)] # "absent"
    \/ at[SubmitJob(i)] \in {"mark", "first sync"}
    \/ state[FirstSync(i)] = "pending"
    \/ at[FirstSync(i)] \in {"get status", "record"}
    \/ \E j \in JobsOf(i) : /\ at[j] \in {"show", "push", "ask again"}
                            /\ IsPending(heard[j])

PollFits(i) ==
    /\ BeforeFirstSync(i) => state[FirstSync(i)] = "absent"
    /\ at[SubmitJob(i)] \in {"mark", "first sync"} => row[i] # NoRow
    /\ row[i] # NoRow /\ IsPending(row[i].status) => RetryIsComing(i)

PollingFits ==
    faults = 0 =>
        /\ \A j \in Job : RunsOnce(j)
        /\ \A s \in todo : row[s[1]] # NoRow
        /\ \A i \in Invoice : PollFits(i)

FinalStatus == {"ACCEPTED", "REJECTED", "PAID"}

(***************************************************************************)
(* An invoice whose SUBMIT_PDP completed at its first attempt is asked     *)
(* about until it shows something else than SUBMITTED, unless one of its   *)
(* jobs fails for good or is lost.  Both conditions are needed: the last   *)
(* failed lookup leaves the row in ERROR, which reconciliation does not    *)
(* list, and a repeated SUBMIT_PDP finds the key of its first poll used.   *)
(***************************************************************************)
EverySubmissionIsPolled ==
    \A i \in Invoice :
        state[SubmitJob(i)] = "done" /\ tries[SubmitJob(i)] = 1 ~>
            \/ invoice[i] \notin {"GENERATED", "SUBMITTED"}
            \/ \E j \in JobsOf(i) : state[j] \in {"failed", "orphan"}

(***************************************************************************)
(* An invoice that was submitted ends with the decision of the PDP.        *)
(***************************************************************************)
StatusBecomesFinal ==
    \A i \in Invoice : row[i] # NoRow ~> invoice[i] \in FinalStatus
=============================================================================
