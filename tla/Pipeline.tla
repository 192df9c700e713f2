------------------------------ MODULE Pipeline ------------------------------
(***************************************************************************)
(* From a change of an invoice in GHL to its submission: the webhook and   *)
(* the send-invoice action of apps/api, and the handlers FETCH_INVOICE,    *)
(* MAP_CANONICAL, GENERATE_FACTURX and, up to its call of the PDP,         *)
(* SUBMIT_PDP of apps/worker (StatusSync has the rest of it).              *)
(*                                                                         *)
(* What is followed through the stages is which version of the invoice a   *)
(* payload, a canonical invoice, a document was made from, and whether     *)
(* from the invoice GHL returns or from the body of a request.  Mapping    *)
(* and rendering are functions of their input and keep both.  One tenant;  *)
(* jobs run as in HandlerRuns.                                             *)
(***************************************************************************)
EXTENDS Naturals, FiniteSets

CONSTANTS
    Invoice,        \* invoices of the tenant in GHL
    MaxVersion,     \* how many versions of an invoice GHL produces
    MaxWebhooks,    \* for how many of them its webhook arrives
    MaxActions,     \* how often a user sends an invoice by hand
    MaxAttempts, MaxActive, MaxFaults   \* as in HandlerRuns

ASSUME PipelineAssumption ==
    /\ MaxVersion \in Nat \ {0}
    /\ MaxWebhooks \in 0..MaxVersion
    /\ MaxActions \in Nat
    /\ MaxAttempts \in Nat \ {0}
    /\ MaxActive \in Nat \ {0}
    /\ MaxFaults \in Nat

(***************************************************************************)
(* "full" is the invoice as GHL returns it; "body" the body of a webhook   *)
(* or of the action, which has no lines and from which the mapper makes an *)
(* invoice with one placeholder line.                                      *)
(***************************************************************************)
Content == [from : {"full", "body"}, version : 1..MaxVersion]
Nothing == [from |-> "nothing", version |-> 0]

Parcel == [digests : Content \cup {Nothing}, pdf : Content \cup {Nothing},
           xml : Content \cup {Nothing}]
NoParcel == [digests |-> Nothing, pdf |-> Nothing, xml |-> Nothing]

\* GHL sends one webhook per version; each has an event id of its own.
Webhook == {"webhook"} \X Invoice \X (1..MaxWebhooks)
Action == {"action"} \X Invoice \X (1..MaxActions)
Request == Webhook \cup Action
IsWebhook(r) == r[1] = "webhook"
Subject(r) == r[2]

Fetch(i) == <<"FETCH", i>>
Map(i) == <<"MAP", i>>
Generate(i) == <<"GENERATE", i>>
SubmitPdp(i) == <<"SUBMIT", i>>
Job == {"FETCH", "MAP", "GENERATE", "SUBMIT"} \X Invoice

VARIABLES
    state, tries, at, faults,   \* jobs and runs, as in HandlerRuns
    memory,         \* memory[j]: what the run of j has read
    ghl,            \* the current version of each invoice in GHL, 0 if none
    seen,           \* idempotency_keys: the webhooks handled before
    request,        \* the call a request is about to make, or "none"
    answered,       \* requests that were answered with status 200
    raw,            \* invoices.raw_payload
    canonical,      \* invoices.canonical_payload
    status,         \* invoices.status
    pdf, xml,       \* the objects in the artifact store, under fixed keys
    digests,        \* the digests in the newest row of invoice_artifacts
    parcel,         \* what the run of SUBMIT_PDP has read of these three
    submitted       \* what the PDP was sent

INSTANCE HandlerRuns

jobVars == <<state, tries>>
runVars == <<state, tries, at, faults>>
apiVars == <<seen, request, answered>>
docVars == <<pdf, xml, digests, parcel>>
vars == <<state, tries, at, faults, memory, ghl, seen, request, answered, raw,
          canonical, status, pdf, xml, digests, parcel, submitted>>

Init ==
    /\ LifecycleInit
    /\ RunsInit
    /\ memory = [j \in Job |-> Nothing]
    /\ ghl = [i \in Invoice |-> 0]
    /\ seen = {}
    /\ request = [r \in Request |-> "none"]
    /\ answered = {}
    /\ raw = [i \in Invoice |-> Nothing]
    /\ canonical = [i \in Invoice |-> Nothing]
    /\ status = [i \in Invoice |-> "none"]
    /\ pdf = [i \in Invoice |-> Nothing]
    /\ xml = [i \in Invoice |-> Nothing]
    /\ digests = [i \in Invoice |-> Nothing]
    /\ parcel = [i \in Invoice |-> NoParcel]
    /\ submitted = {}

-----------------------------------------------------------------------------
(***************************************************************************)
(* GHL.                                                                    *)
(***************************************************************************)
Change(i) ==
    /\ ghl[i] < MaxVersion
    /\ ghl' = [ghl EXCEPT ![i] = @ + 1]
    /\ UNCHANGED <<runVars, memory, apiVars, raw, canonical, status, docVars, submitted>>

Full(i) == [from |-> "full", version |-> ghl[i]]

-----------------------------------------------------------------------------
(***************************************************************************)
(* The API.                                                                *)
(***************************************************************************)

\* A request arrives; GHL repeats a webhook until it is answered, and may
\* repeat it after.  A known event id is answered as a duplicate; that happens
\* as well while the first delivery is being handled, where it changes nothing
\* but who is told, and is left out.
Receive(r) ==
    /\ IF IsWebhook(r) THEN r[3] <= ghl[Subject(r)]
                       ELSE ghl[Subject(r)] > 0 /\ r \notin answered
    /\ request[r] = "none"
    /\ IF IsWebhook(r) /\ r \in seen
       THEN answered' = answered \cup {r} /\ UNCHANGED <<seen, request>>
       ELSE /\ seen' = IF IsWebhook(r) THEN seen \cup {r} ELSE seen
            /\ request' = [request EXCEPT ![r] = "upsert"]
            /\ UNCHANGED answered
    /\ UNCHANGED <<runVars, memory, ghl, raw, canonical, status, docVars, submitted>>

Body(r) == [from |-> "body", version |-> IF IsWebhook(r) THEN r[3] ELSE ghl[Subject(r)]]

\* Mutant: ON CONFLICT DO UPDATE sets the status as well.
UpsertInvoiceAsNew(r) ==
    LET i == Subject(r) IN
    /\ request[r] = "upsert"
    /\ request' = [request EXCEPT ![r] = "enqueue"]
    /\ raw' = [raw EXCEPT ![i] = Body(r)]
    /\ status' = [status EXCEPT ![i] = "NEW"]
    /\ UNCHANGED <<runVars, memory, ghl, seen, answered, canonical, docVars, submitted>>

\* INSERT INTO invoices ... ON CONFLICT DO UPDATE SET raw_payload
UpsertInvoice(r) ==
    LET i == Subject(r) IN
    /\ request[r] = "upsert"
    /\ request' = [request EXCEPT ![r] = "enqueue"]
    /\ raw' = [raw EXCEPT ![i] = Body(r)]
    /\ status' = [status EXCEPT ![i] = IF @ = "none" THEN "NEW" ELSE @]
    /\ UNCHANGED <<runVars, memory, ghl, seen, answered, canonical, docVars, submitted>>

\* Every request for an invoice uses the same idempotency key.
EnqueueFetch(r) ==
    /\ request[r] = "enqueue"
    /\ request' = [request EXCEPT ![r] = "answer"]
    /\ EnqueueOnce(Fetch(Subject(r)))
    /\ UNCHANGED <<at, faults, memory, ghl, seen, answered, raw, canonical, status,
                   docVars, submitted>>

\* The audit record is written before the answer.
Answer(r) ==
    /\ request[r] = "answer"
    /\ request' = [request EXCEPT ![r] = "none"]
    /\ answered' = answered \cup {r}
    /\ UNCHANGED <<runVars, memory, ghl, seen, raw, canonical, status, docVars, submitted>>

\* A statement rejects, or the API process dies; the statements before it have
\* been committed one by one.
RequestFails(r) ==
    /\ Fault
    /\ request[r] # "none"
    /\ request' = [request EXCEPT ![r] = "none"]
    /\ UNCHANGED <<jobVars, at, memory, ghl, seen, answered, raw, canonical, status,
                   docVars, submitted>>

-----------------------------------------------------------------------------
(***************************************************************************)
(* FETCH_INVOICE.                                                          *)
(***************************************************************************)
StartFetch(i) ==
    /\ Reserve(Fetch(i), IF status[i] = "none" THEN "thrown" ELSE "fetch")
    /\ UNCHANGED <<memory, ghl, apiVars, raw, canonical, status, docVars, submitted>>

FetchFromGhl(i) ==
    /\ Goto(Fetch(i), "fetch", "store")
    /\ memory' = [memory EXCEPT ![Fetch(i)] = Full(i)]
    /\ UNCHANGED <<jobVars, faults, ghl, apiVars, raw, canonical, status, docVars, submitted>>

\* Without a base URL or a key of the tenant fetchInvoice returns {}, and the
\* payload is left as it is.
FetchNothing(i) ==
    /\ Goto(Fetch(i), "fetch", "mark")
    /\ UNCHANGED <<jobVars, faults, memory, ghl, apiVars, raw, canonical, status,
                   docVars, submitted>>

StoreFetched(i) ==
    /\ Goto(Fetch(i), "store", "mark")
    /\ raw' = [raw EXCEPT ![i] = memory[Fetch(i)]]
    /\ UNCHANGED <<jobVars, faults, memory, ghl, apiVars, canonical, status, docVars, submitted>>

\* What fetchInvoice and the UPDATE after it throw is logged and dropped.
FetchErrorDropped(i) ==
    /\ Fault
    /\ Goto(Fetch(i), "fetch", "mark") \/ Goto(Fetch(i), "store", "mark")
    /\ UNCHANGED <<jobVars, memory, ghl, apiVars, raw, canonical, status, docVars, submitted>>

\* Mutant: a repeated run returns when the status is there already.
MarkOnce(j, i, new) ==
    /\ IF status[i] = new THEN Call(j, "mark", "returned")
                          ELSE Call(j, "mark", "next stage")
    /\ status' = [status EXCEPT ![i] = new]
    /\ UNCHANGED <<jobVars, memory, ghl, apiVars, raw, canonical, docVars, submitted>>

\* updateInvoiceStatus, which every stage calls when its work is stored.
Mark(j, i, new) ==
    /\ Call(j, "mark", "next stage")
    /\ status' = [status EXCEPT ![i] = new]
    /\ UNCHANGED <<jobVars, memory, ghl, apiVars, raw, canonical, docVars, submitted>>

\* The last call of a stage enqueues the next one, under a key per invoice.
EnqueueNext(j, next) ==
    /\ Call(j, "next stage", "returned")
    /\ EnqueueOnce(next)
    /\ UNCHANGED <<memory, ghl, apiVars, raw, canonical, status, docVars, submitted>>

FetchStep(i) ==
    \/ StartFetch(i)
    \/ FetchFromGhl(i)
    \/ FetchNothing(i)
    \/ StoreFetched(i)
    \/ Mark(Fetch(i), i, "FETCHED")
    \/ EnqueueNext(Fetch(i), Map(i))

-----------------------------------------------------------------------------
(***************************************************************************)
(* MAP_CANONICAL.                                                          *)
(***************************************************************************)

\* The first read of MAP_CANONICAL and of the stages after it: the handler
\* throws when what it needs is not there.
StartStage(j, input) ==
    /\ Reserve(j, IF input = Nothing THEN "thrown" ELSE "work")
    /\ memory' = [memory EXCEPT ![j] = input]
    /\ UNCHANGED <<ghl, apiVars, raw, canonical, status, docVars, submitted>>

StoreCanonical(i) ==
    /\ Call(Map(i), "work", "mark")
    /\ canonical' = [canonical EXCEPT ![i] = memory[Map(i)]]
    /\ UNCHANGED <<jobVars, memory, ghl, apiVars, raw, status, docVars, submitted>>

MapStep(i) ==
    \/ StartStage(Map(i), raw[i])
    \/ StoreCanonical(i)
    \/ Mark(Map(i), i, "MAPPED")
    \/ EnqueueNext(Map(i), Generate(i))

-----------------------------------------------------------------------------
(***************************************************************************)
(* GENERATE_FACTURX: both documents are rendered, then stored one by one.  *)
(***************************************************************************)
StorePdf(i) ==
    /\ Call(Generate(i), "work", "xml")
    /\ pdf' = [pdf EXCEPT ![i] = memory[Generate(i)]]
    /\ UNCHANGED <<jobVars, memory, ghl, apiVars, raw, canonical, status, xml, digests, parcel, submitted>>

StoreXml(i) ==
    /\ Call(Generate(i), "xml", "digests")
    /\ xml' = [xml EXCEPT ![i] = memory[Generate(i)]]
    /\ UNCHANGED <<jobVars, memory, ghl, apiVars, raw, canonical, status, pdf, digests, parcel, submitted>>

\* Mutant: an error of the INSERT is logged and dropped.
InsertArtifactsUnchecked(i) ==
    /\ \/ /\ Goto(Generate(i), "digests", "mark") /\ UNCHANGED faults
          /\ digests' = [digests EXCEPT ![i] = memory[Generate(i)]]
       \/ /\ Goto(Generate(i), "digests", "mark") /\ Fault
          /\ UNCHANGED digests
    /\ UNCHANGED <<jobVars, memory, ghl, apiVars, raw, canonical, status, pdf, xml, parcel, submitted>>

InsertArtifacts(i) ==
    /\ Call(Generate(i), "digests", "mark")
    /\ digests' = [digests EXCEPT ![i] = memory[Generate(i)]]
    /\ UNCHANGED <<jobVars, memory, ghl, apiVars, raw, canonical, status, pdf, xml, parcel, submitted>>

\* Mutant: the documents are made of the raw payload.
GenerateStepFromRaw(i) ==
    \/ StartStage(Generate(i), raw[i])
    \/ StorePdf(i)
    \/ StoreXml(i)
    \/ InsertArtifacts(i)
    \/ Mark(Generate(i), i, "GENERATED")
    \/ EnqueueNext(Generate(i), SubmitPdp(i))

GenerateStep(i) ==
    \/ StartStage(Generate(i), canonical[i])
    \/ StorePdf(i)
    \/ StoreXml(i)
    \/ InsertArtifacts(i)
    \/ Mark(Generate(i), i, "GENERATED")
    \/ EnqueueNext(Generate(i), SubmitPdp(i))

-----------------------------------------------------------------------------
(***************************************************************************)
(* SUBMIT_PDP: the canonical invoice is read first, then the newest row of *)
(* invoice_artifacts, then the two objects.  After the call, StatusSync.   *)
(***************************************************************************)
ReadArtifact(i, from, to, part, found) ==
    /\ Goto(SubmitPdp(i), from, IF found = Nothing THEN "thrown" ELSE to)
    /\ parcel' = [parcel EXCEPT ![i][part] = found]
    /\ UNCHANGED <<jobVars, faults, memory, ghl, apiVars, raw, canonical, status,
                   pdf, xml, digests, submitted>>

SendToPdp(i) ==
    /\ Call(SubmitPdp(i), "send", "mark")
    /\ submitted' = submitted \cup
          {[invoice |-> i, data |-> memory[SubmitPdp(i)], documents |-> parcel[i]]}
    /\ parcel' = [parcel EXCEPT ![i] = NoParcel]
    /\ UNCHANGED <<jobVars, memory, ghl, apiVars, raw, canonical, status, pdf, xml, digests>>

MarkSubmitted(i) ==
    /\ Call(SubmitPdp(i), "mark", "returned")
    /\ status' = [status EXCEPT ![i] = "SUBMITTED"]
    /\ UNCHANGED <<jobVars, memory, ghl, apiVars, raw, canonical, docVars, submitted>>

SubmitStep(i) ==
    \/ StartStage(SubmitPdp(i), canonical[i])
    \/ ReadArtifact(i, "work", "pdf", "digests", digests[i])
    \/ ReadArtifact(i, "pdf", "xml", "pdf", pdf[i])
    \/ ReadArtifact(i, "xml", "send", "xml", xml[i])
    \/ SendToPdp(i)
    \/ MarkSubmitted(i)

-----------------------------------------------------------------------------
Forget(S) ==
    /\ memory' = [j \in Job |-> IF j \in S THEN Nothing ELSE memory[j]]
    /\ parcel' = [i \in Invoice |-> IF SubmitPdp(i) \in S THEN NoParcel ELSE parcel[i]]

EndRun(j) ==
    /\ Settle(j)
    /\ Forget({j})
    /\ UNCHANGED <<ghl, apiVars, raw, canonical, status, pdf, xml, digests, submitted>>

\* Errors that FETCH_INVOICE catches: FetchErrorDropped.  The reads before its
\* call of fetchInvoice are not covered by that.
CallRejected(j) ==
    /\ at[j] # "store"
    /\ CallFails(j)
    /\ UNCHANGED <<memory, ghl, apiVars, raw, canonical, status, docVars, submitted>>

ReservationUnanswered(j) ==
    /\ ReservationLost(j)
    /\ UNCHANGED <<memory, ghl, apiVars, raw, canonical, status, docVars, submitted>>

WorkerCrash ==
    /\ \E S \in SUBSET Active : RunsLost(S) /\ Forget(S)
    /\ UNCHANGED <<ghl, apiVars, raw, canonical, status, pdf, xml, digests, submitted>>

ApiStep(r) == UpsertInvoice(r) \/ EnqueueFetch(r) \/ Answer(r)
WorkerStep(i) ==
    \/ FetchStep(i)
    \/ MapStep(i)
    \/ GenerateStep(i)
    \/ SubmitStep(i)

Next ==
    \/ \E i \in Invoice : Change(i) \/ WorkerStep(i) \/ FetchErrorDropped(i)
    \/ \E r \in Request : Receive(r) \/ ApiStep(r) \/ RequestFails(r)
    \/ \E j \in Job : EndRun(j) \/ CallRejected(j) \/ ReservationUnanswered(j)
    \/ WorkerCrash

(***************************************************************************)
(* Statements are answered, due jobs are reserved, and GHL repeats a       *)
(* webhook until it is answered.                                           *)
(***************************************************************************)
Fairness ==
    /\ \A i \in Invoice : WF_vars(FetchStep(i)) /\ WF_vars(MapStep(i))
                          /\ WF_vars(GenerateStep(i)) /\ WF_vars(SubmitStep(i))
    /\ \A r \in Webhook : WF_vars(Receive(r))
    /\ \A r \in Request : WF_vars(ApiStep(r))
    /\ \A j \in Job : WF_vars(EndRun(j))

Spec == Init /\ [][Next]_vars
FairSpec == Spec /\ Fairness

-----------------------------------------------------------------------------
TypeOK ==
    /\ RunsTypeOK
    /\ memory \in [Job -> Content \cup {Nothing}]
    /\ ghl \in [Invoice -> 0..MaxVersion]
    /\ seen \subseteq Webhook
    /\ request \in [Request -> {"none", "upsert", "enqueue", "answer"}]
    /\ answered \subseteq Request
    /\ \A column \in {raw, canonical, pdf, xml, digests} :
          column \in [Invoice -> Content \cup {Nothing}]
    /\ status \in [Invoice -> {"none", "NEW", "FETCHED", "MAPPED", "GENERATED", "SUBMITTED"}]
    /\ parcel \in [Invoice -> Parcel]
    /\ submitted \subseteq [invoice : Invoice, data : Content, documents : Parcel]

(***************************************************************************)
(* The job of a stage exists only when what the stage needs is stored, so  *)
(* no stage ever throws for a missing payload or document, whatever was    *)
(* retried, lost or overwritten before.                                    *)
(***************************************************************************)
StageInputsExist ==
    \A i \in Invoice :
       /\ state[Fetch(i)] # "absent" => status[i] # "none" /\ raw[i] # Nothing
       /\ state[Map(i)] # "absent" => raw[i] # Nothing
       /\ state[Generate(i)] # "absent" => canonical[i] # Nothing
       /\ state[SubmitPdp(i)] # "absent" => Nothing \notin {canonical[i], pdf[i], xml[i], digests[i]}

(***************************************************************************)
(* What the PDP is sent fits together: structured data, both documents and *)
(* their digests come from the same version of the invoice, whatever else  *)
(* was retried, repeated or lost, as long as MAP_CANONICAL was run once.   *)
(* A repeated one may store another version while documents of the first   *)
(* are being made or sent.                                                 *)
(***************************************************************************)
SubmissionIsConsistent ==
    \A p \in submitted : tries[Map(p.invoice)] = 1 =>
        \A part \in {"digests", "pdf", "xml"} : p.documents[part] = p.data

(***************************************************************************)
(* invoices.status only moves forward through the stages, also when later  *)
(* requests for the same invoice arrive meanwhile; only the retry of a     *)
(* stage after a failure can move it back.                                 *)
(***************************************************************************)
Rank(s) == CHOOSE n \in 1..6 :
             <<"none", "NEW", "FETCHED", "MAPPED", "GENERATED", "SUBMITTED">>[n] = s

StatusMovesForward ==
    [][faults' = 0 => \A i \in Invoice : Rank(status'[i]) >= Rank(status[i])]_vars

(***************************************************************************)
(* The inductive invariant.  Whatever fails, a run holds the input of its  *)
(* stage, and has stored what the calls behind it store, before the next   *)
(* stage exists.                                                           *)
(***************************************************************************)
RunPlaces(i) ==
    /\ at[Fetch(i)] \in {"none", "fetch", "store", "mark", "next stage", "returned", "thrown"}
    /\ at[Map(i)] \in {"none", "work", "mark", "next stage", "returned", "thrown"}
    /\ at[Generate(i)] \in {"none", "work", "xml", "digests", "mark", "next stage",
                            "returned", "thrown"}
    /\ at[SubmitPdp(i)] \in {"none", "work", "pdf", "xml", "send", "mark", "returned", "thrown"}

RunInputs(i) ==
    /\ at[Fetch(i)] = "store" => memory[Fetch(i)] # Nothing
    /\ at[Map(i)] = "work" => memory[Map(i)] # Nothing
    /\ at[Generate(i)] \in {"work", "xml", "digests"} => memory[Generate(i)] # Nothing
    /\ at[SubmitPdp(i)] \in {"work", "pdf", "xml", "send"} => memory[SubmitPdp(i)] # Nothing
    /\ at[SubmitPdp(i)] \in {"pdf", "xml", "send"} => parcel[i].digests # Nothing
    /\ at[SubmitPdp(i)] \in {"xml", "send"} => parcel[i].pdf # Nothing
    /\ at[SubmitPdp(i)] = "send" => parcel[i].xml # Nothing

RunOutputs(i) ==
    /\ at[Map(i)] \in {"mark", "next stage"} => canonical[i] # Nothing
    /\ at[Generate(i)] \in {"xml", "digests", "mark", "next stage"} => pdf[i] # Nothing
    /\ at[Generate(i)] \in {"digests", "mark", "next stage"} => xml[i] # Nothing
    /\ at[Generate(i)] \in {"mark", "next stage"} => digests[i] # Nothing

StageFits(i) == RunPlaces(i) /\ RunInputs(i) /\ RunOutputs(i)

\* Only an invoice that GHL has is asked for, and a request has stored it before it enqueues.
RequestsFit(i) ==
    /\ ghl[i] = 0 => state[Fetch(i)] = "absent"
    /\ \A r \in Request : Subject(r) = i =>
          /\ request[r] # "none" => ghl[i] # 0
          /\ request[r] = "enqueue" => status[i] # "none" /\ raw[i] # Nothing

(***************************************************************************)
(* As long as MAP_CANONICAL has run at most once, there is one canonical   *)
(* invoice, and whatever was read, rendered, stored or sent after it is    *)
(* that one.                                                               *)
(***************************************************************************)
Dispatch(i) ==
    [invoice |-> i, data |-> canonical[i],
     documents |-> [digests |-> canonical[i], pdf |-> canonical[i], xml |-> canonical[i]]]

OneMapping(i) ==
    tries[Map(i)] <= 1 =>
        /\ tries[Map(i)] = 0 \/ at[Map(i)] = "work" => canonical[i] = Nothing
        /\ {memory[Generate(i)], memory[SubmitPdp(i)]} \subseteq {Nothing, canonical[i]}
        /\ {pdf[i], xml[i], digests[i]} \subseteq {Nothing, canonical[i]}
        /\ \A part \in {"digests", "pdf", "xml"} : parcel[i][part] \in {Nothing, canonical[i]}
        /\ \A p \in submitted : p.invoice = i => p = Dispatch(i)

(***************************************************************************)
(* As long as nothing has failed, moreover, every stage runs once, after   *)
(* the stage before it, and the status tells how far the stages are.       *)
(***************************************************************************)
Past(j, calls) == at[j] \in calls \/ state[j] = "done"

InOrder(i) ==
    /\ state[Map(i)] # "absent" => Past(Fetch(i), {"returned"})
    /\ state[Generate(i)] # "absent" => Past(Map(i), {"returned"})
    /\ state[SubmitPdp(i)] # "absent" => Past(Generate(i), {"returned"})
    /\ \A j \in {Fetch(i), Map(i), Generate(i), SubmitPdp(i)} :
          at[j] # "thrown" /\ state[j] \notin {"failed", "orphan"}

StatusFits(i) ==
    /\ status[i] \in {"FETCHED", "MAPPED", "GENERATED", "SUBMITTED"} =>
          Past(Fetch(i), {"next stage", "returned"})
    /\ status[i] \in {"MAPPED", "GENERATED", "SUBMITTED"} =>
          Past(Map(i), {"next stage", "returned"})
    /\ status[i] \in {"GENERATED", "SUBMITTED"} =>
          Past(Generate(i), {"next stage", "returned"})
    /\ status[i] = "SUBMITTED" => Past(SubmitPdp(i), {"returned"})

PipelineInv ==
    /\ TypeOK
    /\ RunsInv
    /\ StageInputsExist
    /\ \A i \in Invoice : StageFits(i) /\ RequestsFit(i) /\ OneMapping(i)
    /\ faults = 0 => \A i \in Invoice : InOrder(i) /\ StatusFits(i)

(***************************************************************************)
(* An update of an invoice reaches the PDP: when its webhook was answered  *)
(* and nothing of the invoice is under way or lost, the version it brought *)
(* or a later one was submitted.                                           *)
(***************************************************************************)
AtRest(i) ==
    /\ \A r \in Request : Subject(r) = i => request[r] = "none"
    /\ \A j \in Job : Subject(j) = i => state[j] \in {"absent", "done"}

UpdatesAreSubmitted ==
    \A r \in Webhook : r \in answered /\ AtRest(Subject(r)) =>
        \E p \in submitted : p.invoice = Subject(r) /\ p.data.version >= r[3]

(***************************************************************************)
(* A webhook whose event id is recorded is being handled or has led to a   *)
(* job: an event that GHL need not repeat is not lost.                     *)
(***************************************************************************)
RecordedEventsHaveJobs ==
    \A r \in seen : request[r] # "none" \/ state[Fetch(Subject(r))] # "absent"

(***************************************************************************)
(* Once its first job exists, an invoice goes through all stages, unless a *)
(* job of it used up its attempts or was orphaned.                         *)
(***************************************************************************)
PipelineCompletes ==
    \A i \in Invoice : state[Fetch(i)] # "absent" ~>
       \/ state[SubmitPdp(i)] = "done"
       \/ \E j \in Job : Subject(j) = i /\ state[j] \in {"failed", "orphan"}
=============================================================================
