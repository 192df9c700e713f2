---------------------------- MODULE PipelineProofs ----------------------------
(***************************************************************************)
(* Proofs about Pipeline, for any invoices, versions, requests, attempts,  *)
(* overlapping runs and faults.                                            *)
(***************************************************************************)
EXTENDS Pipeline, TLAPS

-----------------------------------------------------------------------------
(***************************************************************************)
(* Jobs, requests and contents.                                            *)
(***************************************************************************)
JobsOf(i) == {Fetch(i), Map(i), Generate(i), SubmitPdp(i)}

LEMMA JobFacts ==
  /\ \A i \in Invoice :
        /\ JobsOf(i) \subseteq Job
        /\ Fetch(i) # Map(i) /\ Fetch(i) # Generate(i) /\ Fetch(i) # SubmitPdp(i)
        /\ Map(i) # Generate(i) /\ Map(i) # SubmitPdp(i) /\ Generate(i) # SubmitPdp(i)
        /\ \A k \in Invoice \ {i} : JobsOf(i) \cap JobsOf(k) = {}
  /\ \A j \in Job : \E i \in Invoice : j \in JobsOf(i)
  BY DEF JobsOf, Job, Fetch, Map, Generate, SubmitPdp

LEMMA DistinctJobs ==
  ASSUME NEW i \in Invoice
  PROVE  /\ Fetch(i) # Map(i) /\ Fetch(i) # Generate(i) /\ Fetch(i) # SubmitPdp(i)
         /\ Map(i) # Generate(i) /\ Map(i) # SubmitPdp(i) /\ Generate(i) # SubmitPdp(i)
  BY JobFacts

LEMMA RequestFacts ==
  \A r \in Request : /\ Subject(r) \in Invoice
                     /\ IsWebhook(r) => r \in Webhook /\ r[3] \in 1..MaxVersion
                     /\ ~IsWebhook(r) => r \in Action
<1>1. ASSUME NEW r \in Webhook PROVE Subject(r) \in Invoice /\ IsWebhook(r) /\ r[3] \in 1..MaxVersion
  BY PipelineAssumption DEF Webhook, Subject, IsWebhook
<1>2. ASSUME NEW r \in Action PROVE Subject(r) \in Invoice /\ ~IsWebhook(r)
  BY DEF Action, Subject, IsWebhook
<1> QED
  BY <1>1, <1>2 DEF Request

LEMMA ContentFacts ==
  /\ Nothing \notin Content
  /\ \A n \in 1..MaxVersion : /\ [from |-> "full", version |-> n] \in Content
                              /\ [from |-> "body", version |-> n] \in Content
  /\ NoParcel \in Parcel
  BY DEF Nothing, Content, NoParcel, Parcel

LEMMA RunsBounded == Bounded
  BY PipelineAssumption DEF Bounded

-----------------------------------------------------------------------------
(***************************************************************************)
(* The invariant, invoice by invoice.                                      *)
(***************************************************************************)
Typed ==
    /\ memory \in [Job -> Content \cup {Nothing}]
    /\ ghl \in [Invoice -> 0..MaxVersion]
    /\ seen \subseteq Webhook
    /\ request \in [Request -> {"none", "upsert", "enqueue", "answer"}]
    /\ answered \subseteq Request
    /\ raw \in [Invoice -> Content \cup {Nothing}]
    /\ canonical \in [Invoice -> Content \cup {Nothing}]
    /\ pdf \in [Invoice -> Content \cup {Nothing}]
    /\ xml \in [Invoice -> Content \cup {Nothing}]
    /\ digests \in [Invoice -> Content \cup {Nothing}]
    /\ status \in [Invoice -> {"none", "NEW", "FETCHED", "MAPPED", "GENERATED", "SUBMITTED"}]
    /\ parcel \in [Invoice -> Parcel]
    /\ submitted \subseteq [invoice : Invoice, data : Content, documents : Parcel]

InputsOf(i) ==
    /\ state[Fetch(i)] # "absent" => status[i] # "none" /\ raw[i] # Nothing
    /\ state[Map(i)] # "absent" => raw[i] # Nothing
    /\ state[Generate(i)] # "absent" => canonical[i] # Nothing
    /\ state[SubmitPdp(i)] # "absent" => Nothing \notin {canonical[i], pdf[i], xml[i], digests[i]}

Smooth(i) == InOrder(i) /\ StatusFits(i)

Fits(i) == InputsOf(i) /\ StageFits(i) /\ RequestsFit(i) /\ (faults = 0 => Smooth(i))

\* PipelineInv without what is said of the one canonical invoice.
StagesInv == RunsInv /\ Typed /\ \A i \in Invoice : Fits(i)

LEMMA PartsOfInv == PipelineInv <=> StagesInv /\ \A i \in Invoice : OneMapping(i)
<1>1. TypeOK <=> RunsTypeOK /\ Typed
  BY DEF TypeOK, Typed
<1>2. StageInputsExist <=> \A i \in Invoice : InputsOf(i)
  BY DEF StageInputsExist, InputsOf
<1> QED
  BY <1>1, <1>2 DEF PipelineInv, StagesInv, RunsInv, Fits, Smooth

LEMMA PartsOfNextInv ==
  ASSUME StagesInv', \A i \in Invoice : OneMapping(i)'
  PROVE  PipelineInv'
<1>1. TypeOK'
  BY DEF TypeOK, Typed, RunsInv, StagesInv
<1>2. StageInputsExist'
  BY DEF StageInputsExist, InputsOf, Fits, StagesInv
<1> QED
  BY <1>1, <1>2 DEF PipelineInv, StagesInv, Fits, Smooth

\* Nothing of invoice k changes.
Same(k) ==
    /\ \A j \in JobsOf(k) : state'[j] = state[j] /\ at'[j] = at[j] /\ memory'[j] = memory[j]
    /\ \A r \in Request : Subject(r) = k => request'[r] = request[r]
    /\ ghl'[k] = ghl[k] /\ raw'[k] = raw[k] /\ canonical'[k] = canonical[k]
    /\ pdf'[k] = pdf[k] /\ xml'[k] = xml[k] /\ digests'[k] = digests[k]
    /\ status'[k] = status[k] /\ parcel'[k] = parcel[k]
    /\ \A p \in submitted' : p.invoice = k => p \in submitted

LEMMA SameFits ==
  ASSUME NEW k \in Invoice, Same(k), Fits(k), faults' = 0 => faults = 0
  PROVE  Fits(k)'
<1> USE DEF Same, JobsOf
<1>1. InputsOf(k)'
  BY DEF Fits, InputsOf
<1>2. StageFits(k)'
  <2>1. StageFits(k)
    BY DEF Fits
  <2>2. RunPlaces(k)'
    BY <2>1 DEF StageFits, RunPlaces
  <2>3. RunInputs(k)'
    BY <2>1 DEF StageFits, RunInputs
  <2>4. RunOutputs(k)'
    BY <2>1 DEF StageFits, RunOutputs
  <2> QED
    BY <2>2, <2>3, <2>4 DEF StageFits
<1>3. RequestsFit(k)'
  BY DEF Fits, RequestsFit
<1>4. ASSUME faults' = 0 PROVE Smooth(k)'
  <2>1. Smooth(k)
    BY <1>4 DEF Fits
  <2>2. InOrder(k)'
    BY <2>1 DEF Smooth, InOrder, Past
  <2>3. StatusFits(k)'
    BY <2>1 DEF Smooth, StatusFits, Past
  <2> QED
    BY <2>2, <2>3 DEF Smooth
<1> QED
  BY <1>1, <1>2, <1>3, <1>4 DEF Fits

\* A step that concerns invoice i alone.
LEMMA StepKeepsInv ==
  ASSUME StagesInv, NEW i \in Invoice, RunsInv', Typed',
         \A k \in Invoice \ {i} : Same(k), faults' = 0 => faults = 0, Fits(i)'
  PROVE  StagesInv'
<1>1. \A k \in Invoice \ {i} : Fits(k)'
  BY SameFits DEF StagesInv
<1> QED
  BY <1>1 DEF StagesInv

LEMMA InitEstablishesStages == Init => StagesInv
<1> SUFFICES ASSUME Init PROVE StagesInv
  OBVIOUS
<1>1. RunsInv
  BY PipelineAssumption
  DEF Init, LifecycleInit, RunsInit, RunsInv, RunsTypeOK, LifecycleTypeOK, JobState
<1>2. Typed
  BY PipelineAssumption, ContentFacts DEF Init, Typed
<1>3. ASSUME NEW i \in Invoice PROVE Fits(i)
  <2>1. \A j \in JobsOf(i) : state[j] = "absent" /\ at[j] = "none"
    BY JobFacts DEF Init, LifecycleInit, RunsInit
  <2>2. \A r \in Request : request[r] = "none"
    BY DEF Init
  <2>3. status[i] = "none" /\ submitted = {}
    BY DEF Init
  <2>4. InputsOf(i) /\ StageFits(i) /\ RequestsFit(i)
    BY <2>1, <2>2 DEF JobsOf, InputsOf, StageFits, RunPlaces, RunInputs, RunOutputs, RequestsFit
  <2>5. Smooth(i)
    BY <2>1, <2>3 DEF JobsOf, Smooth, InOrder, StatusFits, Past
  <2> QED
    BY <2>4, <2>5 DEF Fits
<1> QED
  BY <1>1, <1>2, <1>3 DEF StagesInv

-----------------------------------------------------------------------------
(***************************************************************************)
(* What the steps of HandlerRuns do to the jobs of an invoice.             *)
(***************************************************************************)
LEMMA RunFacts ==
  ASSUME RunsInv
  PROVE  \A j \in Job : (at[j] # "none" <=> state[j] = "active") /\ state[j] \in JobState
  BY DEF RunsInv, RunsTypeOK, LifecycleTypeOK

LEMMA NextRunFacts ==
  ASSUME RunsInv'
  PROVE  \A j \in Job : (at'[j] # "none" <=> state'[j] = "active") /\ state'[j] \in JobState
  BY DEF RunsInv, RunsTypeOK, LifecycleTypeOK

LEMMA GotoEffect ==
  ASSUME RunsInv, NEW j \in Job, NEW from, NEW to, Goto(j, from, to)
  PROVE  /\ at[j] = from /\ at'[j] = to
         /\ \A k \in Job \ {j} : at'[k] = at[k]
  BY DEF RunsInv, RunsTypeOK, Goto

LEMMA FaultEffect ==
  ASSUME RunsInv, UNCHANGED faults \/ Fault
  PROVE  faults' = 0 => faults = 0 /\ UNCHANGED faults
  BY PipelineAssumption DEF RunsInv, RunsTypeOK, Fault

\* A call that is answered, or whose answer is lost, and that leaves the jobs alone.
LEMMA CallEffect ==
  ASSUME StagesInv, NEW j \in Job, NEW from, NEW to, from # "none", to # "none",
         Call(j, from, to), UNCHANGED jobVars
  PROVE  /\ RunsInv' /\ at[j] = from /\ at'[j] \in {to, "thrown"}
         /\ \A k \in Job \ {j} : at'[k] = at[k]
         /\ UNCHANGED state
         /\ faults' = 0 => faults = 0 /\ at'[j] = to
<1>1. /\ Goto(j, from, to) \/ Goto(j, from, "thrown")
      /\ UNCHANGED faults \/ Fault
      /\ RunsInv
      /\ UNCHANGED <<state, tries>>
  BY DEF StagesInv, Call, jobVars
<1>2. RunsInv'
  BY <1>1, RunsBounded, CallKeepsRuns
<1>3. at[j] = from /\ at'[j] \in {to, "thrown"} /\ \A k \in Job \ {j} : at'[k] = at[k]
  BY <1>1, GotoEffect
<1>4. faults' = 0 => faults = 0 /\ at'[j] = to
  BY <1>1, FaultEffect, GotoEffect, PipelineAssumption DEF Call, Fault, RunsInv, RunsTypeOK
<1> QED
  BY <1>1, <1>2, <1>3, <1>4

\* The same, when it enqueues job n.
LEMMA EnqueueEffect ==
  ASSUME StagesInv, NEW j \in Job, NEW from, NEW to, from # "none", to # "none",
         Call(j, from, to), NEW n \in Job, EnqueueOnce(n)
  PROVE  /\ RunsInv' /\ at[j] = from /\ at'[j] \in {to, "thrown"}
         /\ \A k \in Job \ {j} : at'[k] = at[k]
         /\ \A k \in Job \ {n} : state'[k] = state[k]
         /\ state'[n] = IF state[n] = "absent" THEN "pending" ELSE state[n]
         /\ faults' = 0 => faults = 0 /\ at'[j] = to
<1>1. /\ Goto(j, from, to) \/ Goto(j, from, "thrown")
      /\ UNCHANGED faults \/ Fault
      /\ RunsInv
  BY DEF StagesInv, Call
<1>2. RunsInv'
  BY <1>1, RunsBounded, EnqueueKeepsRuns
<1>3. at[j] = from /\ at'[j] \in {to, "thrown"} /\ \A k \in Job \ {j} : at'[k] = at[k]
  BY <1>1, GotoEffect
<1>4. /\ \A k \in Job \ {n} : state'[k] = state[k]
      /\ state'[n] = IF state[n] = "absent" THEN "pending" ELSE state[n]
  BY <1>1 DEF EnqueueOnce, Submit, Move, RunsInv, RunsTypeOK, LifecycleTypeOK
<1>5. faults' = 0 => faults = 0 /\ at'[j] = to
  BY <1>1, FaultEffect, GotoEffect, PipelineAssumption DEF Call, Fault, RunsInv, RunsTypeOK
<1> QED
  BY <1>2, <1>3, <1>4, <1>5

LEMMA ReserveEffect ==
  ASSUME StagesInv, NEW j \in Job, NEW first, first # "none", Reserve(j, first)
  PROVE  /\ RunsInv' /\ at[j] = "none" /\ at'[j] = first
         /\ state[j] = "pending" /\ state'[j] = "active"
         /\ \A k \in Job \ {j} : at'[k] = at[k] /\ state'[k] = state[k]
         /\ UNCHANGED faults
<1>1. RunsInv
  BY DEF StagesInv
<1>2. RunsInv'
  BY <1>1, RunsBounded, ReserveKeepsRuns
<1> QED
  BY <1>1, <1>2, GotoEffect DEF Reserve, Start, Move, RunsInv, RunsTypeOK, LifecycleTypeOK

LEMMA FitsAfter ==
  ASSUME NEW i \in Invoice, InputsOf(i)', RunPlaces(i)', RunInputs(i)', RunOutputs(i)',
         RequestsFit(i)',
         faults' = 0 => InOrder(i)' /\ StatusFits(i)'
  PROVE  Fits(i)'
  BY DEF Fits, StageFits, Smooth

LEMMA FitsBefore ==
  ASSUME StagesInv, NEW i \in Invoice
  PROVE  /\ InputsOf(i) /\ RunPlaces(i) /\ RunInputs(i) /\ RunOutputs(i) /\ RequestsFit(i)
         /\ faults = 0 => InOrder(i) /\ StatusFits(i)
         /\ Typed /\ RunsInv
  BY DEF StagesInv, Fits, StageFits, Smooth

-----------------------------------------------------------------------------
(***************************************************************************)
(* The steps of the stages.                                                *)
(***************************************************************************)
LEMMA StartFetchKeepsInv ==
  ASSUME StagesInv, NEW i \in Invoice, StartFetch(i)
  PROVE  StagesInv'
<1> DEFINE first == IF status[i] = "none" THEN "thrown" ELSE "fetch"
<1>1. /\ Reserve(Fetch(i), first)
      /\ UNCHANGED <<memory, ghl, apiVars, raw, canonical, status, docVars, submitted>>
  BY DEF StartFetch
<1>2. JobsOf(i) \subseteq Job /\ \A k \in Invoice \ {i} : JobsOf(k) \subseteq Job \ JobsOf(i)
  BY JobFacts
<1>3. /\ RunsInv' /\ at[Fetch(i)] = "none" /\ at'[Fetch(i)] = first
      /\ state[Fetch(i)] = "pending" /\ state'[Fetch(i)] = "active"
      /\ \A k \in Job \ {Fetch(i)} : at'[k] = at[k] /\ state'[k] = state[k]
      /\ UNCHANGED faults
  <2>1. first # "none" /\ Fetch(i) \in Job
    BY <1>2 DEF JobsOf
  <2> HIDE DEF first
  <2> QED
    BY <1>1, <2>1, ReserveEffect
<1>4. at'[Fetch(i)] = "fetch"
  BY <1>3, FitsBefore DEF InputsOf
<1> HIDE DEF first
<1>5. Typed'
  BY <1>1, FitsBefore DEF Typed, apiVars, docVars
<1>6. \A k \in Invoice \ {i} : Same(k)
  BY <1>1, <1>2, <1>3 DEF Same, JobsOf, apiVars, docVars
<1>7. /\ at'[Map(i)] = at[Map(i)] /\ at'[Generate(i)] = at[Generate(i)]
      /\ at'[SubmitPdp(i)] = at[SubmitPdp(i)]
      /\ state'[Map(i)] = state[Map(i)] /\ state'[Generate(i)] = state[Generate(i)]
      /\ state'[SubmitPdp(i)] = state[SubmitPdp(i)]
  BY <1>2, <1>3, JobFacts DEF JobsOf
<1>8. InputsOf(i)' /\ RunPlaces(i)'
  BY <1>1, <1>3, <1>4, <1>7, FitsBefore DEF InputsOf, RunPlaces, docVars
<1>9. RunInputs(i)' /\ RunOutputs(i)'
  BY <1>1, <1>4, <1>7, FitsBefore DEF RunInputs, RunOutputs, docVars
<1>10. RequestsFit(i)'
  BY <1>1, <1>3, FitsBefore DEF RequestsFit, apiVars
<1>11. ASSUME faults' = 0 PROVE InOrder(i)' /\ StatusFits(i)'
  <2>1. InOrder(i) /\ StatusFits(i)
    BY <1>3, <1>11, FitsBefore
  <2>2. InOrder(i)'
    BY <1>3, <1>4, <1>7, <2>1 DEF InOrder, Past
  <2>3. StatusFits(i)'
    BY <1>1, <1>3, <1>7, <2>1 DEF StatusFits, Past
  <2> QED
    BY <2>2, <2>3
<1>12. Fits(i)'
  BY <1>8, <1>9, <1>10, <1>11, FitsAfter
<1> QED
  BY <1>3, <1>5, <1>6, <1>12, StepKeepsInv

\* The calls of FETCH_INVOICE before "mark", which change its memory or raw_payload.
LEMMA FetchCallKeepsInv ==
  ASSUME StagesInv, NEW i \in Invoice, NEW from \in {"fetch", "store"},
         NEW to \in {"store", "mark"}, Goto(Fetch(i), from, to), UNCHANGED faults \/ Fault,
         NEW found \in Content \cup {Nothing}, NEW payload \in Content \cup {Nothing},
         to = "store" => found # Nothing, raw[i] # Nothing => payload # Nothing,
         memory' = [memory EXCEPT ![Fetch(i)] = found],
         raw' = [raw EXCEPT ![i] = payload],
         UNCHANGED <<jobVars, ghl, apiVars, canonical, status, docVars, submitted>>
  PROVE  StagesInv'
<1>1. UNCHANGED <<state, tries>>
  BY DEF jobVars
<1>2. JobsOf(i) \subseteq Job /\ \A k \in Invoice \ {i} : JobsOf(k) \subseteq Job \ JobsOf(i)
  BY JobFacts
<1>3. /\ RunsInv' /\ at[Fetch(i)] = from /\ at'[Fetch(i)] = to
      /\ \A k \in Job \ {Fetch(i)} : at'[k] = at[k]
      /\ faults' = 0 => faults = 0
  BY <1>1, <1>2, RunsBounded, CallKeepsRuns, GotoEffect, FaultEffect, FitsBefore DEF JobsOf
<1>4. /\ memory'[Fetch(i)] = found /\ \A j \in Job \ {Fetch(i)} : memory'[j] = memory[j]
      /\ raw'[i] = payload /\ \A k \in Invoice \ {i} : raw'[k] = raw[k]
      /\ Typed'
  BY <1>2, FitsBefore DEF Typed, apiVars, docVars, JobsOf
<1>5. \A k \in Invoice \ {i} : Same(k)
  BY <1>1, <1>2, <1>3, <1>4 DEF Same, JobsOf, apiVars, docVars
<1>6. /\ at'[Map(i)] = at[Map(i)] /\ at'[Generate(i)] = at[Generate(i)]
      /\ at'[SubmitPdp(i)] = at[SubmitPdp(i)]
      /\ memory'[Map(i)] = memory[Map(i)] /\ memory'[Generate(i)] = memory[Generate(i)]
      /\ memory'[SubmitPdp(i)] = memory[SubmitPdp(i)]
  BY <1>2, <1>3, <1>4, JobFacts DEF JobsOf
<1>7. InputsOf(i)' /\ RunPlaces(i)'
  BY <1>1, <1>3, <1>4, <1>6, FitsBefore DEF InputsOf, RunPlaces, docVars
<1>8. RunInputs(i)' /\ RunOutputs(i)'
  BY <1>3, <1>4, <1>6, FitsBefore DEF RunInputs, RunOutputs, docVars
<1>9. RequestsFit(i)'
  BY <1>1, <1>4, FitsBefore DEF RequestsFit, apiVars
<1>10. ASSUME faults' = 0 PROVE InOrder(i)' /\ StatusFits(i)'
  <2>1. InOrder(i) /\ StatusFits(i)
    BY <1>3, <1>10, FitsBefore
  <2>2. state[Fetch(i)] = "active"
    BY <1>2, <1>3, RunFacts, FitsBefore DEF JobsOf
  <2>3. InOrder(i)'
    BY <1>1, <1>3, <1>6, <2>1, <2>2 DEF InOrder, Past
  <2>4. StatusFits(i)'
    BY <1>1, <1>3, <1>6, <2>1, <2>2 DEF StatusFits, Past
  <2> QED
    BY <2>3, <2>4
<1>11. Fits(i)'
  BY <1>7, <1>8, <1>9, <1>10, FitsAfter
<1> QED
  BY <1>3, <1>4, <1>5, <1>11, StepKeepsInv

LEMMA FetchFromGhlKeepsInv ==
  ASSUME StagesInv, NEW i \in Invoice, FetchFromGhl(i)
  PROVE  StagesInv'
<1>1. /\ Goto(Fetch(i), "fetch", "store") /\ UNCHANGED faults
      /\ memory' = [memory EXCEPT ![Fetch(i)] = Full(i)]
      /\ UNCHANGED <<jobVars, ghl, apiVars, canonical, status, docVars, submitted>>
      /\ UNCHANGED raw
  BY DEF FetchFromGhl
<1>2. Full(i) \in Content
  <2>1. Fetch(i) \in Job /\ at[Fetch(i)] = "fetch"
    BY <1>1, JobFacts DEF Goto, JobsOf
  <2>2. state[Fetch(i)] = "active"
    BY <2>1, RunFacts, FitsBefore
  <2>3. ghl[i] \in 1..MaxVersion
    BY <2>2, FitsBefore, PipelineAssumption DEF RequestsFit, Typed
  <2> QED
    BY <2>3, ContentFacts DEF Full
<1>3. /\ raw[i] \in Content \cup {Nothing}
      /\ raw' = [raw EXCEPT ![i] = raw[i]]
  BY <1>1, FitsBefore DEF Typed
<1> QED
  BY <1>1, <1>2, <1>3, ContentFacts, FetchCallKeepsInv

LEMMA FetchNothingKeepsInv ==
  ASSUME StagesInv, NEW i \in Invoice, FetchNothing(i)
  PROVE  StagesInv'
<1>1. /\ Goto(Fetch(i), "fetch", "mark") /\ UNCHANGED faults
      /\ UNCHANGED <<memory, raw>>
      /\ UNCHANGED <<jobVars, ghl, apiVars, canonical, status, docVars, submitted>>
  BY DEF FetchNothing
<1>2. Fetch(i) \in Job
  BY JobFacts DEF JobsOf
<1>3. /\ raw[i] \in Content \cup {Nothing} /\ raw' = [raw EXCEPT ![i] = raw[i]]
      /\ memory[Fetch(i)] \in Content \cup {Nothing}
      /\ memory' = [memory EXCEPT ![Fetch(i)] = memory[Fetch(i)]]
  BY <1>1, <1>2, FitsBefore DEF Typed
<1> QED
  BY <1>1, <1>3, FetchCallKeepsInv

LEMMA StoreFetchedKeepsInv ==
  ASSUME StagesInv, NEW i \in Invoice, StoreFetched(i)
  PROVE  StagesInv'
<1> DEFINE found == memory[Fetch(i)]
<1>1. /\ Goto(Fetch(i), "store", "mark") /\ UNCHANGED faults
      /\ raw' = [raw EXCEPT ![i] = found]
      /\ UNCHANGED <<jobVars, ghl, apiVars, canonical, status, docVars, submitted>>
      /\ UNCHANGED memory
  BY DEF StoreFetched
<1>2. Fetch(i) \in Job
  BY JobFacts DEF JobsOf
<1>3. /\ found \in Content \cup {Nothing} /\ found # Nothing
      /\ memory' = [memory EXCEPT ![Fetch(i)] = found]
  BY <1>1, <1>2, FitsBefore DEF Typed, RunInputs, Goto
<1> HIDE DEF found
<1> QED
  BY <1>1, <1>3, FetchCallKeepsInv

LEMMA FetchErrorDroppedKeepsInv ==
  ASSUME StagesInv, NEW i \in Invoice, FetchErrorDropped(i)
  PROVE  StagesInv'
<1>1. /\ Goto(Fetch(i), "fetch", "mark") \/ Goto(Fetch(i), "store", "mark")
      /\ Fault /\ UNCHANGED <<memory, raw>>
      /\ UNCHANGED <<jobVars, ghl, apiVars, canonical, status, docVars, submitted>>
  BY DEF FetchErrorDropped
<1>2. Fetch(i) \in Job
  BY JobFacts DEF JobsOf
<1>3. /\ raw[i] \in Content \cup {Nothing} /\ raw' = [raw EXCEPT ![i] = raw[i]]
      /\ memory[Fetch(i)] \in Content \cup {Nothing}
      /\ memory' = [memory EXCEPT ![Fetch(i)] = memory[Fetch(i)]]
  BY <1>1, <1>2, FitsBefore DEF Typed
<1> QED
  BY <1>1, <1>3, FetchCallKeepsInv

LEMMA StoreCanonicalKeepsInv ==
  ASSUME StagesInv, NEW i \in Invoice, StoreCanonical(i)
  PROVE  StagesInv'
<1>1. /\ Call(Map(i), "work", "mark")
      /\ canonical' = [canonical EXCEPT ![i] = memory[Map(i)]]
      /\ UNCHANGED <<jobVars, memory, ghl, apiVars, raw, status, docVars, submitted>>
  BY DEF StoreCanonical
<1>2. JobsOf(i) \subseteq Job /\ \A k \in Invoice \ {i} : JobsOf(k) \subseteq Job \ JobsOf(i)
  BY JobFacts
<1>3. /\ RunsInv' /\ at[Map(i)] = "work" /\ at'[Map(i)] \in {"mark", "thrown"}
      /\ \A k \in Job \ {Map(i)} : at'[k] = at[k]
      /\ UNCHANGED state
      /\ faults' = 0 => faults = 0 /\ at'[Map(i)] = "mark"
  BY <1>1, <1>2, CallEffect DEF JobsOf
<1>4. /\ Typed'
      /\ canonical'[i] = memory[Map(i)] /\ \A k \in Invoice \ {i} : canonical'[k] = canonical[k]
  BY <1>1, <1>2, FitsBefore DEF Typed, apiVars, docVars, JobsOf
<1>5. \A k \in Invoice \ {i} : Same(k)
  BY <1>1, <1>2, <1>3, <1>4 DEF Same, JobsOf, apiVars, docVars
<1>6. /\ at'[Fetch(i)] = at[Fetch(i)] /\ at'[Generate(i)] = at[Generate(i)]
      /\ at'[SubmitPdp(i)] = at[SubmitPdp(i)]
  BY <1>2, <1>3, JobFacts DEF JobsOf
<1>7. memory[Map(i)] # Nothing
  BY <1>3, FitsBefore DEF RunInputs
<1>8. InputsOf(i)' /\ RunPlaces(i)' 
  BY <1>1, <1>3, <1>4, <1>6, <1>7, FitsBefore DEF InputsOf, RunPlaces, docVars
<1>9. RunInputs(i)' /\ RunOutputs(i)'
  BY <1>1, <1>3, <1>4, <1>6, <1>7, FitsBefore DEF RunInputs, RunOutputs, docVars
<1>10. RequestsFit(i)'
  BY <1>1, <1>3, FitsBefore DEF RequestsFit, apiVars
<1>11. ASSUME faults' = 0 PROVE InOrder(i)' /\ StatusFits(i)'
  <2>1. InOrder(i) /\ StatusFits(i)
    BY <1>3, <1>11, FitsBefore
  <2>2. state[Map(i)] = "active"
    BY <1>2, <1>3, RunFacts, FitsBefore DEF JobsOf
  <2>3. InOrder(i)'
    BY <1>3, <1>6, <1>11, <2>1, <2>2 DEF InOrder, Past
  <2>4. StatusFits(i)'
    BY <1>1, <1>3, <1>6, <1>11, <2>1, <2>2 DEF StatusFits, Past
  <2> QED
    BY <2>3, <2>4
<1>12. Fits(i)'
  BY <1>8, <1>9, <1>10, <1>11, FitsAfter
<1> QED
  BY <1>3, <1>4, <1>5, <1>12, StepKeepsInv

\* updateInvoiceStatus at the end of a stage.
LEMMA MarkKeepsInv ==
  ASSUME StagesInv, NEW i \in Invoice, NEW j, NEW new,
         \/ j = Fetch(i) /\ new = "FETCHED"
         \/ j = Map(i) /\ new = "MAPPED"
         \/ j = Generate(i) /\ new = "GENERATED",
         Mark(j, i, new)
  PROVE  StagesInv'
<1>1. /\ Call(j, "mark", "next stage")
      /\ status' = [status EXCEPT ![i] = new]
      /\ UNCHANGED <<jobVars, memory, ghl, apiVars, raw, canonical, docVars, submitted>>
  BY DEF Mark
<1>2. /\ JobsOf(i) \subseteq Job /\ j \in JobsOf(i)
      /\ \A k \in Invoice \ {i} : JobsOf(k) \subseteq Job \ JobsOf(i)
  BY JobFacts DEF JobsOf
<1>3. /\ RunsInv' /\ at[j] = "mark" /\ at'[j] \in {"next stage", "thrown"}
      /\ \A k \in Job \ {j} : at'[k] = at[k]
      /\ UNCHANGED state
      /\ faults' = 0 => faults = 0 /\ at'[j] = "next stage"
  BY <1>1, <1>2, CallEffect
<1>4. /\ status'[i] = new /\ \A k \in Invoice \ {i} : status'[k] = status[k]
      /\ Typed'
  BY <1>1, FitsBefore DEF Typed, apiVars, docVars
<1>5. \A k \in Invoice \ {i} : Same(k)
  BY <1>1, <1>2, <1>3, <1>4 DEF Same, apiVars, docVars
<1>6. /\ j # Fetch(i) => at'[Fetch(i)] = at[Fetch(i)]
      /\ j # Map(i) => at'[Map(i)] = at[Map(i)]
      /\ j # Generate(i) => at'[Generate(i)] = at[Generate(i)]
      /\ at'[SubmitPdp(i)] = at[SubmitPdp(i)]
      /\ state[j] = "active" /\ new # "none"
  BY <1>2, <1>3, RunFacts, FitsBefore, DistinctJobs DEF JobsOf
<1>7. InputsOf(i)'
  BY <1>1, <1>3, <1>4, <1>6, FitsBefore DEF InputsOf, docVars
<1>8. RunPlaces(i)'
  BY <1>3, <1>6, FitsBefore, DistinctJobs DEF RunPlaces
<1>9. RunInputs(i)'
  BY <1>1, <1>3, <1>6, FitsBefore, DistinctJobs DEF RunInputs, docVars
<1>10. RunOutputs(i)'
  BY <1>1, <1>3, <1>6, FitsBefore, DistinctJobs DEF RunOutputs, JobsOf, docVars
<1>11. RequestsFit(i)'
  BY <1>1, <1>3, <1>4, <1>6, FitsBefore DEF RequestsFit, apiVars
<1>12. ASSUME faults' = 0 PROVE InOrder(i)' /\ StatusFits(i)'
  <2>1. InOrder(i) /\ StatusFits(i)
    BY <1>3, <1>12, FitsBefore
  <2>2. at'[j] = "next stage"
    BY <1>3, <1>12
  <2>3. InOrder(i)'
    BY <1>3, <1>6, <2>1, <2>2, DistinctJobs DEF InOrder, Past
  <2>4. CASE j = Fetch(i) /\ new = "FETCHED"
    <3>1. status'[i] = "FETCHED" /\ at'[Fetch(i)] = "next stage"
      BY <1>4, <2>2, <2>4
    <3> QED
      BY <2>3, <3>1 DEF StatusFits, Past
  <2>5. CASE j = Map(i) /\ new = "MAPPED"
    <3>1. at'[Fetch(i)] = at[Fetch(i)] /\ Past(Fetch(i), {"returned"})
      BY <1>2, <1>6, <2>1, <2>5, DistinctJobs DEF InOrder
    <3>2. status'[i] = "MAPPED" /\ at'[Map(i)] = "next stage"
      BY <1>4, <2>2, <2>5
    <3> QED
      BY <1>3, <2>3, <3>1, <3>2 DEF StatusFits, Past
  <2>6. CASE j = Generate(i) /\ new = "GENERATED"
    <3>1. /\ at'[Fetch(i)] = at[Fetch(i)] /\ at'[Map(i)] = at[Map(i)]
          /\ Past(Map(i), {"returned"})
      BY <1>2, <1>6, <2>1, <2>6, DistinctJobs DEF InOrder
    <3>2. state[Map(i)] # "absent"
      BY <1>2, <3>1, RunFacts, FitsBefore DEF Past, JobsOf
    <3>3. Past(Fetch(i), {"returned"})
      BY <2>1, <3>2 DEF InOrder
    <3>4. status'[i] = "GENERATED" /\ at'[Generate(i)] = "next stage"
      BY <1>4, <2>2, <2>6
    <3> QED
      BY <1>3, <2>3, <3>1, <3>3, <3>4 DEF StatusFits, Past
  <2> QED
    BY <2>3, <2>4, <2>5, <2>6
<1>13. Fits(i)'
  BY <1>7, <1>8, <1>9, <1>10, <1>11, <1>12, FitsAfter
<1> QED
  BY <1>3, <1>4, <1>5, <1>13, StepKeepsInv

\* The last call of a stage.
LEMMA EnqueueNextKeepsInv ==
  ASSUME StagesInv, NEW i \in Invoice, NEW j, NEW next,
         \/ j = Fetch(i) /\ next = Map(i)
         \/ j = Map(i) /\ next = Generate(i)
         \/ j = Generate(i) /\ next = SubmitPdp(i),
         EnqueueNext(j, next)
  PROVE  StagesInv'
<1>1. /\ Call(j, "next stage", "returned") /\ EnqueueOnce(next)
      /\ UNCHANGED <<memory, ghl, apiVars, raw, canonical, status, docVars, submitted>>
  BY DEF EnqueueNext
<1>2. /\ JobsOf(i) \subseteq Job /\ j \in JobsOf(i) /\ next \in JobsOf(i) /\ next # j
      /\ \A k \in Invoice \ {i} : JobsOf(k) \subseteq Job \ JobsOf(i)
  BY JobFacts DEF JobsOf
<1>3. /\ RunsInv' /\ at[j] = "next stage" /\ at'[j] \in {"returned", "thrown"}
      /\ \A k \in Job \ {j} : at'[k] = at[k]
      /\ \A k \in Job \ {next} : state'[k] = state[k]
      /\ state'[next] = IF state[next] = "absent" THEN "pending" ELSE state[next]
      /\ faults' = 0 => faults = 0 /\ at'[j] = "returned"
  BY <1>1, <1>2, EnqueueEffect
<1>4. Typed'
  BY <1>1, FitsBefore DEF Typed, apiVars, docVars
<1>5. \A k \in Invoice \ {i} : Same(k)
  BY <1>1, <1>2, <1>3 DEF Same, apiVars, docVars
<1>6. /\ j # Fetch(i) => at'[Fetch(i)] = at[Fetch(i)]
      /\ j # Map(i) => at'[Map(i)] = at[Map(i)]
      /\ j # Generate(i) => at'[Generate(i)] = at[Generate(i)]
      /\ at'[SubmitPdp(i)] = at[SubmitPdp(i)]
      /\ state'[Fetch(i)] = state[Fetch(i)]
      /\ next # Map(i) => state'[Map(i)] = state[Map(i)]
      /\ next # Generate(i) => state'[Generate(i)] = state[Generate(i)]
      /\ next # SubmitPdp(i) => state'[SubmitPdp(i)] = state[SubmitPdp(i)]
      /\ state[j] = "active"
  BY <1>2, <1>3, RunFacts, FitsBefore, DistinctJobs DEF JobsOf
<1>7. InputsOf(i)'
  BY <1>1, <1>3, <1>6, FitsBefore, DistinctJobs DEF InputsOf, RunOutputs, docVars
<1>8. RunPlaces(i)'
  BY <1>3, <1>6, FitsBefore, DistinctJobs DEF RunPlaces
<1>9. RunInputs(i)'
  BY <1>1, <1>3, <1>6, FitsBefore, DistinctJobs DEF RunInputs, docVars
<1>10. RunOutputs(i)'
  BY <1>1, <1>3, <1>6, FitsBefore, DistinctJobs DEF RunOutputs, JobsOf, docVars
<1>11. RequestsFit(i)'
  BY <1>1, <1>3, <1>6, FitsBefore, DistinctJobs DEF RequestsFit, apiVars
<1>12. ASSUME faults' = 0 PROVE InOrder(i)' /\ StatusFits(i)'
  <2>1. InOrder(i) /\ StatusFits(i) /\ at'[j] = "returned"
    BY <1>3, <1>12, FitsBefore
  <2>2. InOrder(i)'
    BY <1>3, <1>6, <2>1, DistinctJobs DEF InOrder, Past
  <2>3. StatusFits(i)'
    BY <1>1, <1>3, <1>6, <2>1, DistinctJobs DEF StatusFits, Past
  <2> QED
    BY <2>2, <2>3
<1>13. Fits(i)'
  BY <1>7, <1>8, <1>9, <1>10, <1>11, <1>12, FitsAfter
<1> QED
  BY <1>3, <1>4, <1>5, <1>13, StepKeepsInv

\* The first read of a stage finds its input.
LEMMA StartStageKeepsInv ==
  ASSUME StagesInv, NEW i \in Invoice, NEW j, NEW input,
         \/ j = Map(i) /\ input = raw[i]
         \/ j = Generate(i) /\ input = canonical[i]
         \/ j = SubmitPdp(i) /\ input = canonical[i],
         StartStage(j, input)
  PROVE  StagesInv'
<1> DEFINE first == IF input = Nothing THEN "thrown" ELSE "work"
<1>1. /\ Reserve(j, first)
      /\ memory' = [memory EXCEPT ![j] = input]
      /\ UNCHANGED <<ghl, apiVars, raw, canonical, status, docVars, submitted>>
  BY DEF StartStage
<1>2. /\ JobsOf(i) \subseteq Job /\ j \in JobsOf(i)
      /\ \A k \in Invoice \ {i} : JobsOf(k) \subseteq Job \ JobsOf(i)
  BY JobFacts DEF JobsOf
<1>3. /\ RunsInv' /\ at[j] = "none" /\ at'[j] = first
      /\ state[j] = "pending" /\ state'[j] = "active"
      /\ \A k \in Job \ {j} : at'[k] = at[k] /\ state'[k] = state[k]
      /\ UNCHANGED faults
  <2>1. first # "none" /\ j \in Job
    BY <1>2
  <2> HIDE DEF first
  <2> QED
    BY <1>1, <2>1, ReserveEffect
<1>4. input \in Content /\ input # Nothing
  BY <1>3, FitsBefore DEF InputsOf, Typed
<1>5. at'[j] = "work"
  BY <1>3, <1>4
<1> HIDE DEF first
<1>6. /\ memory'[j] = input /\ \A k \in Job \ {j} : memory'[k] = memory[k]
      /\ Typed'
  BY <1>1, <1>2, <1>4, FitsBefore DEF Typed, apiVars, docVars
<1>7. \A k \in Invoice \ {i} : Same(k)
  BY <1>1, <1>2, <1>3, <1>6 DEF Same, apiVars, docVars
<1>8. /\ at'[Fetch(i)] = at[Fetch(i)] /\ state'[Fetch(i)] = state[Fetch(i)]
      /\ memory'[Fetch(i)] = memory[Fetch(i)]
      /\ j # Map(i) => /\ at'[Map(i)] = at[Map(i)] /\ state'[Map(i)] = state[Map(i)]
                       /\ memory'[Map(i)] = memory[Map(i)]
      /\ j # Generate(i) => /\ at'[Generate(i)] = at[Generate(i)]
                            /\ state'[Generate(i)] = state[Generate(i)]
                            /\ memory'[Generate(i)] = memory[Generate(i)]
      /\ j # SubmitPdp(i) => /\ at'[SubmitPdp(i)] = at[SubmitPdp(i)]
                             /\ state'[SubmitPdp(i)] = state[SubmitPdp(i)]
                             /\ memory'[SubmitPdp(i)] = memory[SubmitPdp(i)]
  BY <1>2, <1>3, <1>6, DistinctJobs DEF JobsOf
<1>9. InputsOf(i)'
  BY <1>1, <1>3, <1>8, FitsBefore, DistinctJobs DEF InputsOf, docVars
<1>10. RunPlaces(i)'
  BY <1>5, <1>8, FitsBefore, DistinctJobs DEF RunPlaces
<1>11. RunInputs(i)'
  BY <1>1, <1>4, <1>5, <1>6, <1>8, FitsBefore, DistinctJobs DEF RunInputs, docVars
<1>12. RunOutputs(i)'
  BY <1>1, <1>5, <1>8, FitsBefore, DistinctJobs DEF RunOutputs, JobsOf, docVars
<1>13. RequestsFit(i)'
  BY <1>1, <1>3, <1>8, FitsBefore, DistinctJobs DEF RequestsFit, apiVars
<1>14. ASSUME faults' = 0 PROVE InOrder(i)' /\ StatusFits(i)'
  <2>1. InOrder(i) /\ StatusFits(i)
    BY <1>3, <1>14, FitsBefore
  <2>2. InOrder(i)'
    BY <1>3, <1>5, <1>8, <2>1, DistinctJobs DEF InOrder, Past
  <2>3. StatusFits(i)'
    BY <1>1, <1>3, <1>5, <1>8, <2>1, DistinctJobs DEF StatusFits, Past
  <2> QED
    BY <2>2, <2>3
<1>15. Fits(i)'
  BY <1>9, <1>10, <1>11, <1>12, <1>13, <1>14, FitsAfter
<1> QED
  BY <1>3, <1>6, <1>7, <1>15, StepKeepsInv

\* The calls of GENERATE_FACTURX that store the documents and their digests.
StoresOne(i, from, to) ==
    LET made == memory[Generate(i)] IN
    \/ /\ from = "work" /\ to = "xml"
       /\ pdf' = [pdf EXCEPT ![i] = made] /\ UNCHANGED <<xml, digests>>
    \/ /\ from = "xml" /\ to = "digests"
       /\ xml' = [xml EXCEPT ![i] = made] /\ UNCHANGED <<pdf, digests>>
    \/ /\ from = "digests" /\ to = "mark"
       /\ digests' = [digests EXCEPT ![i] = made] /\ UNCHANGED <<pdf, xml>>

LEMMA StoreDocumentKeepsInv ==
  ASSUME StagesInv, NEW i \in Invoice, NEW from, NEW to,
         Call(Generate(i), from, to), StoresOne(i, from, to),
         UNCHANGED <<jobVars, memory, ghl, apiVars, raw, canonical, status, parcel, submitted>>
  PROVE  StagesInv'
<1> DEFINE made == memory[Generate(i)]
<1>1. from # "none" /\ to # "none" /\ from \in {"work", "xml", "digests"}
  BY DEF StoresOne
<1>2. /\ JobsOf(i) \subseteq Job /\ Generate(i) \in Job
      /\ \A k \in Invoice \ {i} : JobsOf(k) \subseteq Job \ JobsOf(i)
  BY JobFacts DEF JobsOf
<1>3. /\ RunsInv' /\ at[Generate(i)] = from /\ at'[Generate(i)] \in {to, "thrown"}
      /\ \A k \in Job \ {Generate(i)} : at'[k] = at[k]
      /\ UNCHANGED state
      /\ faults' = 0 => faults = 0 /\ at'[Generate(i)] = to
  BY <1>1, <1>2, CallEffect
<1>4. made \in Content /\ made # Nothing
  BY <1>1, <1>2, <1>3, FitsBefore DEF Typed, RunInputs
<1>5. /\ pdf'[i] = IF from = "work" THEN made ELSE pdf[i]
      /\ xml'[i] = IF from = "xml" THEN made ELSE xml[i]
      /\ digests'[i] = IF from = "digests" THEN made ELSE digests[i]
      /\ \A k \in Invoice \ {i} : pdf'[k] = pdf[k] /\ xml'[k] = xml[k] /\ digests'[k] = digests[k]
      /\ Typed'
  BY <1>4, FitsBefore DEF StoresOne, Typed, apiVars
<1>6. /\ at'[Fetch(i)] = at[Fetch(i)] /\ at'[Map(i)] = at[Map(i)]
      /\ at'[SubmitPdp(i)] = at[SubmitPdp(i)] /\ state[Generate(i)] = "active"
  BY <1>1, <1>2, <1>3, DistinctJobs, RunFacts, FitsBefore DEF JobsOf
<1>7. \A k \in Invoice \ {i} : Same(k)
  BY <1>2, <1>3, <1>5 DEF Same, JobsOf, apiVars
<1>8. \/ from = "work" /\ to = "xml"
      \/ from = "xml" /\ to = "digests"
      \/ from = "digests" /\ to = "mark"
  BY DEF StoresOne
<1> HIDE DEF made
<1>9. InputsOf(i)'
  BY <1>3, <1>4, <1>5, FitsBefore DEF InputsOf
<1>10. RunPlaces(i)'
  BY <1>3, <1>6, <1>8, FitsBefore DEF RunPlaces
<1>11. RunInputs(i)'
  BY <1>3, <1>4, <1>6, <1>8, FitsBefore DEF RunInputs, made
<1>12. RunOutputs(i)'
  BY <1>3, <1>4, <1>5, <1>6, <1>8, FitsBefore DEF RunOutputs
<1>13. RequestsFit(i)'
  BY <1>3, FitsBefore DEF RequestsFit, apiVars
<1>14. ASSUME faults' = 0 PROVE InOrder(i)' /\ StatusFits(i)'
  <2>1. InOrder(i) /\ StatusFits(i) /\ at'[Generate(i)] = to
    BY <1>3, <1>14, FitsBefore
  <2>2. state[SubmitPdp(i)] = "absent" /\ at[SubmitPdp(i)] = "none"
    BY <1>2, <1>1, <1>3, <1>6, <2>1, RunFacts, FitsBefore DEF InOrder, Past, JobsOf
  <2>3. InOrder(i)'
    BY <1>3, <1>6, <1>8, <2>1, <2>2 DEF InOrder, Past
  <2>4. StatusFits(i)'
    BY <1>3, <1>6, <1>8, <2>1 DEF StatusFits, Past
  <2> QED
    BY <2>3, <2>4
<1>15. Fits(i)'
  BY <1>9, <1>10, <1>11, <1>12, <1>13, <1>14, FitsAfter
<1> QED
  BY <1>3, <1>5, <1>7, <1>15, StepKeepsInv

\* The reads of SUBMIT_PDP, which find what GENERATE_FACTURX stored.
LEMMA ReadArtifactKeepsInv ==
  ASSUME StagesInv, NEW i \in Invoice, NEW from, NEW to, NEW part, NEW found,
         \/ from = "work" /\ to = "pdf" /\ part = "digests" /\ found = digests[i]
         \/ from = "pdf" /\ to = "xml" /\ part = "pdf" /\ found = pdf[i]
         \/ from = "xml" /\ to = "send" /\ part = "xml" /\ found = xml[i],
         ReadArtifact(i, from, to, part, found)
  PROVE  StagesInv'
<1>1. /\ JobsOf(i) \subseteq Job /\ SubmitPdp(i) \in Job
      /\ \A k \in Invoice \ {i} : JobsOf(k) \subseteq Job \ JobsOf(i)
  BY JobFacts DEF JobsOf
<1>2. /\ parcel' = [parcel EXCEPT ![i][part] = found]
      /\ UNCHANGED <<jobVars, faults, memory, ghl, apiVars, raw, canonical, status,
                     pdf, xml, digests, submitted>>
  BY DEF ReadArtifact
<1>3. at[SubmitPdp(i)] = from /\ from # "none"
  BY DEF ReadArtifact, Goto
<1>4. state[SubmitPdp(i)] = "active"
  BY <1>1, <1>3, RunFacts, FitsBefore
<1>5. found # Nothing /\ found \in Content
  BY <1>4, FitsBefore DEF InputsOf, Typed
<1>6. Goto(SubmitPdp(i), from, to) /\ to # "none"
  BY <1>5 DEF ReadArtifact
<1>7. /\ RunsInv' /\ at'[SubmitPdp(i)] = to
      /\ \A k \in Job \ {SubmitPdp(i)} : at'[k] = at[k]
      /\ UNCHANGED state
  BY <1>1, <1>2, <1>3, <1>6, RunsBounded, CallKeepsRuns, GotoEffect, FitsBefore DEF jobVars
<1>8. /\ part \in {"digests", "pdf", "xml"} /\ parcel[i] \in Parcel
      /\ parcel'[i] = [parcel[i] EXCEPT ![part] = found]
      /\ \A k \in Invoice \ {i} : parcel'[k] = parcel[k]
      /\ DOMAIN parcel' = Invoice /\ parcel' = [k \in Invoice |-> parcel'[k]]
  BY <1>2, FitsBefore DEF Typed
<1>9. /\ parcel'[i] \in Parcel
      /\ parcel'[i].digests = IF part = "digests" THEN found ELSE parcel[i].digests
      /\ parcel'[i].pdf = IF part = "pdf" THEN found ELSE parcel[i].pdf
      /\ parcel'[i].xml = IF part = "xml" THEN found ELSE parcel[i].xml
  BY <1>5, <1>8 DEF Parcel
<1>10. Typed'
  <2>1. parcel' \in [Invoice -> Parcel]
    BY <1>8, <1>9, FitsBefore DEF Typed
  <2> QED
    BY <1>2, <2>1, FitsBefore DEF Typed, apiVars
<1>11. /\ at'[Fetch(i)] = at[Fetch(i)] /\ at'[Map(i)] = at[Map(i)]
       /\ at'[Generate(i)] = at[Generate(i)]
  BY <1>1, <1>7, DistinctJobs DEF JobsOf
<1>12. \A k \in Invoice \ {i} : Same(k)
  BY <1>1, <1>2, <1>7, <1>8 DEF Same, JobsOf, apiVars
<1>13. \/ from = "work" /\ to = "pdf" /\ part = "digests" /\ found = digests[i]
       \/ from = "pdf" /\ to = "xml" /\ part = "pdf" /\ found = pdf[i]
       \/ from = "xml" /\ to = "send" /\ part = "xml" /\ found = xml[i]
  OBVIOUS
<1>14. InputsOf(i)' /\ RunPlaces(i)'
  BY <1>2, <1>7, <1>11, <1>13, FitsBefore DEF InputsOf, RunPlaces
<1>15. RunInputs(i)' /\ RunOutputs(i)'
  BY <1>2, <1>3, <1>5, <1>7, <1>9, <1>11, <1>13, FitsBefore DEF RunInputs, RunOutputs
<1>16. RequestsFit(i)'
  BY <1>2, <1>7, FitsBefore DEF RequestsFit, apiVars
<1>17. ASSUME faults' = 0 PROVE InOrder(i)' /\ StatusFits(i)'
  <2>1. InOrder(i) /\ StatusFits(i)
    BY <1>2, <1>17, FitsBefore
  <2>2. InOrder(i)'
    BY <1>7, <1>11, <1>13, <2>1 DEF InOrder, Past
  <2>3. StatusFits(i)'
    BY <1>2, <1>3, <1>4, <1>7, <1>11, <1>13, <2>1 DEF StatusFits, Past
  <2> QED
    BY <2>2, <2>3
<1>18. Fits(i)'
  BY <1>14, <1>15, <1>16, <1>17, FitsAfter
<1> QED
  BY <1>2, <1>7, <1>10, <1>12, <1>18, StepKeepsInv

\* What has been read is sent.
LEMMA SendToPdpKeepsInv ==
  ASSUME StagesInv, NEW i \in Invoice, SendToPdp(i)
  PROVE  StagesInv'
<1> DEFINE sent == [invoice |-> i, data |-> memory[SubmitPdp(i)], documents |-> parcel[i]]
<1>1. /\ Call(SubmitPdp(i), "send", "mark")
      /\ submitted' = submitted \cup {sent}
      /\ parcel' = [parcel EXCEPT ![i] = NoParcel]
      /\ UNCHANGED <<jobVars, memory, ghl, apiVars, raw, canonical, status, pdf, xml, digests>>
  BY DEF SendToPdp
<1>2. /\ JobsOf(i) \subseteq Job /\ SubmitPdp(i) \in Job
      /\ \A k \in Invoice \ {i} : JobsOf(k) \subseteq Job \ JobsOf(i)
  BY JobFacts DEF JobsOf
<1>3. /\ RunsInv' /\ at[SubmitPdp(i)] = "send" /\ at'[SubmitPdp(i)] \in {"mark", "thrown"}
      /\ \A k \in Job \ {SubmitPdp(i)} : at'[k] = at[k]
      /\ UNCHANGED state
      /\ faults' = 0 => faults = 0 /\ at'[SubmitPdp(i)] = "mark"
  BY <1>1, <1>2, CallEffect
<1>4. /\ sent \in [invoice : Invoice, data : Content, documents : Parcel]
      /\ sent.invoice = i
  BY <1>2, <1>3, FitsBefore DEF Typed, RunInputs
<1>5. Typed' /\ \A k \in Invoice \ {i} : parcel'[k] = parcel[k]
  BY <1>1, <1>4, ContentFacts, FitsBefore DEF Typed, apiVars
<1>6. /\ at'[Fetch(i)] = at[Fetch(i)] /\ at'[Map(i)] = at[Map(i)]
      /\ at'[Generate(i)] = at[Generate(i)] /\ state[SubmitPdp(i)] = "active"
  BY <1>2, <1>3, DistinctJobs, RunFacts, FitsBefore DEF JobsOf
<1>7. \A k \in Invoice \ {i} : Same(k)
  BY <1>1, <1>2, <1>3, <1>4, <1>5 DEF Same, JobsOf, apiVars
<1>8. InputsOf(i)' /\ RunPlaces(i)'
  BY <1>1, <1>3, <1>6, FitsBefore DEF InputsOf, RunPlaces
<1>9. RunInputs(i)' /\ RunOutputs(i)'
  BY <1>1, <1>3, <1>6, FitsBefore DEF RunInputs, RunOutputs
<1>10. RequestsFit(i)'
  BY <1>1, <1>3, FitsBefore DEF RequestsFit, apiVars
<1>11. ASSUME faults' = 0 PROVE InOrder(i)' /\ StatusFits(i)'
  <2>1. InOrder(i) /\ StatusFits(i) /\ at'[SubmitPdp(i)] = "mark"
    BY <1>3, <1>11, FitsBefore
  <2>2. InOrder(i)'
    BY <1>3, <1>6, <2>1 DEF InOrder, Past
  <2>3. StatusFits(i)'
    BY <1>1, <1>3, <1>6, <2>1 DEF StatusFits, Past
  <2> QED
    BY <2>2, <2>3
<1>12. Fits(i)'
  BY <1>8, <1>9, <1>10, <1>11, FitsAfter
<1> QED
  BY <1>3, <1>5, <1>7, <1>12, StepKeepsInv

LEMMA MarkSubmittedKeepsInv ==
  ASSUME StagesInv, NEW i \in Invoice, MarkSubmitted(i)
  PROVE  StagesInv'
<1>1. /\ Call(SubmitPdp(i), "mark", "returned")
      /\ status' = [status EXCEPT ![i] = "SUBMITTED"]
      /\ UNCHANGED <<jobVars, memory, ghl, apiVars, raw, canonical, docVars, submitted>>
  BY DEF MarkSubmitted
<1>2. /\ JobsOf(i) \subseteq Job /\ SubmitPdp(i) \in Job
      /\ \A k \in Invoice \ {i} : JobsOf(k) \subseteq Job \ JobsOf(i)
  BY JobFacts DEF JobsOf
<1>3. /\ RunsInv' /\ at[SubmitPdp(i)] = "mark" /\ at'[SubmitPdp(i)] \in {"returned", "thrown"}
      /\ \A k \in Job \ {SubmitPdp(i)} : at'[k] = at[k]
      /\ UNCHANGED state
      /\ faults' = 0 => faults = 0 /\ at'[SubmitPdp(i)] = "returned"
  BY <1>1, <1>2, CallEffect
<1>4. /\ status'[i] = "SUBMITTED" /\ \A k \in Invoice \ {i} : status'[k] = status[k]
      /\ Typed'
  BY <1>1, FitsBefore DEF Typed, apiVars, docVars
<1>5. \A k \in Invoice \ {i} : Same(k)
  BY <1>1, <1>2, <1>3, <1>4 DEF Same, JobsOf, apiVars, docVars
<1>6. /\ at'[Fetch(i)] = at[Fetch(i)] /\ at'[Map(i)] = at[Map(i)]
      /\ at'[Generate(i)] = at[Generate(i)] /\ state[SubmitPdp(i)] = "active"
  BY <1>2, <1>3, DistinctJobs, RunFacts, FitsBefore DEF JobsOf
<1>7. InputsOf(i)' /\ RunPlaces(i)'
  BY <1>1, <1>3, <1>4, <1>6, FitsBefore DEF InputsOf, RunPlaces, docVars
<1>8. RunInputs(i)' /\ RunOutputs(i)'
  BY <1>1, <1>3, <1>6, FitsBefore DEF RunInputs, RunOutputs, docVars
<1>9. RequestsFit(i)'
  BY <1>1, <1>3, <1>4, FitsBefore DEF RequestsFit, apiVars
<1>10. ASSUME faults' = 0 PROVE InOrder(i)' /\ StatusFits(i)'
  <2>1. InOrder(i) /\ at'[SubmitPdp(i)] = "returned"
    BY <1>3, <1>10, FitsBefore
  <2>2. InOrder(i)'
    BY <1>3, <1>6, <2>1 DEF InOrder, Past
  <2>3. Past(Generate(i), {"returned"}) /\ Past(Map(i), {"returned"}) /\ Past(Fetch(i), {"returned"})
    <3>1. Past(Generate(i), {"returned"})
      BY <1>6, <2>1 DEF InOrder
    <3>2. state[Generate(i)] # "absent"
      BY <1>2, <3>1, RunFacts, FitsBefore DEF Past, JobsOf
    <3>3. Past(Map(i), {"returned"})
      BY <2>1, <3>2 DEF InOrder
    <3>4. state[Map(i)] # "absent"
      BY <1>2, <3>3, RunFacts, FitsBefore DEF Past, JobsOf
    <3> QED
      BY <2>1, <3>1, <3>3, <3>4 DEF InOrder
  <2>4. StatusFits(i)'
    BY <1>3, <1>4, <1>6, <2>1, <2>3 DEF StatusFits, Past
  <2> QED
    BY <2>2, <2>4
<1>11. Fits(i)'
  BY <1>7, <1>8, <1>9, <1>10, FitsAfter
<1> QED
  BY <1>3, <1>4, <1>5, <1>11, StepKeepsInv

-----------------------------------------------------------------------------
(***************************************************************************)
(* The end of a run, and its failures.                                     *)
(***************************************************************************)
LEMMA EndRunKeepsInv ==
  ASSUME StagesInv, NEW j \in Job, EndRun(j)
  PROVE  StagesInv'
<1>1. /\ Settle(j) /\ Forget({j})
      /\ UNCHANGED <<ghl, apiVars, raw, canonical, status, pdf, xml, digests, submitted>>
  BY DEF EndRun
<1>2. PICK i \in Invoice : j \in JobsOf(i)
  BY JobFacts
<1>3. /\ JobsOf(i) \subseteq Job
      /\ \A k \in Invoice \ {i} : JobsOf(k) \subseteq Job \ JobsOf(i)
  BY JobFacts
<1>4. RunsInv /\ RunsInv'
  BY <1>1, RunsBounded, SettleKeepsRuns, FitsBefore
<1>5. /\ at[j] \in {"returned", "thrown"} /\ at'[j] = "none"
      /\ state[j] = "active" /\ state'[j] # "absent"
      /\ at[j] = "returned" => state'[j] = "done"
      /\ \A k \in Job \ {j} : at'[k] = at[k] /\ state'[k] = state[k]
      /\ UNCHANGED faults
  BY <1>1, <1>4, GotoEffect
  DEF Settle, Finish, Retry, GiveUp, Move, RunsInv, RunsTypeOK, LifecycleTypeOK
<1>6. /\ memory' \in [Job -> Content \cup {Nothing}]
      /\ \A k \in Job \ {j} : memory'[k] = memory[k]
      /\ parcel' \in [Invoice -> Parcel]
      /\ \A k \in Invoice : SubmitPdp(k) # j => parcel'[k] = parcel[k]
  BY <1>1, ContentFacts, FitsBefore DEF Forget, Typed
<1>7. Typed'
  BY <1>1, <1>6, FitsBefore DEF Typed, apiVars
<1>8. \A k \in Invoice \ {i} : Same(k)
  BY <1>1, <1>2, <1>3, <1>5, <1>6 DEF Same, JobsOf, apiVars
<1>9. \A k \in JobsOf(i) \ {j} : at'[k] = at[k] /\ state'[k] = state[k] /\ memory'[k] = memory[k]
  BY <1>3, <1>5, <1>6
<1>10. InputsOf(i)'
  BY <1>1, <1>5, <1>9, FitsBefore DEF InputsOf, JobsOf
<1>11. RunPlaces(i)'
  BY <1>5, <1>9, FitsBefore DEF RunPlaces, JobsOf
<1>12. RunInputs(i)'
  <2>1. at'[SubmitPdp(i)] # "none" => parcel'[i] = parcel[i]
    BY <1>5, <1>6
  <2> QED
    BY <1>5, <1>9, <2>1, FitsBefore DEF RunInputs, JobsOf
<1>13. RunOutputs(i)'
  BY <1>1, <1>5, <1>9, FitsBefore DEF RunOutputs, JobsOf
<1>14. RequestsFit(i)'
  BY <1>1, <1>5, <1>9, FitsBefore DEF RequestsFit, apiVars, JobsOf
<1>15. ASSUME faults' = 0 PROVE InOrder(i)' /\ StatusFits(i)'
  <2>1. InOrder(i) /\ StatusFits(i)
    BY <1>5, <1>15, FitsBefore
  <2>2. at[j] = "returned" /\ state'[j] = "done"
    BY <1>2, <1>5, <2>1 DEF InOrder, JobsOf
  <2>3. InOrder(i)'
    BY <1>5, <1>9, <2>1, <2>2 DEF InOrder, Past, JobsOf
  <2>4. StatusFits(i)'
    BY <1>1, <1>5, <1>9, <2>1, <2>2 DEF StatusFits, Past, JobsOf
  <2> QED
    BY <2>3, <2>4
<1>16. Fits(i)'
  BY <1>10, <1>11, <1>12, <1>13, <1>14, <1>15, FitsAfter
<1> QED
  BY <1>4, <1>5, <1>7, <1>8, <1>16, StepKeepsInv

\* A fault that stops runs, loses them, or counts an attempt that nobody makes,
\* and changes nothing that is stored.
LEMMA RunsStoppedKeepsInv ==
  ASSUME StagesInv, RunsInv', Fault,
         UNCHANGED <<ghl, apiVars, raw, canonical, status, pdf, xml, digests, submitted>>,
         memory' \in [Job -> Content \cup {Nothing}], parcel' \in [Invoice -> Parcel],
         \A k \in Job : /\ at'[k] \in {at[k], "none", "thrown"}
                        /\ at'[k] = at[k] /\ at[k] # "none" => memory'[k] = memory[k]
                        /\ state'[k] = "absent" <=> state[k] = "absent",
         \A i \in Invoice : at'[SubmitPdp(i)] = at[SubmitPdp(i)] /\ at[SubmitPdp(i)] # "none" =>
                               parcel'[i] = parcel[i]
  PROVE  StagesInv'
<1>1. Typed'
  BY DEF StagesInv, Typed, apiVars
<1>2. ASSUME NEW i \in Invoice PROVE Fits(i)'
  <2>1. \A k \in JobsOf(i) : /\ at'[k] \in {at[k], "none", "thrown"}
                             /\ at'[k] = at[k] /\ at[k] # "none" => memory'[k] = memory[k]
                             /\ state'[k] = "absent" <=> state[k] = "absent"
    BY JobFacts
  <2>2. InputsOf(i)'
    BY <2>1, FitsBefore DEF InputsOf, JobsOf
  <2>3. RunPlaces(i)'
    BY <2>1, FitsBefore DEF RunPlaces, JobsOf
  <2>4. RunInputs(i)'
    BY <2>1, FitsBefore DEF RunInputs, JobsOf
  <2>5. RunOutputs(i)'
    BY <2>1, FitsBefore DEF RunOutputs, JobsOf
  <2>6. RequestsFit(i)'
    BY <2>1, FitsBefore DEF RequestsFit, JobsOf, apiVars
  <2>7. faults' # 0
    BY PipelineAssumption, FitsBefore DEF Fault, RunsInv, RunsTypeOK
  <2> QED
    BY <2>2, <2>3, <2>4, <2>5, <2>6, <2>7, FitsAfter
<1> QED
  BY <1>1, <1>2 DEF StagesInv

LEMMA CallRejectedKeepsInv ==
  ASSUME StagesInv, NEW j \in Job, CallRejected(j)
  PROVE  StagesInv'
<1>1. /\ CallFails(j)
      /\ UNCHANGED <<memory, ghl, apiVars, raw, canonical, status, docVars, submitted>>
  BY DEF CallRejected
<1>2. RunsInv' /\ RunsInv /\ Typed
  BY <1>1, RunsBounded, CallFailsKeepsRuns DEF StagesInv
<1>3. /\ Fault /\ UNCHANGED state
      /\ \A k \in Job : at'[k] \in {at[k], "none", "thrown"}
  BY <1>1, <1>2 DEF CallFails, RunsInv, RunsTypeOK
<1> QED
  BY <1>1, <1>2, <1>3, RunsStoppedKeepsInv DEF docVars, Typed

LEMMA ReservationUnansweredKeepsInv ==
  ASSUME StagesInv, NEW j \in Job, ReservationUnanswered(j)
  PROVE  StagesInv'
<1>1. /\ ReservationLost(j)
      /\ UNCHANGED <<memory, ghl, apiVars, raw, canonical, status, docVars, submitted>>
  BY DEF ReservationUnanswered
<1>2. RunsInv' /\ RunsInv /\ Typed
  BY <1>1, RunsBounded, ReservationLostKeepsRuns DEF StagesInv
<1>3. /\ Fault /\ UNCHANGED at
      /\ \A k \in Job : state'[k] = "absent" <=> state[k] = "absent"
  BY <1>1, <1>2 DEF ReservationLost, LoseReservation, Move, RunsInv, RunsTypeOK, LifecycleTypeOK
<1> QED
  BY <1>1, <1>2, <1>3, RunsStoppedKeepsInv DEF docVars, Typed

LEMMA WorkerCrashKeepsInv ==
  ASSUME StagesInv, WorkerCrash
  PROVE  StagesInv'
<1>1. PICK S \in SUBSET Active : RunsLost(S) /\ Forget(S)
  BY DEF WorkerCrash
<1>2. UNCHANGED <<ghl, apiVars, raw, canonical, status, pdf, xml, digests, submitted>>
  BY DEF WorkerCrash
<1>3. S \in SUBSET Job /\ \A k \in S : state[k] = "active"
  BY DEF Active
<1>4. RunsInv' /\ RunsInv /\ Typed
  BY <1>1, <1>3, RunsBounded, RunsLostKeepsRuns DEF StagesInv
<1>5. /\ memory' \in [Job -> Content \cup {Nothing}]
      /\ \A k \in Job \ S : memory'[k] = memory[k]
      /\ parcel' \in [Invoice -> Parcel]
      /\ \A i \in Invoice : SubmitPdp(i) \notin S => parcel'[i] = parcel[i]
  BY <1>1, <1>4, ContentFacts DEF Forget, Typed
<1>6. /\ Fault
      /\ \A k \in Job : at'[k] = IF k \in S THEN "none" ELSE at[k]
      /\ \A k \in Job : state'[k] = "absent" <=> state[k] = "absent"
  BY <1>1, <1>3, <1>4 DEF RunsLost, Abandon, RunsInv, RunsTypeOK, LifecycleTypeOK
<1>7. \A i \in Invoice : at'[SubmitPdp(i)] = at[SubmitPdp(i)] /\ at[SubmitPdp(i)] # "none" =>
                            parcel'[i] = parcel[i]
  BY <1>3, <1>4, <1>5, <1>6, JobFacts DEF JobsOf, RunsInv, RunsTypeOK
<1>8. \A k \in Job : at'[k] = at[k] /\ at[k] # "none" => memory'[k] = memory[k]
  BY <1>3, <1>4, <1>5, <1>6 DEF RunsInv, RunsTypeOK
<1> QED
  BY <1>2, <1>4, <1>5, <1>6, <1>7, <1>8, RunsStoppedKeepsInv

-----------------------------------------------------------------------------
(***************************************************************************)
(* GHL and the API.                                                        *)
(***************************************************************************)
\* GHL and the requests move, and what the stages have does not.
LEMMA OutsideKeepsInv ==
  ASSUME StagesInv, RunsInv', Typed', NEW i \in Invoice,
         \A k \in Invoice \ {i} : Same(k), faults' = 0 => faults = 0,
         UNCHANGED <<at, memory, canonical, docVars, submitted>>,
         \A k \in JobsOf(i) \ {Fetch(i)} : state'[k] = state[k],
         \/ state'[Fetch(i)] = state[Fetch(i)]
         \/ state[Fetch(i)] = "absent" /\ state'[Fetch(i)] = "pending",
         raw'[i] = raw[i] \/ raw'[i] # Nothing,
         \/ status'[i] = status[i]
         \/ status[i] = "none" /\ status'[i] = "NEW",
         state'[Fetch(i)] # "absent" => status'[i] # "none" /\ raw'[i] # Nothing,
         RequestsFit(i)'
  PROVE  StagesInv'
<1>1. /\ state'[Map(i)] = state[Map(i)] /\ state'[Generate(i)] = state[Generate(i)]
      /\ state'[SubmitPdp(i)] = state[SubmitPdp(i)]
  BY DistinctJobs DEF JobsOf
<1>2. InputsOf(i)' /\ RunPlaces(i)'
  BY <1>1, FitsBefore DEF InputsOf, RunPlaces, docVars
<1>3. RunInputs(i)' /\ RunOutputs(i)'
  BY FitsBefore DEF RunInputs, RunOutputs, docVars
<1>4. ASSUME faults' = 0 PROVE InOrder(i)' /\ StatusFits(i)'
  <2>1. InOrder(i) /\ StatusFits(i)
    BY <1>4, FitsBefore
  <2>2. InOrder(i)'
    BY <1>1, <2>1 DEF InOrder, Past
  <2>3. StatusFits(i)'
    BY <1>1, <2>1 DEF StatusFits, Past
  <2> QED
    BY <2>2, <2>3
<1>5. Fits(i)'
  BY <1>2, <1>3, <1>4, FitsAfter
<1> QED
  BY <1>5, StepKeepsInv

LEMMA RunsUntouched ==
  ASSUME StagesInv, UNCHANGED <<jobVars, at>>, UNCHANGED faults \/ Fault
  PROVE  RunsInv' /\ UNCHANGED <<state, at>> /\ (faults' = 0 => faults = 0)
<1>1. RunsInv
  BY DEF StagesInv
<1> QED
  BY <1>1, PipelineAssumption, FaultEffect
  DEF RunsInv, RunsTypeOK, LifecycleTypeOK, Fault, jobVars

LEMMA ChangeKeepsInv ==
  ASSUME StagesInv, NEW i \in Invoice, Change(i)
  PROVE  StagesInv'
<1>1. /\ ghl[i] < MaxVersion /\ ghl' = [ghl EXCEPT ![i] = ghl[i] + 1]
      /\ UNCHANGED <<runVars, memory, apiVars, raw, canonical, status, docVars, submitted>>
  BY DEF Change
<1>2. RunsInv' /\ UNCHANGED <<state, at>> /\ (faults' = 0 => faults = 0)
  BY <1>1, RunsUntouched DEF runVars, jobVars
<1>3. ghl[i] \in 0..MaxVersion
  BY FitsBefore DEF Typed
<1>4. ghl' \in [Invoice -> 0..MaxVersion]
  BY <1>1, <1>3, PipelineAssumption, FitsBefore DEF Typed
<1>5. Typed'
  BY <1>1, <1>4, FitsBefore DEF Typed, apiVars, docVars
<1>6. \A k \in Invoice \ {i} : Same(k)
  <2>1. \A k \in Invoice \ {i} : ghl'[k] = ghl[k]
    BY <1>1, FitsBefore DEF Typed
  <2> QED
    BY <1>1, <1>2, <2>1 DEF Same, apiVars, docVars
<1>7. RequestsFit(i)'
  <2>1. ghl'[i] # 0
    BY <1>1, <1>3, PipelineAssumption, FitsBefore DEF Typed
  <2> QED
    BY <1>1, <1>2, <2>1, FitsBefore DEF RequestsFit, apiVars
<1>8. state[Fetch(i)] # "absent" => status[i] # "none" /\ raw[i] # Nothing
  BY FitsBefore DEF InputsOf
<1>9. /\ UNCHANGED <<at, memory, raw, status, canonical, docVars, submitted>>
      /\ \A k \in JobsOf(i) \ {Fetch(i)} : state'[k] = state[k]
      /\ state'[Fetch(i)] = state[Fetch(i)] /\ raw'[i] = raw[i] /\ status'[i] = status[i]
  BY <1>1, <1>2
<1> QED
  BY <1>2, <1>5, <1>6, <1>7, <1>8, <1>9, OutsideKeepsInv

\* A request of invoice i makes its next call.
LEMMA RequestKeepsInv ==
  ASSUME StagesInv, RunsInv', faults' = 0 => faults = 0,
         NEW r \in Request, NEW i \in Invoice, i = Subject(r),
         NEW call \in {"none", "upsert", "enqueue", "answer"},
         request' = [request EXCEPT ![r] = call],
         UNCHANGED <<at, memory, ghl, canonical, docVars, submitted>>,
         call # "none" => ghl[i] # 0,
         call = "enqueue" => status'[i] # "none" /\ raw'[i] # Nothing,
         seen' \subseteq Webhook, answered' \subseteq Request,
         raw' \in [Invoice -> Content \cup {Nothing}],
         \A k \in Invoice \ {i} : raw'[k] = raw[k] /\ status'[k] = status[k],
         raw'[i] = raw[i] \/ raw'[i] # Nothing,
         status' \in [Invoice -> {"none", "NEW", "FETCHED", "MAPPED", "GENERATED", "SUBMITTED"}],
         \/ status'[i] = status[i]
         \/ status[i] = "none" /\ status'[i] = "NEW",
         \A k \in Job \ {Fetch(i)} : state'[k] = state[k],
         \/ state'[Fetch(i)] = state[Fetch(i)]
         \/ /\ request[r] = "enqueue"
            /\ state[Fetch(i)] = "absent" /\ state'[Fetch(i)] = "pending"
  PROVE  StagesInv'
<1>1. /\ JobsOf(i) \subseteq Job /\ Fetch(i) \in JobsOf(i)
      /\ \A k \in Invoice \ {i} : JobsOf(k) \subseteq Job \ JobsOf(i)
  <2>1. JobsOf(i) \subseteq Job /\ \A k \in Invoice \ {i} : JobsOf(i) \cap JobsOf(k) = {}
    BY JobFacts
  <2>2. \A k \in Invoice : JobsOf(k) \subseteq Job
    BY JobFacts
  <2>3. Fetch(i) \in JobsOf(i)
    BY DEF JobsOf
  <2> QED
    BY <2>1, <2>2, <2>3
<1>2. /\ request'[r] = call /\ \A q \in Request \ {r} : request'[q] = request[q]
      /\ Typed'
  BY FitsBefore DEF Typed, docVars
<1>3. \A k \in Invoice \ {i} : Same(k)
  BY <1>1, <1>2 DEF Same, docVars
<1>4. RequestsFit(i) /\ InputsOf(i)
  BY FitsBefore
<1>5. state'[Fetch(i)] # "absent" => status'[i] # "none" /\ raw'[i] # Nothing
  BY <1>4 DEF RequestsFit, InputsOf
<1>6. RequestsFit(i)'
  <2>1. ghl[i] = 0 => state'[Fetch(i)] = "absent"
    BY <1>4 DEF RequestsFit
  <2>2. ASSUME NEW q \in Request, Subject(q) = i
        PROVE  /\ request'[q] # "none" => ghl[i] # 0
               /\ request'[q] = "enqueue" => status'[i] # "none" /\ raw'[i] # Nothing
    BY <1>2, <1>4, <2>2 DEF RequestsFit
  <2> QED
    BY <2>1, <2>2 DEF RequestsFit
<1>7. \A k \in JobsOf(i) \ {Fetch(i)} : state'[k] = state[k]
  BY <1>1
<1>8. \/ state'[Fetch(i)] = state[Fetch(i)]
      \/ state[Fetch(i)] = "absent" /\ state'[Fetch(i)] = "pending"
  OBVIOUS
<1> QED
  BY <1>2, <1>3, <1>5, <1>6, <1>7, <1>8, OutsideKeepsInv

LEMMA ReceiveKeepsInv ==
  ASSUME StagesInv, NEW r \in Request, Receive(r)
  PROVE  StagesInv'
<1>1. UNCHANGED <<runVars, memory, ghl, raw, canonical, status, docVars, submitted>>
  BY DEF Receive
<1>2. RunsInv' /\ UNCHANGED <<state, at>> /\ (faults' = 0 => faults = 0)
  BY <1>1, RunsUntouched DEF runVars, jobVars
<1>3. /\ seen \subseteq Webhook /\ answered \subseteq Request /\ Subject(r) \in Invoice
      /\ raw \in [Invoice -> Content \cup {Nothing}]
      /\ status \in [Invoice -> {"none", "NEW", "FETCHED", "MAPPED", "GENERATED", "SUBMITTED"}]
      /\ ghl[Subject(r)] \in 0..MaxVersion /\ request[r] = "none"
      /\ request \in [Request -> {"none", "upsert", "enqueue", "answer"}]
  BY RequestFacts, FitsBefore DEF Typed, Receive
<1>4. ghl[Subject(r)] # 0
  BY <1>3, RequestFacts, PipelineAssumption DEF Receive
<1>5. /\ answered' \subseteq Request /\ seen' \subseteq Webhook
      /\ request' = [request EXCEPT ![r] = "none"] \/ request' = [request EXCEPT ![r] = "upsert"]
  BY <1>3, RequestFacts DEF Receive
<1> QED
  BY <1>1, <1>2, <1>3, <1>4, <1>5, RequestKeepsInv

LEMMA UpsertInvoiceKeepsInv ==
  ASSUME StagesInv, NEW r \in Request, UpsertInvoice(r)
  PROVE  StagesInv'
<1> DEFINE i == Subject(r)
           new == IF status[i] = "none" THEN "NEW" ELSE status[i]
<1>1. /\ request[r] = "upsert" /\ request' = [request EXCEPT ![r] = "enqueue"]
      /\ raw' = [raw EXCEPT ![i] = Body(r)]
      /\ status' = [status EXCEPT ![i] = new]
      /\ UNCHANGED <<runVars, memory, ghl, seen, answered, canonical, docVars, submitted>>
  BY DEF UpsertInvoice
<1>2. RunsInv' /\ UNCHANGED <<state, at>> /\ (faults' = 0 => faults = 0)
  BY <1>1, RunsUntouched DEF runVars, jobVars
<1>3. i \in Invoice /\ ghl[i] \in 1..MaxVersion
  <2>1. i \in Invoice
    BY RequestFacts
  <2> QED
    BY <1>1, <2>1, FitsBefore, PipelineAssumption DEF RequestsFit, Typed
<1>4. Body(r) \in Content /\ Body(r) # Nothing
  BY <1>3, RequestFacts, ContentFacts DEF Body
<1>5. /\ raw' \in [Invoice -> Content \cup {Nothing}]
      /\ raw'[i] # Nothing /\ \A k \in Invoice \ {i} : raw'[k] = raw[k]
  BY <1>1, <1>3, <1>4, FitsBefore DEF Typed
<1>6. /\ status[i] \in {"none", "NEW", "FETCHED", "MAPPED", "GENERATED", "SUBMITTED"}
      /\ status' \in [Invoice -> {"none", "NEW", "FETCHED", "MAPPED", "GENERATED", "SUBMITTED"}]
      /\ status'[i] = new /\ \A k \in Invoice \ {i} : status'[k] = status[k]
  BY <1>1, <1>3, FitsBefore DEF Typed
<1>7. /\ status'[i] # "none"
      /\ \/ status'[i] = status[i]
         \/ status[i] = "none" /\ status'[i] = "NEW"
  <2>1. CASE status[i] = "none"
    BY <1>6, <2>1
  <2>2. CASE status[i] # "none"
    BY <1>6, <2>2
  <2> QED
    BY <2>1, <2>2
<1>8. seen' \subseteq Webhook /\ answered' \subseteq Request /\ ghl[i] # 0
  BY <1>1, <1>3, FitsBefore DEF Typed
<1> HIDE DEF new
<1> QED
  BY <1>1, <1>2, <1>3, <1>5, <1>6, <1>7, <1>8, RequestKeepsInv

LEMMA EnqueueFetchKeepsInv ==
  ASSUME StagesInv, NEW r \in Request, EnqueueFetch(r)
  PROVE  StagesInv'
<1>1. /\ request[r] = "enqueue" /\ request' = [request EXCEPT ![r] = "answer"]
      /\ EnqueueOnce(Fetch(Subject(r)))
      /\ UNCHANGED <<at, faults, memory, ghl, seen, answered, raw, canonical, status,
                     docVars, submitted>>
  BY DEF EnqueueFetch
<1>2. Subject(r) \in Invoice /\ Fetch(Subject(r)) \in Job
  BY RequestFacts, JobFacts DEF JobsOf
<1>3. RunsInv /\ RunsInv'
  BY <1>1, <1>2, RunsBounded, EnqueueKeepsRuns, FitsBefore
<1>4. /\ \A k \in Job \ {Fetch(Subject(r))} : state'[k] = state[k]
      /\ \/ state'[Fetch(Subject(r))] = state[Fetch(Subject(r))]
         \/ state[Fetch(Subject(r))] = "absent" /\ state'[Fetch(Subject(r))] = "pending"
  BY <1>1, <1>2, <1>3 DEF EnqueueOnce, Submit, Move, RunsInv, RunsTypeOK, LifecycleTypeOK
<1>5. /\ seen' \subseteq Webhook /\ answered' \subseteq Request /\ ghl[Subject(r)] # 0
      /\ raw' \in [Invoice -> Content \cup {Nothing}]
      /\ status' \in [Invoice -> {"none", "NEW", "FETCHED", "MAPPED", "GENERATED", "SUBMITTED"}]
  BY <1>1, <1>2, FitsBefore DEF Typed, RequestsFit
<1> QED
  BY <1>1, <1>2, <1>3, <1>4, <1>5, RequestKeepsInv

\* A request is answered, or fails.
LEMMA RequestEndsKeepsInv ==
  ASSUME StagesInv, NEW r \in Request, Answer(r) \/ RequestFails(r)
  PROVE  StagesInv'
<1>1. /\ request' = [request EXCEPT ![r] = "none"]
      /\ UNCHANGED <<jobVars, at, memory, ghl, seen, raw, canonical, status, docVars, submitted>>
      /\ UNCHANGED faults \/ Fault
      /\ answered' \subseteq answered \cup {r}
  BY DEF Answer, RequestFails, runVars, jobVars
<1>2. RunsInv' /\ UNCHANGED <<state, at>> /\ (faults' = 0 => faults = 0)
  BY <1>1, RunsUntouched
<1>3. /\ seen' \subseteq Webhook /\ answered' \subseteq Request
      /\ raw' \in [Invoice -> Content \cup {Nothing}]
      /\ status' \in [Invoice -> {"none", "NEW", "FETCHED", "MAPPED", "GENERATED", "SUBMITTED"}]
  BY <1>1 DEF StagesInv, Typed
<1> QED
  BY <1>1, <1>2, <1>3, RequestFacts, RequestKeepsInv

-----------------------------------------------------------------------------
LEMMA StutterKeepsInv ==
  ASSUME StagesInv, UNCHANGED vars
  PROVE  StagesInv'
<1>1. RunsInv' /\ Typed' /\ (faults' = 0 => faults = 0)
  BY DEF StagesInv, vars, RunsInv, RunsTypeOK, LifecycleTypeOK, Typed
<1>2. \A k \in Invoice : Same(k)
  BY DEF vars, Same
<1>3. \A k \in Invoice : Fits(k)'
  BY <1>1, <1>2, SameFits DEF StagesInv
<1> QED
  BY <1>1, <1>3 DEF StagesInv

LEMMA StageKeepsInv ==
  ASSUME StagesInv, NEW i \in Invoice, WorkerStep(i)
  PROVE  StagesInv'
<1>1. CASE FetchStep(i)
  BY <1>1, StartFetchKeepsInv, FetchFromGhlKeepsInv, FetchNothingKeepsInv, StoreFetchedKeepsInv,
     MarkKeepsInv, EnqueueNextKeepsInv DEF FetchStep
<1>2. CASE MapStep(i)
  BY <1>2, StartStageKeepsInv, StoreCanonicalKeepsInv, MarkKeepsInv, EnqueueNextKeepsInv
  DEF MapStep
<1>3. CASE GenerateStep(i)
  <2>1. ASSUME StorePdf(i) \/ StoreXml(i) \/ InsertArtifacts(i) PROVE StagesInv'
    BY <2>1, StoreDocumentKeepsInv DEF StorePdf, StoreXml, InsertArtifacts, StoresOne
  <2> QED
    BY <1>3, <2>1, StartStageKeepsInv, MarkKeepsInv, EnqueueNextKeepsInv DEF GenerateStep
<1>4. CASE SubmitStep(i)
  BY <1>4, StartStageKeepsInv, ReadArtifactKeepsInv, SendToPdpKeepsInv, MarkSubmittedKeepsInv
  DEF SubmitStep
<1> QED
  BY <1>1, <1>2, <1>3, <1>4 DEF WorkerStep

LEMMA NextKeepsStages == StagesInv /\ [Next]_vars => StagesInv'
<1> SUFFICES ASSUME StagesInv, [Next]_vars PROVE StagesInv'
  OBVIOUS
<1>1. ASSUME NEW i \in Invoice, Change(i) \/ WorkerStep(i) \/ FetchErrorDropped(i)
      PROVE  StagesInv'
  BY <1>1, ChangeKeepsInv, StageKeepsInv, FetchErrorDroppedKeepsInv
<1>2. ASSUME NEW r \in Request, Receive(r) \/ ApiStep(r) \/ RequestFails(r)
      PROVE  StagesInv'
  BY <1>2, ReceiveKeepsInv, UpsertInvoiceKeepsInv, EnqueueFetchKeepsInv, RequestEndsKeepsInv
  DEF ApiStep
<1>3. ASSUME NEW j \in Job, EndRun(j) \/ CallRejected(j) \/ ReservationUnanswered(j)
      PROVE  StagesInv'
  BY <1>3, EndRunKeepsInv, CallRejectedKeepsInv, ReservationUnansweredKeepsInv
<1>4. CASE WorkerCrash
  BY <1>4, WorkerCrashKeepsInv
<1>5. CASE UNCHANGED vars
  BY <1>5, StutterKeepsInv
<1> QED
  BY <1>1, <1>2, <1>3, <1>4, <1>5 DEF Next

-----------------------------------------------------------------------------
(***************************************************************************)
(* One mapping: what a stage reads, stores and sends comes from the one    *)
(* canonical invoice.                                                      *)
(***************************************************************************)
\* Attempts are only added, and a run comes to "work" by one that is added.
RunsAdvance ==
    \A j \in Job : /\ tries[j] \in Nat /\ tries'[j] \in Nat /\ tries'[j] >= tries[j]
                   /\ at'[j] = "work" => at[j] = "work" \/ tries'[j] = tries[j] + 1

LEMMA TriesTyped ==
  ASSUME StagesInv
  PROVE  /\ tries \in [Job -> Nat] /\ DOMAIN at = Job
         /\ \A j \in Job : at[j] # "none" => tries[j] >= 1
  BY PipelineAssumption DEF StagesInv, RunsInv, RunsTypeOK, LifecycleTypeOK

LEMMA GotoAdvances ==
  ASSUME StagesInv, NEW j \in Job, NEW from, NEW to, to # "work", Goto(j, from, to),
         UNCHANGED tries
  PROVE  RunsAdvance
  BY TriesTyped DEF RunsAdvance, Goto

LEMMA StandingAdvances ==
  ASSUME StagesInv, UNCHANGED <<tries, at>>
  PROVE  RunsAdvance
  BY TriesTyped DEF RunsAdvance

LEMMA ReserveAdvances ==
  ASSUME StagesInv, NEW j \in Job, NEW first, Reserve(j, first)
  PROVE  RunsAdvance
  BY TriesTyped DEF RunsAdvance, Reserve, Start, Goto

LEMMA CallAdvances ==
  ASSUME StagesInv, NEW j \in Job, NEW from, NEW to, to # "work", Call(j, from, to),
         UNCHANGED tries
  PROVE  RunsAdvance
  BY GotoAdvances DEF Call

\* What the documents of invoice i are made of is passed on.
Passed(i) ==
    /\ canonical'[i] = canonical[i]
    /\ {memory'[Generate(i)], memory'[SubmitPdp(i)]} \subseteq
          {Nothing, canonical[i], memory[Generate(i)], memory[SubmitPdp(i)]}
    /\ {pdf'[i], xml'[i], digests'[i]} \subseteq
          {pdf[i], xml[i], digests[i], memory[Generate(i)]}
    /\ \A part \in {"digests", "pdf", "xml"} :
          parcel'[i][part] \in {Nothing, parcel[i][part], pdf[i], xml[i], digests[i]}
    /\ \A p \in submitted' : p.invoice = i => p \in submitted \/ p = Dispatch(i)

LEMMA PassedOn ==
  ASSUME NEW i \in Invoice, OneMapping(i), RunsAdvance, tries[Map(i)] <= 1 => Passed(i)
  PROVE  OneMapping(i)'
<1> SUFFICES ASSUME tries'[Map(i)] <= 1 PROVE OneMapping(i)'
  BY DEF OneMapping
<1>1. Map(i) \in Job
  BY JobFacts DEF JobsOf
<1>2. /\ tries[Map(i)] <= 1
      /\ tries'[Map(i)] = 0 \/ at'[Map(i)] = "work" => tries[Map(i)] = 0 \/ at[Map(i)] = "work"
  BY <1>1 DEF RunsAdvance
<1>3. Passed(i)
  BY <1>2
<1>4. Dispatch(i)' = Dispatch(i)
  BY <1>3 DEF Passed, Dispatch
<1>5. \A p \in submitted' : p.invoice = i => p = Dispatch(i)'
  BY <1>2, <1>3, <1>4 DEF Passed, OneMapping
<1>6. \A part \in {"digests", "pdf", "xml"} : parcel'[i][part] \in {Nothing, canonical[i]}
  BY <1>2, <1>3 DEF Passed, OneMapping
<1> QED
  BY <1>2, <1>3, <1>5, <1>6 DEF Passed, OneMapping

LEMMA JobsApart ==
  ASSUME NEW i \in Invoice, NEW k \in Invoice
  PROVE  /\ {Fetch(i), Map(i)} \cap {Generate(k), SubmitPdp(k)} = {}
         /\ Generate(i) # SubmitPdp(k)
         /\ Generate(i) = Generate(k) \/ SubmitPdp(i) = SubmitPdp(k) => i = k
  BY DEF Fetch, Map, Generate, SubmitPdp

\* A step that stores and sends no document.
LEMMA QuietStepKeepsMapping ==
  ASSUME RunsAdvance, NEW k \in Invoice, OneMapping(k),
         UNCHANGED <<canonical, pdf, xml, digests, submitted>>,
         {memory'[Generate(k)], memory'[SubmitPdp(k)]} \subseteq
            {Nothing, canonical[k], memory[Generate(k)], memory[SubmitPdp(k)]},
         parcel'[k] \in {parcel[k], NoParcel}
  PROVE  OneMapping(k)'
<1>1. \A part \in {"digests", "pdf", "xml"} : NoParcel[part] = Nothing
  BY DEF NoParcel
<1> QED
  BY <1>1, PassedOn DEF Passed

LEMMA FetchKeepsMapping ==
  ASSUME StagesInv, NEW i \in Invoice, FetchErrorDropped(i) \/ StartFetch(i) \/ FetchFromGhl(i)
                                      \/ FetchNothing(i) \/ StoreFetched(i),
         NEW k \in Invoice, OneMapping(k)
  PROVE  OneMapping(k)'
<1>1. Fetch(i) \in Job
  BY JobFacts DEF JobsOf
<1>2. RunsAdvance
  BY <1>1, ReserveAdvances, GotoAdvances
  DEF FetchErrorDropped, StartFetch, FetchFromGhl, FetchNothing, StoreFetched, jobVars
<1>3. memory' = memory \/ memory' = [memory EXCEPT ![Fetch(i)] = Full(i)]
  BY DEF FetchErrorDropped, StartFetch, FetchFromGhl, FetchNothing, StoreFetched
<1>4. memory'[Generate(k)] = memory[Generate(k)] /\ memory'[SubmitPdp(k)] = memory[SubmitPdp(k)]
  <2>1. \A j \in Job \ {Fetch(i)} : memory'[j] = memory[j]
    BY <1>3, FitsBefore DEF Typed
  <2> QED
    BY <2>1, JobsApart, JobFacts DEF JobsOf
<1>5. UNCHANGED <<canonical, pdf, xml, digests, parcel, submitted>>
  BY DEF FetchErrorDropped, StartFetch, FetchFromGhl, FetchNothing, StoreFetched, docVars
<1> QED
  BY <1>2, <1>4, <1>5, QuietStepKeepsMapping

LEMMA MarkAndEnqueueKeepMapping ==
  ASSUME StagesInv, NEW j \in Job, NEW i, NEW new, NEW next,
         Mark(j, i, new) \/ EnqueueNext(j, next),
         NEW k \in Invoice, OneMapping(k)
  PROVE  OneMapping(k)'
<1>1. RunsAdvance
  BY CallAdvances DEF Mark, EnqueueNext, EnqueueOnce, Submit, jobVars
<1>2. UNCHANGED <<memory, canonical, pdf, xml, digests, parcel, submitted>>
  BY DEF Mark, EnqueueNext, docVars
<1> QED
  BY <1>1, <1>2, QuietStepKeepsMapping

LEMMA StartStageKeepsMapping ==
  ASSUME StagesInv, NEW i \in Invoice, NEW j, NEW input,
         \/ j = Map(i) /\ input = raw[i]
         \/ j = Generate(i) /\ input = canonical[i]
         \/ j = SubmitPdp(i) /\ input = canonical[i],
         StartStage(j, input),
         NEW k \in Invoice, OneMapping(k)
  PROVE  OneMapping(k)'
<1>1. j \in Job
  BY JobFacts DEF JobsOf
<1>2. RunsAdvance
  BY <1>1, ReserveAdvances DEF StartStage
<1>3. memory' = [memory EXCEPT ![j] = input] /\ DOMAIN memory = Job
  BY FitsBefore DEF StartStage, Typed
<1>4. /\ memory'[Generate(k)] \in {memory[Generate(k)], canonical[k]}
      /\ memory'[SubmitPdp(k)] \in {memory[SubmitPdp(k)], canonical[k]}
  <2>1. \A q \in Job : memory'[q] = IF q = j THEN input ELSE memory[q]
    BY <1>3
  <2>2. /\ j = Generate(k) => input = canonical[k]
        /\ j = SubmitPdp(k) => input = canonical[k]
    BY JobsApart
  <2> QED
    BY <2>1, <2>2, JobFacts DEF JobsOf
<1>5. UNCHANGED <<canonical, pdf, xml, digests, parcel, submitted>>
  BY DEF StartStage, docVars
<1> QED
  BY <1>2, <1>4, <1>5, QuietStepKeepsMapping

\* The first run of MAP_CANONICAL finds nothing made of an earlier one.
LEMMA StoreCanonicalKeepsMapping ==
  ASSUME StagesInv, NEW i \in Invoice, StoreCanonical(i), NEW k \in Invoice, OneMapping(k)
  PROVE  OneMapping(k)'
<1>1. Map(i) \in Job
  BY JobFacts DEF JobsOf
<1>2. /\ at[Map(i)] = "work" /\ at'[Map(i)] # "work"
      /\ UNCHANGED <<tries, memory, pdf, xml, digests, parcel, submitted>>
      /\ canonical' = [canonical EXCEPT ![i] = memory[Map(i)]]
  BY <1>1, TriesTyped DEF StoreCanonical, Call, Goto, jobVars, docVars
<1>3. CASE k # i
  <2>1. RunsAdvance
    BY <1>1, <1>2, CallAdvances DEF StoreCanonical
  <2>2. Passed(k)
    BY <1>2, <1>3 DEF Passed
  <2> QED
    BY <2>1, <2>2, PassedOn
<1>4. CASE k = i
  <2> SUFFICES ASSUME tries[Map(i)] <= 1 PROVE OneMapping(i)'
    BY <1>2, <1>4 DEF OneMapping
  <2>1. canonical[i] = Nothing
    BY <1>2, <1>4 DEF OneMapping
  <2>2. /\ {memory[Generate(i)], memory[SubmitPdp(i)]} \subseteq {Nothing}
        /\ {pdf[i], xml[i], digests[i]} \subseteq {Nothing}
        /\ \A part \in {"digests", "pdf", "xml"} : parcel[i][part] = Nothing
    BY <1>4, <2>1 DEF OneMapping
  <2>3. \A p \in submitted : p.invoice # i
    BY <1>4, <2>1, FitsBefore, ContentFacts DEF OneMapping, Dispatch, Typed
  <2>4. tries[Map(i)] # 0
    BY <1>1, <1>2, TriesTyped
  <2> QED
    BY <1>2, <2>2, <2>3, <2>4 DEF OneMapping
<1> QED
  BY <1>3, <1>4

LEMMA StoreDocumentKeepsMapping ==
  ASSUME StagesInv, NEW i \in Invoice, StorePdf(i) \/ StoreXml(i) \/ InsertArtifacts(i),
         NEW k \in Invoice, OneMapping(k)
  PROVE  OneMapping(k)'
<1>1. RunsAdvance
  BY JobFacts, CallAdvances DEF StorePdf, StoreXml, InsertArtifacts, JobsOf, jobVars
<1>2. UNCHANGED <<memory, canonical, parcel, submitted>>
  BY DEF StorePdf, StoreXml, InsertArtifacts
<1>3. {pdf'[k], xml'[k], digests'[k]} \subseteq {pdf[k], xml[k], digests[k], memory[Generate(k)]}
  BY FitsBefore DEF StorePdf, StoreXml, InsertArtifacts, Typed
<1> QED
  BY <1>1, <1>2, <1>3, PassedOn DEF Passed

LEMMA ReadArtifactKeepsMapping ==
  ASSUME StagesInv, NEW i \in Invoice, NEW from, NEW to, NEW part \in {"digests", "pdf", "xml"},
         to # "work", NEW found \in {pdf[i], xml[i], digests[i]}, ReadArtifact(i, from, to, part, found),
         NEW k \in Invoice, OneMapping(k)
  PROVE  OneMapping(k)'
<1>1. RunsAdvance
  <2>1. SubmitPdp(i) \in Job
    BY JobFacts DEF JobsOf
  <2>2. \E end : end # "work" /\ Goto(SubmitPdp(i), from, end)
    BY DEF ReadArtifact
  <2> QED
    BY <2>1, <2>2, GotoAdvances DEF ReadArtifact, jobVars
<1>2. UNCHANGED <<memory, canonical, pdf, xml, digests, submitted>>
  BY DEF ReadArtifact
<1>3. ASSUME NEW q \in {"digests", "pdf", "xml"}
      PROVE  parcel'[k][q] \in {parcel[k][q], pdf[k], xml[k], digests[k]}
  <2>1. parcel' = [parcel EXCEPT ![i][part] = found] /\ parcel[k] \in Parcel /\ k \in DOMAIN parcel
    BY FitsBefore DEF ReadArtifact, Typed
  <2>2. CASE k = i
    <3>1. parcel'[k] = [parcel[k] EXCEPT ![part] = found]
      BY <2>1, <2>2
    <3> QED
      BY <2>1, <2>2, <3>1 DEF Parcel
  <2>3. CASE k # i
    BY <2>1, <2>3
  <2> QED
    BY <2>2, <2>3
<1> QED
  BY <1>1, <1>2, <1>3, PassedOn DEF Passed

LEMMA SendToPdpKeepsMapping ==
  ASSUME StagesInv, NEW i \in Invoice, SendToPdp(i), NEW k \in Invoice, OneMapping(k)
  PROVE  OneMapping(k)'
<1> DEFINE sent == [invoice |-> i, data |-> memory[SubmitPdp(i)], documents |-> parcel[i]]
<1>1. SubmitPdp(i) \in Job /\ at[SubmitPdp(i)] = "send"
  BY JobFacts DEF JobsOf, SendToPdp, Call, Goto
<1>2. RunsAdvance
  BY <1>1, CallAdvances DEF SendToPdp, jobVars
<1>3. /\ submitted' = submitted \cup {sent} /\ parcel' = [parcel EXCEPT ![i] = NoParcel]
      /\ UNCHANGED <<memory, canonical, pdf, xml, digests>>
  BY DEF SendToPdp
<1>4. ASSUME k = i, tries[Map(k)] <= 1 PROVE sent = Dispatch(k)
  <2>1. /\ memory[SubmitPdp(i)] # Nothing /\ parcel[i].digests # Nothing
        /\ parcel[i].pdf # Nothing /\ parcel[i].xml # Nothing /\ parcel[i] \in Parcel
    BY <1>1, FitsBefore DEF RunInputs, Typed
  <2>2. /\ memory[SubmitPdp(i)] = canonical[i] /\ parcel[i].digests = canonical[i]
        /\ parcel[i].pdf = canonical[i] /\ parcel[i].xml = canonical[i]
    BY <1>4, <2>1 DEF OneMapping
  <2>3. parcel[i] = [digests |-> canonical[i], pdf |-> canonical[i], xml |-> canonical[i]]
    BY <2>1, <2>2 DEF Parcel
  <2> QED
    BY <1>4, <2>2, <2>3 DEF Dispatch
<1>5. sent.invoice = i
  OBVIOUS
<1> HIDE DEF sent
<1>6. \A part \in {"digests", "pdf", "xml"} : parcel'[k][part] \in {Nothing, parcel[k][part]}
  BY <1>3, FitsBefore DEF NoParcel, Typed
<1>7. tries[Map(k)] <= 1 => Passed(k)
  BY <1>3, <1>4, <1>5, <1>6 DEF Passed
<1> QED
  BY <1>2, <1>7, PassedOn

LEMMA StageKeepsMapping ==
  ASSUME StagesInv, NEW i \in Invoice, WorkerStep(i), NEW k \in Invoice, OneMapping(k)
  PROVE  OneMapping(k)'
<1>1. JobsOf(i) \subseteq Job
  BY JobFacts
<1>2. CASE FetchStep(i)
  BY <1>1, <1>2, FetchKeepsMapping, MarkAndEnqueueKeepMapping DEF FetchStep, JobsOf
<1>3. CASE MapStep(i)
  BY <1>1, <1>3, StartStageKeepsMapping, StoreCanonicalKeepsMapping, MarkAndEnqueueKeepMapping
  DEF MapStep, JobsOf
<1>4. CASE GenerateStep(i)
  BY <1>1, <1>4, StartStageKeepsMapping, StoreDocumentKeepsMapping, MarkAndEnqueueKeepMapping
  DEF GenerateStep, JobsOf
<1>5. CASE SubmitStep(i)
  <2>1. CASE MarkSubmitted(i)
    <3>1. RunsAdvance /\ UNCHANGED <<memory, canonical, pdf, xml, digests, parcel, submitted>>
      BY <1>1, <2>1, CallAdvances DEF MarkSubmitted, JobsOf, jobVars, docVars
    <3> QED
      BY <3>1, QuietStepKeepsMapping
  <2> QED
    BY <1>5, <2>1, StartStageKeepsMapping, ReadArtifactKeepsMapping, SendToPdpKeepsMapping
    DEF SubmitStep
<1> QED
  BY <1>2, <1>3, <1>4, <1>5 DEF WorkerStep

LEMMA OutsideKeepsMapping ==
  ASSUME StagesInv, NEW k \in Invoice, OneMapping(k),
         \/ \E i \in Invoice : Change(i)
         \/ \E r \in Request : Receive(r) \/ ApiStep(r) \/ RequestFails(r)
         \/ UNCHANGED vars
  PROVE  OneMapping(k)'
<1>1. UNCHANGED <<tries, at, memory, canonical, pdf, xml, digests, parcel, submitted>>
  BY DEF Change, Receive, ApiStep, UpsertInvoice, EnqueueFetch, EnqueueOnce, Submit, Answer,
         RequestFails, vars, runVars, jobVars, docVars
<1> QED
  BY <1>1, StandingAdvances, QuietStepKeepsMapping

\* Runs that end, or are rejected or lost.
LEMMA EndingKeepsMapping ==
  ASSUME StagesInv, NEW k \in Invoice, OneMapping(k),
         \/ \E j \in Job : EndRun(j) \/ CallRejected(j) \/ ReservationUnanswered(j)
         \/ WorkerCrash
  PROVE  OneMapping(k)'
<1>1. /\ {memory'[Generate(k)], memory'[SubmitPdp(k)]} \subseteq
             {Nothing, memory[Generate(k)], memory[SubmitPdp(k)]}
      /\ parcel'[k] \in {parcel[k], NoParcel}
  BY JobFacts DEF EndRun, CallRejected, ReservationUnanswered, WorkerCrash, Forget, docVars, JobsOf
<1>2. UNCHANGED <<canonical, pdf, xml, digests, submitted>>
  BY DEF EndRun, CallRejected, ReservationUnanswered, WorkerCrash, docVars
<1>3. RunsAdvance
  <2>1. CASE \E j \in Job : EndRun(j)
    BY <2>1, GotoAdvances DEF EndRun, Settle, Finish, Retry, GiveUp
  <2>2. CASE \E j \in Job : CallRejected(j)
    BY <2>2, TriesTyped DEF CallRejected, CallFails, RunsAdvance
  <2>3. CASE \E j \in Job : ReservationUnanswered(j)
    BY <2>3, TriesTyped DEF ReservationUnanswered, ReservationLost, LoseReservation, RunsAdvance
  <2>4. CASE WorkerCrash
    BY <2>4, TriesTyped DEF WorkerCrash, RunsLost, Abandon, RunsAdvance
  <2> QED
    BY <2>1, <2>2, <2>3, <2>4
<1> QED
  BY <1>1, <1>2, <1>3, QuietStepKeepsMapping

LEMMA InitEstablishesInv == Init => PipelineInv
<1> SUFFICES ASSUME Init, NEW i \in Invoice PROVE OneMapping(i)
  BY InitEstablishesStages, PartsOfInv
<1>1. Generate(i) \in Job /\ SubmitPdp(i) \in Job
  BY JobFacts DEF JobsOf
<1> QED
  BY <1>1 DEF Init, OneMapping, NoParcel

LEMMA NextKeepsInv == PipelineInv /\ [Next]_vars => PipelineInv'
<1> SUFFICES ASSUME PipelineInv, [Next]_vars PROVE PipelineInv'
  OBVIOUS
<1>1. StagesInv /\ \A k \in Invoice : OneMapping(k)
  BY PartsOfInv
<1>2. ASSUME NEW k \in Invoice PROVE OneMapping(k)'
  BY <1>1, StageKeepsMapping, FetchKeepsMapping, OutsideKeepsMapping, EndingKeepsMapping DEF Next
<1>3. StagesInv'
  BY <1>1, NextKeepsStages
<1> QED
  BY <1>2, <1>3, PartsOfNextInv

(***************************************************************************)
(* The inductive invariant of the stages and the requests, whatever is     *)
(* retried, lost, repeated or overtaken.                                   *)
(***************************************************************************)
THEOREM PipelineInvariant == Spec => []PipelineInv
  BY InitEstablishesInv, NextKeepsInv, PTL DEF Spec

(***************************************************************************)
(* Type correctness of the tables, the artifact store, the requests, the   *)
(* jobs and what their runs have read.                                     *)
(***************************************************************************)
THEOREM TypeCorrectness == Spec => []TypeOK
<1>1. PipelineInv => TypeOK
  BY DEF PipelineInv
<1> QED
  BY <1>1, PipelineInvariant, PTL

(***************************************************************************)
(* No handler ever throws because the payload, the canonical invoice or a  *)
(* document that its stage reads is missing: the job of a stage is         *)
(* enqueued after what it needs was stored, and nothing takes that away.   *)
(***************************************************************************)
THEOREM NoInputIsMissing == Spec => []StageInputsExist
<1>1. PipelineInv => StageInputsExist
  BY DEF PipelineInv
<1> QED
  BY <1>1, PipelineInvariant, PTL

(***************************************************************************)
(* As long as MAP_CANONICAL was run once, the structured data, the two     *)
(* documents and the digests that SUBMIT_PDP sends are of the same version *)
(* of the invoice, whatever of the rest was retried, repeated or lost.     *)
(***************************************************************************)
THEOREM SubmissionsAreConsistent == Spec => []SubmissionIsConsistent
<1>1. PipelineInv => SubmissionIsConsistent
  <2> SUFFICES ASSUME PipelineInv, NEW p \in submitted, tries[Map(p.invoice)] = 1,
                      NEW part \in {"digests", "pdf", "xml"}
               PROVE  p.documents[part] = p.data
    BY DEF SubmissionIsConsistent
  <2>1. p.invoice \in Invoice
    BY DEF PipelineInv, TypeOK
  <2>2. p = Dispatch(p.invoice)
    BY <2>1 DEF PipelineInv, OneMapping
  <2>3. Dispatch(p.invoice).documents[part] = Dispatch(p.invoice).data
    BY DEF Dispatch
  <2> QED
    BY <2>2, <2>3
<1> QED
  BY <1>1, PipelineInvariant, PTL

-----------------------------------------------------------------------------
(***************************************************************************)
(* invoices.status.                                                        *)
(***************************************************************************)
LEMMA Ranks ==
  /\ Rank("none") = 1 /\ Rank("NEW") = 2 /\ Rank("FETCHED") = 3
  /\ Rank("MAPPED") = 4 /\ Rank("GENERATED") = 5 /\ Rank("SUBMITTED") = 6
<1> DEFINE stages == <<"none", "NEW", "FETCHED", "MAPPED", "GENERATED", "SUBMITTED">>
<1>1. \A m \in 1..6 : \A n \in 1..6 : stages[m] = stages[n] => m = n
  OBVIOUS
<1>2. ASSUME NEW n \in 1..6 PROVE Rank(stages[n]) = n
  <2>1. \E m \in 1..6 : stages[m] = stages[n]
    OBVIOUS
  <2> HIDE DEF stages
  <2>2. Rank(stages[n]) = CHOOSE m \in 1..6 : stages[m] = stages[n]
    BY DEF Rank, stages
  <2> QED
    BY <1>1, <2>1, <2>2
<1>3. /\ Rank(stages[1]) = 1 /\ Rank(stages[2]) = 2 /\ Rank(stages[3]) = 3
      /\ Rank(stages[4]) = 4 /\ Rank(stages[5]) = 5 /\ Rank(stages[6]) = 6
  <2> HIDE DEF stages
  <2> QED
    BY <1>2
<1>4. /\ stages[1] = "none" /\ stages[2] = "NEW" /\ stages[3] = "FETCHED"
      /\ stages[4] = "MAPPED" /\ stages[5] = "GENERATED" /\ stages[6] = "SUBMITTED"
  OBVIOUS
<1> HIDE DEF stages
<1> QED
  BY <1>3, <1>4

\* A stage marks its status once, after the stages before it and before the later ones.
LEMMA MarkMovesForward ==
  ASSUME StagesInv, faults = 0, NEW i \in Invoice, NEW j, NEW new,
         \/ j = Fetch(i) /\ new = "FETCHED"
         \/ j = Map(i) /\ new = "MAPPED"
         \/ j = Generate(i) /\ new = "GENERATED"
         \/ j = SubmitPdp(i) /\ new = "SUBMITTED",
         at[j] = "mark"
  PROVE  Rank(new) >= Rank(status[i])
<1> DEFINE stages == {"none", "NEW", "FETCHED", "MAPPED", "GENERATED", "SUBMITTED"}
<1>1. status[i] \in stages /\ StatusFits(i) /\ RunsInv
  BY FitsBefore DEF Typed
<1>2. j \in Job
  BY JobFacts DEF JobsOf
<1>3. ~Past(j, {"next stage", "returned"})
  BY <1>1, <1>2, RunFacts DEF Past
<1>4. CASE j = Fetch(i) /\ new = "FETCHED"
  <2>1. status[i] \in {"none", "NEW"}
    BY <1>1, <1>3, <1>4 DEF StatusFits
  <2> QED
    BY <1>4, <2>1, Ranks
<1>5. CASE j = Map(i) /\ new = "MAPPED"
  <2>1. status[i] \in {"none", "NEW", "FETCHED"}
    BY <1>1, <1>3, <1>5 DEF StatusFits
  <2> QED
    BY <1>5, <2>1, Ranks
<1>6. CASE j = Generate(i) /\ new = "GENERATED"
  <2>1. status[i] \in {"none", "NEW", "FETCHED", "MAPPED"}
    BY <1>1, <1>3, <1>6 DEF StatusFits
  <2> QED
    BY <1>6, <2>1, Ranks
<1>7. CASE j = SubmitPdp(i) /\ new = "SUBMITTED"
  BY <1>1, <1>7, Ranks
<1> QED
  BY <1>4, <1>5, <1>6, <1>7

\* What a step of a stage does to the statuses.
LEMMA StageMovesForward ==
  ASSUME StagesInv, NEW i \in Invoice, WorkerStep(i), faults' = 0
  PROVE  \/ UNCHANGED status
         \/ \E new : Rank(new) >= Rank(status[i]) /\ status' = [status EXCEPT ![i] = new]
<1>1. JobsOf(i) \subseteq Job
  BY JobFacts
<1>2. ASSUME NEW j, NEW new, NEW to, to # "none",
             \/ j = Fetch(i) /\ new = "FETCHED"
             \/ j = Map(i) /\ new = "MAPPED"
             \/ j = Generate(i) /\ new = "GENERATED"
             \/ j = SubmitPdp(i) /\ new = "SUBMITTED",
             Call(j, "mark", to), UNCHANGED jobVars, status' = [status EXCEPT ![i] = new]
      PROVE  Rank(new) >= Rank(status[i])
  <2>1. j \in Job
    BY <1>1, <1>2 DEF JobsOf
  <2>2. at[j] = "mark" /\ faults = 0
    BY <1>2, <2>1, CallEffect
  <2> QED
    BY <1>2, <2>2, MarkMovesForward
<1>3. CASE FetchStep(i)
  <2>1. CASE Mark(Fetch(i), i, "FETCHED")
    BY <1>2, <2>1 DEF Mark
  <2> QED
    BY <1>3, <2>1 DEF FetchStep, StartFetch, FetchFromGhl, FetchNothing, StoreFetched,
                       EnqueueNext
<1>4. CASE MapStep(i)
  <2>1. CASE Mark(Map(i), i, "MAPPED")
    BY <1>2, <2>1 DEF Mark
  <2> QED
    BY <1>4, <2>1 DEF MapStep, StartStage, StoreCanonical, EnqueueNext
<1>5. CASE GenerateStep(i)
  <2>1. CASE Mark(Generate(i), i, "GENERATED")
    BY <1>2, <2>1 DEF Mark
  <2> QED
    BY <1>5, <2>1 DEF GenerateStep, StartStage, StorePdf, StoreXml, InsertArtifacts, EnqueueNext
<1>6. CASE SubmitStep(i)
  <2>1. CASE MarkSubmitted(i)
    BY <1>2, <2>1 DEF MarkSubmitted
  <2> QED
    BY <1>6, <2>1 DEF SubmitStep, StartStage, ReadArtifact, SendToPdp
<1> QED
  BY <1>3, <1>4, <1>5, <1>6 DEF WorkerStep

LEMMA UpsertMovesForward ==
  ASSUME NEW r \in Request, UpsertInvoice(r)
  PROVE  \E new : /\ Rank(new) >= Rank(status[Subject(r)]) \/ new = status[Subject(r)]
                  /\ status' = [status EXCEPT ![Subject(r)] = new]
<1> DEFINE old == status[Subject(r)]
           new == IF old = "none" THEN "NEW" ELSE old
<1>1. status' = [status EXCEPT ![Subject(r)] = new]
  BY DEF UpsertInvoice
<1>2. Rank(new) >= Rank(old) \/ new = old
  <2>1. CASE old = "none"
    <3>1. new = "NEW"
      BY <2>1
    <3> HIDE DEF new, old
    <3> QED
      BY <2>1, <3>1, Ranks
  <2>2. CASE old # "none"
    BY <2>2
  <2> QED
    BY <2>1, <2>2
<1> HIDE DEF new
<1> QED
  BY <1>1, <1>2

LEMMA StepMovesForward ==
  ASSUME StagesInv, [Next]_vars, faults' = 0, NEW k \in Invoice
  PROVE  Rank(status'[k]) >= Rank(status[k])
<1>1. Rank(status[k]) \in Nat /\ status \in [Invoice -> {"none", "NEW", "FETCHED", "MAPPED",
                                                        "GENERATED", "SUBMITTED"}]
  <2>1. status \in [Invoice -> {"none", "NEW", "FETCHED", "MAPPED", "GENERATED", "SUBMITTED"}]
    BY DEF StagesInv, Typed
  <2>2. status[k] \in {"none", "NEW", "FETCHED", "MAPPED", "GENERATED", "SUBMITTED"}
    BY <2>1
  <2> QED
    BY <2>1, <2>2, Ranks
<1>2. CASE UNCHANGED status
  BY <1>1, <1>2
<1>3. ASSUME NEW i \in Invoice, NEW new, Rank(new) >= Rank(status[i]) \/ new = status[i],
             status' = [status EXCEPT ![i] = new]
      PROVE  Rank(status'[k]) >= Rank(status[k])
  <2>1. CASE k = i
    BY <1>1, <1>3, <2>1
  <2>2. CASE k # i
    BY <1>1, <1>3, <2>2
  <2> QED
    BY <2>1, <2>2
<1>4. ASSUME NEW i \in Invoice, WorkerStep(i) PROVE Rank(status'[k]) >= Rank(status[k])
  <2>1. \/ UNCHANGED status
        \/ \E new : Rank(new) >= Rank(status[i]) /\ status' = [status EXCEPT ![i] = new]
    BY <1>4, StageMovesForward
  <2> QED
    BY <1>2, <1>3, <2>1
<1>5. ASSUME NEW i \in Invoice, Change(i) \/ FetchErrorDropped(i) PROVE UNCHANGED status
  BY <1>5 DEF Change, FetchErrorDropped
<1>6. ASSUME NEW r \in Request, UpsertInvoice(r) PROVE Rank(status'[k]) >= Rank(status[k])
  <2>1. Subject(r) \in Invoice
    BY RequestFacts
  <2> QED
    BY <1>3, <1>6, <2>1, UpsertMovesForward
<1>7. ASSUME NEW r \in Request, Receive(r) \/ EnqueueFetch(r) \/ Answer(r) \/ RequestFails(r)
      PROVE  UNCHANGED status
  BY <1>7 DEF Receive, EnqueueFetch, Answer, RequestFails
<1>8. ASSUME NEW j \in Job, EndRun(j) \/ CallRejected(j) \/ ReservationUnanswered(j)
      PROVE  UNCHANGED status
  BY <1>8 DEF EndRun, CallRejected, ReservationUnanswered
<1>9. CASE WorkerCrash
  BY <1>2, <1>9 DEF WorkerCrash
<1>10. CASE UNCHANGED vars
  BY <1>2, <1>10 DEF vars
<1> QED
  BY <1>2, <1>4, <1>5, <1>6, <1>7, <1>8, <1>9, <1>10 DEF Next, ApiStep

(***************************************************************************)
(* As long as nothing has failed, invoices.status never moves back: each   *)
(* stage marks its status once, before the stage after it exists, and a    *)
(* later request finds the row there and leaves its status alone.          *)
(***************************************************************************)
THEOREM StatusAdvances == Spec => StatusMovesForward
<1> DEFINE Forward == faults' = 0 => \A i \in Invoice : Rank(status'[i]) >= Rank(status[i])
<1>1. PipelineInv /\ [Next]_vars => [Forward]_vars
  BY PartsOfInv, StepMovesForward
<1> QED
  BY <1>1, PipelineInvariant, PTL DEF Spec, StatusMovesForward
=============================================================================
