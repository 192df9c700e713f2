# Verification of CrocoTax

CrocoTax takes invoices from GHL (GoHighLevel, "CrocoClick"), turns them into
Factur-X documents, submits them to an accredited platform (the PDP) and keeps
the status in sync. The program is a Fastify API, a worker with a job queue in
Postgres, and two remote services. Nothing in it holds a lock longer than a
statement (except one `SELECT ... FOR UPDATE`), every handler is a chain of
awaited calls that can be cut anywhere, and the only coordination between the
parts is the rows they write. That is what these modules are about.

## 1. The system

| Component | State it keeps | Operations | Talks to |
|---|---|---|---|
| Job queue, `packages/queue` | table `jobs`: status, attempts, run_at, unique (tenant, type, key) | `enqueue`, `reserveNext`, `complete`, `fail` | Postgres |
| Worker loop, `apps/worker/src/worker.ts` | the runs of `processOnce` in flight | `processOnce`, `startWorker` (`setInterval`, not waiting for the previous run) | queue, handlers |
| Pipeline handlers | `invoices` (raw, canonical, status), `invoice_artifacts`, two stored objects | `FETCH_INVOICE`, `MAP_CANONICAL`, `GENERATE_FACTURX`, `SUBMIT_PDP` | GHL, Factur-X, storage, PDP, queue |
| Submission and sync | `pdp_submissions`, `invoices.status` | `SUBMIT_PDP`, `SYNC_STATUS`, `RECONCILE_PDP`, the reconciliation timer | PDP, GHL, queue |
| API, `apps/api` | `idempotency_keys`, `invoices`, `tenant_secrets`, a rate counter in memory | webhook, send-invoice action, PDP settings, list of invoices, other reads | queue, Postgres |
| Tenant secrets, `packages/config/src/secrets.ts` | `tenant_secrets`: two ciphertexts, one nonce, one version | `encryptSecret`, `decryptSecret`, `getTenantSecrets` | API settings, seed and create-tenant scripts, handlers |
| GHL mapper, canonical schema | none | `mapGhlToCanonical` | `MAP_CANONICAL` |
| Factur-X totals, CII, PDF | a working directory per call | `computeInvoiceTotals`, `buildCiiXml`, `generate` | `GENERATE_FACTURX` |
| PDP clients | none | `submit`, `getStatus` (mock, HTTP, SUPER PDP) | `SUBMIT_PDP`, `SYNC_STATUS` |
| Migrations, `scripts/migrate.ts` | `schema_migrations` | `runMigrations`, run by hand at each deployment | Postgres |
| Portal, `apps/portal` | the form of the settings page, `localStorage`, the rows a page has loaded | dashboard, list, detail, settings; a proxy to the API | API |
| Storage, audit, metrics, other scripts | objects, `audit_log`, counters, none | puts and reads | - |

Interaction: a request of the API upserts the invoice and enqueues
`FETCH_INVOICE`; each stage enqueues the next one as its last call, under an
idempotency key that names the invoice; `SUBMIT_PDP` enqueues the first
`SYNC_STATUS`, which enqueues itself again while the PDP has not decided;
a timer enqueues `RECONCILE_PDP`, which enqueues `SYNC_STATUS` for submissions
that have not been looked at for a while.

What is hard here:

- overlapping runs, in one process and in several, between any two awaits;
- a crash, a rejected statement or a lost answer between any two calls, after
  which the job is retried from the start or is never taken up again;
- idempotency keys that are kept for ever and make an enqueue a no-op;
- the raw payload, the documents and the status being written by several
  actors without conditions;
- two sources of the same status (row, invoice, GHL) updated one after the
  other with an answer that may be old by then;
- one nonce and one version for two ciphertexts, and a master key that each
  process has from its own environment;
- a page whose buttons stay enabled, so that its requests overlap;
- a migration whose success is recorded by a statement of its own, and nothing
  that keeps two runs apart;
- a cursor that is less exact than the order it is a place in.

What makes each component correct, in a sentence: the queue runs a job once at
a time, at most `max_attempts` times, and loses only what a fault orphans; a
stage never starts without its input, and the pipeline goes on to its end; what
is submitted was fetched and fits together; an invoice is submitted once; the
status shown is one the PDP gave, and eventually the last one it gave; an event
that is acknowledged is not lost; a secret that was stored can be read; a page
that says it has loaded shows what was saved; a walk through the list gets each
invoice once; migrations are applied in order and once. Section 4 says which of
these hold, and how far.

`PROJECT.json` lists the hazards line by line with the property that covers
each.

## 2. Modules

| Module | Models | Uses |
|---|---|---|
| `JobLifecycle` | abstract promise of the queue: a job's life, without rows or processes | - |
| `JobQueue` | `DbQueue` statement by statement, `processOnce`, `startWorker`, faults; the handlers are opaque | `JobLifecycle` (refinement) |
| `JobQueueProofs` | theorems about `JobQueue` | `JobQueue` |
| `HandlerRuns` | handlers as chains of calls that can fail, on top of `JobLifecycle`; lemmas on what they keep of runs and attempts | `JobLifecycle` |
| `StatusSync` | `SUBMIT_PDP`, `SYNC_STATUS`, `RECONCILE_PDP`, PDP, GHL | `HandlerRuns` |
| `StatusSyncProofs` | theorems about `StatusSync` | `StatusSync` |
| `MCStatusSync` | the courses a status takes at the PDP, for TLC | `StatusSync` |
| `Pipeline` | webhook, send-invoice action and the four stages | `HandlerRuns` |
| `PipelineProofs` | theorems about `Pipeline` | `Pipeline` |
| `InvoiceTotals` | the amounts of an invoice through mapper, schema, totals and XML | - |
| `InvoiceTotalsProofs` | sums over functions and roundings, and theorems about `InvoiceTotals` | `InvoiceTotals` |
| `MCInvoiceTotals` | lines and offsets of reported totals, for TLC | `InvoiceTotals` |
| `Settings` | `tenant_secrets`, the scripts and requests that write it, the workers that read it, and the settings page | - |
| `MCSettings` | the symmetry of keys and requests, for TLC | `Settings` |
| `SettingsProofs` | theorems about the row of `tenant_secrets` and the page | `Settings` |
| `InvoicePages` | `GET /api/v1/invoices` page by page, and what the portal counts | - |
| `InvoicePagesProofs` | theorems about `InvoicePages` | `InvoicePages` |
| `Migrations` | `migrate.ts` and the four files of `migrations/` | - |
| `MigrationsProofs` | theorems about `Migrations` | `Migrations` |

The composition is by refinement: `JobQueue` is shown (by TLC and by proof) to
implement `JobLifecycle`, and the handler modules are built on `JobLifecycle`,
so they need not carry rows, locks and attempts of their own. In the handler
modules a run is named by its job, which `ExclusiveExecution` justifies.

### JobQueue

`status`, `attempts`, `runIn` are the columns of a row (`runIn` is `run_at`
relative to now, cut off at `-MaxLag`); `pc`, `held`, `seen` are what each run
of `processOnce` is about to do, which row it has, and the attempts `fail()`
read. Actions are the SQL statements: `ReserveSelect` (the `SELECT ... FOR
UPDATE SKIP LOCKED`), `ReserveCommit` (UPDATE and COMMIT), `Complete`,
`FailRead`, `FailWrite`. `ReserveError`, `ReserveLost`, `CompleteError`,
`FailError` are the same statements rejecting, with or without effect: note that
`complete()` stands inside the `try`, so its rejection goes on to `fail()`.
`Crash` ends all runs of a process; the transaction it had open rolls back.
The overlap of runs within a process is `MaxInFlight`, since `setInterval` does
not wait. The columns `locked_at` and `locked_by` are written and never read.

### HandlerRuns, StatusSync, Pipeline

`at[j]` is the call the run of job `j` makes next. `Call` makes it with its
effect, answered or (a fault) with the answer lost; `CallFails` rejects it
without effect; `RunsLost` ends runs. What a handler remembers between its calls
is in `chosen`/`heard` (`StatusSync`) and `memory`/`parcel` (`Pipeline`), so that
state read before an await is old when it is used after it.

`StatusSync` has the row of `pdp_submissions` (`row`), the invoice's status, what
GHL was told, and the PDP's own view (`pdp`, `had`). Statuses are the words the
code tells apart plus one spelled in another case and one it does not know.
Keys are modelled as the code builds them: `RetrySync(s, n)` names the attempt
number `n` of the job that asks again (`worker.ts:432`), `ReconcileSync(s)` is
one per submission (`worker.ts:468`). `deployment` is drawn from `Deployment` at
the start and never changes: whether the provider honours the `Idempotency-Key`
and how many submissions a reconciliation takes up, so one run covers both kinds
of provider. `MCStatusSync` names the deployments and the courses.

`Pipeline` follows where each stored thing comes from: which version of the
invoice, and whether from GHL's answer or from the body of a request. Mapping
and rendering keep that origin. `request[r]` is the statement a request is about
to make. `fetchInvoice` asks GHL or, without a base URL or a key, leaves the payload
as it is (`FetchNothing`). `MaxVersion` counts the versions of an invoice at GHL,
`MaxWebhooks` those whose webhook arrives: a version may also come in only by
what `fetchInvoice` returns. A webhook that GHL delivers again while its first
delivery is still handled is left out: it is answered and changes nothing.

Operators commented as "Mutant" are faulty variants of the definition that
follows them; no specification uses them. They are there to show that a
property notices the mistake.

### InvoiceTotals

No concurrency: one body goes through `mapGhlToCanonical` (`Map`) and through
`computeInvoiceTotals` and `buildCiiXml` (`Generate`). Amounts are exact
integers (tenths of a cent, and products in 1/10000 of that), so the model can
tell a rounded value from an exact one; the code's doubles differ from it by far
less than a cent, which matters only at a tie, and there `Cents` allows both
neighbours. The operators have the names of the functions. `ReportedTotals` puts
the reported total at offsets from the sum of the lines, since a value far away
is replaced in any case. Of the fields that are no amounts, the header has those
whose fallback the schema may refuse: the countries of buyer and seller and the
two dates, each as the kind of text it is.

### Settings

A text in the database is what `encryptSecret` made of a secret: `Plain`, or
`Sealed(k, n)` under master key `k` and nonce `n`. `decryptSecret` gives back
the text itself in version 0, the secret for the right key and nonce, and
fails otherwise (the authentication tag of AES-GCM does not match). `row` is the
tenant's row with its two ciphertexts and its one nonce and version. The
writers are the seed (`seedDemoTenant`), the API (`ServeSave`; `SaveElsewhere`
is the same by another caller) and nobody else; `create-tenant.ts` stores no
secrets. `Deploy(p, k)` restarts one process with another `TENANT_SECRET_KEY`.
The reader is `getTenantSecrets`, an operator: a worker's read changes nothing.

The page has its form, `localStorage`, the status line, the settings it shows
and its open requests. A request is served by the API (`ServeSave`,
`ServeRefresh`, in any order) and answered later (`SaveAnswered`,
`RefreshAnswered`); in between its answer may be replaced by a failure. A
successful save reads the settings again with the token that was in the form
when the save was sent, which is what the closure of the handler holds.
`confirmed` and `overtaken` are history: was a save answered, and was an answer
given before it still under way.

### InvoicePages

`created` has the time of PostgreSQL in `PerSecond` parts; `SecondOf` is the text
of a JavaScript Date. `listInvoices` is the query with its row comparison,
`ClampedLimit` the limit of the request, `nextCursor` what `server.ts:243` makes
of the last row. `walk` is a client that follows the cursors (the portal itself
loads one page); invoices are created and change their status at any time
between pages. `present` and `repeated` are history. Ids are fixed and invoices
are created in any order, so ids and times are independent, as for random uuids.
`displayStatus` and `matchesFilter` are the list's classification by label, with
`Shown` the rows under a filter; `Counted` with `Accepted`, `Pending` and
`Rejected`, and `Mapped` and `Submitted` by raw status, are what the dashboard
counts, which has code of its own for it. `Status` has the words the worker
writes.

### Migrations

One `run[r]` per place where somebody starts the script: its state, file and
attempt, the rows of `schema_migrations` it has read, and what was applied when
its attempt began. `Apply` is one file, sent as one transaction; `Record` the INSERT after
it; `TryAgain` the loop around both, with `MaxAttempts` attempts each. The files
are told apart by what they need (`Needs`) and whether they may be applied
again (`Repeatable`: 0004 adds a constraint without a guard). A file that another
run applied since the attempt began may be refused, as `IF NOT EXISTS` does not
exclude a concurrent creation. `LoseConnection` loses the statement or its
answer, `Kill` the run with either outcome of its statement; `faulty` remembers it.

## 3. Runs

All runs are TLC runs over complete state spaces. Deadlock is checked for
`queue`, `settings` and `migrations`, where something can always be done; the
handler modules come to rest when all jobs are settled, `InvoicePages` when its
clock and its changes are used up, and `InvoiceTotals` when its one body is done, so their
configurations switch it off.

Where an inductive invariant is proved in section 5, its run checks it too
(`QueueInv`, `SyncInv`, `PollingFits`, `PipelineInv`, `SettingsInv`, `PagesInv`,
`MigrationsInv`; in `totals`, `TypeOK` itself); all but `PollingFits` have the `TypeOK` of their module as first
conjunct, so it is not listed again.

| Run | Result | Shows |
|---|---|---|
| `queue` | holds | exclusive execution, retry budget, bound on orphans, the inductive invariant, refinement of `JobLifecycle`, every job settles |
| `sync_faults` | holds | no duplicate submission at a provider that honours the key; only statuses the PDP has given are shown; at a provider that does not honour it, an answer about a replaced submission is not attributed to its successor; as long as nothing has failed, polling of a pending submission stops only when its retry key is used up; an invoice submitted at the first attempt is asked about unless a job of it fails for good or is lost |
| `sync_final` | violated | a decision the PDP makes later than the second poll is never seen |
| `sync_agreement` | violated | overlapping `SYNC_STATUS` runs leave an old status on the invoice |
| `pipeline_faults` | holds | stages find their inputs; the pipeline completes unless a job fails for good or is lost; what is submitted belongs together unless `MAP_CANONICAL` was repeated; as long as nothing has failed, the status moves forward |
| `pipeline_lost_event` | violated | a webhook that failed after its key was stored is lost |
| `pipeline_updates` | violated | the webhook of an update is answered and leads to no submission |
| `totals` | holds | what the mapper makes satisfies the schema, except for four causes in the body; the documents show the canonical total within 2.5 cents; lines and tax groups add up within their roundings |
| `settings` | holds | which rows of secrets a worker can read, exactly; it never takes a ciphertext for the PDP token; the page shows a saved token unless an older answer was under way, and says "loading" only while something is |
| `pages` | holds | no invoice twice; one that is missed shares its second with one that was loaded; the dashboard counts what the list shows under each filter, and its funnel is nested |
| `migrations` | holds | files are applied in order; a run that ends well leaves everything applied and recorded; without a fault of its own a run fails only for an unrecorded 0004 or at its first statement |
| `migrations_rerun` | violated | after a run that died between 0004 and its record, a rerun fails |

The violated runs are findings: what a document of the repository says, and the
code does not do. `PROJECT.json` quotes the lines.

Bounds and why they are enough:

- `queue`: two jobs, two processes with two runs each, two attempts, two
  faults, delays 0 and 1, lag 1. Two runs of one process and of different
  processes meet at one row, a job uses up its attempts with a fault between,
  and the order by `run_at` matters with two jobs that are due. The proofs of
  section 5 remove these bounds for safety. For `OrphansBounded` it is the proof that
  counts: with two jobs, one fault may orphan all there are.
- `sync_*`: one invoice (rows of different invoices share no state except the
  reconciliation batch, whose order is free), two overlapping runs, at most two
  attempts, one fault where faults are asked about. Two attempts give two
  submissions and two retry keys; all confusions between an old and a new run
  need two runs. `sync_faults` takes both deployments of `BothProviders`; the one
  that does not honour the key has a batch of 0, which switches
  reconciliation off: what it would add is one more `SYNC_STATUS` of the kind the
  run has.
- `pipeline_faults`: one invoice, two versions, a webhook and a manual action
  that race, two attempts, one fault. Requests and jobs of different invoices are
  independent. The two violated runs need fewer actors: `pipeline_lost_event` one
  webhook and one fault, `pipeline_updates` the webhooks of two versions and no fault.
- `totals`: up to two lines out of ten (a null, free, halfway between cents, same and
  different rates, missing and illegal values), four discounts, one of them above
  most sums, reported totals just inside, at and outside the tolerance, and headers
  with good and bad countries and dates. Two
  lines are what it takes for one tax group with several lines or several groups;
  the amounts themselves enter by addition only.
- `settings`: two master keys and none, two saves, two restarts with another key,
  two requests open at a time. A row depends on the seed and the last save, a
  read on one more key; two requests are what it takes to overtake. Keys are
  alike, and so are the places of requests (symmetry; no liveness is checked in
  this run).
- `pages`: three invoices, times 1 to 3 with two per second, pages of one and two
  rows (limits 0 and 3, clamped to 1..2), one change of a status, any status or
  one filter. Three rows give a walk a page before and a page after the place
  where something happens, and the seconds {1} and {2, 3} split and join rows.
- `migrations`: all four files, two runs at the same time (started again any
  number of times), three attempts as in the script, three faults: one can lose
  a record while the others use up the attempts. `migrations_rerun` has one place
  to run from, so that no other run can be blamed, and one fault.
- The courses of a status are in `MCStatusSync`: one decision or a pending word in
  another case (`ShortMoves`, for `sync_faults`), the documented words
  (`PlainMoves`).

For every safety property that holds, the proofs of section 5 remove these bounds;
liveness keeps them.

Fairness is weak, and only the liveness properties of `queue`, `sync_faults` and
`pipeline_faults` and the violated `sync_final` need it. In `queue` and
`pipeline_faults`: timers fire again, due jobs are reserved, a call is answered or
rejected, time passes, and GHL repeats a webhook until it is answered. In
`sync_faults` (`WorkerSpec`): some due job is run or goes on, and nothing else.
In `sync_final`, besides: the reconciliation timer fires, and the PDP goes on with a
submission. `processOnce` is called for ever by `setInterval` and `SKIP LOCKED` never
blocks, which is what weak fairness of a run's steps says. No fairness is assumed
of faults, of restarts, of the people who start migrations, of a client that follows
cursors, or of users of the portal; nothing is claimed to happen there.

## 4. What the checks say about the code

- The queue does what its callers rely on. What it does not do is look for rows
  of dead workers: a fault orphans up to `MaxInFlight` jobs, for ever.
- A chain of polls has two links: the key `retry-1` is used by the second poll
  and asked for again by the third job, which is skipped as a duplicate;
  reconciliation adds one more poll, since its key does not name the time.
- A `SYNC_STATUS` run writes what it heard however long ago that was; the three
  writes of two runs can interleave.
- The webhook's key is committed first and alone.
- All requests for an invoice use one `FETCH_INVOICE` key, which is kept for ever:
  the body of a later webhook is stored, the webhook is answered, and no job is
  started, so the PDP never gets an update (`UpdatesAreSubmitted`). `docs/mvp.md:41`
  has "Create/update invoice in GHL ... pipeline completes", and `TRACKING.md:7`
  speaks of created and updated invoices.
- The same store of the body (`server.ts:383`) may replace what `FETCH_INVOICE` got
  from GHL before `MAP_CANONICAL` reads it. Whether this loses lines depends on
  what GHL puts into a webhook; the tests of the repository post the whole
  invoice, so nothing is recorded as a finding.
- What is submitted belongs together as long as `MAP_CANONICAL` is run once,
  whatever else is retried or lost. When it is repeated after its successor was
  enqueued, data and documents may come from different versions.
- A retried `SUBMIT_PDP` sets the status back to SUBMITTED and finds the key of its
  first poll used, so it may stay SUBMITTED for ever. After the last failed
  lookup the row is in ERROR, which reconciliation does not list (`pdp.ts:83`),
  while `AGENTS_M3_PLAN.md:13` plans a job to "re-sync missing/failed statuses".
  These are the two conditions of `EverySubmissionIsPolled`.
- A retried `SUBMIT_PDP` makes a second submission at a provider that ignores
  the `Idempotency-Key`, as the mock does; the code by itself cannot prevent it.
- Amounts: a discount above the sum of the lines gives a canonical total of 0 and
  documents that ask for a negative amount (`DocumentsAskForTheCanonicalTotal` has
  to except it), and a credit note without lines fails in the schema at every
  attempt. So does a body with a null among its lines, with a date after the year
  9999, or with a country of two characters that are not letters
  (`MappingFailsOnlyForCause`): `normalizeCountry` passes any two characters, while
  `TRACKING.md:142` says that an invalid country becomes FR. With a discount the grand total of the XML is not the sum of its tax
  basis and its tax.
- Secrets: `SecretsReadableExactly` says when a worker can read them, and that is
  not always. The demo tenant seeded with a master key has two secrets under two
  nonces and the row keeps the first, so `getTenantSecrets` throws for it. The
  same holds after the API has replaced the PDP token of a tenant with a sealed
  GHL key: no row with two secrets, one of them sealed, can be read. In a staged
  change of the master key a worker cannot read what the other key sealed. What
  never happens is that a ciphertext is sent as the PDP token; as the GHL key it
  can be, when a token is saved by a process without a master key, which turns
  the version of the row back to 0.
- Settings page: with one request at a time it shows what was saved. Two at a time
  can leave "not set" on the screen after a confirmed save.
- Migrations: nothing but the missing guard of 0004 stands between a lost record
  and a rerun. When the answer to the COMMIT of 0004 is lost, or the run dies
  between 0004 and its record, every later run fails at 0004 (`RerunsAreSafe`), while
  `migrations/README.md:5` wants reruns to be safe "if the connection drops
  mid-apply". Of the passing properties, `FailsOnlyForCause` says that this is the
  only way to block the runs that follow.
- List: the second part of a cursor is lost, so a walk does not get invoices of
  the same second as the last row of a page; and PostgreSQL may not accept the
  text of a Date as a timestamp at all (`PageRefused`, status 500). The portal
  loads one page of 200, and the dashboard's "Total" counts that page.
- Read with the portal, outside any model: the download links of the
  detail page are plain links and carry no tenant header, so the API answers
  401; the same page looks for fields the canonical invoice does not have; "Updated
  every 2 minutes" above the list is text, as the rows are loaded once.

Some properties that hold name an exception, and the exception does happen:
`DocumentsAskForTheCanonicalTotal` (a discount above the sum), `SaveIsShown` (an
older answer under way), `MissedOnlyWithinASecond` (rows of one second),
`PdpTokenIsNeverGarbled` (the GHL key may be). They say that nothing else goes wrong
there, and the list above says what does.

## 5. Proofs

`JobQueueProofs` proves, for every number of jobs, processes, overlapping runs,
attempts and faults, from `QueueAssumption` alone:

- `QueueInvariant`: `QueueInv` is an invariant, by induction over the actions;
- `TypeCorrectness`, `ExclusionHolds`, `RetryBudgetHolds`: consequences;
- `OrphansBoundedHolds`: at most `MaxInFlight` orphans per fault;
- `QueueImplementsLifecycle`: `Spec => ImplementsLifecycle`.

The safety properties are not inductive: `ExclusiveExecution` speaks of runs that
own a job and says nothing of one that has only selected the row, and `RetryBudget`
does not say that what `fail()` read is still true. `QueueInv` adds that a run
holds a row exactly while it is busy (`HoldsWhileBusy`), that no row is held twice
(`HeldOnce`), how the status of the row agrees with the place of the run
(`RowAgrees`: after a rejected `complete()` the row may already be completed), that
the attempts read are current (`ReadIsCurrent`) and that a row that does not exist
has none (`UntouchedRows`). The bound on orphans counts the new orphans of each
step: none without a fault, the job of the run for a failed statement, the range of
`held` on the runs of the process for a crash. The refinement compares the mapped
state `Life` job by job: each step moves at most the job its run holds, and a crash
is `Abandon` of the jobs the process owned, some of which were recorded as completed.

`MigrationsProofs` proves, for any number of runs at the same time, of faults, and
of attempts from two up (`MigrationsAssumption`):

- `MigrationsInvariant`: `MigrationsInv` is an invariant;
- `TypesHold`, `OrderHolds`, `DoneHolds`, `CausesHold`: the safety properties of the
  run `migrations`.

With one attempt `FailsOnlyForCause` is false: a file that another run has created in
the meantime would be refused once and end the run. What is needed besides the
properties is how a run's view agrees with a database that other runs change
(`RunAgrees`): the rows it has read are still there, all files before its own
are recorded, and after a first refusal its file was applied when the next attempt
began, so that only 0004 can be refused again. `StepOfOneRun` carries the argument:
the database only grows, so a step of one run keeps what is said of the others
(`OthersAgree`), and it is left to show that the run's own new state agrees.

`StatusSyncProofs` proves, for any number of invoices, attempts, overlapping runs
and faults, any courses of a status at the PDP and any set of deployments, from
`StatusSyncAssumption` and `PdpMovesAssumption`:

- `SyncInvariant`: `SyncInv` is an invariant;
- `NoSecondSubmission`, `RowsTellTheirOwnStatus`, `NoStatusIsMadeUp`,
  `TypeCorrectness`: its consequences;
- `PollingInvariant`: `PollingFits` is an invariant, on top of `SyncInv`;
- `PollingGoesOn`: `PollingStopsOnlyAfterRetry`.

What the properties leave open is what a run carries between two of its calls. An
answer is written long after it was given, so `RunFits` says that what a run has in
`chosen` is a submission the PDP has, and what it has in `heard` was a status of that
very submission at some time. That is enough for the row only because
`UPDATE ... WHERE pdp_submission_id` looks at the identifier. A provider that honours
the key is given the same one by every attempt; without a key a submission is named
by its attempt, and `PdpFits` says that it was sent by an attempt that has been counted
already. `PollingFits` is about runs without a failure: each job is run once
(`RunsOnce`), and while the retry of a pending submission does not exist, the first poll
is still to come or a run that has heard "pending" is on its way to `AskAgain`
(`RetryIsComing`). With a failure this is false, a thrown handler ends the chain until
reconciliation, which is why the property begins with `faults = 0`.

`PipelineProofs` proves, for any number of invoices, versions, webhooks, actions,
attempts and faults, from `PipelineAssumption`:

- `PipelineInvariant`: `PipelineInv` is an invariant;
- `NoInputIsMissing`, `SubmissionsAreConsistent`, `TypeCorrectness`: its
  consequences;
- `StatusAdvances`: the action property `StatusMovesForward`.

`StageInputsExist` speaks of the calls that need an input. `StageFits` says what each
stage has in memory and what it has stored by the call it is at, so that the enqueue at
its end finds the input of the next stage there; `RequestsFit` says the same of a
request before its enqueue. Stored things are replaced, never removed.
`SubmissionIsConsistent` needs to know what is under way between the stages: as long
as `MAP_CANONICAL` has been run once, everything that is rendered, held in memory,
read back or sent is what it stored (`OneMapping`), whatever was retried after it. The
proof that steps keep it uses the rest of the invariant (`StagesInv`) and says for each
stage what it passes on (`PassedOn`). Only the status property needs that nothing has
failed: then each stage runs once and begins after the one before it has
returned (`InOrder`), and a status says how far the stages are (`StatusFits`), so an
upsert by a request cannot move it back.

Both modules rest on the lemmas of `HandlerRuns`: every way in which a job is reserved,
makes a call, fails, is settled or lost keeps `RunsInv`, the agreement of `state`, `at`
and `tries`.

`SettingsProofs` proves, for any keys, requests, saves and restarts, from
`SettingsAssumption` and `TextAssumption` (NULL and a thrown error are not texts):

- `SettingsInvariant`: `SettingsInv` is an invariant;
- `ReadableHolds`: `SecretsReadableExactly`, both directions;
- `NeverGarbledHolds`: `PdpTokenIsNeverGarbled`;
- `SavesAreShown`, `NoIdleLoading`, `TypeCorrectness`: the page and the types.

The readability needs to know which nonce each ciphertext was made with (`RowFits`): the
GHL key can only have nonce 1, the token never has, and so one nonce of the row is
wrong for one of the two. The page needs what its open requests will bring:
`RequestFits` says that a save answered "ok" has filled the column, and `PageFits` that
after a confirmed save nobody is about to bring "not set" unless it was given before
(`overtaken`). `SavesFit` counts the nonces that are left for the saves under way, which
the types need.

`InvoicePagesProofs` proves, for any number of invoices, parts of a second, times,
limits and changes, from `PagesAssumption`:

- `PagesInvariant`: `PagesInv` is an invariant;
- `WalksRepeatNothing`, `WalksMissLittle`, `TypeCorrectness`: its consequences;
- `PortalCounts`: `PortalAddsUp`, from the types alone.

`WalkFits` says that what a walk has got is behind its cursor and what is behind the
cursor it has got, or got a row of the same second. The page is defined by counting
(`Cardinality` of the rows before a row, below the limit); `PageFacts` turns this into
what a page is good for: it is empty only at the end of the list, and everything it
leaves out comes after its rows. `SameSecond` and `SecondBegins` are the arithmetic of
the cut to a second. Rows created meanwhile are neither got nor owed (`present`), so
the steps of the database keep the invariant (`DatabaseKeepsInv`).

`InvoiceTotalsProofs` proves, for any lines, number of lines, discounts and reported
totals and any of the headers, from `InvoiceTotalsAssumption`:

- `TypeCorrectness` and `MapperAndSchemaAgree` (`MappingFailsOnlyForCause`),
  together inductive: `TypeOK` says that what was mapped satisfies the schema and
  that totals and XML were computed from it;
- `DocumentsAskForTheTotal` and `XmlAmountsAddUp`, which follow from `TypeOK`.

The work is in what a sum is. The fold behind `SumFunction` takes the elements in
the order of `CHOOSE`; `SumsExist` shows that the function it chooses exists,
`SumGrows` that any element may be taken first, and `SumUnique` that this
determines the sum. From these follow additivity (`SumAdds`: the sum of the lines is
that of their amounts and of their taxes), regrouping (`SumByKey`: the groups per rate
have the sum of the lines) and the error of parts rounded one by one (`RoundingsAdd`:
half a cent each). The induction is over the subsets of a finite set, with
those that have the property given as a set (`InductionOverSubsets`), from the
smallest cardinality of a counterexample, as the prover cannot apply an induction
theorem that takes a predicate.

Only model-checked: liveness (`EveryJobSettles`, `EverySubmissionIsPolled`,
`PipelineCompletes`), which the prover does not handle, and of course the violated
runs.

## 6. Not modelled, and why

- Rendering and layout of the documents, external tools, the storage backends,
  logging, metrics and audit have no protocol state of their own: a failure of
  theirs is the rejection of a call. The one shared state of the generator is a
  working directory named for tenant, number and millisecond.
- The other pages of the portal show what one request returned; the reads of
  one invoice, its files and its audit trail change nothing.
- The signature of webhooks, the rate limit, and the fallback of the event id:
  the first two decide about one request alone, and what the bodies of GHL have when
  the id is missing is not described in the repository.
- SUPER PDP: its client answers `getStatus` from the last of up to 1000 events and
  guesses the status from words. The order and number of the events are not
  described; in `StatusSync` its answers are those of any PDP.
- The other texts of the mapper (names, addresses, number, currency), whose fallback
  the schema takes.
- An answer of the settings API with status 500, which the page shows as "Unknown";
  in `Settings` a failed answer leaves what is shown.
- Configuration is read once; `cleanup-artifacts.ts` and the smoke test are
  one-shot tools.

## 7. Plan

Done: the queue, status synchronisation, the pipeline, the amounts of an invoice,
the secrets with the settings page, the list, the migrations; proofs of every safety
property that the passing runs check.

Next, in this order:

1. What still holds of `PollingStopsOnlyAfterRetry` after a failure: a form that names
   the failures which end a chain of polls, instead of `faults = 0`.
2. Webhook details (event id fallback, rate limiter) and the event list of SUPER
   PDP, once the behaviour of the two services is documented.
