# Verification of the SME back-office copilot

The application takes uploaded invoices and bank statements, runs an
agent workflow over each of them in the background, and leaves drafts and
review tasks for people to decide on.  This directory holds TLA+ models of its
backend (`src/sme-backoffice-copilot/backend/app`, below `app/`), the TLC runs
that check them on small instances, and TLAPS proofs of the properties that
matter most for every value of the constants.  `PROJECT.json` lists runs,
mutants, theorems, findings and hazards, and maps every definition to the lines
it stands for.

## 1. The system

| Component | State it keeps | Operations | Talks to |
|---|---|---|---|
| Document intake (`services/document_ingestion.py`, `api/routers/documents.py`, `workflows/triggers.py`) | `documents`, blobs; stages run, job and outbox event | upload, reprocess | storage, malware scan; commits with the job store |
| Durable workflow jobs (`services/workflow_jobs.py`, `models/jobs.py`, `repositories/jobs.py`) | `workflow_jobs`, `workflow_runs`, `outbox_events` in PostgreSQL | claim, heartbeat, mark_succeeded / retrying / dead_lettered, dispatch, recover, cancel, requeue | everything below |
| Executor (`workflows/job_executor.py`) | one session, committed once at the end behind a fence on the job row | execute, mark run failed | agents, providers, job store |
| Celery workers (`workers/tasks.py`, `jobs/celery.py`) | the attempt on the stack, Celery's retry count in the message | receive, claim, heartbeat loop, retry, acknowledge late | Redis broker, job store |
| Outbox dispatcher (`workers/outbox_dispatcher.py`) | none | every poll: recover expired leases, then send pending events | job store, broker |
| In-process queue (`jobs/in_process.py`, `main.py`) | `JobRef`s and an asyncio queue in memory | enqueue, cancel, run handler | job store |
| Agent workflow (`workflows/replay.py`, `runtime.py`, `invoice_extraction.py`, `downstream_agents.py`, `document_preparation.py`; `langgraph_adapter.py`) | `WorkflowState`: stage, status, retry counts, error signals, artifacts; agent steps and handoffs | one step per agent, handoff, QA retry, dead-letter | providers, tools |
| Output persistence (`services/workflow_outputs.py`) | invoice draft, classification, reconciliation, review rows | persist the result of a run | in the executor's transaction |
| Review (`services/review_tasks.py`, `review/*`) | `review_tasks`, `audit_events`, status and version of invoices, classification proposals and reconciliations | approve, reject, correct extraction / classification / reconciliation | post-extraction, in the same transaction |
| Post-extraction (`services/post_extraction.py`) | none; adds a classification, a reconciliation and perhaps a task | on an approved or corrected invoice | review, classifier (may call a language model) |
| Bank import (`services/bank_statement_import.py`) | statements, transactions | import a CSV | executor |
| Providers (`providers/*`) | rate-limit slots in Redis | retry, timeout, fallback, privacy gate | external services |
| Validation, reconciliation, classification (`validation`, `reconciliation`, `classification`) | none | pure rules and scores | agents |
| Insights, dashboard, lineage, audit, observability, evaluations, frontend | read-only, append-only or display | | |

What is hard in it:

* **Several actors on one job row.**  Worker processes, the dispatcher, cancel
  and requeue requests and the executor's own commit all write the same job,
  run and outbox rows.  Each transaction locks the job row; the hard part is
  what may happen *between* the transactions of one actor.
* **At-least-once delivery.**  Celery acknowledges late and the dispatcher
  sends before it commits, so a job may be delivered several times, at once,
  and after it is finished.
* **Leases and time.**  A lease lapses when heartbeats stop, which happens in
  a live process too (a blocked event loop, a database error in the loop).
* **Three retry counters** (Celery's message, the job's `attempt_count`, the
  run's `retry_counts`) that start over at different moments.
* **Partial failure.**  The exception path of an attempt writes to the same
  database whose failure may have caused it.
* **Reviewers without locks.**  A decision reads a task and its record, may
  wait for a language model, and writes at the end; nothing compares what it
  read with what is there by then.
* **Agents that hand over.**  Twelve agents pass groups of values, signals and
  handoffs on through a shared scratchpad, under five ways of driving them, with different
  orders and different ideas of a correction.  What one of them changed must
  be validated again before the next relies on it.
* **Requests that race.**  Two uploads of one content pass the duplicate check
  before either commits; a reprocess request looks at a run that another
  delivery is about to finish.
* **Memory that is lost.**  In-process mode keeps the queue and the references
  clients poll in the process whose restart forgets them.
* **A budget shared by processes.**  Every worker draws on the same
  rate-limit windows in Redis, late and while attempts time out.
* **Matches made twice.**  Workflows, imports and reviews match the same
  invoices with the same transactions.

## 2. Modules

```
JobLifecycle            what a job promises (abstract)
   ^  refined by (PhaseOf)
WorkflowJobs            the tables and every transaction on them
   ^            ^  EXTENDS
CeleryWorkers   LocalIntake      two deployments: worker processes with a broker,
   ^            ^                or one process with uploads and reprocessing
MCCeleryWorkers MCLocalIntake

DocumentLayout                   pure rules: regions of a page
   ^
InvoiceExtraction                what an extractor makes of text, answer and group
   ^         ^         ^         ^            ^
Invoice-  Prebuilt-  Model-   Classifi-   Reconci-
Validation Invoice   Answers  cation      liation
   ^         ^         ^         ^            ^
   +---------+---------+---------+------------+
AgentWorkflow           the agents, the runtime and the drivers;
   ^                    refines AgentPipeline (abstract)
WorkflowOutputs         the rows a result becomes
   ^
BankStatement           statements imported afterwards
   ^
MCAgentWorkflow

ReviewTasks    <- MCReviewTasks        decisions about the rows
ProviderCalls  <- MCProviderCalls      routes, privacy gate, retries, rate limiter
```

`WorkflowJobsProofs`, `CeleryWorkersProofs`, `LocalIntakeProofs`,
`ReviewTasksProofs`, `ReviewHistoryProofs`, `ProviderCallsProofs`,
`AgentWorkflowProofs` and `BankStatementProofs` hold the theorems.  Four worlds are
joined at the points where the code joins them and are otherwise apart.  The job store sees a
workflow only as the outcome of `Complete` or `Execute`; the agent workflow is
that outcome looked at closely, for one document.  `ReviewTasks` shares no state
with the job store: what a run materializes is where it begins.
`ProviderCalls` knows nothing of why a provider is called; to the agents a call
is an answer or none (`ModelAnswers`).

Conventions: amounts are whole cents, dates are day numbers, texts are model
values or small records that tell what the code distinguishes in them.  A
definition whose name begins like another's and whose comment says "Mutant of"
is a plausible mistake in that definition, kept to show that the properties
notice it; the specifications do not use it.

**`JobLifecycle`** is the promise, in two variables: a job is absent, waiting,
working, materialized or abandoned; its output is committed at most once, and
only while it is worked on; materialized and abandoned are final.

**`WorkflowJobs`** has one action per database transaction.  `job`, `run` and
`pending` are the rows (`pending` counts a job's PENDING outbox events; the
order of events does not matter because each carries the same command),
`cancelReads` is what a cancel request remembers between reading the run and
getting the job row, and `outputs` is a history variable that counts commits of
business rows.  A lease is compared with the clock only, so it is `live`,
`due` (the very instant), `past` or `none`; recovery wants `past`
(`lease_expires_at < now`), the claim and the fence already refuse `due`
(`<= now`).  `attempt_count` and the run's retry count are cut off one past the
largest value they are compared with.  The run's uncommitted statuses
(`running` while an executor works) never reach the database and are absent.
A failed publish (`queue.enqueue` raises) only moves the event's
`available_at` and is a stuttering step.

| Action | Code |
|---|---|
| `Submit` | `QueuedDocumentWorkflowPublisher.publish_document_ingested`, committed with the document |
| `Claim`, `Heartbeat`, `MarkRetrying`, `MarkDeadLettered` | `WorkflowJobRuntimeService` |
| `Complete` | `DocumentProcessingWorkflowExecutor.execute` up to its commit, with the fence |
| `MarkRunFailed` | `_mark_failed` (in-process mode only) |
| `PublishCommit`, `DiscardEvent` | `OutboxDispatcher.dispatch_once`, per event |
| `RecoverExhausted`, `RecoverLost` | `OutboxDispatcher.recover_stale_jobs`, per job |
| `ReadForCancel`, `Cancel`, `RefuseCancel` | `cancel_workflow_run`, split where it waits for the row |
| `Requeue` | `requeue_published_workflow_job` |
| `LeaseTick` | time |

**`CeleryWorkers`** says who calls these transactions and when.  A worker
process goes through `received`, `executing`, `failed`, `retrying`,
`finishing`, `closing`, each the stretch of `tasks.py` and
`execute_claimed_workflow_job` between two points where others can act; the
heartbeat loop runs beside `executing`.  The broker is a bag of messages (job,
Celery retry count).  `holder` is history: whose claim succeeded last.  The
worker id of a delivery is `<hostname>:<task id>` and the task id is the job's
id, so for one job it is `Host[w]`.  `dropped` is history too: the jobs whose
delivery was given up and that were neither claimed nor requeued since.

Who holds a message decides what a crash does to it.  The workers are prefork
pools (`docs/worker_runtime.md` starts `--concurrency=2`) with `task_acks_late`
and without `task_reject_on_worker_lost`, so the container's parent process
acknowledges the message of a pool process that is killed (`ChildCrash`), and
only when the container dies (`ContainerCrash`) are the messages of all its
processes delivered again.  The other faults (`FaultKinds`, at most `MaxFaults`
of any kind): a message is delivered again by the visibility timeout or lost,
the dispatcher dies between sending and committing, the claim's, heartbeat's or
failure mark's transaction fails, Celery cannot publish the retry, an operator
requeues.  Ordinary failures of an execution and heartbeats that come too late
are not faults: they may happen in every attempt.

**`ReviewTasks`** keeps the three record tables in one sequence `rec` (kind,
status, version, which row it replaces, which invoice it is about, who made
it), `task` and `audit` as sequences in the order of commits, and for each
request in flight what it has read (`req`).  A request has three steps:
`ReadTask`, `ReadRecord`, and `CommitDecision` or `CommitCorrection`, which is
the whole of `_decide` or `_correct` from the assignment of the new status to
the commit, the continuation included; between them other requests and imports
commit.  `Written` is SQLAlchemy's unit of work: a commit writes the status
column only if this request changed it, over whatever is there.  `contended`
is history: the tasks for which two requests were in flight at once.  Amounts,
names and evidence are left out, and so is the tenant, which every query fixes.

| Action | Code |
|---|---|
| `MaterializeInvoice`, `MaterializeFailure` | `persist_invoice_review_from_workflow_result`, with and without a draft |
| `ImportReads`, `ImportCommits` | `_reconcile_invoices`, one match: the query for live invoices, and the commit |
| `ReadTask`, `ReadRecord` | the checks of `_decide` / `_correct`, `_load_reviewable_resource`, the supersession plans |
| `CommitDecision`, `CommitCorrection` | the rest of `_decide`, `_correct` with `create_post_extraction_continuation` |
| `GiveUp` | any exception of a request before its commit |

**`LocalIntake`** is the FastAPI process that is API, dispatcher and worker at
once, over the same store.  Requests are numbered in the order they arrive, and
a document and a job have the number of the request that makes them.
`document` and `originals` are the rows and the blobs; `request` is what an
upload or a reprocess has read; `queue`, `ref` and `worker` are the memory of
the process (asyncio queue, `JobRef`s, worker task with its heartbeat);
`toCancel` remembers a cancel request that has committed and not yet reached
the `JobRef`.  History: `dropped` (jobs whose delivery a restart or a failed
claim took away), `skipped` (jobs that show as succeeded because their delivery
was skipped under a live lease), `overlapped` (documents reprocessed while an
earlier run could still make an invoice).

| Action | Code |
|---|---|
| `BeginUpload`, `RefuseDuplicate`, `StorageError`, `CommitUpload`, `LoseUpload` | `upload_document` of `services/document_ingestion.py`: check, store the original, commit with the staged run, job and event, or be refused by `uq_documents_tenant_hash` |
| `BeginReprocess`, `CommitReprocess` | `reprocess_failed_document` in `routers/documents.py` |
| `Dispatch`, `DispatchUncommitted`, `Discard`, `Recover` | the dispatcher's loop in `main.py` and `workflow_jobs.py`; the command is queued before the commit |
| `Take`, `ClaimDelivery`, `SkipDelivery`, `ClaimError` | `InProcessJobQueue._run_worker` up to the claim of `execute_local_job` |
| `Beat`, `BeatStops`, `BeatError` | the heartbeat task |
| `Execute`, `Fenced`, `ExecutionFails`, `FailRun`, `FailRunError` | `DocumentProcessingWorkflowExecutor.execute` and `_mark_failed`, with the document status and the invoice a result leaves |
| `DeadLetter`, `DeadLetterError`, `Finish` | the end of `execute_local_job`, which never retries |
| `BeginCancel`, `EndCancel`, `CancelRef`, `OperatorRequeue` | the cancel and requeue handlers with the `JobRef` behind them |
| `Restart` | a stop, a crash and a start: memory and the worker task are gone |

**The pure rules.**  `DocumentLayout` groups blocks into regions;
`InvoiceExtraction` says where each value of a group comes from (parser, model,
earlier group, fallback) in the code's order; `InvoiceValidation` has the
totals and line-item rules with their tolerances and what QA makes of their
issues; `PrebuiltInvoice` what Azure's fields become; `ModelAnswers` which
replies of a model reach the extractors; `Classification` rules, fallback and
taxonomy; `Reconciliation` the three scores and the verdict.  They have no
state: they are the operators the agents are built from, and are exercised
through them.

**`AgentWorkflow`** has one action per agent and one per decision the driver
makes between agents, because the code awaits one agent after the other in one
coroutine.  `job` is the constant input (document, driver, scenario, budget,
model), `pc` the agent or decision that is next, `wf` the `WorkflowState`, `run`
the row, `scratch` the scratchpad, `results` and `latest` the agent results a
driver looks its handoffs up in, `progress` the snapshot the last observer
call carried.

| Action | Code |
|---|---|
| `AcceptDocument`, `AnalyzeLayout` / `FailLayout`, `ApplyPolicy` | the preparation agents |
| `ExtractGroup(a)`, `Assemble`, `Validate` | the extractors, assembly and QA of `invoice_extraction.py` |
| `Classify`, `Match`, `Coordinate`, `ProduceInsights` | `downstream_agents.py` |
| `RetryGate`, `RequestRetries` | the graph's retry node; `_request_retries_for_correction_handoffs` of the runner |
| `Complete` | the last `update_workflow_status` of `WorkflowReplayRunner.run` |
| `LoseHandoff` | the `ValueError` of `_handoff_to` |

Every agent's action records its step and handoffs as `record_agent_step` and
`record_handoff` do, and routes as the driver (`job.driver`) does: the runner's
own sequence (`custom`), the runner over the graph (`graph`), the adapter alone
(`adapter`), its sequential fallback (`fallback`), and preparation only
(`prepare`).  **`AgentPipeline`** is what they have in common: prepare, extract,
validate, correct within a budget or give up, and business agents only behind
validation.

**`WorkflowOutputs`** adds `book`, the rows
`persist_invoice_review_from_workflow_result` writes, in one transaction that
the tables may refuse.  **`BankStatement`** adds `matches`: an import parses a
file into transactions, identifies them by content hash and matches them with
the persisted invoice (`ImportStatement`, `_reconcile_invoices`).

**`ProviderCalls`** is any number of concurrent `generate_llm` and
`extract_ocr` calls.  A call goes through `ready`, `asking`, `granted` and
`waiting`; `clock` counts half seconds, a limiter's window is two of them, and a
call may take any time to reach Redis.  `key` is the counter in Redis with its
time to live.  `granted` (tokens of a window given to calls that reach Redis in it
or in the half second after, `InTime`), `tokens`, `started` (attempts that reached
a provider) and `sends` (requests) are history.  An attempt can time out or fail in
any phase.  With Azure Document Intelligence it is a POST and then polls, each of
which is sent again while it is answered 429.

| Action | Code |
|---|---|
| `Begin` | settings of a profile, route, `evaluate` of the privacy gate, redaction |
| `Ask`, `Increment` | `RedisFixedWindowProviderRateLimiter.acquire`: the key is named when the call asks, the script runs when it arrives |
| `Send`, `Answer`, `FailAttempt` | one attempt of `call_with_policy` under its timeout |
| `Resend`, `Poll` | `request_with_rate_limit_retry` and the polling loop of `azure_di.py` |
| `Tick` | time; a key expires |

## 3. Runs

| Run | Instance | Question |
|---|---|---|
| `store_transactions` | 1 job, 2 worker ids, max_attempts 3 | whatever calls the transactions in whatever order, do the tables stay consistent and implement `JobLifecycle`? Deadlock checked. |
| `celery_workers` | 1 job, 2 processes on 2 hosts, 1 Celery retry, 2 faults of any kind, heartbeats arbitrarily late | are stale attempts of another host fenced, is a finishing job closed, what can forget a job, is every other one closed in the end, does the deployment implement the store? |
| `local_intake` | 2 requests, max_attempts 2, 3 files, 1 fault of any kind, 1 cancel | do uploads and reprocessing race without losing originals or runs, does something always deliver a job, are references and invoices what they seem, does every job settle? |
| `agent_workflow` | 5 readings of one document, 5 drivers, budgets 0 and 2, 2 models, good and bad answers, 5 ledgers, 2 imports | does only validated data reach the business agents, are corrections bounded and aimed, is every document in front of a reviewer, are matches sound, do the drivers implement the pipeline? |
| `review_decisions` | 2 requests in flight, 1 document, 1 match of an import, no new request after 3 decisions | do records, versions, tasks, follow-ups and audit trail agree however requests and imports interleave? |
| `provider_calls` | 2 calls of 3 kinds, 2 deployments, 2 attempts, budget 1 per window, 1 poll, 1 resend, time 3 | do timely calls stay within a window's budget, is every attempt paid, does nothing confidential leave unsanctioned, does every call end? |
| `celery_stranded`, `celery_one_host`, `celery_cancel_race`, `review_resurrected`, `agent_review_lost`, `provider_unpaid` | the same instances or smaller | one question each: six places where the code does not do what its documents say (section 6) |

*Bounds.*  One job: no transaction reads or writes the rows of another job, the
dispatcher's batches treat jobs one by one, and a process busy with another job
is a process that takes its next message late, which the model allows.  Two
processes are needed for a stale and a current attempt; two faults let a fault
hit the recovery from another.  (Two processes on one host are `celery_one_host`;
for any assignment of processes to hosts see section 5.)  `MaxAttempts` 3 in the store run gives first,
middle and last attempts; with Celery it is `MaxRetries + 1`, the relation
`create_app` configures.  The Celery runs turn deadlock checking off because the
system may stop: when every job is closed and every message consumed.

*Bounds of the review.*  Records of different documents meet in no action, so
one document is enough; an import adds a reconciliation and a task of another
origin to it.  Two requests are the smallest number that overlap, and their
slots are interchangeable (symmetry).  A decision, the decision of the task its
continuation adds, and one more (of the import's task, or the second of two
that overlap) are the three decisions; requests in flight may still commit
beyond the bound.  Deadlock checking is off because everything may be decided.

*Bounds of the in-process deployment.*  Documents meet only where they have the
same content, and jobs only where they belong to one document or wait in the
queue, so two requests show every pair: two uploads of one content, an upload
and its reprocess, two jobs in one queue.  One fault beside the ordinary
failures (an execution may fail at any time, heartbeats may stop or be late)
hits every transaction once; pairs of faults were looked at with one request
(3 faults, 2 cancels), where the case in `RefsFollow` about `skipped` jobs was
found.  Deadlock checking is off because everything may be closed.

*Bounds of the agents.*  One document, because a run shares nothing with another
but the ledger, and that is input.  The readings were chosen for the branches
they take: clear text; parties the wrong way round, which QA notices against
the regions; values missing so that the model is asked; prebuilt fields with a
stamp over the total, as a comment in `azure_di.py` describes; and no text at
all.  The replies contain a row without a number, two rows of one number, a
total that does not add up, a currency in words, amounts, a truncated answer, text that
is no object and an empty object.  A budget of 2 lets a correction succeed, fail
and be tried again; 0 dead-letters the first.  Two imports can repeat a file
and let one match meet another's allocation.

*Bounds of the provider calls.*  Two calls are the smallest number that compete
for a budget of one.  `MaxTime` 3 covers two windows, so that a key is asked for
in one and incremented, in time or too late, in the next.  The requests are cloud
OCR (Azure), a local LLM and the LLM after an approval; the deployments one that
allows everything, with a limiter, and one that allows nothing, without.  One poll
and one resend show each of their orders with timeouts and retries.

*Fairness.*  `CeleryWorkers!FairSpec`: a process that has a message gets on with
it and takes another when it is done (Celery's loop); the dispatcher's loop
sends and recovers on every poll and survives exceptions; time passes.
Heartbeats, failures, submissions, cancels and requeues are not fair, and nothing
is assumed of how late a heartbeat comes.  `EventuallyClosed` excepts the jobs in
`dropped`, for which nothing in the code but an operator's requeue does anything;
`StrandingExplained` says how they get there.
`LocalIntake!FairSpec`: the event loop resumes the worker task (`Proceed`) and
the dispatcher's loop (`Dispatch`, `Recover`), and time passes; clients,
operators, faults and heartbeats owe nothing.  `Settles` needs no timely
heartbeats: in one process with one worker a late heartbeat ends in the fence
and a dead letter.
`BankFairSpec`: runner and persistence are one coroutine, resumed until it
returns; nothing makes a client upload a statement.
`ProviderCalls!FairSpec`: each call is a coroutine whose attempt is ended by its
timeout at the latest.

## 4. Properties

* `MaterializedOnce`, `RunAgrees`: business output, job row and run row never
  disagree, whoever crashes in between.
* `StagedHasEvent`, `OutboxBounded`: the transactional outbox neither forgets
  a job nor grows.
* `LifecycleSpec`: closed is closed, and output is committed once and by work;
  refinement of `JobLifecycle`.
* `FinishingIsClosed`: why the unguarded `mark_succeeded` is harmless.
* `StaleHostFenced`: output is committed only in the container that claimed the
  job last.  The code's own claim is stronger, `StaleAttemptFenced` (only the
  attempt that claimed last), and false (`celery_one_host`).
* `StrandingExplained`: an open job that no event, message, process or live claim
  stands for had its delivery dropped since its last claim, in one of five ways: a
  message lost by the broker, a pool process killed with one, a claim or the sending
  of a retry that failed, a lost lease recorded as RETRYING.  The documents' claim
  that it never happens is `NeverStranded`, which the last of the five refutes
  without any fault (`celery_stranded`).
* `EventuallyClosed`: every job that is not dropped so gets closed.
* `StoreSpec` as a property of `CeleryWorkers`: the deployment implements the
  store, so every property of the store holds of it.
* `IntakeComplete`: one document per content, none without its original or
  its run, however uploads race and fail.
* `DeliveriesHeld`, `Settles`: an accepted job always has an event, a place in
  memory, an execution or a lease that will expire, and it is closed in the end,
  except where `dropped` names it.
* `RefsFollow`: what a client polls is what the durable job is.
* `SecondInvoiceExplained`, `InvoiceIsShown`: reprocessing doubles an invoice, or
  hides one that waits for review, only where it overlapped with an earlier run.
* `ValidatedBeforeBusiness`, `ClassificationSupported`: the draft the business
  agents use is the one QA passed, and the proposed category follows from it.
* `RetryBudget`, `CorrectionTargeted`: corrections are counted once, end in a
  dead letter exactly when the budget is spent, and re-extract only what was
  to be corrected or is of low confidence.
* `FinalOutcome`, `ProgressNeverFalls`: what a run's last status says about it,
  and what a client sees on the way.
* `EveryDocumentReviewed`: whatever the workflow came to, somebody has a task
  about it with evidence for every value.  The tables refuse an output as a whole
  only for a value that was read (`ReadTooMuch`: a text too long, an amount or a line
  number too large, a line's currency in words) or a sum over matched transactions,
  never for what the code itself assigns: the numbers of the lines and the invoice's
  currency.  What each column holds is the constant `Fits`.
* `MatchesHold`: a match made without asking agrees with its payment in amount,
  date and reference, and no payment counts twice for the invoice.
* `PipelineSpec`: every driver implements `AgentPipeline`, its end included.
* `OpenTargetsUndecided`: an open task has something to decide that no other
  task points at.
* `DecidedOnce`, `VersionsLinear`: one decision per task and a chain of
  versions, as far as requests do not overlap (`contended`).
* `StatusExplained`, `FollowUpsAudited`: the audit trail says of every record why
  it has its status, and the continuation is stored exactly with the decisions
  that call for it, for the version that was decided.
* `BudgetHeld`: calls that reach Redis in a window or the half second after it get
  no more tokens of it than its budget, whatever later ones do.
* `AttemptsArePaid`: no attempt of a metered call reaches a provider without a token
  of its own; with any provider but Azure that is each request.  The documents' claim
  is `SendsArePaid`, each retry, and Azure's own refute it (`provider_unpaid`).
* `CloudSanctioned`: where confidential data may go, whatever profile, setting and
  context lead there, and that a cloud LLM gets it redacted.
* `CallEnds`: every call ends, however often it is refused, answered 429 or polled.

Each module has one type invariant besides (`TypeOK`, `CeleryTypeOK`,
`LocalTypeOK`, `AgentTypeOK`, `ReviewTypeOK`, `ProviderTypeOK`).

## 5. Proofs

All theorems hold for any number of jobs, processes, hosts, requests, calls,
readings and ledgers, any `max_attempts`, budget and retry limit, and any set of
faults.  They assume only the named `ASSUME`s of the modules
(`MaxAttemptsPositive`, `NoWorkerIsNotAnId`, `WorkersFinite`, `HostsOfWorkers`,
`AttemptsCoverRetries`, `FaultBound`, `NoJobIsNotAJob`, `BoundsAssumption`,
`JobsAreNumbered`, `LocalWorkerOnly`, `LocalBounds`, `AgentAssumption`,
`NoneAssumption`, `OutputAssumption`, `LedgerAssumption`, `CallsAssumption`), which
say that a placeholder is no value, that rows are sequences, that bounds are
numbers, that there are finitely many processes, and how the deployment is configured.

*The store* (`WorkflowJobsProofs`).  The properties are not inductive alone.
`StoreInv` adds: an unsubmitted job has neither events nor output
(`Unsubmitted`); a running job has a worker and a lease (`RunningIsHeld`),
without which recovery could not be shown to concern real attempts; and
`OutboxBudget`, the reason for the bound: every event beyond the first was
added for an attempt that was lost or for a message that was taken back, so
events waiting are at most attempts made, plus one while nobody works.
`TypeStep` and `RestStep` go through the transactions one by one;
`ClosedStep` gives the action property, and `ImplementsLifecycle` maps every
transaction to a lifecycle step or a stutter.

*The deployment* (`CeleryWorkersProofs`).  `StepIsTransaction` shows that each
step of a process, the broker or the dispatcher is one transaction or none.
The only step for which this is not immediate is `Finish`: it writes the job
without asking who holds it, and is a stutter only because of
`FinishingIsClosed`, which therefore is part of the invariant (`CeleryInv`)
together with `RunningByHolder` (a running job carries the host of the process
whose claim succeeded last).  From these follow `ImplementsStore`,
`ClosedJobsAgree` and `StaleHostsAreFenced`: the fence compares worker ids, which
for one job are hosts, so the process that commits shares its host with the one
that claimed last.  No assumption is made about which processes share one.

`StrandingIsExplained` adds what stands for an open job.  The property itself is
not inductive: a process that executes a job may turn out to have lost it, and
then drops it, so it does not count.  `Attended` names what does: an event, a
message, a process that is yet to claim or to resend, or the running row, whose
lease the dispatcher watches; or else that the job is in `dropped`.  Each step
leaves alone what stood for a job (`Undisturbed`) or provides for it anew (`Kept`);
`ProcessLeavesAttended`, `CrashLeavesAttended` and `OthersLeaveAttended` go through
them.  A crash of a container needs the cardinality of the messages it held, hence
`WorkersFinite`.  There are no hypotheses about heartbeats, hosts or faults: every
fault may happen, any number of times up to `MaxFaults`.

*The in-process deployment* (`LocalIntakeProofs`).  `StepOnStore` shows that
every step is a transaction of the store or none, with one exception:
`Restart` forgets what cancel requests had read, which no transaction does.
`StoreKept` shows that the store's invariant does not mind, so its properties
hold here too (`StoreHoldsLocally`) though the deployment does not refine it
literally.  `LocalInv` adds two parts.  `MemoryInv` relates the process to the
rows; its core is `PublishedHeld`: a job depends on memory only while it is
PUBLISHED, because every other open status has an event or a lease.
`IntakeInv` relates documents to requests and runs; its core is
`InvoiceAccount`: until a reprocess overlaps, a document has at most one open
run, and none once a run has made its invoice.  `OneInvoice` and
`InvoicesAreShown` are read off it, `DeliveriesAreHeld` and `RefsAreTrue` off
`MemoryInv`.

*Review* (`ReviewTasksProofs`).  The only bounds assumed are that
`MaxDocuments` and `MaxImports` are natural numbers (`BoundsAssumption`); the
number of requests in flight and of decisions is arbitrary.  A step appends
rows and tasks and changes at most one old row and one old task; `RowsStep`,
`TasksStep`, `RequestsStep` and `AuditStep` say so, and `ShapedStep` proves
once that a step of that shape keeps the invariant, so each action needs only
be shown to have the shape.  What makes it inductive are two facts about
requests in flight.  `RequestsMindTheirTask`: if an open task points at the
record a request has read, it is the request's own task, so a commit, however
late, decides no record that another open task waits on; this is where the
uniqueness in `OpenTargetsUndecided` is used.  `LoneRequests`: as long as a
task is not contended its only request found it open and it still is, which
gives `DecidedOnce`.

*The audit trail of review* (`ReviewHistoryProofs`).  `StatusExplained`,
`VersionsLinear` and `FollowUpsAudited` speak of the whole history, so they need to
know which requests could still write.  `HistoryInv` says that requests keep out
of one another's way: no event is about the record of an open task
(`OpenTargetsUntouched`), requests for one record came by one task
(`RequestsShareTasks`), and a request whose record has an event already came by
the task of that event (`RequestsFollowEvents`), so whatever it overwrites, that
task is contended.  Each step is one of three: it creates rows that no event is
about (`CreatesStep`), it is the commit of one request with one event
(`SettlesStep`), or it leaves the tables alone; the three properties are carried
over each shape once.  `VersionsAudited` then makes the chain linear: a second
version of one row would have two events about it.

*The agents* (`AgentWorkflowProofs`).  `AgentInv` strengthens
`ValidatedBeforeBusiness` by `Shapes` (types), `SignalsKnown` and
`SignalInjected` (which signals there can be: one of a deterministic check asks
for review and names no target, only an injected one asks for a correction),
`CorrectionAtHand` (where the driver decides about a retry, the handoff it
takes names the job's target), `DraftIsGroups` (QA sees the groups as they are)
and `RetriesOfTarget`.  The last is the reason for the budget: in one job a
single extractor is ever corrected, so its retries are the run's.  Each lemma
about an agent says it `Ran`: what it recorded and where it may lead; the
drivers are compared only in the few lemmas about routing.
`DriversImplementPipeline` then maps each step; it is the safety part of
`PipelineSpec`.

What a run's last status says of it (`OutcomeTold`) depends on what every earlier
step left behind, so `OutcomeInv` has a part for each: the status before the end
(`StatusOfControl`), the correction signal that is never withdrawn
(`TargetSignalled`), the reading and the groups that are there once their agents
ran (`ReadingTaken`, `GroupsMade`), the results in which the next lookup finds its
handoff (`HandoffsInPlace`), whom a correction is addressed to
(`CorrectionsForTarget`), how far each driver goes (`DriverPlace`) and what an
observer was told (`ProgressBound`).  From it follow `CorrectionsAreTargeted`, and
`ProgressIsMonotonic` together with `AgentsTake`, by which every agent reports its own
stage or the end.  `NoneAssumption` is needed here: a group that is made
is distinguishable from none.  `CategorySupported` is about the rules
themselves: `BestRule` shows that the fold over the eight rules returns one that
no other outranks, `Directed` that the rules and the model's answers keep to the
direction of their category, and `ClassifiedStep` that the draft they saw does
not change afterwards.

*Matches* (`BankStatementProofs`).  `WorkflowUndisturbed` (`BankSpec => Spec`)
carries the agents' invariant over to the workflow with persistence and
imports.  `SureScore` is the arithmetic: 85 of 100 points cannot be had without
points from all three scores, nor without enough from the amount.  `MatchAtHand`,
`BookAtHand` and `ImportsMatched` say that what is in the scratchpad, the book
and the matches came from the scorer, with the ledger and the invoice of the
time; `AllocatedOnce` is inductive with them.

*Rows for the reviewer* (`BankStatementProofs` too).  `EveryDocumentReviewed` speaks
of what is persisted at the end, so it rests on where a workflow can end
(`OutcomeInv` of the agents) and on `DraftInv`: the groups and the draft are made of
the document, and at the end there is a draft unless the document could not be
read.  `BookMade` says that the book holds the rows of that state, or only the
failed run where the tables refuse them.  `ValuesHaveEvidence` goes through the
fields one by one.  That a refusal is always due to something that was read needs
`RowsFit`, from `LinesFit` and `InvoiceFits`: whatever the columns hold, the values
the code assigns itself fit.  For the lines the tables also want that no two have
one number and that the numbers fit an integer column, and a fold over the lines
numbers them.  `LinesAreNumbered` shows that no two share a number, for any number
of lines, and that a number that was not read is at most their count.  The library's
induction theorems take an operator as a parameter; their
set form does not: from `NatLessThanWellFounded` and `WFMin` follow `Inductive` (a set
of naturals with 0 and every successor of its members holds all of them) and
`LeastExists`.  With `Inductive`, `FoldExists` shows that there is a function that
numbers line after line, as the fold does; `FreeNumber` that among one number more
than there are lines one is free (by cardinality), so `NumberTaken` that the next
line's number is new; and a second use of `Inductive` that all of them differ.

*Provider calls* (`ProviderCallsProofs`).  `BudgetIsHeld` is about the key's
life: 1.5 seconds, half a second more than a window.  `AskedBefore` says that a call
names the window of a time it read, so a key is made no earlier than its window
begins, and `KeyCovers` that it outlives every call that can still come in time, so
the count in it covers the tokens granted to such calls.  Calls that come later may
find the key expired and begin to count anew; they are granted beyond the budget,
and the statement does not count them.  `AttemptsPaid` counts tokens and attempts
along the phases of a call (`TokenInHand`), and requests of providers that take one
for each attempt (`OneRequestElsewhere`); `CloudIsSanctioned` follows from what the
gate saw at `Begin` (`PassedTheGate`), which a retry does not change.

*Only model-checked:* what is temporal beyond safety, `EventuallyClosed`, `Settles`,
`CallEnds` and the liveness part of `PipelineSpec`: liveness under fairness and
`ENABLED` are out of the prover's reach.  Every invariant and every action property
that a run checks is stated by a theorem.  No module has a RECURSIVE operator; recursion is
written with folds.  Four
statements are proved that no run repeats: `ClosedStaysClosed`, `ClosedJobsAgree`,
`ReviewAudited`, `LinesAreNumbered`.

## 6. Where code and documents disagree

1. `celery_stranded`: an execution that outlives its lease marks its job
   RETRYING and is then swallowed; nothing redelivers it.
2. `celery_one_host`: pool processes of one container share a worker id, so
   the fence cannot tell a stale attempt from the current one.
3. `celery_cancel_race`: cancel may reach a job that has started, even one
   that has finished.
4. `review_resurrected`: an approval that read a record before a correction of
   it committed makes the replaced version approved again.
5. `agent_review_lost`: the review coordinator "stop[s] for human review"
   (`downstream_agents.py:454`) and the runner completes the run over it
   (`replay.py:427`).
6. `provider_unpaid`: "provider retries acquire a fresh token"
   (`docs/worker_runtime.md:92`), but Azure's 429 is retried within the attempt, on
   the token it has.

`PROJECT.json` quotes the documents and describes each counterexample.

### Observations

Met while reading and modelling.  Most contradict no document, and none has a run
of its own; the ones that are within the models behave this way there (paths
below `app/`).

*Jobs and intake*
* A pool process that is killed before its claim, or between recording a failure
  and sending the retry, takes its message with it (`workers/celery_app.py:28`
  without `task_reject_on_worker_lost`); nothing but a requeue brings a PUBLISHED
  job back, and nothing a RETRYING one.
* In-process, a claim that raises goes on to dead-letter the job under the constant
  worker id (`main.py:77-82`).
* In-process, a claim that raises, or a restart while a job is PUBLISHED, leaves
  a job nothing takes up but an operator's requeue; a delivery skipped under a
  lease the process lost shows as SUCCEEDED until recovery.
* A dead-lettered run can be worked on again by a Celery retry: the job's and
  Celery's counters are not the run's.
* Reprocessing a LOST run, or a run in flight, can make a second invoice.  The
  document status FAILED is never written.

*Extraction and output*
* A line item takes its currency as it was read (`services/workflow_outputs.py:441`)
  while the invoice's is normalised.  One in words, a name, number or tax id too long
  for its column, an amount beyond `Numeric(18, 2)` or a line number beyond an integer
  refuses the whole output, the run in the same session included.
* `{}` as a model's answer replaces what the parser had found; a prebuilt
  table that is empty still skips the model; the chat adapter ignores
  `finish_reason`, and every exception of an adapter becomes one kind of error.
* Observers are told `review_required` at 100 % and then `completed`.
* A positive amount without a direction falls back to `uncategorized_revenue`;
  `advertising_expense`, `bank_fees` and `payroll_expense` of the rules are not in
  the taxonomy.

*Matching*
* A READY match on the transaction made up for a local replay persists without
  an allocation; an ambiguous one allocates every matched transaction whole.
* The workflow's query for candidates compares signed amounts
  (`workflows/downstream_agents.py:278-285`).
* A credit cell "0.00" beside a debit makes the row an inflow of 0
  (`services/bank_statement_import.py:382`); a statement's currency is never read
  from its metadata rows, so rows without a column are in USD (`:355`);
  `duplicate_count` is always 0 (`:214-215`).
* Two statements can each make a sure match for one invoice; the difference has
  the other sign than the workflow's; two allocations of a transaction make a later
  import raise (`:484`).

*Providers*
* The runtime built after an approval has no limiter, though
  `providers/rate_limit.py:18` speaks of every attempt; a call that reaches Redis more
  than half a second after its window can overspend the budget; a timed-out attempt
  leaves its request running in a thread.
* What is sent to a cloud OCR provider is the document itself: `sanitize_ocr_input`
  redacts the metadata and keeps the local path (`providers/privacy.py:264`), whose
  file `providers/azure_di.py:143` posts.

*Review*
* A corrected reconciliation gets no allocations, though `docs/data_model.md:108`
  names new allocation rows (`services/review_tasks.py:1014`);
  the error of `review/versioning.py:30` is mapped to no status code.

## 7. Not modelled

* *Character-level conversion*: the regular expressions of the text parser, of
  dates and of party names are abstracted to the cells, labels and keys they
  find; one-character currency signs, which fit every column, are left out, and so
  are a line's tax amount, texts and codes, which its columns may refuse as well.
* *I/O without a decision*: HTTP, OCR engines, image handling, prompts,
  validation of an uploaded file and malware scan (which refuse before anything
  is written), the drawing of `graph_debug.py`.
* *What no driver or deployment can produce*: the scratchpad's context-mismatch
  failures, route mismatches, providers that nothing wires up, exceptions of an
  agent other than a provider's; the date, currency, statement and duplicate
  validators of `validation/deterministic.py`, which the application never calls;
  classification of transactions, which only offline tools do.
* *Read-only parts*: insights, dashboard, lineage, access logs, counters and
  traces, evaluations and scripts, the frontend.
* *Left for later*: two imports that overlap each other; clocks of hosts that
  differ; row locks as such (PostgreSQL's deadlock victim is an execution that
  fails, which the models contain); the evidence row of the line items.
