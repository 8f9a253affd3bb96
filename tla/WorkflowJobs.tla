---------------------------- MODULE WorkflowJobs ----------------------------
(***************************************************************************)
(* The durable job store of backend/app: the tables workflow_jobs,         *)
(* workflow_runs and outbox_events and every transaction that writes them. *)
(* Each action below is one database transaction; it runs alone on its job *)
(* because the code takes the job row FOR UPDATE and writes in the same    *)
(* transaction.  Who calls which transaction, and when, is left open here: *)
(* CeleryWorkers gives the callers of the deployed configuration.          *)
(*                                                                         *)
(* The clock enters only through comparisons of lease_expires_at with now, *)
(* so a lease is "live" (later than now), "due" (equal), "past" (earlier)  *)
(* or "none" (NULL), and LeaseTick is the passing of time.  All hosts are  *)
(* taken to read the same clock.                                           *)
(***************************************************************************)
EXTENDS Naturals

CONSTANTS Jobs,         \* workflow_jobs.id, which is also the workflow_run_id
          WorkerIds,    \* values of workflow_jobs.worker_id
          NoWorker,     \* worker_id NULL
          MaxAttempts   \* workflow_jobs.max_attempts

ASSUME MaxAttemptsPositive == MaxAttempts \in Nat \ {0}
ASSUME NoWorkerIsNotAnId == NoWorker \notin WorkerIds

VARIABLES
    job,          \* [Jobs -> row of workflow_jobs]
    run,          \* [Jobs -> row of workflow_runs; retries is the count of
                  \*  state.retry_counts["workflow_queue"]]
    pending,      \* [Jobs -> number of outbox events of the job still PENDING]
    outputs,      \* [Jobs -> committed materializations of the job] (history)
    cancelReads   \* jobs with a cancel request that has read the run as
                  \* queued and not yet obtained the job row

storeVars == <<job, run, pending, outputs, cancelReads>>

JobStatus == {"absent", "queued", "published", "running", "retrying",
              "succeeded", "dead_lettered", "cancelled", "lost"}
TerminalJobStatuses == {"succeeded", "dead_lettered", "cancelled"}

\* Run statuses an executor commits together with its output.
Outcomes == {"completed", "review_required", "failed", "dead_lettered"}
TerminalSuccess == {"completed", "review_required"}
RunStatus == Outcomes \cup {"absent", "queued", "retrying", "lost", "cancelled"}

Leases == {"none", "live", "due", "past"}

\* attempt_count is only compared with max_attempts and the retry count only
\* with max_attempts - 1, so one value past each limit stands for the rest.
AttemptCap == MaxAttempts + 1
Bump(n, cap) == IF n < cap THEN n + 1 ELSE n

JobRows == [status : JobStatus, attempts : 0..AttemptCap, lease : Leases,
            worker : WorkerIds \cup {NoWorker}]
RunRows == [status : RunStatus, retries : 0..MaxAttempts]

StoreInit ==
    /\ job = [j \in Jobs |-> [status |-> "absent", attempts |-> 0,
                              lease |-> "none", worker |-> NoWorker]]
    /\ run = [j \in Jobs |-> [status |-> "absent", retries |-> 0]]
    /\ pending = [j \in Jobs |-> 0]
    /\ outputs = [j \in Jobs |-> 0]
    /\ cancelReads = {}

Open(j) == job[j].status \notin TerminalJobStatuses \cup {"absent"}

-----------------------------------------------------------------------------
(* Submission.                                                             *)

\* Run, job and outbox event are staged together and committed with the
\* document.
Submit(j) ==
    /\ job[j].status = "absent"
    /\ job' = [job EXCEPT ![j].status = "queued"]
    /\ run' = [run EXCEPT ![j].status = "queued"]
    /\ pending' = [pending EXCEPT ![j] = 1]
    /\ UNCHANGED <<outputs, cancelReads>>

-----------------------------------------------------------------------------
(* Transactions of a worker.                                               *)

Claimable(j) == Open(j) /\ ~ (job[j].status = "running" /\ job[j].lease = "live")

\* Mutant of Owns: the worker id alone decides.
OwnsByName(j, w) == job[j].worker = w

Owns(j, w) == job[j].status = "running" /\ job[j].worker = w

\* A delivery of a job whose run is already materialized only closes the job.
Claim(j, w) ==
    /\ Claimable(j)
    /\ job' = [job EXCEPT ![j] =
                  IF run[j].status \in TerminalSuccess
                  THEN [@ EXCEPT !.status = "succeeded"]
                  ELSE [status |-> "running", attempts |-> Bump(@.attempts, AttemptCap),
                        lease |-> "live", worker |-> w]]
    /\ UNCHANGED <<run, pending, outputs, cancelReads>>

\* Renewal asks who holds the job and not whether the lease has lapsed.
Heartbeat(j, w) ==
    /\ Owns(j, w)
    /\ job' = [job EXCEPT ![j].lease = "live"]
    /\ UNCHANGED <<run, pending, outputs, cancelReads>>

\* runtime.request_retry on the run: the budget is max_attempts - 1 retries,
\* and past it the run, though not the job, is dead-lettered.
RetriedRun(r) ==
    LET n == Bump(r.retries, MaxAttempts)
    IN  [status |-> IF n > MaxAttempts - 1 THEN "dead_lettered" ELSE "retrying",
         retries |-> n]

MarkRetrying(j, w) ==
    /\ Owns(j, w)
    /\ job' = [job EXCEPT ![j] =
                  [@ EXCEPT !.status = "retrying", !.lease = "none"]]
    /\ run' = [run EXCEPT ![j] = RetriedRun(@)]
    /\ UNCHANGED <<pending, outputs, cancelReads>>

MarkDeadLettered(j, w) ==
    /\ Owns(j, w)
    /\ job' = [job EXCEPT ![j] =
                  [@ EXCEPT !.status = "dead_lettered", !.lease = "none"]]
    /\ run' = [run EXCEPT ![j].status = "dead_lettered"]
    /\ UNCHANGED <<pending, outputs, cancelReads>>

\* The executor's only commit: the business rows and the final run status of
\* the workflow, guarded by the fence on the job row.
\* Mutants of Fence: the status and the lease are forgotten; the worker is.
FenceByName(j, w) == job[j].worker = w
FenceByLease(j, w) == job[j].status = "running" /\ job[j].lease = "live"

Fence(j, w) == Owns(j, w) /\ job[j].lease = "live"

Complete(j, w, outcome) ==
    /\ Fence(j, w)
    /\ job' = [job EXCEPT ![j] =
                  [@ EXCEPT !.status = "succeeded", !.lease = "none"]]
    /\ run' = [run EXCEPT ![j].status = outcome]
    /\ outputs' = [outputs EXCEPT ![j] = @ + 1]
    /\ UNCHANGED <<pending, cancelReads>>

\* The in-process executor records a failed execution on the run without
\* looking at the job (mark_failed=True, which Celery turns off).
MarkRunFailed(j) ==
    /\ run[j].status # "absent"
    /\ run' = [run EXCEPT ![j].status = "failed"]
    /\ UNCHANGED <<job, pending, outputs, cancelReads>>

-----------------------------------------------------------------------------
(* Transactions of the outbox dispatcher.                                  *)

\* The event was sent: it is PUBLISHED and so is the job, whatever its status
\* was.
PublishCommit(j) ==
    /\ pending[j] > 0
    /\ Open(j)
    /\ job' = [job EXCEPT ![j].status = "published"]
    /\ pending' = [pending EXCEPT ![j] = @ - 1]
    /\ UNCHANGED <<run, outputs, cancelReads>>

\* Mutant of DiscardEvent: an event that was sent already is taken once more.
DiscardSentEvent(j) ==
    /\ job[j].status \in TerminalJobStatuses
    /\ pending' = [pending EXCEPT ![j] = @ - 1]
    /\ UNCHANGED <<job, run, outputs, cancelReads>>

\* The event of a closed job is cancelled.
DiscardEvent(j) ==
    /\ pending[j] > 0
    /\ job[j].status \in TerminalJobStatuses
    /\ pending' = [pending EXCEPT ![j] = @ - 1]
    /\ UNCHANGED <<job, run, outputs, cancelReads>>

Expired(j) == job[j].status = "running" /\ job[j].lease = "past"

\* Mutant of RecoverExhausted: off by one, the last attempt is left running.
RecoverPastExhaustion(j) ==
    /\ Expired(j)
    /\ job[j].attempts > MaxAttempts
    /\ job' = [job EXCEPT ![j].status = "dead_lettered"]
    /\ run' = [run EXCEPT ![j].status = "dead_lettered"]
    /\ UNCHANGED <<pending, outputs, cancelReads>>

RecoverExhausted(j) ==
    /\ Expired(j)
    /\ job[j].attempts >= MaxAttempts
    /\ job' = [job EXCEPT ![j].status = "dead_lettered"]
    /\ run' = [run EXCEPT ![j].status = "dead_lettered"]
    /\ UNCHANGED <<pending, outputs, cancelReads>>

\* Mutant of RecoverLost: no event is added.
RecoverLostSilently(j) ==
    /\ Expired(j)
    /\ job[j].attempts < MaxAttempts
    /\ job' = [job EXCEPT ![j] =
                  [@ EXCEPT !.status = "lost", !.worker = NoWorker, !.lease = "none"]]
    /\ run' = [run EXCEPT ![j].status = "lost"]
    /\ UNCHANGED <<pending, outputs, cancelReads>>

RecoverLost(j) ==
    /\ Expired(j)
    /\ job[j].attempts < MaxAttempts
    /\ job' = [job EXCEPT ![j] =
                  [@ EXCEPT !.status = "lost", !.worker = NoWorker, !.lease = "none"]]
    /\ run' = [run EXCEPT ![j].status = "lost"]
    /\ pending' = [pending EXCEPT ![j] = @ + 1]
    /\ UNCHANGED <<outputs, cancelReads>>

-----------------------------------------------------------------------------
(* Requests of the API.                                                    *)

\* The cancel handler reads the run without a lock and goes on if it is
\* queued.  (A run that is not queued is refused and nothing changes.)
ReadForCancel(j) ==
    /\ run[j].status = "queued"
    /\ cancelReads' = cancelReads \cup {j}
    /\ UNCHANGED <<job, run, pending, outputs>>

\* Mutant of Cancel: the run is left as it was.
CancelJobOnly(j) ==
    /\ j \in cancelReads
    /\ job[j].status # "running"
    /\ job' = [job EXCEPT ![j].status = "cancelled"]
    /\ pending' = [pending EXCEPT ![j] = 0]
    /\ cancelReads' = cancelReads \ {j}
    /\ UNCHANGED <<run, outputs>>

\* It then waits for the job row, looks at the job's status only to refuse a
\* running one, and writes the run back as it was read: queued runs have not
\* been retried.
Cancel(j) ==
    /\ j \in cancelReads
    /\ job[j].status # "running"
    /\ job' = [job EXCEPT ![j].status = "cancelled"]
    /\ run' = [run EXCEPT ![j] = [status |-> "cancelled", retries |-> 0]]
    /\ pending' = [pending EXCEPT ![j] = 0]
    /\ cancelReads' = cancelReads \ {j}
    /\ UNCHANGED outputs

RefuseCancel(j) ==
    /\ j \in cancelReads
    /\ job[j].status = "running"
    /\ cancelReads' = cancelReads \ {j}
    /\ UNCHANGED <<job, run, pending, outputs>>

\* Mutant of Requeueable: a job that waits in the outbox is accepted too.
RequeueableTwice(j) == job[j].status \in {"queued", "published"}

Requeueable(j) == job[j].status = "published"

\* An operator puts a published job back in the outbox.
Requeue(j) ==
    /\ Requeueable(j)
    /\ job' = [job EXCEPT ![j] =
                  [@ EXCEPT !.status = "queued", !.worker = NoWorker, !.lease = "none"]]
    /\ pending' = [pending EXCEPT ![j] = @ + 1]
    /\ UNCHANGED <<run, outputs, cancelReads>>

-----------------------------------------------------------------------------
(* Time.                                                                   *)

LeaseTick(j) ==
    /\ job[j].lease \in {"live", "due"}
    /\ job' = [job EXCEPT ![j].lease = IF @ = "live" THEN "due" ELSE "past"]
    /\ UNCHANGED <<run, pending, outputs, cancelReads>>

-----------------------------------------------------------------------------
WorkerTransaction(j) == \E w \in WorkerIds :
    \/ Claim(j, w)
    \/ Heartbeat(j, w)
    \/ MarkRetrying(j, w)
    \/ MarkDeadLettered(j, w)
    \/ \E outcome \in Outcomes : Complete(j, w, outcome)

\* Every transaction but the in-process executor's write on the run.
Transaction(j) ==
    \/ Submit(j)
    \/ WorkerTransaction(j)
    \/ PublishCommit(j)
    \/ DiscardEvent(j)
    \/ RecoverExhausted(j)
    \/ RecoverLost(j)
    \/ ReadForCancel(j)
    \/ Cancel(j)
    \/ RefuseCancel(j)
    \/ Requeue(j)
    \/ LeaseTick(j)

StoreNext == \E j \in Jobs : Transaction(j) \/ MarkRunFailed(j)

StoreSpec == StoreInit /\ [][StoreNext]_storeVars

-----------------------------------------------------------------------------
(* Properties: they hold whoever calls the transactions and in any order.  *)

\* Types of the rows; an event is taken off the outbox no more than once.
TypeOK ==
    /\ job \in [Jobs -> JobRows]
    /\ run \in [Jobs -> RunRows]
    /\ pending \in [Jobs -> Nat]
    /\ outputs \in [Jobs -> Nat]
    /\ cancelReads \subseteq Jobs

\* Business output and the job's row agree: output is committed at most once,
\* a succeeded job has its output, and output exists only for a job that
\* succeeded, or succeeded and was then cancelled
\* (_complete_job_with_output: "atomically complete their durable job").
MaterializedOnce == \A j \in Jobs :
    /\ outputs[j] <= 1
    /\ job[j].status = "succeeded" => outputs[j] = 1
    /\ outputs[j] = 1 => job[j].status \in {"succeeded", "cancelled"}

\* A run the reader sees as completed or waiting for review belongs to a
\* succeeded job with output; a closed job's run is closed the same way, or
\* shows the failure an in-process executor wrote over it.  (The claim's
\* branch for an already materialized run can therefore never be taken.)
RunAgrees == \A j \in Jobs :
    /\ run[j].status \in TerminalSuccess => job[j].status = "succeeded"
    /\ job[j].status = "succeeded" => run[j].status \in Outcomes
    /\ job[j].status = "dead_lettered" => run[j].status \in {"dead_lettered", "failed"}
    /\ job[j].status = "cancelled" => run[j].status \in {"cancelled", "failed"}

\* The transactional outbox: a job that waits to be sent to the broker
\* (freshly submitted, requeued by an operator, or lost by its worker) always
\* has a pending event that will send it.
StagedHasEvent == \A j \in Jobs :
    job[j].status \in {"queued", "lost"} => pending[j] > 0

\* Redelivery does not multiply: however often workers are lost and operators
\* requeue, a job never has more than max_attempts events waiting, a job in
\* the broker counting as one.
OutboxBounded == \A j \in Jobs :
    pending[j] + (IF job[j].status = "published" THEN 1 ELSE 0) <= MaxAttempts

\* What closes stays closed, and only a cancel request rewrites the way it
\* was closed.
TerminalStaysTerminal == [][\A j \in Jobs :
    job[j].status \in TerminalJobStatuses =>
        job'[j].status \in {job[j].status, "cancelled"}]_storeVars

\* The lifecycle the tables implement.  The history of outputs tells a
\* cancelled job whose output is already committed from one without.
OpenPhase(status) ==
    IF status = "absent" THEN "absent"
    ELSE IF status = "running" THEN "working" ELSE "waiting"

PhaseOf(j) ==
    IF job[j].status \notin TerminalJobStatuses THEN OpenPhase(job[j].status)
    ELSE IF outputs[j] = 0 THEN "abandoned" ELSE "materialized"

Lifecycle == INSTANCE JobLifecycle WITH
    effects <- outputs,
    phase <- [j \in Jobs |-> PhaseOf(j)]

LifecycleSpec == Lifecycle!Spec
=============================================================================
