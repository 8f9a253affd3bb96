--------------------------- MODULE CeleryWorkers ---------------------------
(***************************************************************************)
(* The deployed configuration: Celery worker processes and the outbox      *)
(* dispatcher drive the durable store of WorkflowJobs through a Redis      *)
(* broker.  A worker process follows workers/tasks.py                      *)
(* (execute_document_processing and _run_worker_attempt) and               *)
(* execute_claimed_workflow_job; every database transaction on the way is  *)
(* an action of WorkflowJobs, so this module implements StoreSpec.         *)
(*                                                                         *)
(* worker_id is "<host>:<task id>", and the task id of every delivery of a *)
(* job is the job's id: for one job it tells hosts apart and nothing else. *)
(*                                                                         *)
(* The message of a delivery is held by the container (task_acks_late):    *)
(* its parent process acknowledges it when the pool process is done with   *)
(* it or is killed (task_reject_on_worker_lost is not set), and the broker *)
(* delivers it again when the container itself dies.                       *)
(*                                                                         *)
(* Faults are drawn from FaultKinds, at most MaxFaults of them in a        *)
(* behaviour.                                                              *)
(***************************************************************************)
EXTENDS WorkflowJobs, FiniteSets

CONSTANTS Workers,           \* worker processes
          Host,              \* [Workers -> WorkerIds]
          NoJob,
          MaxRetries,        \* celery_task_max_retries
          FaultKinds,
          MaxFaults

ASSUME WorkersFinite == IsFiniteSet(Workers)
ASSUME HostsOfWorkers == Host \in [Workers -> WorkerIds]
ASSUME AttemptsCoverRetries == MaxRetries \in Nat /\ MaxAttempts = MaxRetries + 1
ASSUME FaultBound == MaxFaults \in Nat
ASSUME NoJobIsNotAJob == NoJob \notin Jobs

VARIABLES
    broker,   \* [Jobs -> [0..MaxRetries -> number of messages]]; a message is
              \* a delivery of the job with its Celery retry count
    worker,   \* [Workers -> the state of the process]
    holder,   \* [Jobs -> the process whose claim succeeded last] (history)
    dropped,  \* jobs whose delivery was given up and that were neither claimed
              \* nor requeued since (history)
    faults    \* how many faults have happened

celeryVars == <<broker, worker, holder, dropped, faults>>
vars == <<storeVars, celeryVars>>

Retries == 0..MaxRetries

Phases == {"idle",        \* waiting for a message
           "received",    \* has a message, has not claimed the job
           "executing",   \* the claim succeeded; the workflow runs
           "failed",      \* an exception reached _run_worker_attempt
           "retrying",    \* task.retry is to publish the next delivery
           "finishing",   \* executed; mark_succeeded comes
           "closing"}     \* the message is to be acknowledged

\* leaseLost: the exception is WorkflowJobLeaseLostError.  beats: the
\* heartbeat loop runs; "broken" if it ended with an exception, which the
\* finally block raises again when the execution ends.
Beats == {"off", "on", "broken"}

Idle == [phase |-> "idle", job |-> NoJob, retries |-> 0,
         leaseLost |-> FALSE, beats |-> "off"]

WorkerRows == [phase : Phases, job : Jobs \cup {NoJob}, retries : Retries,
               leaseLost : BOOLEAN, beats : Beats]

Init ==
    /\ StoreInit
    /\ broker = [j \in Jobs |-> [r \in Retries |-> 0]]
    /\ worker = [w \in Workers |-> Idle]
    /\ holder = [j \in Jobs |-> NoWorker]
    /\ dropped = {}
    /\ faults = 0

Fault(kind) ==
    /\ kind \in FaultKinds
    /\ faults < MaxFaults
    /\ faults' = faults + 1

Sent(b, j, r) == [b EXCEPT ![j][r] = @ + 1]

To(w, phase) == worker' = [worker EXCEPT ![w].phase = phase]

At(w, phase) == worker[w].phase = phase

MayRetry(w) == worker[w].retries < MaxRetries

\* The delivery of j ends without another to follow.  A running job has its
\* lease to bring it back.
Drop(j) == dropped' = IF job[j].status = "running" THEN dropped ELSE dropped \cup {j}

-----------------------------------------------------------------------------
(* A worker process.                                                       *)

\* Mutant of Receive: one message is taken twice.
ReceiveUnchecked(w, j, r) ==
    /\ At(w, "idle")
    /\ broker' = [broker EXCEPT ![j][r] = @ - 1]
    /\ worker' = [worker EXCEPT ![w] =
                    [Idle EXCEPT !.phase = "received", !.job = j, !.retries = r]]
    /\ UNCHANGED <<storeVars, holder, dropped, faults>>

Receive(w, j, r) ==
    /\ At(w, "idle")
    /\ broker[j][r] > 0
    /\ broker' = [broker EXCEPT ![j][r] = @ - 1]
    /\ worker' = [worker EXCEPT ![w] =
                    [Idle EXCEPT !.phase = "received", !.job = j, !.retries = r]]
    /\ UNCHANGED <<storeVars, holder, dropped, faults>>

\* The delivery claims the job, unless the run is materialized already.
ClaimDelivery(w) ==
    LET j == worker[w].job
    IN  /\ At(w, "received")
        /\ Claim(j, Host[w])
        /\ worker' = [worker EXCEPT ![w] =
                        IF run[j].status \in TerminalSuccess
                        THEN [@ EXCEPT !.phase = "closing"]
                        ELSE [@ EXCEPT !.phase = "executing", !.beats = "on"]]
        /\ holder' = [holder EXCEPT ![j] = w]
        /\ dropped' = dropped \ {j}
        /\ UNCHANGED <<broker, faults>>

\* A closed job or one under an unexpired lease is skipped.
SkipDelivery(w) ==
    /\ At(w, "received")
    /\ ~ Claimable(worker[w].job)
    /\ To(w, "closing")
    /\ UNCHANGED <<storeVars, broker, holder, dropped, faults>>

\* The claim's transaction fails; the exception is handled like one of the
\* execution.
ClaimError(w) ==
    /\ At(w, "received")
    /\ Fault("claim_error")
    /\ To(w, "failed")
    /\ Drop(worker[w].job)
    /\ UNCHANGED <<storeVars, broker, holder>>

Beat(w) ==
    /\ At(w, "executing")
    /\ worker[w].beats = "on"
    /\ Heartbeat(worker[w].job, Host[w])
    /\ UNCHANGED celeryVars

\* heartbeat() returns False and the loop ends.
BeatStops(w) ==
    /\ At(w, "executing")
    /\ worker[w].beats = "on"
    /\ ~ Owns(worker[w].job, Host[w])
    /\ worker' = [worker EXCEPT ![w].beats = "off"]
    /\ UNCHANGED <<storeVars, broker, holder, dropped, faults>>

BeatError(w) ==
    /\ At(w, "executing")
    /\ worker[w].beats = "on"
    /\ Fault("beat_error")
    /\ worker' = [worker EXCEPT ![w].beats = "broken"]
    /\ UNCHANGED <<storeVars, broker, holder, dropped>>

\* The execution ends with an exception (lost: the fence's).  A broken
\* heartbeat replaces it with its own.
Raised(w, lost) ==
    worker' = [worker EXCEPT ![w].phase = "failed", ![w].beats = "off",
                             ![w].leaseLost = lost /\ worker[w].beats # "broken"]

\* The workflow ran to its end and the fence lets it commit.
Commit(w, outcome) ==
    /\ At(w, "executing")
    /\ Complete(worker[w].job, Host[w], outcome)
    /\ IF worker[w].beats = "broken"
       THEN Raised(w, FALSE)
       ELSE worker' = [worker EXCEPT ![w].phase = "finishing", ![w].beats = "off"]
    /\ UNCHANGED <<broker, holder, dropped, faults>>

\* Mutant of Fenced: the refusal is not raised.
FencedQuietly(w) ==
    /\ At(w, "executing")
    /\ ~ Fence(worker[w].job, Host[w])
    /\ To(w, "finishing")
    /\ UNCHANGED <<storeVars, broker, holder, dropped, faults>>

\* The workflow ran to its end and the fence refuses it: rolled back.
Fenced(w) ==
    /\ At(w, "executing")
    /\ ~ Fence(worker[w].job, Host[w])
    /\ Raised(w, TRUE)
    /\ UNCHANGED <<storeVars, broker, holder, dropped, faults>>

\* The workflow raises (a provider, the storage, the database): rolled back.
ExecutionFails(w) ==
    /\ At(w, "executing")
    /\ Raised(w, FALSE)
    /\ UNCHANGED <<storeVars, broker, holder, dropped, faults>>

\* Mutant of Finish: a closed job is not left alone.
FinishAnyJob(w) ==
    /\ At(w, "finishing")
    /\ job' = [job EXCEPT ![worker[w].job].status = "succeeded",
                          ![worker[w].job].lease = "none"]
    /\ To(w, "closing")
    /\ UNCHANGED <<run, pending, outputs, cancelReads, broker, holder, dropped, faults>>

\* mark_succeeded after the execution; it leaves a closed job alone.
Finish(w) ==
    LET j == worker[w].job
    IN  /\ At(w, "finishing")
        /\ job' = IF job[j].status \in TerminalJobStatuses THEN job
                  ELSE [job EXCEPT ![j].status = "succeeded", ![j].lease = "none"]
        /\ To(w, "closing")
        /\ UNCHANGED <<run, pending, outputs, cancelReads, broker, holder, dropped, faults>>

\* Mutant of AfterMark: no delivery follows a failed one.
CloseAfterMark(w) == "closing"

\* What the task does with an exception that was recorded on a job it owns:
\* a lost lease is logged and the task returns, anything else is retried
\* while Celery's count allows it.
AfterMark(w) ==
    IF worker[w].leaseLost \/ ~ MayRetry(w) THEN "closing" ELSE "retrying"

MarkFailure(w) ==
    LET j == worker[w].job
    IN  /\ At(w, "failed")
        /\ IF MayRetry(w) THEN MarkRetrying(j, Host[w])
                          ELSE MarkDeadLettered(j, Host[w])
        /\ To(w, AfterMark(w))
        /\ dropped' = IF worker[w].leaseLost THEN dropped \cup {j} ELSE dropped
        /\ UNCHANGED <<broker, holder, faults>>

\* The job is no longer this worker's: the exception is dropped.
MarkRefused(w) ==
    /\ At(w, "failed")
    /\ ~ Owns(worker[w].job, Host[w])
    /\ To(w, "closing")
    /\ UNCHANGED <<storeVars, broker, holder, dropped, faults>>

\* Recording the failure fails as well; its exception goes to the task.
MarkError(w) ==
    /\ At(w, "failed")
    /\ Fault("mark_error")
    /\ To(w, IF MayRetry(w) THEN "retrying" ELSE "closing")
    /\ UNCHANGED <<storeVars, broker, holder, dropped>>

\* task.retry sends the same task id with the count raised.
PublishRetry(w) ==
    /\ At(w, "retrying")
    /\ broker' = Sent(broker, worker[w].job, worker[w].retries + 1)
    /\ To(w, "closing")
    /\ UNCHANGED <<storeVars, holder, dropped, faults>>

\* task.retry cannot reach the broker: Celery rejects the delivery.
PublishRetryError(w) ==
    /\ At(w, "retrying")
    /\ Fault("retry_error")
    /\ To(w, "closing")
    /\ Drop(worker[w].job)
    /\ UNCHANGED <<storeVars, broker, holder>>

\* task_acks_late: the message goes only now, also after a failed task.
Acknowledge(w) ==
    /\ At(w, "closing")
    /\ worker' = [worker EXCEPT ![w] = Idle]
    /\ UNCHANGED <<storeVars, broker, holder, dropped, faults>>

\* The pool process is killed.  Its parent acknowledges the message, so the
\* job is dropped if the process had yet to claim it or to send its retry.
ChildCrash(w) ==
    /\ ~ At(w, "idle")
    /\ Fault("child_crash")
    /\ worker' = [worker EXCEPT ![w] = Idle]
    /\ IF worker[w].phase \in {"received", "retrying"}
       THEN Drop(worker[w].job)
       ELSE UNCHANGED dropped
    /\ UNCHANGED <<storeVars, broker, holder>>

Unacknowledged(h, j, r) == {w \in Workers :
    Host[w] = h /\ ~ At(w, "idle") /\ worker[w].job = j /\ worker[w].retries = r}

\* The container dies with every process in it; what they had not
\* acknowledged is delivered again.
ContainerCrash(h) ==
    /\ \E w \in Workers : Host[w] = h /\ ~ At(w, "idle")
    /\ Fault("container_crash")
    /\ broker' = [j \in Jobs |-> [r \in Retries |->
                    broker[j][r] + Cardinality(Unacknowledged(h, j, r))]]
    /\ worker' = [w \in Workers |-> IF Host[w] = h THEN Idle ELSE worker[w]]
    /\ UNCHANGED <<storeVars, holder, dropped>>

-----------------------------------------------------------------------------
(* The broker.                                                             *)

\* The visibility timeout delivers a message again while it is processed.
Redeliver(w) ==
    /\ ~ At(w, "idle")
    /\ Fault("redelivery")
    /\ broker' = Sent(broker, worker[w].job, worker[w].retries)
    /\ UNCHANGED <<storeVars, worker, holder, dropped>>

LoseMessage(j, r) ==
    /\ broker[j][r] > 0
    /\ Fault("loss")
    /\ broker' = [broker EXCEPT ![j][r] = @ - 1]
    /\ Drop(j)
    /\ UNCHANGED <<storeVars, worker, holder>>

-----------------------------------------------------------------------------
(* The outbox dispatcher.                                                  *)

\* dispatch_once for one event: the message is sent while the job row is
\* locked, and the statuses are committed after.
Dispatch(j) ==
    /\ PublishCommit(j)
    /\ broker' = Sent(broker, j, 0)
    /\ UNCHANGED <<worker, holder, dropped, faults>>

\* The dispatcher dies, or its commit fails, after the message was sent.
DispatchCrash(j) ==
    /\ pending[j] > 0
    /\ Open(j)
    /\ Fault("dispatch_crash")
    /\ broker' = Sent(broker, j, 0)
    /\ UNCHANGED <<storeVars, worker, holder, dropped>>

Discard(j) == DiscardEvent(j) /\ UNCHANGED celeryVars

Recover(j) == (RecoverExhausted(j) \/ RecoverLost(j)) /\ UNCHANGED celeryVars

-----------------------------------------------------------------------------
(* The API and time.                                                       *)

SubmitDocument(j) == Submit(j) /\ UNCHANGED celeryVars

BeginCancel(j) == ReadForCancel(j) /\ UNCHANGED celeryVars

\* Revoking the Celery task adds nothing: a delivery of a cancelled job is
\* skipped by the claim.
EndCancel(j) == (Cancel(j) \/ RefuseCancel(j)) /\ UNCHANGED celeryVars

OperatorRequeue(j) ==
    /\ Requeue(j)
    /\ Fault("requeue")
    /\ dropped' = dropped \ {j}
    /\ UNCHANGED <<broker, worker, holder>>

\* A lease may lapse while its process works: nothing bounds how late a
\* heartbeat comes.
TimePasses(j) == LeaseTick(j) /\ UNCHANGED celeryVars

-----------------------------------------------------------------------------
\* What a process does without a fault and without waiting for a message.
Proceed(w) ==
    \/ ClaimDelivery(w)
    \/ SkipDelivery(w)
    \/ \E outcome \in Outcomes : Commit(w, outcome)
    \/ Fenced(w)
    \/ ExecutionFails(w)
    \/ Finish(w)
    \/ MarkFailure(w)
    \/ MarkRefused(w)
    \/ PublishRetry(w)
    \/ Acknowledge(w)

Take(w) == \E j \in Jobs, r \in Retries : Receive(w, j, r)

WorkerNext(w) ==
    \/ Take(w)
    \/ Proceed(w)
    \/ Beat(w)
    \/ BeatStops(w)
    \/ ClaimError(w)
    \/ BeatError(w)
    \/ MarkError(w)
    \/ PublishRetryError(w)
    \/ ChildCrash(w)
    \/ Redeliver(w)

JobNext(j) ==
    \/ SubmitDocument(j)
    \/ Dispatch(j)
    \/ DispatchCrash(j)
    \/ Discard(j)
    \/ Recover(j)
    \/ BeginCancel(j)
    \/ EndCancel(j)
    \/ OperatorRequeue(j)
    \/ TimePasses(j)
    \/ \E r \in Retries : LoseMessage(j, r)

Next ==
    \/ \E w \in Workers : WorkerNext(w)
    \/ \E h \in WorkerIds : ContainerCrash(h)
    \/ \E j \in Jobs : JobNext(j)

Spec == Init /\ [][Next]_vars

\* Worker processes take messages and get on with them, the dispatcher's
\* loop sends and recovers on every cycle, and time passes.  Nobody is
\* obliged to submit, cancel, requeue or fail.
FairSpec ==
    /\ Spec
    /\ \A w \in Workers : WF_vars(Take(w)) /\ WF_vars(Proceed(w))
    /\ \A j \in Jobs : WF_vars(Dispatch(j)) /\ WF_vars(Recover(j))
                       /\ WF_vars(TimePasses(j))
-----------------------------------------------------------------------------
(* Properties.                                                             *)

CeleryTypeOK ==
    /\ broker \in [Jobs -> [Retries -> Nat]]
    /\ worker \in [Workers -> WorkerRows]
    /\ holder \in [Jobs -> Workers \cup {NoWorker}]
    /\ dropped \subseteq Jobs
    /\ faults \in 0..MaxFaults

\* Under Celery only the store's transactions close a run, so a closed job and
\* its run are closed alike, through every crash, redelivery and cancel.
ClosedAlike == \A j \in Jobs :
    /\ job[j].status = "dead_lettered" => run[j].status = "dead_lettered"
    /\ job[j].status = "cancelled" => run[j].status = "cancelled"

\* mark_succeeded takes no worker id and looks at no lease, which is safe
\* because a process gets to it only when its job is closed for good.
FinishingIsClosed == \A w \in Workers :
    At(w, "finishing") => job[worker[w].job].status \in TerminalJobStatuses

\* "Fence stale workers": business output is committed by the attempt that
\* claimed the job last.  (Two processes of one container pass for each other,
\* so the code keeps this between containers only.)
StaleAttemptFenced == [][\A w \in Workers :
    (worker'[w] # worker[w] /\ outputs' # outputs) => holder[worker[w].job] = w]_vars

\* Business output is committed in the container that claimed the job last; an
\* attempt of another one is fenced off, whatever it was delayed by.
StaleHostFenced == [][\A w \in Workers :
    (worker'[w] # worker[w] /\ outputs' # outputs) =>
        Host[holder[worker[w].job]] = Host[w]]_vars

\* An event, a message or a process that goes on to claim the job or to send
\* its next delivery stands for it, or a lease that the recovery scan will
\* find expired.
StoodFor(j) ==
    \/ pending[j] > 0
    \/ \E r \in Retries : broker[j][r] > 0
    \/ \E w \in Workers : worker[w].job = j /\ worker[w].phase \in {"received", "retrying"}
    \/ job[j].status = "running" /\ job[j].lease # "none"

\* "safely republishes it, or dead_lettered after retry exhaustion": an open
\* job is never forgotten.
NeverStranded == \A j \in Jobs : Open(j) => StoodFor(j)

\* What the code does keep of it: an open job that nothing stands for had its
\* delivery dropped after its last claim, in one of five ways (a message lost by
\* the broker, a pool process killed with one, a claim or the sending of a retry
\* that failed, a lost lease recorded as RETRYING); no other interleaving of
\* crashes, redelivery, recovery and cancel forgets a job.
StrandingExplained == \A j \in Jobs : Open(j) => StoodFor(j) \/ j \in dropped

\* "Cancel a workflow only while its queued job has not started": a cancel
\* does not reach a job that a worker has claimed before.
CancelOnlyUnstarted == [][\A j \in Jobs :
    (job[j].status # "cancelled" /\ job'[j].status = "cancelled")
    => job[j].attempts = 0]_vars

\* A submitted document is eventually processed, dead-lettered or cancelled,
\* except where its delivery was dropped.
EventuallyClosed == \A j \in Jobs :
    Open(j) ~> (job[j].status \in TerminalJobStatuses \/ j \in dropped)
=============================================================================
