------------------------ MODULE CeleryWorkersProofs ------------------------
(***************************************************************************)
(* Theorems about the Celery configuration, for every number of jobs,      *)
(* processes and hosts, every retry limit and every set of faults.         *)
(***************************************************************************)
EXTENDS CeleryWorkers, WorkflowJobsProofs, FiniteSetTheorems

USE HostsOfWorkers, AttemptsCoverRetries, NoJobIsNotAJob

\* A process that is not idle works on a job.
BusyHasJob == \A w \in Workers : ~ At(w, "idle") => worker[w].job \in Jobs

\* A running job carries the host of the process that claimed it last.
RunningByHolder == \A j \in Jobs :
    job[j].status = "running" =>
        holder[j] \in Workers /\ job[j].worker = Host[holder[j]]

\* Only a process that may retry is about to send the next delivery.
RetriesLeft == \A w \in Workers : At(w, "retrying") => MayRetry(w)

CeleryInv ==
    /\ worker \in [Workers -> WorkerRows]
    /\ holder \in [Jobs -> Workers \cup {NoWorker}]
    /\ BusyHasJob
    /\ FinishingIsClosed
    /\ RunningByHolder
    /\ RetriesLeft

\* The store's transactions other than a claim and the passing of time.
OtherTransaction(j) ==
    \/ \E w \in WorkerIds : \/ Heartbeat(j, w)
                            \/ MarkRetrying(j, w)
                            \/ MarkDeadLettered(j, w)
                            \/ \E outcome \in Outcomes : Complete(j, w, outcome)
    \/ Submit(j) \/ PublishCommit(j) \/ DiscardEvent(j)
    \/ RecoverExhausted(j) \/ RecoverLost(j)
    \/ ReadForCancel(j) \/ Cancel(j) \/ RefuseCancel(j) \/ Requeue(j)

\* Each step of a process, of the broker or of the dispatcher is one
\* transaction of the store, or none; only a claim changes the holder.
LEMMA StepIsTransaction ==
    ASSUME CeleryInv, [Next]_vars
    PROVE  \/ \E w \in Workers : ClaimDelivery(w)
           \/ /\ holder' = holder
              /\ \/ \E j \in Jobs : OtherTransaction(j) \/ TimePasses(j)
                 \/ UNCHANGED storeVars
<1> DEFINE Goal == /\ holder' = holder
                   /\ \/ \E j \in Jobs : OtherTransaction(j) \/ TimePasses(j)
                      \/ UNCHANGED storeVars
<1> USE DEF CeleryInv
<1>1. CASE UNCHANGED vars
    BY <1>1 DEF vars, celeryVars
<1>2. ASSUME NEW w \in Workers, ~ At(w, "idle")
      PROVE  worker[w].job \in Jobs /\ Host[w] \in WorkerIds
    BY <1>2 DEF BusyHasJob
<1>3. ASSUME NEW w \in Workers, WorkerNext(w), ~ ClaimDelivery(w)
      PROVE  Goal
    <2>1. CASE Take(w)
        BY <2>1 DEF Take, Receive
    <2>2. CASE SkipDelivery(w) \/ ClaimError(w) \/ BeatStops(w) \/ BeatError(w)
               \/ Fenced(w) \/ ExecutionFails(w)
        BY <2>2 DEF SkipDelivery, ClaimError, BeatStops, BeatError, Fenced, ExecutionFails
    <2>3. CASE Beat(w)
        BY <2>3, <1>2 DEF Beat, OtherTransaction, At, celeryVars
    <2>4. ASSUME NEW outcome \in Outcomes, Commit(w, outcome)
          PROVE  Goal
        BY <2>4, <1>2 DEF Commit, OtherTransaction, At
    <2>5. CASE Finish(w)
        BY <2>5 DEF Finish, FinishingIsClosed, storeVars
    <2>6. CASE MarkFailure(w)
        <3>1. worker[w].job \in Jobs /\ Host[w] \in WorkerIds
            BY <2>6, <1>2 DEF MarkFailure, At
        <3>2. MarkRetrying(worker[w].job, Host[w]) \/ MarkDeadLettered(worker[w].job, Host[w])
            BY <2>6 DEF MarkFailure
        <3>3. QED  BY <2>6, <3>1, <3>2 DEF MarkFailure, OtherTransaction
    <2>7. CASE MarkRefused(w) \/ MarkError(w) \/ PublishRetry(w) \/ PublishRetryError(w)
               \/ Acknowledge(w) \/ ChildCrash(w) \/ Redeliver(w)
        BY <2>7 DEF MarkRefused, MarkError, PublishRetry, PublishRetryError, Acknowledge,
                    ChildCrash, Redeliver
    <2>8. QED
        BY <1>3, <2>1, <2>2, <2>3, <2>4, <2>5, <2>6, <2>7 DEF WorkerNext, Proceed
<1>4. ASSUME NEW j \in Jobs, JobNext(j)
      PROVE  Goal
    BY <1>4 DEF JobNext, SubmitDocument, Dispatch, DispatchCrash, Discard, Recover, BeginCancel,
                EndCancel, OperatorRequeue, TimePasses, LoseMessage, OtherTransaction, celeryVars
<1>5. ASSUME NEW h \in WorkerIds, ContainerCrash(h)
      PROVE  Goal
    BY <1>5 DEF ContainerCrash
<1>6. QED
    BY <1>1, <1>3, <1>4, <1>5 DEF Next

\* So the store's invariants hold of this configuration.
LEMMA StepIsStoreStep ==
    ASSUME CeleryInv, [Next]_vars
    PROVE  (\E j \in Jobs : Transaction(j)) \/ UNCHANGED storeVars
<1>1. ASSUME NEW w \in Workers, ClaimDelivery(w)
      PROVE  \E j \in Jobs : Transaction(j)
    BY <1>1 DEF ClaimDelivery, CeleryInv, BusyHasJob, At, Transaction, WorkerTransaction
<1>2. ASSUME NEW j \in Jobs, OtherTransaction(j) \/ TimePasses(j)
      PROVE  Transaction(j)
    BY <1>2 DEF OtherTransaction, TimePasses, Transaction, WorkerTransaction
<1>3. QED  BY <1>1, <1>2, StepIsTransaction

\* Only a claim starts a job or hands it to another worker, and only time
\* takes from its lease.
LEMMA RunningKept ==
    ASSUME TypeOK, NEW j \in Jobs, NEW k \in Jobs,
           OtherTransaction(j), job'[k].status = "running"
    PROVE  /\ job[k].status = "running" /\ job'[k].worker = job[k].worker
           /\ job'[k].lease \in {job[k].lease, "live"}
<1> USE DEF TypeOK, JobRows
<1>1. CASE \E w \in WorkerIds : Heartbeat(j, w)
    <2>1. /\ job[j].status = "running"
          /\ job' = [job EXCEPT ![j] = [@ EXCEPT !.lease = "live"]]
        BY <1>1 DEF Heartbeat, Owns
    <2>2. QED  BY <2>1
<1>2. ASSUME NEW w \in WorkerIds, MarkRetrying(j, w) \/ MarkDeadLettered(j, w)
      PROVE  /\ job[k].status = "running" /\ job'[k].worker = job[k].worker
             /\ job'[k].lease \in {job[k].lease, "live"}
    <2>1. CASE MarkRetrying(j, w)
        BY <2>1 DEF MarkRetrying
    <2>2. CASE MarkDeadLettered(j, w)
        BY <2>2 DEF MarkDeadLettered
    <2>3. QED  BY <1>2, <2>1, <2>2
<1>3. CASE \E w \in WorkerIds, outcome \in Outcomes : Complete(j, w, outcome)
    BY <1>3 DEF Complete
<1>4. CASE Submit(j) \/ PublishCommit(j) \/ RecoverExhausted(j) \/ Cancel(j)
    BY <1>4 DEF Submit, PublishCommit, RecoverExhausted, Cancel
<1>5. CASE DiscardEvent(j) \/ ReadForCancel(j) \/ RefuseCancel(j)
    BY <1>5 DEF DiscardEvent, ReadForCancel, RefuseCancel
<1>6. CASE RecoverLost(j) \/ Requeue(j)
    <2>1. CASE RecoverLost(j)
        BY <2>1 DEF RecoverLost
    <2>2. CASE Requeue(j)
        BY <2>2 DEF Requeue
    <2>3. QED  BY <1>6, <2>1, <2>2
<1>7. QED
    BY <1>1, <1>2, <1>3, <1>4, <1>5, <1>6 DEF OtherTransaction

\* What a process may become in one step: it has its type, works on a job
\* unless idle, gets to "finishing" only with its job closed and to "retrying"
\* only with a retry left.
Becomes(row) ==
    /\ row \in WorkerRows
    /\ row.phase # "idle" => row.job \in Jobs
    /\ row.phase = "finishing" => job'[row.job].status \in TerminalJobStatuses
    /\ row.phase = "retrying" => row.retries < MaxRetries

LEMMA WorkerBecomes ==
    ASSUME StoreInv, CeleryInv, NEW w \in Workers, WorkerNext(w)
    PROVE  worker' = worker \/ \E row : Becomes(row) /\ worker' = [worker EXCEPT ![w] = row]
<1> DEFINE me == worker[w]
           Goal == \E row : Becomes(row) /\ worker' = [worker EXCEPT ![w] = row]
<1> USE DEF CeleryInv, At, To
<1>1. me \in WorkerRows /\ (me.phase # "idle" => me.job \in Jobs)
    BY DEF BusyHasJob
<1>2. ASSUME NEW p \in Phases \ {"idle", "finishing"}, me.phase # "idle",
             p = "retrying" => MayRetry(w)
      PROVE  Becomes([me EXCEPT !.phase = p])
    BY <1>1, <1>2 DEF Becomes, WorkerRows, MayRetry
<1>3. Becomes(Idle)
    BY DEF Becomes, WorkerRows, Idle, Phases, Retries, Beats
<1>4. CASE Take(w)
    <2>1. PICK j \in Jobs, r \in Retries : Receive(w, j, r)
        BY <1>4 DEF Take
    <2>2. Becomes([Idle EXCEPT !.phase = "received", !.job = j, !.retries = r])
        BY DEF Becomes, WorkerRows, Idle, Phases, Beats
    <2>3. QED  BY <2>1, <2>2 DEF Receive
<1>5. CASE ClaimDelivery(w)
    <2>1. Becomes([me EXCEPT !.phase = "executing", !.beats = "on"])
        BY <1>1, <1>5 DEF ClaimDelivery, Becomes, WorkerRows, Phases, Beats
    <2>2. Becomes([me EXCEPT !.phase = "closing"])
        BY <1>2, <1>5 DEF ClaimDelivery, Phases
    <2>3. QED  BY <1>5, <2>1, <2>2 DEF ClaimDelivery
<1>6. CASE BeatStops(w) \/ BeatError(w)
    <2>1. \A b \in Beats : me.phase = "executing" => Becomes([me EXCEPT !.beats = b])
        BY <1>1 DEF Becomes, WorkerRows
    <2>2. QED  BY <1>6, <2>1 DEF BeatStops, BeatError, Beats
<1>7. ASSUME NEW lost \in BOOLEAN, At(w, "executing"), Raised(w, lost)
      PROVE  Goal
    <2>1. Becomes([me EXCEPT !.phase = "failed", !.beats = "off",
                             !.leaseLost = lost /\ me.beats # "broken"])
        BY <1>1, <1>7 DEF Becomes, WorkerRows, Phases, Beats
    <2>2. QED  BY <1>7, <2>1 DEF Raised
<1>8. CASE Fenced(w) \/ ExecutionFails(w)
    BY <1>7, <1>8 DEF Fenced, ExecutionFails
<1>9. ASSUME NEW outcome \in Outcomes, Commit(w, outcome)
      PROVE  Goal
    <2>1. CASE me.beats = "broken"
        BY <1>7, <1>9, <2>1 DEF Commit
    <2>2. CASE me.beats # "broken"
        <3>1. job'[me.job].status = "succeeded" /\ me.job \in Jobs
            BY <1>1, <1>9 DEF Commit, Complete, StoreInv, TypeOK, JobRows
        <3>2. Becomes([me EXCEPT !.phase = "finishing", !.beats = "off"])
            BY <1>1, <3>1 DEF Becomes, WorkerRows, Phases, Beats, TerminalJobStatuses
        <3>3. QED  BY <1>9, <2>2, <3>2 DEF Commit
    <2>3. QED  BY <2>1, <2>2
<1>10. CASE SkipDelivery(w) \/ ClaimError(w)
    BY <1>2, <1>10 DEF SkipDelivery, ClaimError, Phases
<1>11. CASE Finish(w) \/ MarkRefused(w) \/ PublishRetry(w) \/ PublishRetryError(w)
    BY <1>2, <1>11 DEF Finish, MarkRefused, PublishRetry, PublishRetryError, Phases
<1>12. CASE MarkFailure(w) \/ MarkError(w)
    <2>1. PICK p \in {"retrying", "closing"} :
            /\ worker' = [worker EXCEPT ![w].phase = p]
            /\ me.phase = "failed" /\ (p = "retrying" => MayRetry(w))
        BY <1>12 DEF MarkFailure, MarkError, AfterMark
    <2>2. Becomes([me EXCEPT !.phase = p])
        BY <1>2, <2>1 DEF Phases
    <2>3. QED  BY <2>1, <2>2
<1>13. CASE Acknowledge(w) \/ ChildCrash(w)
    BY <1>3, <1>13 DEF Acknowledge, ChildCrash
<1>14. CASE Beat(w) \/ Redeliver(w)
    BY <1>14 DEF Beat, Redeliver, celeryVars
<1>15. QED
    BY <1>4, <1>5, <1>6, <1>8, <1>9, <1>10, <1>11, <1>12, <1>13, <1>14 DEF WorkerNext, Proceed

\* The invariant of the processes is preserved.
LEMMA CeleryStepInv ==
    ASSUME StoreInv, CeleryInv, [Next]_vars
    PROVE  CeleryInv'
<1> USE DEF CeleryInv
<1>0. [StoreNext]_storeVars
    BY StepIsStoreStep DEF StoreNext
<1>1. \/ worker' = worker
      \/ \E w \in Workers : \E row : Becomes(row) /\ worker' = [worker EXCEPT ![w] = row]
      \/ \E h \in WorkerIds : ContainerCrash(h)
    <2>1. ASSUME NEW j \in Jobs, JobNext(j) PROVE worker' = worker
        BY <2>1 DEF JobNext, SubmitDocument, Dispatch, DispatchCrash, Discard, Recover,
                    BeginCancel, EndCancel, OperatorRequeue, TimePasses, LoseMessage, celeryVars
    <2>2. QED  BY <2>1, WorkerBecomes DEF Next, vars, celeryVars
<1>2. worker' \in [Workers -> WorkerRows] /\ BusyHasJob' /\ RetriesLeft'
    <2>1. ASSUME NEW h \in WorkerIds, ContainerCrash(h)
          PROVE  worker' \in [Workers -> WorkerRows] /\ BusyHasJob' /\ RetriesLeft'
        <3>1. \A w \in Workers : worker'[w] \in {Idle, worker[w]}
            BY <2>1 DEF ContainerCrash
        <3>2. worker' \in [Workers -> WorkerRows]
            BY <2>1 DEF ContainerCrash, WorkerRows, Idle, Phases, Retries, Beats
        <3>3. QED  BY <3>1, <3>2 DEF BusyHasJob, RetriesLeft, At, Idle, MayRetry
    <2>2. QED  BY <1>1, <2>1 DEF Becomes, BusyHasJob, At, RetriesLeft, MayRetry
<1>3. holder' \in [Jobs -> Workers \cup {NoWorker}]
    BY StepIsTransaction DEF ClaimDelivery
<1>4. FinishingIsClosed'
    <2>1. ASSUME NEW w \in Workers, At(w, "finishing")
          PROVE  worker[w].job \in Jobs /\ job'[worker[w].job].status \in TerminalJobStatuses
        BY <1>0, <2>1, ClosedStep DEF FinishingIsClosed, BusyHasJob, At, TerminalJobStatuses
    <2>2. ASSUME NEW h \in WorkerIds, ContainerCrash(h)
          PROVE  FinishingIsClosed'
        <3>1. \A w \in Workers : worker'[w] \in {Idle, worker[w]}
            BY <2>2 DEF ContainerCrash
        <3>2. QED  BY <2>1, <3>1 DEF FinishingIsClosed, At, Idle
    <2>3. QED  BY <1>1, <2>1, <2>2 DEF FinishingIsClosed, Becomes, At
<1>5. RunningByHolder'
    <2>1. ASSUME NEW w \in Workers, ClaimDelivery(w), NEW j \in Jobs,
                 job'[j].status = "running"
          PROVE  holder'[j] \in Workers /\ job'[j].worker = Host[holder'[j]]
        <3>1. worker[w].job \in Jobs /\ Claim(worker[w].job, Host[w])
                 /\ holder' = [holder EXCEPT ![worker[w].job] = w]
            BY <2>1 DEF ClaimDelivery, BusyHasJob, At
        <3>2. CASE j = worker[w].job
            <4>1. run[j].status \notin TerminalSuccess
                BY <2>1, <3>1, <3>2 DEF Claim, StoreInv, TypeOK, JobRows
            <4>2. QED  BY <3>1, <3>2, <4>1 DEF Claim, StoreInv, TypeOK
        <3>3. CASE j # worker[w].job
            BY <2>1, <3>1, <3>3 DEF Claim, StoreInv, TypeOK, RunningByHolder
        <3>4. QED  BY <3>2, <3>3
    <2>2. ASSUME holder' = holder, NEW k \in Jobs, OtherTransaction(k)
          PROVE  RunningByHolder'
        BY <2>2, RunningKept DEF RunningByHolder, StoreInv
    <2>3. ASSUME holder' = holder, UNCHANGED storeVars
          PROVE  RunningByHolder'
        BY <2>3 DEF RunningByHolder, storeVars
    <2>4. ASSUME holder' = holder, NEW k \in Jobs, TimePasses(k)
          PROVE  RunningByHolder'
        BY <2>4 DEF TimePasses, LeaseTick, RunningByHolder, StoreInv, TypeOK, JobRows
    <2>5. QED
        BY <2>1, <2>2, <2>3, <2>4, StepIsTransaction DEF RunningByHolder
<1>6. QED  BY <1>2, <1>3, <1>4, <1>5

LEMMA CeleryInit ==
    ASSUME Init
    PROVE  StoreInv /\ CeleryInv /\ ClosedAlike
<1>1. StoreInv
    BY StoreInitInv DEF Init
<1>2. \A w \in Workers : worker[w] = Idle
    BY DEF Init
<1>3. worker \in [Workers -> WorkerRows] /\ holder \in [Jobs -> Workers \cup {NoWorker}]
    BY DEF Init, WorkerRows, Idle, Phases, Retries, Beats
<1>4. BusyHasJob /\ FinishingIsClosed /\ RetriesLeft
    BY <1>2 DEF BusyHasJob, FinishingIsClosed, RetriesLeft, At, Idle
<1>5. RunningByHolder /\ ClosedAlike
    BY DEF Init, StoreInit, RunningByHolder, ClosedAlike
<1>6. QED  BY <1>1, <1>3, <1>4, <1>5 DEF CeleryInv

\* The invariants of the store and of the processes hold together.
THEOREM CeleryInvariant == Spec => [](StoreInv /\ CeleryInv)
<1>1. Init => StoreInv /\ CeleryInv
    BY CeleryInit
<1>2. StoreInv /\ CeleryInv /\ [Next]_vars => (StoreInv /\ CeleryInv)'
    <2>1. SUFFICES ASSUME StoreInv, CeleryInv, [Next]_vars
                   PROVE  StoreInv' /\ CeleryInv'
        OBVIOUS
    <2>2. [StoreNext]_storeVars
        BY <2>1, StepIsStoreStep DEF StoreNext
    <2>3. QED  BY <2>1, <2>2, StoreStepInv, CeleryStepInv
<1>3. QED  BY <1>1, <1>2, PTL DEF Spec

\* Whatever worker processes, the dispatcher, the broker and the API do, and
\* whichever faults hit them, the tables go through transactions of the store
\* only; every theorem about StoreSpec therefore holds of the deployment.
THEOREM ImplementsStore == Spec => StoreSpec
<1>1. Init => StoreInit
    BY DEF Init
<1>2. StoreInv /\ CeleryInv /\ [Next]_vars => [StoreNext]_storeVars
    BY StepIsStoreStep DEF StoreNext
<1>3. QED  BY <1>1, <1>2, CeleryInvariant, PTL DEF Spec, StoreSpec

\* mark_succeeded, which checks neither worker nor lease, is only reached
\* with the job closed for good.
THEOREM FinishingJobsAreClosed == Spec => []FinishingIsClosed
<1>1. CeleryInv => FinishingIsClosed
    BY DEF CeleryInv
<1>2. QED  BY <1>1, CeleryInvariant, PTL

\* One transaction closes job and run alike.
LEMMA ClosedAlikeStep ==
    ASSUME TypeOK, ClosedAlike, NEW j \in Jobs, Transaction(j)
    PROVE  ClosedAlike'
<1> USE DEF TypeOK, JobRows, RunRows, ClosedAlike
<1>1. ASSUME NEW w \in WorkerIds, Claim(j, w)  PROVE  ClosedAlike'
    <2>1. job'[j].status \in {"succeeded", "running"}
             /\ \A k \in Jobs \ {j} : job'[k] = job[k]
        <3>1. CASE run[j].status \in TerminalSuccess
            BY <1>1, <3>1 DEF Claim
        <3>2. CASE run[j].status \notin TerminalSuccess
            BY <1>1, <3>2 DEF Claim
        <3>3. QED  BY <3>1, <3>2
    <2>2. QED  BY <1>1, <2>1 DEF Claim
<1>2. ASSUME NEW w \in WorkerIds, Heartbeat(j, w)  PROVE  ClosedAlike'
    BY <1>2 DEF Heartbeat
<1>3. ASSUME NEW w \in WorkerIds, MarkRetrying(j, w)  PROVE  ClosedAlike'
    <2>1. job'[j].status = "retrying" /\ \A k \in Jobs \ {j} : job'[k] = job[k]
                                        /\ run'[k] = run[k]
        BY <1>3 DEF MarkRetrying
    <2>2. QED  BY <2>1
<1>4. ASSUME NEW w \in WorkerIds, MarkDeadLettered(j, w)  PROVE  ClosedAlike'
    <2>1. /\ job'[j].status = "dead_lettered" /\ run'[j].status = "dead_lettered"
          /\ \A k \in Jobs \ {j} : job'[k] = job[k] /\ run'[k] = run[k]
        BY <1>4 DEF MarkDeadLettered
    <2>2. QED  BY <2>1
<1>5. ASSUME NEW w \in WorkerIds, NEW outcome \in Outcomes, Complete(j, w, outcome)
      PROVE  ClosedAlike'
    <2>1. job'[j].status = "succeeded" /\ \A k \in Jobs \ {j} : job'[k] = job[k]
                                         /\ run'[k] = run[k]
        BY <1>5 DEF Complete
    <2>2. QED  BY <2>1
<1>6. CASE Submit(j) \/ PublishCommit(j) \/ RecoverExhausted(j)
    BY <1>6 DEF Submit, PublishCommit, RecoverExhausted
<1>7. CASE RecoverLost(j)
    BY <1>7 DEF RecoverLost
<1>8. CASE Cancel(j)
    BY <1>8 DEF Cancel
<1>9. CASE Requeue(j)
    BY <1>9 DEF Requeue
<1>10. CASE DiscardEvent(j) \/ ReadForCancel(j) \/ RefuseCancel(j)
    BY <1>10 DEF DiscardEvent, ReadForCancel, RefuseCancel
<1>11. CASE LeaseTick(j)
    BY <1>11 DEF LeaseTick
<1>12. QED
    BY <1>1, <1>2, <1>3, <1>4, <1>5, <1>6, <1>7, <1>8, <1>9, <1>10, <1>11
       DEF Transaction, WorkerTransaction

\* A dead-lettered job has a dead-lettered run and a cancelled job a cancelled
\* one, through every crash, redelivery and race with a cancel request.
THEOREM ClosedJobsAgree == Spec => []ClosedAlike
<1>1. Init => ClosedAlike
    BY CeleryInit
<1>2. StoreInv /\ CeleryInv /\ ClosedAlike /\ [Next]_vars => ClosedAlike'
    <2>1. SUFFICES ASSUME StoreInv, CeleryInv, ClosedAlike, [Next]_vars
                   PROVE  ClosedAlike'
        OBVIOUS
    <2>2. CASE UNCHANGED storeVars
        BY <2>1, <2>2 DEF ClosedAlike, storeVars
    <2>3. CASE \E j \in Jobs : Transaction(j)
        BY <2>1, <2>3, ClosedAlikeStep DEF StoreInv
    <2>4. QED  BY <2>1, <2>2, <2>3, StepIsStoreStep
<1>3. QED  BY <1>1, <1>2, CeleryInvariant, PTL DEF Spec

\* Only a commit adds output, and it moves only the process that commits.
LEMMA OutputIsCommitted ==
    ASSUME StoreInv, CeleryInv, [Next]_vars, outputs' # outputs,
           NEW w \in Workers, worker'[w] # worker[w]
    PROVE  \E outcome \in Outcomes : Commit(w, outcome)
<1>1. ASSUME NEW u \in Workers, WorkerNext(u), \A outcome \in Outcomes : ~ Commit(u, outcome)
      PROVE  FALSE
    <2>1. CASE ClaimDelivery(u) \/ Beat(u) \/ MarkFailure(u)
        BY <2>1 DEF ClaimDelivery, Claim, Beat, Heartbeat, MarkFailure, MarkRetrying,
                    MarkDeadLettered
    <2>2. CASE Take(u)
        BY <2>2 DEF Take, Receive, storeVars
    <2>3. CASE \/ SkipDelivery(u) \/ ClaimError(u) \/ BeatStops(u) \/ BeatError(u)
               \/ Fenced(u) \/ ExecutionFails(u) \/ MarkRefused(u) \/ MarkError(u)
        BY <2>3 DEF SkipDelivery, ClaimError, BeatStops, BeatError, Fenced,
                    ExecutionFails, MarkRefused, MarkError, storeVars
    <2>4. CASE \/ Finish(u) \/ PublishRetry(u) \/ PublishRetryError(u)
               \/ Acknowledge(u) \/ ChildCrash(u) \/ Redeliver(u)
        BY <2>4 DEF Finish, PublishRetry, PublishRetryError, Acknowledge, ChildCrash,
                    Redeliver, storeVars
    <2>5. QED  BY <1>1, <2>1, <2>2, <2>3, <2>4 DEF WorkerNext, Proceed
<1>2. ASSUME NEW j \in Jobs, JobNext(j)  PROVE  FALSE
    BY <1>2 DEF JobNext, SubmitDocument, Dispatch, DispatchCrash, Discard, Recover,
                BeginCancel, EndCancel, OperatorRequeue, TimePasses, LoseMessage, celeryVars
<1>3. PICK u \in Workers, outcome \in Outcomes : Commit(u, outcome)
    <2>1. ASSUME NEW h \in WorkerIds, ContainerCrash(h)  PROVE  FALSE
        BY <2>1 DEF ContainerCrash, storeVars
    <2>2. QED  BY <1>1, <1>2, <2>1 DEF Next, vars, storeVars
<1>4. \A v \in Workers \ {u} : worker'[v] = worker[v]
    BY <1>3 DEF Commit, Raised, CeleryInv
<1>5. QED  BY <1>3, <1>4

\* Output is committed in the container whose claim on the job succeeded last,
\* however many processes it runs and however late another container comes back.
THEOREM StaleHostsAreFenced == Spec => StaleHostFenced
<1> DEFINE FencedStep == \A w \in Workers :
              (worker'[w] # worker[w] /\ outputs' # outputs) =>
                  Host[holder[worker[w].job]] = Host[w]
<1>1. StoreInv /\ CeleryInv /\ [Next]_vars => [FencedStep]_vars
    <2>1. SUFFICES ASSUME StoreInv, CeleryInv, [Next]_vars, NEW w \in Workers,
                          worker'[w] # worker[w], outputs' # outputs
                   PROVE  Host[holder[worker[w].job]] = Host[w]
        OBVIOUS
    <2>2. PICK outcome \in Outcomes : Commit(w, outcome)
        BY <2>1, OutputIsCommitted
    <2>3. worker[w].job \in Jobs /\ Owns(worker[w].job, Host[w])
        <3>1. worker[w].phase = "executing"
            BY <2>2 DEF Commit, At
        <3>2. Complete(worker[w].job, Host[w], outcome)
            BY <2>2 DEF Commit
        <3>3. QED  BY <2>1, <3>1, <3>2 DEF Complete, Fence, CeleryInv, BusyHasJob, At
    <2>4. QED  BY <2>1, <2>3 DEF Owns, CeleryInv, RunningByHolder
<1>2. QED  BY <1>1, CeleryInvariant, PTL DEF Spec, StaleHostFenced

-----------------------------------------------------------------------------
(* Messages.                                                                 *)

DeliveryInv ==
    /\ broker \in [Jobs -> [Retries -> Nat]]
    /\ dropped \subseteq Jobs
    /\ faults \in 0..MaxFaults

\* A message that is sent is there, and no other is gone.
LEMMA SentIsThere ==
    ASSUME NEW b \in [Jobs -> [Retries -> Nat]], NEW j \in Jobs, NEW r \in Retries
    PROVE  /\ Sent(b, j, r) \in [Jobs -> [Retries -> Nat]]
           /\ Sent(b, j, r)[j][r] > 0
           /\ \A k \in Jobs, s \in Retries : Sent(b, j, r)[k][s] >= b[k][s]
<1>1. b[j] \in [Retries -> Nat] /\ b[j][r] \in Nat
    OBVIOUS
<1>2. Sent(b, j, r) = [b EXCEPT ![j] = [b[j] EXCEPT ![r] = b[j][r] + 1]]
    BY DEF Sent
<1> DEFINE row == [b[j] EXCEPT ![r] = b[j][r] + 1]
<1>3. row \in [Retries -> Nat] /\ row[r] > 0 /\ \A s \in Retries : row[s] >= b[j][s]
    BY <1>1
<1> HIDE DEF row
<1>4. Sent(b, j, r) \in [Jobs -> [Retries -> Nat]]
    BY <1>2, <1>3 DEF row
<1>5. Sent(b, j, r)[j] = row /\ \A k \in Jobs \ {j} : Sent(b, j, r)[k] = b[k]
    BY <1>2 DEF row
<1>6. ASSUME NEW k \in Jobs, NEW s \in Retries
      PROVE  Sent(b, j, r)[k][s] >= b[k][s]
    <2>1. b[k] \in [Retries -> Nat] /\ b[k][s] \in Nat
        OBVIOUS
    <2>2. CASE k = j
        BY <1>3, <1>5, <2>2
    <2>3. CASE k # j
        BY <1>5, <2>1, <2>3
    <2>4. QED  BY <2>2, <2>3
<1>7. QED  BY <1>3, <1>4, <1>5, <1>6

\* A message that is taken leaves the others where they are.
LEMMA TakenIsGone ==
    ASSUME NEW b \in [Jobs -> [Retries -> Nat]], NEW j \in Jobs, NEW r \in Retries, b[j][r] > 0
    PROVE  /\ [b EXCEPT ![j][r] = @ - 1] \in [Jobs -> [Retries -> Nat]]
           /\ \A k \in Jobs \ {j} : [b EXCEPT ![j][r] = @ - 1][k] = b[k]
<1>1. b[j] \in [Retries -> Nat] /\ b[j][r] - 1 \in Nat
    OBVIOUS
<1>2. [b[j] EXCEPT ![r] = b[j][r] - 1] \in [Retries -> Nat]
    BY <1>1
<1>3. [b EXCEPT ![j][r] = @ - 1] = [b EXCEPT ![j] = [b[j] EXCEPT ![r] = b[j][r] - 1]]
    OBVIOUS
<1>4. QED  BY <1>2, <1>3

\* A container that dies takes no message with it, and gives back those its
\* processes held.
LEMMA CrashDelivers ==
    ASSUME CeleryInv, DeliveryInv, NEW h \in WorkerIds, ContainerCrash(h)
    PROVE  /\ broker' \in [Jobs -> [Retries -> Nat]]
           /\ \A k \in Jobs, s \in Retries : broker[k][s] > 0 => broker'[k][s] > 0
           /\ \A w \in Workers : Host[w] = h /\ ~ At(w, "idle") =>
                 broker'[worker[w].job][worker[w].retries] > 0
<1>1. ASSUME NEW k \in Jobs, NEW s \in Retries
      PROVE  /\ broker[k][s] \in Nat /\ Cardinality(Unacknowledged(h, k, s)) \in Nat
             /\ broker'[k][s] = broker[k][s] + Cardinality(Unacknowledged(h, k, s))
    <2>1. IsFiniteSet(Unacknowledged(h, k, s))
        BY WorkersFinite, FS_Subset DEF Unacknowledged
    <2>2. QED  BY <2>1, FS_CardinalityType DEF ContainerCrash, DeliveryInv
<1>2. broker' \in [Jobs -> [Retries -> Nat]]
    <2>1. broker' = [k \in Jobs |-> [s \in Retries |->
                        broker[k][s] + Cardinality(Unacknowledged(h, k, s))]]
        BY DEF ContainerCrash
    <2>2. \A k \in Jobs, s \in Retries :
             broker[k][s] + Cardinality(Unacknowledged(h, k, s)) \in Nat
        BY <1>1
    <2>3. QED  BY <2>1, <2>2
<1>3. ASSUME NEW w \in Workers, Host[w] = h, ~ At(w, "idle")
      PROVE  broker'[worker[w].job][worker[w].retries] > 0
    <2>1. worker[w].job \in Jobs /\ worker[w].retries \in Retries
        BY <1>3 DEF CeleryInv, BusyHasJob, WorkerRows
    <2> DEFINE mates == Unacknowledged(h, worker[w].job, worker[w].retries)
    <2>2. w \in mates /\ IsFiniteSet(mates)
        BY <1>3, WorkersFinite, FS_Subset DEF Unacknowledged
    <2>3. Cardinality(mates) # 0
        BY <2>2, FS_EmptySet
    <2>4. QED  BY <1>1, <2>1, <2>3
<1>4. QED  BY <1>1, <1>2, <1>3

\* What a step of a process does to the messages: it takes one, sends one of
\* its own job, or leaves them.
LEMMA ProcessMails ==
    ASSUME CeleryInv, DeliveryInv, NEW w \in Workers, WorkerNext(w)
    PROVE  \/ \E j \in Jobs, r \in Retries : Receive(w, j, r)
           \/ \E r \in Retries : /\ worker[w].job \in Jobs
                                 /\ broker' = Sent(broker, worker[w].job, r)
           \/ broker' = broker
<1>1. worker[w] \in WorkerRows
    BY DEF CeleryInv
<1>2. CASE Take(w)
    BY <1>2 DEF Take
<1>3. CASE PublishRetry(w)
    <2>1. worker[w].retries + 1 \in Retries
        BY <1>1, <1>3 DEF PublishRetry, CeleryInv, RetriesLeft, MayRetry, WorkerRows, Retries
    <2>2. QED  BY <1>3, <2>1 DEF PublishRetry, CeleryInv, BusyHasJob, At
<1>4. CASE Redeliver(w)
    <2>1. worker[w].retries \in Retries
        BY <1>1 DEF WorkerRows
    <2>2. QED  BY <1>4, <2>1 DEF Redeliver, CeleryInv, BusyHasJob
<1>5. CASE \/ ClaimDelivery(w) \/ SkipDelivery(w) \/ ClaimError(w) \/ Beat(w)
           \/ BeatStops(w) \/ BeatError(w) \/ Fenced(w) \/ ExecutionFails(w)
           \/ Finish(w) \/ MarkFailure(w) \/ MarkRefused(w) \/ MarkError(w)
           \/ PublishRetryError(w) \/ Acknowledge(w) \/ ChildCrash(w)
           \/ \E outcome \in Outcomes : Commit(w, outcome)
    BY <1>5 DEF ClaimDelivery, SkipDelivery, ClaimError, Beat, BeatStops, BeatError, Fenced,
                ExecutionFails, Finish, MarkFailure, MarkRefused, MarkError,
                PublishRetryError, Acknowledge, ChildCrash, Commit, celeryVars
<1>6. QED  BY <1>2, <1>3, <1>4, <1>5 DEF WorkerNext, Proceed

\* What a step does to the messages.
LEMMA StepMails ==
    ASSUME CeleryInv, DeliveryInv, [Next]_vars
    PROVE  \/ \E j \in Jobs, r \in Retries : broker' = Sent(broker, j, r)
           \/ \E j \in Jobs, r \in Retries :
                broker[j][r] > 0 /\ broker' = [broker EXCEPT ![j][r] = @ - 1]
           \/ \E h \in WorkerIds : ContainerCrash(h)
           \/ broker' = broker
<1>1. ASSUME NEW j \in Jobs, JobNext(j)
      PROVE  \/ broker' = Sent(broker, j, 0)
             \/ \E r \in Retries :
                  broker[j][r] > 0 /\ broker' = [broker EXCEPT ![j][r] = @ - 1]
             \/ broker' = broker
    BY <1>1 DEF JobNext, SubmitDocument, Dispatch, DispatchCrash, Discard, Recover, BeginCancel,
                EndCancel, OperatorRequeue, TimePasses, LoseMessage, celeryVars
<1>2. 0 \in Retries
    BY DEF Retries
<1>3. ASSUME NEW w \in Workers, NEW j \in Jobs, NEW r \in Retries, Receive(w, j, r)
      PROVE  broker[j][r] > 0 /\ broker' = [broker EXCEPT ![j][r] = @ - 1]
    BY <1>3 DEF Receive
<1>4. CASE \E j \in Jobs : JobNext(j)
    BY <1>1, <1>2, <1>4
<1>5. CASE \E w \in Workers : WorkerNext(w)
    <2>1. PICK w \in Workers : WorkerNext(w)
        BY <1>5
    <2>2. CASE \E j \in Jobs, r \in Retries : Receive(w, j, r)
        BY <1>3, <2>2
    <2>3. CASE ~ \E j \in Jobs, r \in Retries : Receive(w, j, r)
        <3>1. \/ \E r \in Retries : /\ worker[w].job \in Jobs
                                    /\ broker' = Sent(broker, worker[w].job, r)
              \/ broker' = broker
            BY <2>1, <2>3, ProcessMails
        <3>2. QED  BY <3>1
    <2>4. QED  BY <2>2, <2>3
<1>6. CASE UNCHANGED vars
    BY <1>6 DEF vars, celeryVars
<1>7. CASE \E h \in WorkerIds : ContainerCrash(h)
    BY <1>7
<1>8. QED  BY <1>4, <1>5, <1>6, <1>7 DEF Next

\* Every fault is counted, up to the bound.
LEMMA FaultsCounted ==
    ASSUME DeliveryInv, [Next]_vars
    PROVE  faults' \in 0..MaxFaults
<1>1. (\E kind : Fault(kind)) \/ faults' = faults
    <2>1. ASSUME NEW w \in Workers, WorkerNext(w)
          PROVE  (\E kind : Fault(kind)) \/ faults' = faults
        BY <2>1 DEF WorkerNext, Proceed, Take, Receive, ClaimDelivery, SkipDelivery, ClaimError,
                    Beat, BeatStops, BeatError, Commit, Fenced, ExecutionFails, Finish,
                    MarkFailure, MarkRefused, MarkError, PublishRetry, PublishRetryError,
                    Acknowledge, ChildCrash, Redeliver, celeryVars
    <2>2. ASSUME NEW j \in Jobs, JobNext(j)  PROVE  (\E kind : Fault(kind)) \/ faults' = faults
        BY <2>2 DEF JobNext, SubmitDocument, Dispatch, DispatchCrash, Discard, Recover,
                    BeginCancel, EndCancel, OperatorRequeue, TimePasses, LoseMessage, celeryVars
    <2>3. ASSUME NEW h \in WorkerIds, ContainerCrash(h)  PROVE  \E kind : Fault(kind)
        BY <2>3 DEF ContainerCrash
    <2>4. QED  BY <2>1, <2>2, <2>3 DEF Next, vars, celeryVars
<1>2. QED  BY <1>1, FaultBound DEF Fault, DeliveryInv

\* A job is dropped by what ends a delivery of its, and is no longer when it is
\* claimed or requeued.
DroppedStep ==
    \/ \E j \in Jobs : Drop(j) \/ dropped' \in {dropped \cup {j}, dropped \ {j}}
    \/ dropped' = dropped

LEMMA StepDrops ==
    ASSUME CeleryInv, [Next]_vars
    PROVE  DroppedStep
<1> USE DEF At
<1>1. ASSUME NEW w \in Workers, worker[w].phase # "idle"  PROVE  worker[w].job \in Jobs
    BY <1>1 DEF CeleryInv, BusyHasJob
<1>2. ASSUME NEW w \in Workers, WorkerNext(w)  PROVE  DroppedStep
    <2>1. CASE ClaimDelivery(w) \/ ClaimError(w) \/ PublishRetryError(w) \/ ChildCrash(w)
        BY <1>1, <2>1 DEF ClaimDelivery, ClaimError, PublishRetryError, ChildCrash, DroppedStep
    <2>2. CASE MarkFailure(w)
        BY <1>1, <2>2 DEF MarkFailure, DroppedStep
    <2>3. CASE \/ Take(w) \/ SkipDelivery(w) \/ Beat(w) \/ BeatStops(w) \/ BeatError(w)
               \/ Fenced(w) \/ ExecutionFails(w) \/ Finish(w) \/ MarkRefused(w)
               \/ MarkError(w) \/ PublishRetry(w) \/ Acknowledge(w) \/ Redeliver(w)
               \/ \E outcome \in Outcomes : Commit(w, outcome)
        BY <2>3 DEF Take, Receive, SkipDelivery, Beat, BeatStops, BeatError, Fenced,
                    ExecutionFails, Finish, MarkRefused, MarkError, PublishRetry, Acknowledge,
                    Redeliver, Commit, celeryVars, DroppedStep
    <2>4. QED  BY <1>2, <2>1, <2>2, <2>3 DEF WorkerNext, Proceed
<1>3. ASSUME NEW j \in Jobs, JobNext(j)  PROVE  DroppedStep
    BY <1>3 DEF JobNext, SubmitDocument, Dispatch, DispatchCrash, Discard, Recover, BeginCancel,
                EndCancel, OperatorRequeue, TimePasses, LoseMessage, celeryVars, DroppedStep
<1>4. ASSUME NEW h \in WorkerIds, ContainerCrash(h)  PROVE  DroppedStep
    BY <1>4 DEF ContainerCrash, DroppedStep
<1>5. CASE UNCHANGED vars
    BY <1>5 DEF vars, celeryVars, DroppedStep
<1>6. QED  BY <1>2, <1>3, <1>4, <1>5 DEF Next

LEMMA DeliveryStepInv ==
    ASSUME CeleryInv, DeliveryInv, [Next]_vars
    PROVE  DeliveryInv'
<1>1. broker' \in [Jobs -> [Retries -> Nat]]
    <2>1. ASSUME NEW j \in Jobs, NEW r \in Retries, broker' = Sent(broker, j, r)
          PROVE  broker' \in [Jobs -> [Retries -> Nat]]
        BY <2>1, SentIsThere DEF DeliveryInv
    <2>2. ASSUME NEW j \in Jobs, NEW r \in Retries, broker[j][r] > 0,
                 broker' = [broker EXCEPT ![j][r] = @ - 1]
          PROVE  broker' \in [Jobs -> [Retries -> Nat]]
        BY <2>2, TakenIsGone DEF DeliveryInv
    <2>3. QED  BY <2>1, <2>2, StepMails, CrashDelivers DEF DeliveryInv
<1>2. dropped' \subseteq Jobs
    BY StepDrops DEF DroppedStep, Drop, DeliveryInv
<1>3. QED  BY <1>1, <1>2, FaultsCounted DEF DeliveryInv

\* Messages, processes and counters keep their types under any faults.
THEOREM CeleryTypes == Spec => []CeleryTypeOK
<1>1. Init => DeliveryInv
    BY FaultBound DEF Init, DeliveryInv
<1>2. CeleryInv /\ DeliveryInv /\ [Next]_vars => DeliveryInv'
    BY DeliveryStepInv
<1>3. CeleryInv /\ DeliveryInv => CeleryTypeOK
    BY DEF CeleryInv, DeliveryInv, CeleryTypeOK
<1>4. QED  BY <1>1, <1>2, <1>3, CeleryInvariant, PTL DEF Spec

-----------------------------------------------------------------------------
(* What strands a job.                                                       *)

\* A process that is yet to claim its job or to send its next delivery.  One that
\* executes the job, or has failed to, does not count: it may turn out to have
\* lost the job, and then it drops it.
Stands(w, k) == worker[w].job = k /\ worker[w].phase \in {"received", "retrying"}

\* Something stands for the job; that a running one has a lease is the store's
\* invariant RunningIsHeld.
Kept(k) ==
    \/ pending[k] > 0
    \/ \E r \in Retries : broker[k][r] > 0
    \/ \E w \in Workers : Stands(w, k)
    \/ job[k].status = "running"
    \/ k \in dropped

Attended == \A k \in Jobs : Open(k) => Kept(k)

\* A process moves alone.
\* (A container that dies is no process: ContainerCrash is apart.)
LEMMA ProcessesMoveAlone ==
    ASSUME CeleryInv
    PROVE  /\ \A u, w \in Workers : WorkerNext(u) /\ u # w => worker'[w] = worker[w]
           /\ \A j \in Jobs : JobNext(j) => worker' = worker
<1>1. ASSUME NEW u \in Workers, NEW w \in Workers, WorkerNext(u), u # w
      PROVE  worker'[w] = worker[w]
    BY <1>1 DEF CeleryInv, WorkerNext, Proceed, Take, Receive, ClaimDelivery, SkipDelivery,
                ClaimError, Beat, BeatStops, BeatError, Commit, Raised, Fenced, ExecutionFails,
                Finish, MarkFailure, MarkRefused, MarkError, PublishRetry, PublishRetryError,
                Acknowledge, ChildCrash, Redeliver, celeryVars, To
<1>2. ASSUME NEW j \in Jobs, JobNext(j)
      PROVE  worker' = worker
    BY <1>2 DEF JobNext, SubmitDocument, Dispatch, DispatchCrash, Discard, Recover, BeginCancel,
                EndCancel, OperatorRequeue, TimePasses, LoseMessage, celeryVars
<1>3. QED  BY <1>1, <1>2

\* What stood for the job still does, and its status is what it was.
Undisturbed(k) ==
    /\ pending[k] > 0 => pending'[k] > 0
    /\ \A r \in Retries : broker[k][r] > 0 => broker'[k][r] > 0
    /\ \A w \in Workers : Stands(w, k) => worker'[w] = worker[w]
    /\ k \in dropped => k \in dropped'
    /\ job'[k].status = job[k].status

LEMMA StillKept ==
    ASSUME Attended, NEW k \in Jobs, Undisturbed(k), Open(k)'
    PROVE  Kept(k)'
<1>1. Kept(k)
    BY DEF Open, Undisturbed, Attended
<1>2. QED  BY <1>1 DEF Undisturbed, Kept, Stands

\* What drops a job keeps it among those dropped, unless its lease stands for it.
LEMMA DropKeeps ==
    ASSUME NEW j \in Jobs, Drop(j), job' = job, NEW k \in Jobs
    PROVE  (k \in dropped => k \in dropped') /\ (j = k => Kept(k)')
<1>1. CASE job[j].status = "running"
    BY <1>1 DEF Drop, Kept
<1>2. CASE job[j].status # "running"
    BY <1>2 DEF Drop, Kept
<1>3. QED  BY <1>1, <1>2

\* A process that takes its job on or sends the next delivery leaves something to
\* stand for it; one that ends without drops it, or it is closed or another's.
LEMMA ProcessLeavesAttended ==
    ASSUME StoreInv, CeleryInv, DeliveryInv, Attended,
           NEW w \in Workers, WorkerNext(w), NEW k \in Jobs, Open(k)'
    PROVE  Undisturbed(k) \/ Kept(k)'
<1> DEFINE mine == worker[w].job
<1> USE DEF At, To
<1>1. worker[w] \in WorkerRows /\ (worker[w].phase # "idle" => mine \in Jobs)
    BY DEF CeleryInv, BusyHasJob
<1>2. ASSUME NEW u \in Workers, u # w  PROVE  worker'[u] = worker[u]
    BY <1>2, ProcessesMoveAlone
<1>3. ASSUME ~ Stands(w, k), job'[k].status = job[k].status, pending' = pending,
             broker' = broker, k \in dropped => k \in dropped'
      PROVE  Undisturbed(k)
    BY <1>2, <1>3 DEF Undisturbed
<1>4. CASE Take(w)
    <2>1. PICK j \in Jobs, r \in Retries : Receive(w, j, r)
        BY <1>4 DEF Take
    <2>2. CASE j = k
        <3>1. worker'[w].job = k /\ worker'[w].phase = "received"
            BY <2>1, <2>2 DEF Receive, Idle, CeleryInv
        <3>2. QED  BY <3>1 DEF Kept, Stands
    <2>3. CASE j # k
        <3>1. broker'[k] = broker[k]
            BY <2>1, <2>3, TakenIsGone DEF Receive, DeliveryInv
        <3>2. ~ Stands(w, k) /\ job' = job /\ pending' = pending /\ dropped' = dropped
            BY <2>1 DEF Receive, Stands, storeVars
        <3>3. QED  BY <1>2, <3>1, <3>2 DEF Undisturbed
    <2>4. QED  BY <2>2, <2>3
<1>5. CASE ClaimDelivery(w)
    <2>1. Claim(mine, Host[w]) /\ mine \in Jobs /\ broker' = broker
        BY <1>1, <1>5 DEF ClaimDelivery
    <2>2. CASE mine = k
        <3>1. job'[k].status \in {"running", "succeeded"}
            <4>1. CASE run[k].status \in TerminalSuccess
                BY <2>1, <2>2, <4>1 DEF Claim, StoreInv, TypeOK, JobRows
            <4>2. CASE run[k].status \notin TerminalSuccess
                BY <2>1, <2>2, <4>2 DEF Claim, StoreInv, TypeOK, JobRows
            <4>3. QED  BY <4>1, <4>2
        <3>2. QED  BY <3>1 DEF Kept, Open, TerminalJobStatuses
    <2>3. CASE mine # k
        <3>1. k \in dropped => k \in dropped'
            BY <1>5, <2>3 DEF ClaimDelivery
        <3>2. QED  BY <1>3, <2>1, <2>3, <3>1 DEF Claim, Stands, StoreInv, TypeOK
    <2>4. QED  BY <2>2, <2>3
<1>6. CASE SkipDelivery(w)
    <2>1. /\ job' = job /\ pending' = pending /\ broker' = broker /\ ~ Claimable(mine)
          /\ dropped' = dropped
        BY <1>6 DEF SkipDelivery, storeVars
    <2>2. CASE mine = k
        BY <2>1, <2>2 DEF Claimable, Open, Kept
    <2>3. CASE mine # k
        BY <1>3, <2>1, <2>3 DEF Stands
    <2>4. QED  BY <2>2, <2>3
<1>7. CASE \/ ClaimError(w) \/ PublishRetryError(w)
           \/ ChildCrash(w) /\ worker[w].phase \in {"received", "retrying"}
    <2>1. mine \in Jobs /\ Drop(mine) /\ UNCHANGED storeVars /\ broker' = broker
        BY <1>1, <1>7 DEF ClaimError, PublishRetryError, ChildCrash
    <2>2. (k \in dropped => k \in dropped') /\ (mine = k => Kept(k)')
        BY <2>1, DropKeeps DEF storeVars
    <2>3. CASE mine # k
        BY <1>3, <2>1, <2>2, <2>3 DEF Stands, storeVars
    <2>4. QED  BY <2>2, <2>3
<1>8. CASE Beat(w)
    <2>1. Heartbeat(mine, Host[w]) /\ UNCHANGED <<worker, broker, dropped>> /\ mine \in Jobs
             /\ ~ Stands(w, k)
        BY <1>1, <1>8 DEF Beat, celeryVars, Stands
    <2>2. job'[k].status = job[k].status /\ pending' = pending
        BY <2>1 DEF Heartbeat, StoreInv, TypeOK, JobRows
    <2>3. QED  BY <1>3, <2>1, <2>2
<1>9. CASE BeatStops(w) \/ BeatError(w) \/ Fenced(w) \/ ExecutionFails(w)
    BY <1>3, <1>9 DEF BeatStops, BeatError, Fenced, ExecutionFails, Stands, storeVars
<1>10. ASSUME NEW outcome \in Outcomes, Commit(w, outcome)
       PROVE  Undisturbed(k)
    <2>1. /\ Complete(mine, Host[w], outcome) /\ mine \in Jobs /\ broker' = broker
          /\ ~ Stands(w, k) /\ dropped' = dropped
        BY <1>1, <1>10 DEF Commit, Stands
    <2>2. job'[mine].status = "succeeded"
             /\ \A i \in Jobs \ {mine} : job'[i] = job[i]
        BY <2>1 DEF Complete, StoreInv, TypeOK, JobRows
    <2>3. k # mine
        BY <2>2 DEF Open, TerminalJobStatuses
    <2>4. QED  BY <1>3, <2>1, <2>2, <2>3 DEF Complete
<1>11. CASE Finish(w)
    <2>1. /\ job' = job /\ pending' = pending /\ broker' = broker /\ ~ Stands(w, k)
          /\ dropped' = dropped
        BY <1>11 DEF Finish, CeleryInv, FinishingIsClosed, Stands
    <2>2. QED  BY <1>3, <2>1
<1>12. CASE MarkFailure(w)
    <2>1. /\ worker[w].phase = "failed" /\ mine \in Jobs /\ broker' = broker /\ pending' = pending
          /\ Owns(mine, Host[w]) /\ (k \in dropped => k \in dropped')
        BY <1>1, <1>12 DEF MarkFailure, MarkRetrying, MarkDeadLettered
    <2>2. CASE mine = k /\ worker[w].leaseLost
        BY <1>12, <2>2 DEF MarkFailure, Kept
    <2>3. CASE mine = k /\ MayRetry(w) /\ ~ worker[w].leaseLost
        <3>1. worker' = [worker EXCEPT ![w].phase = "retrying"]
            BY <1>12, <2>3 DEF MarkFailure, AfterMark
        <3>2. worker'[w].job = k /\ worker'[w].phase = "retrying"
            BY <1>1, <2>3, <3>1 DEF CeleryInv, WorkerRows
        <3>3. QED  BY <3>2 DEF Kept, Stands
    <2>4. CASE mine = k /\ ~ MayRetry(w)
        <3>1. MarkDeadLettered(k, Host[w])
            BY <1>12, <2>4 DEF MarkFailure
        <3>2. job'[k] = [job[k] EXCEPT !.status = "dead_lettered", !.lease = "none"]
            BY <3>1 DEF MarkDeadLettered, StoreInv, TypeOK
        <3>3. job'[k].status = "dead_lettered"
            BY <3>2 DEF StoreInv, TypeOK, JobRows
        <3>4. QED  BY <3>3 DEF Open, TerminalJobStatuses
    <2>5. CASE mine # k
        <3>1. job'[k] = job[k]
            BY <1>12, <2>1, <2>5 DEF MarkFailure, MarkRetrying, MarkDeadLettered, StoreInv, TypeOK
        <3>2. ~ Stands(w, k)
            BY <2>5 DEF Stands
        <3>3. QED  BY <1>3, <2>1, <3>1, <3>2
    <2>6. QED  BY <2>2, <2>3, <2>4, <2>5
<1>13. CASE MarkRefused(w) \/ MarkError(w) \/ Acknowledge(w)
    BY <1>3, <1>13 DEF MarkRefused, MarkError, Acknowledge, Stands, storeVars
<1>14. ASSUME NEW r \in Retries, mine \in Jobs, broker' = Sent(broker, mine, r),
              UNCHANGED storeVars, dropped' = dropped
       PROVE  Undisturbed(k) \/ Kept(k)'
    <2>1. /\ broker'[mine][r] > 0 /\ job' = job /\ pending' = pending
          /\ \A s \in Retries : broker'[k][s] >= broker[k][s] /\ broker[k][s] \in Nat
                                /\ broker'[k][s] \in Nat
        BY <1>14, SentIsThere DEF DeliveryInv, storeVars
    <2>2. CASE mine = k
        BY <2>1, <2>2 DEF Kept
    <2>3. CASE mine # k
        <3>1. \A s \in Retries : broker[k][s] > 0 => broker'[k][s] > 0
            BY <2>1
        <3>2. ~ Stands(w, k)
            BY <2>3 DEF Stands
        <3>3. QED  BY <1>2, <1>14, <2>1, <3>1, <3>2 DEF Undisturbed
    <2>4. QED  BY <2>2, <2>3
<1>15. CASE PublishRetry(w)
    <2>1. worker[w].retries + 1 \in Retries
        BY <1>1, <1>15 DEF PublishRetry, CeleryInv, RetriesLeft, MayRetry, WorkerRows, Retries
    <2>2. QED  BY <1>1, <1>14, <1>15, <2>1 DEF PublishRetry
<1>16. CASE Redeliver(w)
    <2>1. worker[w].retries \in Retries
        BY <1>1 DEF WorkerRows
    <2>2. QED  BY <1>1, <1>14, <1>16, <2>1 DEF Redeliver
<1>17. CASE ChildCrash(w) /\ worker[w].phase \notin {"received", "retrying"}
    BY <1>3, <1>17 DEF ChildCrash, Stands, storeVars
<1>18. QED
    BY <1>4, <1>5, <1>6, <1>7, <1>8, <1>9, <1>10, <1>11, <1>12, <1>13, <1>15, <1>16,
       <1>17 DEF WorkerNext, Proceed

\* The messages a dead container gives back stand for the jobs of its processes.
LEMMA CrashLeavesAttended ==
    ASSUME CeleryInv, DeliveryInv, NEW h \in WorkerIds, ContainerCrash(h), NEW k \in Jobs
    PROVE  Undisturbed(k) \/ Kept(k)'
<1>1. \A r \in Retries : broker[k][r] > 0 => broker'[k][r] > 0
    BY CrashDelivers
<1>2. UNCHANGED <<storeVars, dropped>>
    BY DEF ContainerCrash
<1>3. CASE \E w \in Workers : Stands(w, k) /\ Host[w] = h
    <2>1. PICK w \in Workers : Stands(w, k) /\ Host[w] = h
        BY <1>3
    <2>2. broker'[k][worker[w].retries] > 0 /\ worker[w].retries \in Retries
        BY <2>1, CrashDelivers DEF Stands, At, CeleryInv, WorkerRows
    <2>3. QED  BY <2>2 DEF Kept
<1>4. CASE \A w \in Workers : Stands(w, k) => Host[w] # h
    <2>1. \A w \in Workers : Stands(w, k) => worker'[w] = worker[w]
        BY <1>4 DEF ContainerCrash
    <2>2. QED  BY <1>1, <1>2, <2>1 DEF Undisturbed, storeVars
<1>5. QED  BY <1>3, <1>4

\* Dispatcher, broker, API and time leave something to stand for the job too.
LEMMA OthersLeaveAttended ==
    ASSUME StoreInv, CeleryInv, DeliveryInv,
           NEW j \in Jobs, JobNext(j), NEW k \in Jobs, Open(k)'
    PROVE  Undisturbed(k) \/ Kept(k)'
<1> USE DEF StoreInv, TypeOK, JobRows
<1>1. worker' = worker
    BY ProcessesMoveAlone
<1>2. ASSUME pending[k] > 0 => pending'[k] > 0, broker'[k] = broker[k],
             k \in dropped => k \in dropped', job'[k].status = job[k].status
      PROVE  Undisturbed(k)
    BY <1>1, <1>2 DEF Undisturbed
<1>3. CASE SubmitDocument(j)
    <2>1. CASE j = k
        BY <1>3, <2>1 DEF SubmitDocument, Submit, Kept
    <2>2. CASE j # k
        BY <1>2, <1>3, <2>2 DEF SubmitDocument, Submit, celeryVars
    <2>3. QED  BY <2>1, <2>2
<1>4. 0 \in Retries
    BY DEF Retries
<1>5. ASSUME broker' = Sent(broker, j, 0)
      PROVE  /\ broker'[j][0] > 0
             /\ \A s \in Retries : broker[k][s] > 0 => broker'[k][s] > 0
    <2>1. /\ broker'[j][0] > 0 /\ broker' \in [Jobs -> [Retries -> Nat]]
          /\ \A s \in Retries : broker'[k][s] >= broker[k][s]
        BY <1>4, <1>5, SentIsThere DEF DeliveryInv
    <2>2. QED  BY <2>1 DEF DeliveryInv
<1>6. CASE Dispatch(j)
    <2>1. PublishCommit(j) /\ broker' = Sent(broker, j, 0) /\ dropped' = dropped
        BY <1>6 DEF Dispatch
    <2>2. CASE j = k
        BY <1>4, <1>5, <2>1, <2>2 DEF Kept
    <2>3. CASE j # k
        <3>1. pending'[k] = pending[k] /\ job'[k] = job[k]
            BY <2>1, <2>3 DEF PublishCommit
        <3>2. QED  BY <1>1, <1>5, <2>1, <3>1 DEF Undisturbed
    <2>4. QED  BY <2>2, <2>3
<1>7. CASE DispatchCrash(j)
    <2>1. broker' = Sent(broker, j, 0) /\ job' = job /\ pending' = pending
             /\ dropped' = dropped
        BY <1>7 DEF DispatchCrash, storeVars
    <2>2. QED  BY <1>1, <1>5, <2>1 DEF Undisturbed
<1>8. CASE Discard(j)
    <2>1. DiscardEvent(j) /\ broker' = broker /\ job' = job /\ dropped' = dropped
        BY <1>8 DEF Discard, celeryVars, DiscardEvent
    <2>2. j # k
        BY <2>1 DEF DiscardEvent, Open
    <2>3. QED  BY <1>2, <2>1, <2>2 DEF DiscardEvent
<1>9. CASE Recover(j)
    <2>1. broker' = broker /\ dropped' = dropped
        BY <1>9 DEF Recover, celeryVars
    <2>2. CASE j # k
        <3>1. job'[k] = job[k] /\ pending'[k] = pending[k]
            BY <1>9, <2>2 DEF Recover, RecoverExhausted, RecoverLost
        <3>2. QED  BY <1>2, <2>1, <3>1
    <2>3. CASE j = k /\ RecoverExhausted(j)
        BY <2>3 DEF RecoverExhausted, Open, TerminalJobStatuses
    <2>4. CASE j = k /\ RecoverLost(j)
        BY <2>4 DEF RecoverLost, Kept
    <2>5. QED  BY <1>9, <2>2, <2>3, <2>4 DEF Recover
<1>10. CASE BeginCancel(j)
    BY <1>2, <1>10 DEF BeginCancel, ReadForCancel, celeryVars
<1>11. CASE EndCancel(j)
    <2>1. CASE RefuseCancel(j)
        BY <1>2, <1>11, <2>1 DEF EndCancel, RefuseCancel, celeryVars
    <2>2. CASE Cancel(j)
        <3>1. j # k
            BY <2>2 DEF Cancel, Open, TerminalJobStatuses
        <3>2. /\ job'[k] = job[k] /\ pending'[k] = pending[k] /\ broker' = broker
              /\ dropped' = dropped
            BY <1>11, <2>2, <3>1 DEF EndCancel, Cancel, celeryVars
        <3>3. QED  BY <1>2, <3>2
    <2>3. QED  BY <1>11, <2>1, <2>2 DEF EndCancel
<1>12. CASE OperatorRequeue(j)
    <2>1. Requeue(j) /\ broker' = broker /\ dropped' = dropped \ {j}
        BY <1>12 DEF OperatorRequeue
    <2>2. CASE j = k
        BY <2>1, <2>2 DEF Requeue, Kept
    <2>3. CASE j # k
        BY <1>2, <2>1, <2>3 DEF Requeue
    <2>4. QED  BY <2>2, <2>3
<1>13. CASE TimePasses(j)
    <2>1. LeaseTick(j) /\ broker' = broker /\ dropped' = dropped
        BY <1>13 DEF TimePasses, celeryVars
    <2>2. job'[k].status = job[k].status /\ pending' = pending
        BY <2>1 DEF LeaseTick
    <2>3. QED  BY <1>2, <2>1, <2>2
<1>14. ASSUME NEW r \in Retries, LoseMessage(j, r)
       PROVE  Undisturbed(k) \/ Kept(k)'
    <2>1. /\ Drop(j) /\ UNCHANGED storeVars
          /\ broker[j][r] > 0 /\ broker' = [broker EXCEPT ![j][r] = @ - 1]
        BY <1>14 DEF LoseMessage
    <2>2. (k \in dropped => k \in dropped') /\ (j = k => Kept(k)')
        BY <2>1, DropKeeps DEF storeVars
    <2>3. CASE j # k
        <3>1. broker'[k] = broker[k]
            BY <2>1, <2>3, TakenIsGone DEF DeliveryInv
        <3>2. QED  BY <1>2, <2>1, <2>2, <3>1 DEF storeVars
    <2>4. QED  BY <2>2, <2>3
<1>15. QED
    BY <1>3, <1>6, <1>7, <1>8, <1>9, <1>10, <1>11, <1>12, <1>13, <1>14 DEF JobNext

LEMMA AttendedStep ==
    ASSUME StoreInv, CeleryInv, DeliveryInv, Attended, [Next]_vars
    PROVE  Attended'
<1>1. ASSUME NEW k \in Jobs, Open(k)'
      PROVE  Kept(k)'
    <2>1. Undisturbed(k) \/ Kept(k)'
        <3>1. CASE UNCHANGED vars
            BY <3>1 DEF vars, storeVars, celeryVars, Undisturbed
        <3>2. CASE Next
            BY <1>1, <3>2, ProcessLeavesAttended, CrashLeavesAttended, OthersLeaveAttended
               DEF Next
        <3>3. QED  BY <3>1, <3>2
    <2>2. QED  BY <1>1, <2>1, StillKept
<1>2. QED  BY <1>1 DEF Attended

\* Nothing but the five ways in which a delivery is dropped strands a job: for
\* any other open job an event, a message, a process or a lease stands, whatever
\* processes and containers crash, are fenced off or redelivered to, however late
\* heartbeats come and whichever processes share a host.
THEOREM StrandingIsExplained == Spec => []StrandingExplained
<1>1. Init => DeliveryInv /\ Attended
    <2> SUFFICES ASSUME Init PROVE DeliveryInv /\ Attended
        OBVIOUS
    <2>1. DeliveryInv
        BY FaultBound DEF Init, DeliveryInv
    <2>2. Attended
        BY DEF Init, StoreInit, Attended, Open
    <2>3. QED  BY <2>1, <2>2
<1>2. StoreInv /\ CeleryInv /\ DeliveryInv /\ Attended /\ [Next]_vars =>
        (DeliveryInv /\ Attended)'
    BY DeliveryStepInv, AttendedStep
<1>3. StoreInv /\ Attended => StrandingExplained
    BY DEF Attended, Kept, Stands, StrandingExplained, StoodFor, StoreInv, RunningIsHeld
<1>4. QED  BY <1>1, <1>2, <1>3, CeleryInvariant, PTL DEF Spec
=============================================================================
