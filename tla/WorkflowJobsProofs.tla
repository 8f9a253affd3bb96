------------------------- MODULE WorkflowJobsProofs -------------------------
(***************************************************************************)
(* Theorems about the durable job store, for every number of jobs and      *)
(* worker identities and every max_attempts.                               *)
(***************************************************************************)
EXTENDS WorkflowJobs, TLAPS

USE MaxAttemptsPositive, NoWorkerIsNotAnId

\* A running job is held by a worker and carries a lease, so the recovery scan
\* will find it when the worker is gone.
RunningIsHeld == \A j \in Jobs :
    job[j].status = "running" => job[j].worker \in WorkerIds /\ job[j].lease # "none"

\* Before its submission a job has no run and no request touches it.
Unsubmitted == \A j \in Jobs :
    job[j].status = "absent" =>
        run[j].status = "absent" /\ pending[j] = 0 /\ j \notin cancelReads

\* Why the outbox is bounded: each event beyond the first was added for an
\* attempt that was lost, and an attempt is lost once.
OutboxBudget == \A j \in Jobs :
    LET waiting == pending[j] + (IF job[j].status = "published" THEN 1 ELSE 0)
    IN  /\ waiting <= MaxAttempts
        /\ waiting <= IF job[j].status = "running" THEN job[j].attempts
                                                   ELSE job[j].attempts + 1

StoreInv ==
    /\ TypeOK
    /\ Unsubmitted
    /\ MaterializedOnce
    /\ RunAgrees
    /\ StagedHasEvent
    /\ RunningIsHeld
    /\ OutboxBudget

\* Types are preserved.
LEMMA TypeStep == TypeOK /\ [StoreNext]_storeVars => TypeOK'
<1> SUFFICES ASSUME TypeOK, [StoreNext]_storeVars PROVE TypeOK'
    OBVIOUS
<1> DEFINE JobUpdate(j, row) == job' = [job EXCEPT ![j] = row]
           RunUpdate(j, row) == run' = [run EXCEPT ![j] = row]
<1>a. ASSUME NEW j \in Jobs, NEW row \in JobRows, JobUpdate(j, row)
      PROVE  job' \in [Jobs -> JobRows]
    BY <1>a DEF TypeOK
<1>b. ASSUME NEW j \in Jobs, NEW row \in RunRows, RunUpdate(j, row)
      PROVE  run' \in [Jobs -> RunRows]
    BY <1>b DEF TypeOK
<1>c. \A j \in Jobs : job[j] \in JobRows /\ run[j] \in RunRows
    BY DEF TypeOK
<1>1. CASE UNCHANGED storeVars
    BY <1>1 DEF storeVars, TypeOK
<1>2. ASSUME NEW j \in Jobs, Submit(j) PROVE TypeOK'
    <2>1. [job[j] EXCEPT !.status = "queued"] \in JobRows
        BY <1>c DEF JobRows, JobStatus
    <2>2. [run[j] EXCEPT !.status = "queued"] \in RunRows
        BY <1>c DEF RunRows, RunStatus
    <2>3. QED  BY <1>2, <1>a, <1>b, <2>1, <2>2 DEF Submit, TypeOK
<1>3. ASSUME NEW j \in Jobs, NEW w \in WorkerIds, Claim(j, w) PROVE TypeOK'
    <2>1. [job[j] EXCEPT !.status = "succeeded"] \in JobRows
        BY <1>c DEF JobRows, JobStatus
    <2>2. [status |-> "running", attempts |-> Bump(job[j].attempts, AttemptCap),
           lease |-> "live", worker |-> w] \in JobRows
        BY <1>c DEF JobRows, JobStatus, Leases, Bump, AttemptCap
    <2>3. QED  BY <1>3, <1>a, <2>1, <2>2 DEF Claim, TypeOK
<1>4. ASSUME NEW j \in Jobs, NEW w \in WorkerIds, Heartbeat(j, w) PROVE TypeOK'
    <2>1. [job[j] EXCEPT !.lease = "live"] \in JobRows
        BY <1>c DEF JobRows, Leases
    <2>2. QED  BY <1>4, <1>a, <2>1 DEF Heartbeat, TypeOK
<1>5. ASSUME NEW j \in Jobs, NEW w \in WorkerIds, MarkRetrying(j, w) PROVE TypeOK'
    <2>1. [job[j] EXCEPT !.status = "retrying", !.lease = "none"] \in JobRows
        BY <1>c DEF JobRows, JobStatus, Leases
    <2>2. RetriedRun(run[j]) \in RunRows
        BY <1>c DEF RunRows, RunStatus, Outcomes, RetriedRun, Bump
    <2>3. QED  BY <1>5, <1>a, <1>b, <2>1, <2>2 DEF MarkRetrying, TypeOK
<1>6. ASSUME NEW j \in Jobs, NEW w \in WorkerIds, MarkDeadLettered(j, w) PROVE TypeOK'
    <2>1. [job[j] EXCEPT !.status = "dead_lettered", !.lease = "none"] \in JobRows
        BY <1>c DEF JobRows, JobStatus, Leases
    <2>2. [run[j] EXCEPT !.status = "dead_lettered"] \in RunRows
        BY <1>c DEF RunRows, RunStatus, Outcomes
    <2>3. QED  BY <1>6, <1>a, <1>b, <2>1, <2>2 DEF MarkDeadLettered, TypeOK
<1>7. ASSUME NEW j \in Jobs, NEW w \in WorkerIds, NEW outcome \in Outcomes,
             Complete(j, w, outcome)
      PROVE  TypeOK'
    <2>1. [job[j] EXCEPT !.status = "succeeded", !.lease = "none"] \in JobRows
        BY <1>c DEF JobRows, JobStatus, Leases
    <2>2. [run[j] EXCEPT !.status = outcome] \in RunRows
        BY <1>c DEF RunRows, RunStatus
    <2>3. QED  BY <1>7, <1>a, <1>b, <2>1, <2>2 DEF Complete, TypeOK
<1>8. ASSUME NEW j \in Jobs, MarkRunFailed(j) PROVE TypeOK'
    <2>1. [run[j] EXCEPT !.status = "failed"] \in RunRows
        BY <1>c DEF RunRows, RunStatus, Outcomes
    <2>2. QED  BY <1>8, <1>b, <2>1 DEF MarkRunFailed, TypeOK
<1>9. ASSUME NEW j \in Jobs, PublishCommit(j) PROVE TypeOK'
    <2>1. [job[j] EXCEPT !.status = "published"] \in JobRows
        BY <1>c DEF JobRows, JobStatus
    <2>2. QED  BY <1>9, <1>a, <2>1 DEF PublishCommit, TypeOK
<1>10. ASSUME NEW j \in Jobs, DiscardEvent(j) PROVE TypeOK'
    BY <1>10 DEF DiscardEvent, TypeOK
<1>11. ASSUME NEW j \in Jobs, RecoverExhausted(j) PROVE TypeOK'
    <2>1. [job[j] EXCEPT !.status = "dead_lettered"] \in JobRows
        BY <1>c DEF JobRows, JobStatus
    <2>2. [run[j] EXCEPT !.status = "dead_lettered"] \in RunRows
        BY <1>c DEF RunRows, RunStatus, Outcomes
    <2>3. QED  BY <1>11, <1>a, <1>b, <2>1, <2>2 DEF RecoverExhausted, TypeOK
<1>12. ASSUME NEW j \in Jobs, RecoverLost(j) PROVE TypeOK'
    <2>1. [job[j] EXCEPT !.status = "lost", !.worker = NoWorker, !.lease = "none"]
              \in JobRows
        BY <1>c DEF JobRows, JobStatus, Leases
    <2>2. [run[j] EXCEPT !.status = "lost"] \in RunRows
        BY <1>c DEF RunRows, RunStatus
    <2>3. QED  BY <1>12, <1>a, <1>b, <2>1, <2>2 DEF RecoverLost, TypeOK
<1>13. ASSUME NEW j \in Jobs, ReadForCancel(j) PROVE TypeOK'
    BY <1>13 DEF ReadForCancel, TypeOK
<1>14. ASSUME NEW j \in Jobs, Cancel(j) PROVE TypeOK'
    <2>1. [job[j] EXCEPT !.status = "cancelled"] \in JobRows
        BY <1>c DEF JobRows, JobStatus
    <2>2. [status |-> "cancelled", retries |-> 0] \in RunRows
        BY DEF RunRows, RunStatus
    <2>3. QED  BY <1>14, <1>a, <1>b, <2>1, <2>2 DEF Cancel, TypeOK
<1>15. ASSUME NEW j \in Jobs, RefuseCancel(j) PROVE TypeOK'
    BY <1>15 DEF RefuseCancel, TypeOK
<1>16. ASSUME NEW j \in Jobs, Requeue(j) PROVE TypeOK'
    <2>1. [job[j] EXCEPT !.status = "queued", !.worker = NoWorker, !.lease = "none"]
              \in JobRows
        BY <1>c DEF JobRows, JobStatus, Leases
    <2>2. QED  BY <1>16, <1>a, <2>1 DEF Requeue, TypeOK
<1>17. ASSUME NEW j \in Jobs, LeaseTick(j) PROVE TypeOK'
    <2>1. [job[j] EXCEPT !.lease = IF @ = "live" THEN "due" ELSE "past"] \in JobRows
        BY <1>c DEF JobRows, Leases
    <2>2. QED  BY <1>17, <1>a, <2>1 DEF LeaseTick, TypeOK
<1>18. QED
    BY <1>1, <1>2, <1>3, <1>4, <1>5, <1>6, <1>7, <1>8, <1>9, <1>10, <1>11, <1>12,
       <1>13, <1>14, <1>15, <1>16, <1>17 DEF StoreNext, Transaction, WorkerTransaction

\* What the remaining conjuncts of the invariant say is preserved with them.
LEMMA RestStep ==
    ASSUME StoreInv, TypeOK', [StoreNext]_storeVars
    PROVE  StoreInv'
<1> DEFINE Rest == /\ Unsubmitted /\ MaterializedOnce /\ RunAgrees /\ StagedHasEvent
                   /\ RunningIsHeld /\ OutboxBudget
           Others(j) == \A k \in Jobs \ {j} :
               /\ job'[k] = job[k] /\ run'[k] = run[k]
               /\ pending'[k] = pending[k] /\ outputs'[k] = outputs[k]
               /\ k \in cancelReads' => k \in cancelReads
<1> USE DEF StoreInv
<1>n. \A j \in Jobs : /\ job[j].attempts \in 0..AttemptCap
                      /\ pending[j] \in Nat /\ outputs[j] \in Nat
    BY DEF TypeOK, JobRows
<1>1. ASSUME NEW j \in Jobs, Submit(j) PROVE Rest'
    <2>1. /\ job'[j].status = "queued"
          /\ job'[j].attempts = job[j].attempts
          /\ job[j].status = "absent"
          /\ run'[j].status = "queued"
          /\ pending'[j] = 1
          /\ outputs'[j] = outputs[j]
          /\ j \in cancelReads' => j \in cancelReads
        BY <1>1 DEF Submit, TypeOK, JobRows, RunRows
    <2>2. Others(j)
        BY <1>1 DEF Submit, TypeOK
    <2>3. Unsubmitted'
        BY <2>1, <2>2, <1>n DEF Unsubmitted, Others
    <2>4. MaterializedOnce'
        BY <2>1, <2>2, <1>n DEF MaterializedOnce, Others
    <2>5. RunAgrees'
        BY <2>1, <2>2, <1>n DEF RunAgrees, TerminalSuccess, Outcomes, Others
    <2>6. StagedHasEvent'
        BY <2>1, <2>2, <1>n DEF StagedHasEvent, Others
    <2>7. RunningIsHeld'
        BY <2>1, <2>2, <1>n DEF RunningIsHeld, Others
    <2>8. OutboxBudget'
        BY <2>1, <2>2, <1>n DEF OutboxBudget, Others
    <2>9. QED  BY <2>3, <2>4, <2>5, <2>6, <2>7, <2>8
<1>2. ASSUME NEW j \in Jobs, NEW w \in WorkerIds, Claim(j, w) PROVE Rest'
    <2>1. /\ Open(j)
          /\ job'[j].status = "running"
          /\ job'[j].attempts = Bump(job[j].attempts, AttemptCap)
          /\ job'[j].worker = w /\ job'[j].lease = "live"
          /\ run'[j] = run[j]
          /\ pending'[j] = pending[j]
          /\ outputs'[j] = outputs[j]
          /\ j \in cancelReads' => j \in cancelReads
        BY <1>2 DEF Claim, Claimable, TypeOK, JobRows, RunRows, RunAgrees,
               TerminalSuccess, TerminalJobStatuses, Open
    <2>2. Others(j)
        BY <1>2 DEF Claim, Claimable, TypeOK
    <2>3. Unsubmitted'
        BY <2>1, <2>2, <1>n DEF Unsubmitted, Open, TerminalJobStatuses, Others
    <2>4. MaterializedOnce'
        BY <2>1, <2>2, <1>n DEF MaterializedOnce, Open, TerminalJobStatuses, Others
    <2>5. RunAgrees'
        BY <2>1, <2>2, <1>n DEF RunAgrees, TerminalSuccess, Outcomes, Open, TerminalJobStatuses, Others
    <2>6. StagedHasEvent'
        BY <2>1, <2>2, <1>n DEF StagedHasEvent, Open, TerminalJobStatuses, Others
    <2>7. RunningIsHeld'
        BY <2>1, <2>2, <1>n DEF RunningIsHeld, Others
    <2>8. OutboxBudget'
        BY <2>1, <2>2, <1>n DEF OutboxBudget, Open, TerminalJobStatuses, Bump, AttemptCap, Others
    <2>9. QED  BY <2>3, <2>4, <2>5, <2>6, <2>7, <2>8
<1>3. ASSUME NEW j \in Jobs, NEW w \in WorkerIds, Heartbeat(j, w) PROVE Rest'
    <2>1. /\ job'[j].status = job[j].status
          /\ job'[j].attempts = job[j].attempts
          /\ job'[j].worker = job[j].worker /\ job'[j].lease = "live"
          /\ run'[j] = run[j]
          /\ pending'[j] = pending[j]
          /\ outputs'[j] = outputs[j]
          /\ j \in cancelReads' => j \in cancelReads
        BY <1>3 DEF Heartbeat, TypeOK, JobRows, RunRows
    <2>2. Others(j)
        BY <1>3 DEF Heartbeat, TypeOK
    <2>3. Unsubmitted'
        BY <2>1, <2>2, <1>n DEF Unsubmitted, Others
    <2>4. MaterializedOnce'
        BY <2>1, <2>2, <1>n DEF MaterializedOnce, Others
    <2>5. RunAgrees'
        BY <2>1, <2>2, <1>n DEF RunAgrees, TerminalSuccess, Outcomes, Others
    <2>6. StagedHasEvent'
        BY <2>1, <2>2, <1>n DEF StagedHasEvent, Others
    <2>7. RunningIsHeld'
        BY <2>1, <2>2, <1>n DEF RunningIsHeld, Others
    <2>8. OutboxBudget'
        BY <2>1, <2>2, <1>n DEF OutboxBudget, Others
    <2>9. QED  BY <2>3, <2>4, <2>5, <2>6, <2>7, <2>8
<1>4. ASSUME NEW j \in Jobs, NEW w \in WorkerIds, MarkRetrying(j, w) PROVE Rest'
    <2>1. /\ job[j].status = "running"
          /\ job'[j].status = "retrying"
          /\ job'[j].attempts = job[j].attempts
          /\ run'[j].status \in {"retrying", "dead_lettered"}
          /\ pending'[j] = pending[j]
          /\ outputs'[j] = outputs[j]
          /\ j \in cancelReads' => j \in cancelReads
        BY <1>4 DEF MarkRetrying, Owns, RetriedRun, TypeOK, JobRows, RunRows
    <2>2. Others(j)
        BY <1>4 DEF MarkRetrying, Owns, RetriedRun, TypeOK
    <2>3. Unsubmitted'
        BY <2>1, <2>2, <1>n DEF Unsubmitted, Others
    <2>4. MaterializedOnce'
        BY <2>1, <2>2, <1>n DEF MaterializedOnce, Others
    <2>5. RunAgrees'
        BY <2>1, <2>2, <1>n DEF RunAgrees, TerminalSuccess, Outcomes, Others
    <2>6. StagedHasEvent'
        BY <2>1, <2>2, <1>n DEF StagedHasEvent, Others
    <2>7. RunningIsHeld'
        BY <2>1, <2>2, <1>n DEF RunningIsHeld, Others
    <2>8. OutboxBudget'
        BY <2>1, <2>2, <1>n DEF OutboxBudget, Others
    <2>9. QED  BY <2>3, <2>4, <2>5, <2>6, <2>7, <2>8
<1>5. ASSUME NEW j \in Jobs, NEW w \in WorkerIds, MarkDeadLettered(j, w) PROVE Rest'
    <2>1. /\ job[j].status = "running"
          /\ job'[j].status = "dead_lettered"
          /\ job'[j].attempts = job[j].attempts
          /\ run'[j].status = "dead_lettered"
          /\ pending'[j] = pending[j]
          /\ outputs'[j] = outputs[j]
          /\ j \in cancelReads' => j \in cancelReads
        BY <1>5 DEF MarkDeadLettered, Owns, TypeOK, JobRows, RunRows
    <2>2. Others(j)
        BY <1>5 DEF MarkDeadLettered, Owns, TypeOK
    <2>3. Unsubmitted'
        BY <2>1, <2>2, <1>n DEF Unsubmitted, Others
    <2>4. MaterializedOnce'
        BY <2>1, <2>2, <1>n DEF MaterializedOnce, Others
    <2>5. RunAgrees'
        BY <2>1, <2>2, <1>n DEF RunAgrees, TerminalSuccess, Outcomes, Others
    <2>6. StagedHasEvent'
        BY <2>1, <2>2, <1>n DEF StagedHasEvent, Others
    <2>7. RunningIsHeld'
        BY <2>1, <2>2, <1>n DEF RunningIsHeld, Others
    <2>8. OutboxBudget'
        BY <2>1, <2>2, <1>n DEF OutboxBudget, Others
    <2>9. QED  BY <2>3, <2>4, <2>5, <2>6, <2>7, <2>8
<1>6. ASSUME NEW j \in Jobs, NEW w \in WorkerIds, NEW outcome \in Outcomes,
             Complete(j, w, outcome) PROVE Rest'
    <2>1. /\ job[j].status = "running"
          /\ job'[j].status = "succeeded"
          /\ job'[j].attempts = job[j].attempts
          /\ run'[j].status = outcome
          /\ pending'[j] = pending[j]
          /\ outputs'[j] = outputs[j] + 1
          /\ j \in cancelReads' => j \in cancelReads
        BY <1>6 DEF Complete, Fence, Owns, TypeOK, JobRows, RunRows
    <2>2. Others(j)
        BY <1>6 DEF Complete, Fence, Owns, TypeOK
    <2>3. Unsubmitted'
        BY <2>1, <2>2, <1>n DEF Unsubmitted, Others
    <2>4. MaterializedOnce'
        BY <2>1, <2>2, <1>n DEF MaterializedOnce, Others
    <2>5. RunAgrees'
        BY <2>1, <2>2, <1>n DEF RunAgrees, TerminalSuccess, Outcomes, Others
    <2>6. StagedHasEvent'
        BY <2>1, <2>2, <1>n DEF StagedHasEvent, Others
    <2>7. RunningIsHeld'
        BY <2>1, <2>2, <1>n DEF RunningIsHeld, Others
    <2>8. OutboxBudget'
        BY <2>1, <2>2, <1>n DEF OutboxBudget, Others
    <2>9. QED  BY <2>3, <2>4, <2>5, <2>6, <2>7, <2>8
<1>7. ASSUME NEW j \in Jobs, MarkRunFailed(j) PROVE Rest'
    <2>1. /\ run[j].status # "absent"
          /\ job'[j] = job[j]
          /\ run'[j].status = "failed"
          /\ pending'[j] = pending[j]
          /\ outputs'[j] = outputs[j]
          /\ j \in cancelReads' => j \in cancelReads
        BY <1>7 DEF MarkRunFailed, TypeOK, JobRows, RunRows
    <2>2. Others(j)
        BY <1>7 DEF MarkRunFailed, TypeOK
    <2>3. Unsubmitted'
        BY <2>1, <2>2, <1>n DEF Unsubmitted, Others
    <2>4. MaterializedOnce'
        BY <2>1, <2>2, <1>n DEF MaterializedOnce, Others
    <2>5. RunAgrees'
        BY <2>1, <2>2, <1>n DEF RunAgrees, TerminalSuccess, Outcomes, Others
    <2>6. StagedHasEvent'
        BY <2>1, <2>2, <1>n DEF StagedHasEvent, Others
    <2>7. RunningIsHeld'
        BY <2>1, <2>2, <1>n DEF RunningIsHeld, Others
    <2>8. OutboxBudget'
        BY <2>1, <2>2, <1>n DEF OutboxBudget, Others
    <2>9. QED  BY <2>3, <2>4, <2>5, <2>6, <2>7, <2>8
<1>8. ASSUME NEW j \in Jobs, PublishCommit(j) PROVE Rest'
    <2>1. /\ Open(j)
          /\ job'[j].status = "published"
          /\ job'[j].attempts = job[j].attempts
          /\ run'[j] = run[j]
          /\ pending'[j] = pending[j] - 1
          /\ outputs'[j] = outputs[j]
          /\ j \in cancelReads' => j \in cancelReads
        BY <1>8 DEF PublishCommit, TypeOK, JobRows, RunRows
    <2>2. Others(j)
        BY <1>8 DEF PublishCommit, TypeOK
    <2>3. Unsubmitted'
        BY <2>1, <2>2, <1>n DEF Unsubmitted, Open, TerminalJobStatuses, Others
    <2>4. MaterializedOnce'
        BY <2>1, <2>2, <1>n DEF MaterializedOnce, Open, TerminalJobStatuses, Others
    <2>5. RunAgrees'
        BY <2>1, <2>2, <1>n DEF RunAgrees, TerminalSuccess, Outcomes, Open, TerminalJobStatuses, Others
    <2>6. StagedHasEvent'
        BY <2>1, <2>2, <1>n DEF StagedHasEvent, Open, TerminalJobStatuses, Others
    <2>7. RunningIsHeld'
        BY <2>1, <2>2, <1>n DEF RunningIsHeld, Others
    <2>8. OutboxBudget'
        BY <2>1, <2>2, <1>n DEF OutboxBudget, Open, TerminalJobStatuses, Others
    <2>9. QED  BY <2>3, <2>4, <2>5, <2>6, <2>7, <2>8
<1>9. ASSUME NEW j \in Jobs, DiscardEvent(j) PROVE Rest'
    <2>1. /\ job[j].status \in TerminalJobStatuses
          /\ job'[j] = job[j]
          /\ run'[j] = run[j]
          /\ pending'[j] = pending[j] - 1
          /\ outputs'[j] = outputs[j]
          /\ j \in cancelReads' => j \in cancelReads
        BY <1>9 DEF DiscardEvent, TypeOK, JobRows, RunRows
    <2>2. Others(j)
        BY <1>9 DEF DiscardEvent, TypeOK
    <2>3. Unsubmitted'
        BY <2>1, <2>2, <1>n DEF Unsubmitted, TerminalJobStatuses, Others
    <2>4. MaterializedOnce'
        BY <2>1, <2>2, <1>n DEF MaterializedOnce, TerminalJobStatuses, Others
    <2>5. RunAgrees'
        BY <2>1, <2>2, <1>n DEF RunAgrees, TerminalSuccess, Outcomes, TerminalJobStatuses, Others
    <2>6. StagedHasEvent'
        BY <2>1, <2>2, <1>n DEF StagedHasEvent, TerminalJobStatuses, Others
    <2>7. RunningIsHeld'
        BY <2>1, <2>2, <1>n DEF RunningIsHeld, TerminalJobStatuses, Others
    <2>8. OutboxBudget'
        BY <2>1, <2>2, <1>n DEF OutboxBudget, TerminalJobStatuses, Others
    <2>9. QED  BY <2>3, <2>4, <2>5, <2>6, <2>7, <2>8
<1>10. ASSUME NEW j \in Jobs, RecoverExhausted(j) PROVE Rest'
    <2>1. /\ job[j].status = "running"
          /\ job'[j].status = "dead_lettered"
          /\ job'[j].attempts = job[j].attempts
          /\ run'[j].status = "dead_lettered"
          /\ pending'[j] = pending[j]
          /\ outputs'[j] = outputs[j]
          /\ j \in cancelReads' => j \in cancelReads
        BY <1>10 DEF RecoverExhausted, Expired, TypeOK, JobRows, RunRows
    <2>2. Others(j)
        BY <1>10 DEF RecoverExhausted, Expired, TypeOK
    <2>3. Unsubmitted'
        BY <2>1, <2>2, <1>n DEF Unsubmitted, Others
    <2>4. MaterializedOnce'
        BY <2>1, <2>2, <1>n DEF MaterializedOnce, Others
    <2>5. RunAgrees'
        BY <2>1, <2>2, <1>n DEF RunAgrees, TerminalSuccess, Outcomes, Others
    <2>6. StagedHasEvent'
        BY <2>1, <2>2, <1>n DEF StagedHasEvent, Others
    <2>7. RunningIsHeld'
        BY <2>1, <2>2, <1>n DEF RunningIsHeld, Others
    <2>8. OutboxBudget'
        BY <2>1, <2>2, <1>n DEF OutboxBudget, Others
    <2>9. QED  BY <2>3, <2>4, <2>5, <2>6, <2>7, <2>8
<1>11. ASSUME NEW j \in Jobs, RecoverLost(j) PROVE Rest'
    <2>1. /\ job[j].status = "running" /\ job[j].attempts < MaxAttempts
          /\ job'[j].status = "lost"
          /\ job'[j].attempts = job[j].attempts
          /\ run'[j].status = "lost"
          /\ pending'[j] = pending[j] + 1
          /\ outputs'[j] = outputs[j]
          /\ j \in cancelReads' => j \in cancelReads
        BY <1>11 DEF RecoverLost, Expired, TypeOK, JobRows, RunRows
    <2>2. Others(j)
        BY <1>11 DEF RecoverLost, Expired, TypeOK
    <2>3. Unsubmitted'
        BY <2>1, <2>2, <1>n DEF Unsubmitted, Others
    <2>4. MaterializedOnce'
        BY <2>1, <2>2, <1>n DEF MaterializedOnce, Others
    <2>5. RunAgrees'
        BY <2>1, <2>2, <1>n DEF RunAgrees, TerminalSuccess, Outcomes, Others
    <2>6. StagedHasEvent'
        BY <2>1, <2>2, <1>n DEF StagedHasEvent, Others
    <2>7. RunningIsHeld'
        BY <2>1, <2>2, <1>n DEF RunningIsHeld, Others
    <2>8. OutboxBudget'
        BY <2>1, <2>2, <1>n DEF OutboxBudget, Others
    <2>9. QED  BY <2>3, <2>4, <2>5, <2>6, <2>7, <2>8
<1>12. ASSUME NEW j \in Jobs, Cancel(j) PROVE Rest'
    <2>1. /\ job[j].status # "running"
          /\ job'[j].status = "cancelled"
          /\ job'[j].attempts = job[j].attempts
          /\ run'[j].status = "cancelled"
          /\ pending'[j] = 0
          /\ outputs'[j] = outputs[j]
          /\ j \in cancelReads' => j \in cancelReads
        BY <1>12 DEF Cancel, TypeOK, JobRows, RunRows
    <2>2. Others(j)
        BY <1>12 DEF Cancel, TypeOK
    <2>3. Unsubmitted'
        BY <2>1, <2>2, <1>n DEF Unsubmitted, Others
    <2>4. MaterializedOnce'
        BY <2>1, <2>2, <1>n DEF MaterializedOnce, Others
    <2>5. RunAgrees'
        BY <2>1, <2>2, <1>n DEF RunAgrees, TerminalSuccess, Outcomes, Others
    <2>6. StagedHasEvent'
        BY <2>1, <2>2, <1>n DEF StagedHasEvent, Others
    <2>7. RunningIsHeld'
        BY <2>1, <2>2, <1>n DEF RunningIsHeld, Others
    <2>8. OutboxBudget'
        BY <2>1, <2>2, <1>n DEF OutboxBudget, Others
    <2>9. QED  BY <2>3, <2>4, <2>5, <2>6, <2>7, <2>8
<1>13. ASSUME NEW j \in Jobs, Requeue(j) PROVE Rest'
    <2>1. /\ job[j].status = "published"
          /\ job'[j].status = "queued"
          /\ job'[j].attempts = job[j].attempts
          /\ run'[j] = run[j]
          /\ pending'[j] = pending[j] + 1
          /\ outputs'[j] = outputs[j]
          /\ j \in cancelReads' => j \in cancelReads
        BY <1>13 DEF Requeue, Requeueable, TypeOK, JobRows, RunRows
    <2>2. Others(j)
        BY <1>13 DEF Requeue, Requeueable, TypeOK
    <2>3. Unsubmitted'
        BY <2>1, <2>2, <1>n DEF Unsubmitted, Others
    <2>4. MaterializedOnce'
        BY <2>1, <2>2, <1>n DEF MaterializedOnce, Others
    <2>5. RunAgrees'
        BY <2>1, <2>2, <1>n DEF RunAgrees, TerminalSuccess, Outcomes, Others
    <2>6. StagedHasEvent'
        BY <2>1, <2>2, <1>n DEF StagedHasEvent, Others
    <2>7. RunningIsHeld'
        BY <2>1, <2>2, <1>n DEF RunningIsHeld, Others
    <2>8. OutboxBudget'
        BY <2>1, <2>2, <1>n DEF OutboxBudget, Others
    <2>9. QED  BY <2>3, <2>4, <2>5, <2>6, <2>7, <2>8
<1>14. ASSUME NEW j \in Jobs, LeaseTick(j) PROVE Rest'
    <2>1. /\ job'[j].status = job[j].status
          /\ job'[j].attempts = job[j].attempts
          /\ job'[j].worker = job[j].worker
          /\ job'[j].lease # "none"
          /\ run'[j] = run[j]
          /\ pending'[j] = pending[j]
          /\ outputs'[j] = outputs[j]
          /\ j \in cancelReads' => j \in cancelReads
        BY <1>14 DEF LeaseTick, TypeOK, JobRows, RunRows
    <2>2. Others(j)
        BY <1>14 DEF LeaseTick, TypeOK
    <2>3. Unsubmitted'
        BY <2>1, <2>2, <1>n DEF Unsubmitted, Others
    <2>4. MaterializedOnce'
        BY <2>1, <2>2, <1>n DEF MaterializedOnce, Others
    <2>5. RunAgrees'
        BY <2>1, <2>2, <1>n DEF RunAgrees, TerminalSuccess, Outcomes, Others
    <2>6. StagedHasEvent'
        BY <2>1, <2>2, <1>n DEF StagedHasEvent, Others
    <2>7. RunningIsHeld'
        BY <2>1, <2>2, <1>n DEF RunningIsHeld, Others
    <2>8. OutboxBudget'
        BY <2>1, <2>2, <1>n DEF OutboxBudget, Others
    <2>9. QED  BY <2>3, <2>4, <2>5, <2>6, <2>7, <2>8
<1>15. CASE UNCHANGED <<job, run, pending, outputs, cancelReads>>
    BY <1>15 DEF Unsubmitted, MaterializedOnce, RunAgrees, StagedHasEvent,
               RunningIsHeld, OutboxBudget
<1>16. ASSUME NEW j \in Jobs, ReadForCancel(j) \/ RefuseCancel(j) PROVE Rest'
    <2>1. /\ UNCHANGED <<job, run, pending, outputs>>
          /\ cancelReads' \subseteq cancelReads \cup {j}
          /\ j \in cancelReads' => run[j].status = "queued" \/ j \in cancelReads
        BY <1>16 DEF ReadForCancel, RefuseCancel
    <2>2. Unsubmitted'
        BY <2>1 DEF Unsubmitted
    <2>3. QED
        BY <2>1, <2>2 DEF MaterializedOnce, RunAgrees, StagedHasEvent,
                          RunningIsHeld, OutboxBudget
<1>17. UNCHANGED storeVars => UNCHANGED <<job, run, pending, outputs, cancelReads>>
    BY DEF storeVars
<1>18. Rest'
    BY <1>1, <1>2, <1>3, <1>4, <1>5, <1>6, <1>7, <1>8, <1>9, <1>10, <1>11, <1>12, <1>13, <1>14, <1>15, <1>16, <1>17 DEF StoreNext, Transaction, WorkerTransaction
<1>19. QED
    BY <1>18

\* The initial state.
LEMMA StoreInitInv == StoreInit => StoreInv
<1> SUFFICES ASSUME StoreInit PROVE StoreInv
    OBVIOUS
<1>1. TypeOK
    BY DEF StoreInit, TypeOK, JobRows, RunRows, JobStatus, RunStatus, Leases, AttemptCap
<1>2. /\ Unsubmitted /\ MaterializedOnce /\ RunAgrees /\ StagedHasEvent
      /\ RunningIsHeld /\ OutboxBudget
    BY DEF StoreInit, Unsubmitted, MaterializedOnce, RunAgrees, TerminalSuccess, StagedHasEvent,
           RunningIsHeld, OutboxBudget
<1>3. QED  BY <1>1, <1>2 DEF StoreInv

LEMMA StoreStepInv == StoreInv /\ [StoreNext]_storeVars => StoreInv'
    BY TypeStep, RestStep DEF StoreInv

\* The inductive invariant holds of every behaviour of the store.
THEOREM StoreInvariant == StoreSpec => []StoreInv
<1>1. QED  BY StoreInitInv, StoreStepInv, PTL DEF StoreSpec

\* The rows of the three tables have their types and both counters stay
\* within their caps, whoever calls the store's transactions.
THEOREM TypeCorrect == StoreSpec => []TypeOK
<1>1. StoreInv => TypeOK
    BY DEF StoreInv
<1>2. QED  BY <1>1, StoreInvariant, PTL

\* Business output is committed at most once per job and exactly once for a
\* succeeded one, for any number of workers, lapsed leases and deliveries.
THEOREM OutputOnce == StoreSpec => []MaterializedOnce
<1>1. StoreInv => MaterializedOnce
    BY DEF StoreInv
<1>2. QED  BY <1>1, StoreInvariant, PTL

\* A run shown as completed or waiting for review belongs to a succeeded job.
THEOREM RunsAgree == StoreSpec => []RunAgrees
<1>1. StoreInv => RunAgrees
    BY DEF StoreInv
<1>2. QED  BY <1>1, StoreInvariant, PTL

\* A job that waits for the broker has an outbox event that will send it.
THEOREM StagedJobsAreSent == StoreSpec => []StagedHasEvent
<1>1. StoreInv => StagedHasEvent
    BY DEF StoreInv
<1>2. QED  BY <1>1, StoreInvariant, PTL

\* A job never has more than max_attempts events waiting for the broker.
THEOREM OutboxIsBounded == StoreSpec => []OutboxBounded
<1>1. StoreInv => OutboxBounded
    BY DEF StoreInv, OutboxBudget, OutboxBounded
<1>2. QED  BY <1>1, StoreInvariant, PTL

\* A closed job is left closed by every transaction.
LEMMA ClosedStep ==
    ASSUME StoreInv, [StoreNext]_storeVars, NEW j \in Jobs,
           job[j].status \in TerminalJobStatuses
    PROVE  job'[j].status \in {job[j].status, "cancelled"}
<1> USE DEF StoreInv, TypeOK, JobRows, TerminalJobStatuses
<1>1. CASE UNCHANGED storeVars
    BY <1>1 DEF storeVars
<1>2. ASSUME NEW k \in Jobs, Submit(k)
      PROVE  job'[j].status \in {job[j].status, "cancelled"}
    BY <1>2 DEF Submit
<1>3. ASSUME NEW k \in Jobs, WorkerTransaction(k)
      PROVE  job'[j].status \in {job[j].status, "cancelled"}
    <2>1. Open(k) /\ job' = [job EXCEPT ![k] = job'[k]]
        BY <1>3 DEF WorkerTransaction, Claim, Claimable, Open, Heartbeat,
                    MarkRetrying, MarkDeadLettered, Complete, Fence, Owns
    <2>2. QED  BY <2>1 DEF Open
<1>4. ASSUME NEW k \in Jobs,
             MarkRunFailed(k) \/ DiscardEvent(k) \/ ReadForCancel(k) \/ RefuseCancel(k)
      PROVE  job'[j].status \in {job[j].status, "cancelled"}
    BY <1>4 DEF MarkRunFailed, DiscardEvent, ReadForCancel, RefuseCancel
<1>5. ASSUME NEW k \in Jobs, PublishCommit(k)
      PROVE  job'[j].status \in {job[j].status, "cancelled"}
    BY <1>5 DEF PublishCommit, Open
<1>6. ASSUME NEW k \in Jobs, RecoverExhausted(k) \/ RecoverLost(k)
      PROVE  job'[j].status \in {job[j].status, "cancelled"}
    BY <1>6 DEF RecoverExhausted, RecoverLost, Expired
<1>7. ASSUME NEW k \in Jobs, Cancel(k)
      PROVE  job'[j].status \in {job[j].status, "cancelled"}
    BY <1>7 DEF Cancel
<1>8. ASSUME NEW k \in Jobs, Requeue(k)
      PROVE  job'[j].status \in {job[j].status, "cancelled"}
    BY <1>8 DEF Requeue, Requeueable
<1>9. ASSUME NEW k \in Jobs, LeaseTick(k)
      PROVE  job'[j].status \in {job[j].status, "cancelled"}
    BY <1>9 DEF LeaseTick
<1>10. QED
    BY <1>1, <1>2, <1>3, <1>4, <1>5, <1>6, <1>7, <1>8, <1>9 DEF StoreNext, Transaction

\* A closed job stays closed, and only a cancel request changes how.
THEOREM ClosedStaysClosed == StoreSpec => TerminalStaysTerminal
<1>1. StoreInv /\ [StoreNext]_storeVars =>
        [\A j \in Jobs : job[j].status \in TerminalJobStatuses =>
            job'[j].status \in {job[j].status, "cancelled"}]_storeVars
    BY ClosedStep
<1>2. QED
    BY <1>1, StoreInvariant, PTL DEF StoreSpec, TerminalStaysTerminal

\* The store implements the lifecycle: every transaction is a step of
\* JobLifecycle or leaves its picture of the job unchanged.
THEOREM ImplementsLifecycle == StoreSpec => LifecycleSpec
<1>1. StoreInit => Lifecycle!Init
    BY DEF StoreInit, Lifecycle!Init, PhaseOf, TerminalJobStatuses, OpenPhase
<1>2. ASSUME StoreInv, [StoreNext]_storeVars
      PROVE  [Lifecycle!Next]_(Lifecycle!lifecycleVars)
    <2> DEFINE Others(j) == \A k \in Jobs \ {j} :
                   job'[k] = job[k] /\ outputs'[k] = outputs[k]
    <2>a. ASSUME NEW j \in Jobs, Others(j), NEW to, PhaseOf(j)' = to
          PROVE  [k \in Jobs |-> PhaseOf(k)]' = [[k \in Jobs |-> PhaseOf(k)] EXCEPT ![j] = to]
        <3>1. \A k \in Jobs \ {j} : PhaseOf(k)' = PhaseOf(k)
            BY <2>a DEF PhaseOf, OpenPhase
        <3>2. QED  BY <2>a, <3>1
    <2>b. ASSUME NEW j \in Jobs, Others(j), PhaseOf(j)' = PhaseOf(j), outputs' = outputs
          PROVE  UNCHANGED Lifecycle!lifecycleVars
        BY <2>b, <2>a DEF Lifecycle!lifecycleVars
    <2>c. \A j \in Jobs : /\ outputs[j] \in Nat
                          /\ job[j].status \notin {"succeeded", "cancelled"} => outputs[j] = 0
        BY <1>2 DEF StoreInv, TypeOK, MaterializedOnce
    <2> USE <1>2 DEF Lifecycle!Next, Lifecycle!Move, TerminalJobStatuses
    <2>1. CASE UNCHANGED storeVars
        BY <2>1 DEF storeVars, PhaseOf, OpenPhase, Lifecycle!lifecycleVars
    <2>2. ASSUME NEW j \in Jobs, Submit(j)
          PROVE  [Lifecycle!Next]_(Lifecycle!lifecycleVars)
        <3>1. PhaseOf(j) = "absent" /\ Others(j) /\ outputs' = outputs
            BY <2>2, <2>c DEF Submit, StoreInv, TypeOK, JobRows, PhaseOf, OpenPhase
        <3>2. PhaseOf(j)' = "waiting"
            BY <2>2, <2>c DEF Submit, StoreInv, TypeOK, JobRows, PhaseOf, OpenPhase
        <3>3. QED  BY <3>1, <3>2, <2>a DEF Lifecycle!Submit
    <2>3. ASSUME NEW j \in Jobs, NEW w \in WorkerIds, Claim(j, w)
          PROVE  [Lifecycle!Next]_(Lifecycle!lifecycleVars)
        <3>1. PhaseOf(j) \in {"waiting", "working"} /\ Others(j) /\ outputs' = outputs
            BY <2>3, <2>c DEF Claim, Claimable, Open, StoreInv, TypeOK, JobRows, PhaseOf, OpenPhase
        <3>2. PhaseOf(j)' = "working"
            BY <2>3, <2>c DEF Claim, Claimable, Open, StoreInv, TypeOK, JobRows, PhaseOf, OpenPhase, RunAgrees, TerminalSuccess
        <3>3. CASE PhaseOf(j) = "working"
            BY <3>1, <3>2, <3>3, <2>b
        <3>4. CASE PhaseOf(j) # "working"
            BY <3>1, <3>2, <3>4, <2>a DEF Lifecycle!Start
        <3>5. QED  BY <3>3, <3>4
    <2>4. ASSUME NEW j \in Jobs, NEW w \in WorkerIds, Heartbeat(j, w)
          PROVE  [Lifecycle!Next]_(Lifecycle!lifecycleVars)
        <3>1. Others(j) /\ PhaseOf(j)' = PhaseOf(j) /\ outputs' = outputs
            BY <2>4 DEF Heartbeat, StoreInv, TypeOK, JobRows, PhaseOf, OpenPhase
        <3>2. QED  BY <3>1, <2>b
    <2>5. ASSUME NEW j \in Jobs, NEW w \in WorkerIds, MarkRetrying(j, w)
          PROVE  [Lifecycle!Next]_(Lifecycle!lifecycleVars)
        <3>1. PhaseOf(j) = "working" /\ Others(j) /\ outputs' = outputs
            BY <2>5, <2>c DEF MarkRetrying, Owns, StoreInv, TypeOK, JobRows, PhaseOf, OpenPhase
        <3>2. PhaseOf(j)' = "waiting"
            BY <2>5, <2>c DEF MarkRetrying, Owns, StoreInv, TypeOK, JobRows, PhaseOf, OpenPhase
        <3>3. QED  BY <3>1, <3>2, <2>a DEF Lifecycle!PutBack
    <2>6. ASSUME NEW j \in Jobs, NEW w \in WorkerIds, MarkDeadLettered(j, w)
          PROVE  [Lifecycle!Next]_(Lifecycle!lifecycleVars)
        <3>1. PhaseOf(j) = "working" /\ Others(j) /\ outputs' = outputs
            BY <2>6, <2>c DEF MarkDeadLettered, Owns, StoreInv, TypeOK, JobRows, PhaseOf, OpenPhase
        <3>2. PhaseOf(j)' = "abandoned"
            BY <2>6, <2>c DEF MarkDeadLettered, Owns, StoreInv, TypeOK, JobRows, PhaseOf, OpenPhase
        <3>3. QED  BY <3>1, <3>2, <2>a DEF Lifecycle!Abandon
    <2>7. ASSUME NEW j \in Jobs, NEW w \in WorkerIds, NEW outcome \in Outcomes,
                 Complete(j, w, outcome)
          PROVE  [Lifecycle!Next]_(Lifecycle!lifecycleVars)
        <3>1. PhaseOf(j) = "working" /\ Others(j) /\ outputs' = [outputs EXCEPT ![j] = @ + 1]
            BY <2>7, <2>c DEF Complete, Fence, Owns, StoreInv, TypeOK, JobRows, PhaseOf, OpenPhase
        <3>2. PhaseOf(j)' = "materialized"
            BY <2>7, <2>c DEF Complete, Fence, Owns, StoreInv, TypeOK, JobRows, PhaseOf, OpenPhase
        <3>3. QED  BY <3>1, <3>2, <2>a DEF Lifecycle!Materialize
    <2>8. ASSUME NEW j \in Jobs,
                 \/ MarkRunFailed(j) \/ DiscardEvent(j)
                 \/ ReadForCancel(j) \/ RefuseCancel(j)
          PROVE  [Lifecycle!Next]_(Lifecycle!lifecycleVars)
        <3>1. Others(j) /\ PhaseOf(j)' = PhaseOf(j) /\ outputs' = outputs
            BY <2>8 DEF MarkRunFailed, DiscardEvent, ReadForCancel, RefuseCancel, StoreInv, TypeOK, JobRows, PhaseOf, OpenPhase
        <3>2. QED  BY <3>1, <2>b
    <2>9. ASSUME NEW j \in Jobs, PublishCommit(j)
          PROVE  [Lifecycle!Next]_(Lifecycle!lifecycleVars)
        <3>1. PhaseOf(j) \in {"waiting", "working"} /\ Others(j) /\ outputs' = outputs
            BY <2>9, <2>c DEF PublishCommit, Open, StoreInv, TypeOK, JobRows, PhaseOf, OpenPhase
        <3>2. PhaseOf(j)' = "waiting"
            BY <2>9, <2>c DEF PublishCommit, Open, StoreInv, TypeOK, JobRows, PhaseOf, OpenPhase
        <3>3. CASE PhaseOf(j) = "waiting"
            BY <3>1, <3>2, <3>3, <2>b
        <3>4. CASE PhaseOf(j) # "waiting"
            BY <3>1, <3>2, <3>4, <2>a DEF Lifecycle!PutBack
        <3>5. QED  BY <3>3, <3>4
    <2>10. ASSUME NEW j \in Jobs, RecoverExhausted(j)
          PROVE  [Lifecycle!Next]_(Lifecycle!lifecycleVars)
        <3>1. PhaseOf(j) = "working" /\ Others(j) /\ outputs' = outputs
            BY <2>10, <2>c DEF RecoverExhausted, Expired, StoreInv, TypeOK, JobRows, PhaseOf, OpenPhase
        <3>2. PhaseOf(j)' = "abandoned"
            BY <2>10, <2>c DEF RecoverExhausted, Expired, StoreInv, TypeOK, JobRows, PhaseOf, OpenPhase
        <3>3. QED  BY <3>1, <3>2, <2>a DEF Lifecycle!Abandon
    <2>11. ASSUME NEW j \in Jobs, RecoverLost(j)
          PROVE  [Lifecycle!Next]_(Lifecycle!lifecycleVars)
        <3>1. PhaseOf(j) = "working" /\ Others(j) /\ outputs' = outputs
            BY <2>11, <2>c DEF RecoverLost, Expired, StoreInv, TypeOK, JobRows, PhaseOf, OpenPhase
        <3>2. PhaseOf(j)' = "waiting"
            BY <2>11, <2>c DEF RecoverLost, Expired, StoreInv, TypeOK, JobRows, PhaseOf, OpenPhase
        <3>3. QED  BY <3>1, <3>2, <2>a DEF Lifecycle!PutBack
    <2>12. ASSUME NEW j \in Jobs, Cancel(j)
          PROVE  [Lifecycle!Next]_(Lifecycle!lifecycleVars)
        <3>1. Others(j) /\ outputs' = outputs /\ job[j].status # "absent"
            BY <2>12 DEF Cancel, StoreInv, TypeOK, Unsubmitted
        <3>2. CASE PhaseOf(j) = "waiting"
            <4>1. PhaseOf(j)' = "abandoned"
                BY <2>12, <3>1, <3>2, <2>c DEF Cancel, StoreInv, TypeOK, JobRows, PhaseOf, OpenPhase
            <4>2. QED  BY <3>1, <3>2, <4>1, <2>a DEF Lifecycle!Abandon
        <3>3. CASE PhaseOf(j) # "waiting"
            <4>1. PhaseOf(j)' = PhaseOf(j)
                BY <2>12, <3>1, <3>3 DEF Cancel, StoreInv, TypeOK, JobRows, PhaseOf, OpenPhase
            <4>2. QED  BY <3>1, <4>1, <2>b
        <3>4. QED  BY <3>2, <3>3
    <2>13. ASSUME NEW j \in Jobs, Requeue(j)
          PROVE  [Lifecycle!Next]_(Lifecycle!lifecycleVars)
        <3>1. Others(j) /\ PhaseOf(j)' = PhaseOf(j) /\ outputs' = outputs
            BY <2>13 DEF Requeue, Requeueable, StoreInv, TypeOK, JobRows, PhaseOf, OpenPhase
        <3>2. QED  BY <3>1, <2>b
    <2>14. ASSUME NEW j \in Jobs, LeaseTick(j)
          PROVE  [Lifecycle!Next]_(Lifecycle!lifecycleVars)
        <3>1. Others(j) /\ PhaseOf(j)' = PhaseOf(j) /\ outputs' = outputs
            BY <2>14 DEF LeaseTick, StoreInv, TypeOK, JobRows, PhaseOf, OpenPhase
        <3>2. QED  BY <3>1, <2>b
    <2>15. QED
        BY <2>1, <2>2, <2>3, <2>4, <2>5, <2>6, <2>7, <2>8, <2>9, <2>10, <2>11, <2>12, <2>13, <2>14
        DEF StoreNext, Transaction, WorkerTransaction
<1>3. QED
    BY <1>1, <1>2, StoreInvariant, PTL DEF StoreSpec, LifecycleSpec, Lifecycle!Spec
=============================================================================
