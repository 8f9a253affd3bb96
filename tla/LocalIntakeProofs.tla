------------------------- MODULE LocalIntakeProofs -------------------------
(***************************************************************************)
(* Theorems about document intake and the in-process deployment, for every *)
(* number of requests, faults and cancel requests and every set of files.  *)
(***************************************************************************)
EXTENDS LocalIntake, WorkflowJobsProofs

\* A restart also forgets the cancel requests under way.
StoreForgets ==
    /\ UNCHANGED <<job, run, pending, outputs>>
    /\ cancelReads' \subseteq cancelReads

WorkerHasJob == ~ At("idle") => worker.job \in Jobs

\* The process knows only submitted jobs, nobody retries, and what is to be
\* cancelled or finished in memory is closed in the database.
MemoryFollows == \A j \in Jobs :
    /\ job[j].status # "retrying"
    /\ j \in Range(queue) \/ worker.job = j \/ ref[j] # "none" => job[j].status # "absent"
    /\ j \in toCancel => job[j].status = "cancelled"
    /\ At("finishing") /\ worker.job = j => job[j].status \in TerminalJobStatuses

\* Of the open jobs only a published one depends on the memory of the process.
PublishedHeld == \A j \in Jobs :
    job[j].status = "published" => pending[j] > 0 \/ InMemory(j) \/ j \in dropped

\* A request that is not answered yet has left nothing in the tables.
RequestsFit == \A q \in Requests :
    /\ ~ Exists(q) => document[q] = NoRow
    /\ request[q].phase # "closed" => document[q] = NoRow /\ job[q].status = "absent"
    /\ request[q].phase = "stored" => q \in originals /\ request[q].file \in Files
    /\ request[q].phase = "read" =>
         /\ request[q].target \in Requests
         /\ Exists(request[q].target) /\ document[request[q].target].runs # <<>>

\* Why a document gets one invoice: until a reprocess request overlaps with a
\* run, one run of the document is open at most, and none after its invoice.
InvoiceAccount == \A d \in Requests \ overlapped :
    /\ document[d].invoices <= 1
    /\ \A i, j \in Range(document[d].runs) : Open(i) /\ Open(j) => i = j
    /\ document[d].invoices > 0 =>
         /\ document[d].status = "review_required"
         /\ \A j \in Range(document[d].runs) : ~ Open(j)

MemoryInv == WorkerHasJob /\ MemoryFollows /\ PublishedHeld /\ RefsFollow

IntakeInv == RequestsFit /\ IntakeComplete /\ InvoiceAccount

LocalInv == StoreInv /\ LocalTypeOK /\ MemoryInv /\ IntakeInv

-----------------------------------------------------------------------------
(* Sequences.                                                              *)

LEMMA RangeOfAppend ==
    ASSUME NEW S, NEW s \in Seq(S), NEW e \in S
    PROVE  Append(s, e) \in Seq(S) /\ Append(s, e) # <<>> /\ Range(Append(s, e)) = Range(s) \cup {e}
<1>1. /\ Append(s, e) \in Seq(S) /\ Len(Append(s, e)) = Len(s) + 1
      /\ DOMAIN s = 1..Len(s) /\ DOMAIN Append(s, e) = 1..(Len(s) + 1)
      /\ Append(s, e)[Len(s) + 1] = e
      /\ \A i \in 1..Len(s) : Append(s, e)[i] = s[i]
    OBVIOUS
<1>2. Len(s) \in Nat
    OBVIOUS
<1>3. Range(Append(s, e)) \subseteq Range(s) \cup {e}
    BY <1>1, <1>2 DEF Range
<1>4. e \in Range(Append(s, e))
    BY <1>1, <1>2 DEF Range
<1>5. Range(s) \subseteq Range(Append(s, e))
    BY <1>1, <1>2 DEF Range
<1>6. QED  BY <1>1, <1>3, <1>4, <1>5

LEMMA RangeOfTail ==
    ASSUME NEW S, NEW s \in Seq(S), s # <<>>
    PROVE  /\ Tail(s) \in Seq(S) /\ Head(s) \in S
           /\ Range(s) = {Head(s)} \cup Range(Tail(s))
<1>1. /\ Tail(s) \in Seq(S) /\ Len(s) \in Nat /\ Len(s) > 0
      /\ DOMAIN s = 1..Len(s) /\ DOMAIN Tail(s) = 1..(Len(s) - 1)
      /\ \A i \in 1..(Len(s) - 1) : Tail(s)[i] = s[i + 1]
      /\ Head(s) = s[1] /\ s[1] \in S
    OBVIOUS
<1>2. ASSUME NEW x \in Range(s) PROVE x = Head(s) \/ x \in Range(Tail(s))
    <2>1. PICK i \in 1..Len(s) : x = s[i]
        BY <1>1 DEF Range
    <2>2. CASE i = 1
        BY <2>1, <2>2, <1>1
    <2>3. CASE i # 1
        <3>1. i - 1 \in 1..(Len(s) - 1) /\ (i - 1) + 1 = i
            BY <2>3, <1>1
        <3>2. Tail(s)[i - 1] = x
            BY <3>1, <2>1, <1>1
        <3>3. QED  BY <3>1, <3>2, <1>1 DEF Range
    <2>4. QED  BY <2>2, <2>3
<1>3. Head(s) \in Range(s)
    BY <1>1 DEF Range
<1>4. ASSUME NEW x \in Range(Tail(s)) PROVE x \in Range(s)
    <2>1. PICK i \in 1..(Len(s) - 1) : x = Tail(s)[i]
        BY <1>1 DEF Range
    <2>2. i + 1 \in 1..Len(s) /\ s[i + 1] = x
        BY <2>1, <1>1
    <2>3. QED  BY <2>2, <1>1 DEF Range
<1>5. QED  BY <1>1, <1>2, <1>3, <1>4

LEMMA RangeInSet ==
    ASSUME NEW S, NEW s \in Seq(S)
    PROVE  Range(s) \subseteq S /\ (s = <<>> => Range(s) = {}) /\ (s # <<>> => Last(s) \in Range(s))
<1>1. DOMAIN s = 1..Len(s) /\ \A i \in 1..Len(s) : s[i] \in S
    OBVIOUS
<1>2. s # <<>> => Len(s) \in 1..Len(s)
    OBVIOUS
<1>3. QED  BY <1>1, <1>2 DEF Range, Last

-----------------------------------------------------------------------------
(* What the steps do to the tables of the job store.                       *)

\* Jobs are neither submitted nor reopened, and nobody retries.
Steady == \A k \in Jobs :
    /\ job[k].status = "absent" <=> job'[k].status = "absent"
    /\ job[k].status \in TerminalJobStatuses => job'[k].status \in TerminalJobStatuses
    /\ job[k].status = "cancelled" => job'[k].status = "cancelled"
    /\ job'[k].status = "retrying" => job[k].status = "retrying"

NonePublished == \A k \in Jobs : job'[k].status = "published" =>
    job[k].status = "published" /\ pending'[k] = pending[k]

LEMMA SteadyStep ==
    ASSUME StoreInv, NEW k \in Jobs, NEW w \in WorkerIds,
           \/ Claim(k, w) \/ Heartbeat(k, w) \/ MarkDeadLettered(k, w)
           \/ \E outcome \in Outcomes : Complete(k, w, outcome)
           \/ DiscardEvent(k) \/ RecoverExhausted(k) \/ RecoverLost(k)
           \/ ReadForCancel(k) \/ Cancel(k) \/ RefuseCancel(k) \/ Requeue(k)
           \/ LeaseTick(k) \/ MarkRunFailed(k)
    PROVE  Steady /\ NonePublished
<1> USE DEF Steady, NonePublished, StoreInv, TypeOK, JobRows, TerminalJobStatuses
<1>1. CASE Claim(k, w)
    BY <1>1 DEF Claim, Claimable, Open
<1>2. CASE Heartbeat(k, w)
    BY <1>2 DEF Heartbeat, Owns
<1>3. CASE MarkDeadLettered(k, w)
    BY <1>3 DEF MarkDeadLettered, Owns
<1>4. ASSUME NEW outcome \in Outcomes, Complete(k, w, outcome)
      PROVE  Steady /\ NonePublished
    BY <1>4 DEF Complete, Fence, Owns
<1>5. CASE DiscardEvent(k)
    BY <1>5 DEF DiscardEvent
<1>6. CASE RecoverExhausted(k) \/ RecoverLost(k)
    BY <1>6 DEF RecoverExhausted, RecoverLost, Expired
<1>7. CASE ReadForCancel(k) \/ RefuseCancel(k) \/ MarkRunFailed(k)
    BY <1>7 DEF ReadForCancel, RefuseCancel, MarkRunFailed
<1>8. CASE Cancel(k)
    <2>1. job[k].status # "absent"
        BY <1>8 DEF Cancel, Unsubmitted
    <2>2. QED  BY <1>8, <2>1 DEF Cancel
<1>9. CASE Requeue(k)
    BY <1>9 DEF Requeue, Requeueable
<1>10. CASE LeaseTick(k)
    BY <1>10 DEF LeaseTick
<1>11. QED
    BY <1>1, <1>2, <1>3, <1>4, <1>5, <1>6, <1>7, <1>8, <1>9, <1>10

LEMMA PublishStep ==
    ASSUME StoreInv, NEW k \in Jobs, PublishCommit(k)
    PROVE  /\ Steady
           /\ \A j \in Jobs \ {k} : job'[j] = job[j] /\ pending'[j] = pending[j]
           /\ job[k].status # "absent"
    BY DEF Steady, StoreInv, TypeOK, JobRows, TerminalJobStatuses, PublishCommit, Open

LEMMA SubmitStep ==
    ASSUME StoreInv, NEW k \in Jobs, Submit(k)
    PROVE  /\ NonePublished
           /\ \A j \in Jobs \ {k} : job'[j] = job[j]
           /\ job[k].status = "absent" /\ job'[k].status = "queued"
    BY DEF NonePublished, StoreInv, TypeOK, JobRows, Submit

LEMMA SteadyIfUnchanged == UNCHANGED <<job, pending>> => Steady /\ NonePublished
    BY DEF Steady, NonePublished

LEMMA NoneReopened == Steady => \A j \in Jobs : Open(j)' => Open(j)
    BY DEF Steady, Open

LEMMA StoreKept == StoreInv /\ StoreForgets => StoreInv'
    BY DEF StoreInv, StoreForgets, TypeOK, Unsubmitted, MaterializedOnce, RunAgrees,
           StagedHasEvent, RunningIsHeld, OutboxBudget

\* Every step of the process is a transaction of the store, or leaves its tables
\* alone.
LEMMA StepOnStore ==
    ASSUME WorkerHasJob, [Next]_vars
    PROVE  [StoreNext]_storeVars \/ StoreForgets
<1> USE DEF StoreNext, Transaction, WorkerTransaction, intakeVars, processVars, historyVars
<1>1. CASE UNCHANGED vars
    BY <1>1 DEF vars
<1>2. CASE WorkerNext
    <2>1. LocalWorker \in WorkerIds
        BY LocalWorkerOnly
    <2>2. CASE ClaimDelivery
        BY <2>1, <2>2 DEF ClaimDelivery, WorkerHasJob, At
    <2>3. CASE Beat
        BY <2>1, <2>3 DEF Beat, Beating, WorkerHasJob, At
    <2>4. ASSUME NEW result \in [outcome : Outcomes, draft : BOOLEAN], Execute(result)
          PROVE  StoreNext
        BY <2>1, <2>4 DEF Execute, WorkerHasJob, At
    <2>5. CASE FailRun
        BY <2>5 DEF FailRun, WorkerHasJob, At
    <2>6. CASE DeadLetter
        BY <2>1, <2>6 DEF DeadLetter, WorkerHasJob, At
    <2>7. CASE Take \/ SkipDelivery \/ ClaimError \/ BeatStops \/ BeatError \/ Fenced
               \/ ExecutionFails \/ FailRunError \/ DeadLetterError \/ Finish
        BY <2>7 DEF Take, SkipDelivery, ClaimError, BeatStops, BeatError, Fenced,
                    ExecutionFails, FailRunError, DeadLetterError, Finish
    <2>8. QED
        BY <1>2, <2>2, <2>3, <2>4, <2>5, <2>6, <2>7 DEF WorkerNext, Proceed
<1>3. ASSUME NEW q \in Requests, RequestNext(q) PROVE [StoreNext]_storeVars
    <2>1. q \in Jobs
        BY JobsAreNumbered
    <2>2. CASE CommitUpload(q) \/ CommitReprocess(q)
        BY <2>1, <2>2 DEF CommitUpload, CommitReprocess
    <2>3. CASE ~ (CommitUpload(q) \/ CommitReprocess(q))
        BY <1>3, <2>3 DEF RequestNext, RefuseDuplicate, BeginUpload, StorageError, LoseUpload,
                          BeginReprocess
    <2>4. QED  BY <2>2, <2>3
<1>4. ASSUME NEW j \in Jobs, JobNext(j) PROVE [StoreNext]_storeVars
    BY <1>4 DEF JobNext, Dispatch, DispatchUncommitted, Discard, Recover, BeginCancel,
                EndCancel, CancelRef, OperatorRequeue, TimePasses
<1>5. CASE Restart
    BY <1>5 DEF Restart, StoreForgets
<1>6. QED  BY <1>1, <1>2, <1>3, <1>4, <1>5 DEF Next

-----------------------------------------------------------------------------
(* Types.                                                                  *)

LEMMA LocalTypeStep ==
    ASSUME LocalTypeOK, WorkerHasJob, RequestsFit, [Next]_vars
    PROVE  LocalTypeOK'
<1> USE LocalTypeOK DEF intakeVars, processVars, historyVars, boundVars
<1>a. Requests = Jobs
    BY JobsAreNumbered
<1>b. ASSUME NEW kind, Fault(kind) PROVE faults' \in 0..MaxFaults /\ cancels' = cancels
    BY <1>b, LocalBounds DEF Fault, LocalTypeOK
<1>c. ASSUME NEW status \in RefStatuses, Ended(status)
      PROVE  /\ worker' \in WorkerRows /\ ref' \in [Jobs -> RefStatuses]
             /\ UNCHANGED <<queue, toCancel>>
    BY <1>c DEF Ended, LocalTypeOK, WorkerRows, IdleWorker, WorkerPhases
<1>d. ASSUME NEW q \in Requests, Close(q) PROVE request' \in [Requests -> RequestRows]
    <2>1. Closed \in RequestRows
        BY DEF Closed, NewRequest, RequestRows, RequestPhases, DocumentStatuses
    <2>2. QED  BY <1>d, <2>1 DEF Close, LocalTypeOK
<1>e. ASSUME NEW phase \in WorkerPhases, NEW beats \in {"off", "on", "broken"}
      PROVE  /\ [worker EXCEPT !.phase = phase] \in WorkerRows
             /\ [worker EXCEPT !.beats = beats] \in WorkerRows
             /\ [worker EXCEPT !.phase = phase, !.beats = beats] \in WorkerRows
             /\ [worker EXCEPT !.beats = beats, !.phase = phase] \in WorkerRows
    BY DEF LocalTypeOK, WorkerRows
<1>f. ASSUME NEW j \in Jobs, Enqueued(j)
      PROVE  queue' \in Seq(Jobs) /\ ref' \in [Jobs -> RefStatuses] /\ UNCHANGED <<worker, toCancel, historyVars>>
    BY <1>f, RangeOfAppend DEF Enqueued, LocalTypeOK, RefStatuses
<1>1. CASE UNCHANGED vars
    BY <1>1 DEF vars, LocalTypeOK
<1>2. ASSUME NEW q \in Requests, RequestNext(q) PROVE LocalTypeOK'
    <2>1. ASSUME NEW file \in Files,
                 RefuseDuplicate(q, file) \/ StorageError(q, file) \/ BeginUpload(q, file)
          PROVE  LocalTypeOK'
        <3>1. CASE RefuseDuplicate(q, file) \/ StorageError(q, file)
            BY <3>1, <1>b, <1>d DEF RefuseDuplicate, StorageError, LocalTypeOK
        <3>2. CASE BeginUpload(q, file)
            <4>1. [request[q] EXCEPT !.phase = "stored", !.file = file] \in RequestRows
                BY DEF LocalTypeOK, RequestRows, RequestPhases
            <4>2. QED  BY <3>2, <4>1 DEF BeginUpload, LocalTypeOK
        <3>3. QED  BY <2>1, <3>1, <3>2
    <2>2. CASE CommitUpload(q)
        <3> DEFINE row(runs) == [file |-> request[q].file, status |-> "accepted",
                                 runs |-> runs, invoices |-> 0]
        <3>0. request[q].file \in Files \cup {NoFile} /\ <<>> \in Seq(Jobs) /\ <<q>> \in Seq(Jobs)
            BY <1>a DEF LocalTypeOK, RequestRows
        <3>1. row(<<>>) \in DocumentRows /\ row(<<q>>) \in DocumentRows
            BY <3>0 DEF DocumentRows, DocumentStatuses
        <3>2. document' = [document EXCEPT ![q] = row(<<>>)]
              \/ document' = [document EXCEPT ![q] = row(<<q>>)]
            BY <2>2 DEF CommitUpload, NoRow
        <3> HIDE DEF row
        <3>3. document' \in [Requests -> DocumentRows]
            BY <3>1, <3>2 DEF LocalTypeOK
        <3>4. QED  BY <2>2, <3>3, <1>d DEF CommitUpload, LocalTypeOK
    <2>3. CASE LoseUpload(q)
        BY <2>3, <1>d DEF LoseUpload, LocalTypeOK
    <2>4. ASSUME NEW d \in Requests, BeginReprocess(q, d) PROVE LocalTypeOK'
        <3>1. [request[q] EXCEPT !.phase = "read", !.target = d, !.seen = document[d].status]
                \in RequestRows
            BY DEF LocalTypeOK, RequestRows, RequestPhases, DocumentRows
        <3>2. QED  BY <2>4, <3>1 DEF BeginReprocess, LocalTypeOK
    <2>5. CASE CommitReprocess(q)
        <3> DEFINE d == request[q].target
        <3>0. d \in Requests
            BY <2>5 DEF CommitReprocess, RequestsFit
        <3>1. document' \in [Requests -> DocumentRows]
            <4>1. PICK status \in DocumentStatuses :
                    document' = [document EXCEPT ![d].runs = Append(@, q), ![d].status = status]
                BY <2>5, <3>0 DEF CommitReprocess, LocalTypeOK, DocumentRows, DocumentStatuses
            <4>2. Append(document[d].runs, q) \in Seq(Jobs)
                BY <3>0, <1>a, RangeOfAppend DEF LocalTypeOK, DocumentRows
            <4>3. document' = [document EXCEPT ![d] =
                    [@ EXCEPT !.runs = Append(document[d].runs, q), !.status = status]]
                BY <4>1, <3>0 DEF LocalTypeOK
            <4>4. [document[d] EXCEPT !.runs = Append(document[d].runs, q), !.status = status]
                    \in DocumentRows
                BY <4>2, <3>0 DEF LocalTypeOK, DocumentRows
            <4>5. QED  BY <4>3, <4>4 DEF LocalTypeOK
        <3>2. QED  BY <2>5, <3>0, <3>1, <1>d DEF CommitReprocess, LocalTypeOK
    <2>6. QED  BY <1>2, <2>1, <2>2, <2>3, <2>4, <2>5 DEF RequestNext
<1>3. ASSUME NEW j \in Jobs, JobNext(j) PROVE LocalTypeOK'
    <2>1. CASE Dispatch(j) \/ DispatchUncommitted(j)
        BY <2>1, <1>f, <1>b DEF Dispatch, DispatchUncommitted, LocalTypeOK
    <2>2. CASE Discard(j) \/ Recover(j) \/ TimePasses(j) \/ OperatorRequeue(j)
        BY <2>2, <1>b DEF Discard, Recover, TimePasses, OperatorRequeue, LocalTypeOK
    <2>3. CASE BeginCancel(j)
        BY <2>3, LocalBounds DEF BeginCancel, LocalTypeOK
    <2>4. CASE EndCancel(j) \/ CancelRef(j)
        BY <2>4 DEF EndCancel, CancelRef, LocalTypeOK, RefStatuses
    <2>5. QED  BY <1>3, <2>1, <2>2, <2>3, <2>4 DEF JobNext
<1>4. CASE WorkerNext
    <2>1. CASE Take
        <3>1. Tail(queue) \in Seq(Jobs) /\ Head(queue) \in Jobs
            BY <2>1, RangeOfTail DEF Take, LocalTypeOK
        <3>2. [phase |-> "received", job |-> Head(queue), beats |-> "off"] \in WorkerRows
            BY <3>1 DEF WorkerRows, WorkerPhases
        <3>3. worker' \in WorkerRows /\ ref' \in [Jobs -> RefStatuses]
            BY <2>1, <3>2 DEF Take, LocalTypeOK, RefStatuses
        <3>4. QED  BY <2>1, <3>1, <3>3 DEF Take, LocalTypeOK
    <2>2. CASE ClaimDelivery
        BY <2>2, <1>c, <1>e DEF ClaimDelivery, LocalTypeOK, RefStatuses, WorkerPhases
    <2>3. CASE SkipDelivery \/ ClaimError
        <3>1. worker.job \in Jobs
            BY <2>3 DEF SkipDelivery, ClaimError, WorkerHasJob, At
        <3>2. CASE SkipDelivery
            BY <3>1, <3>2, <1>b, <1>c DEF SkipDelivery, LocalTypeOK, RefStatuses
        <3>3. CASE ClaimError
            BY <3>1, <3>3, <1>b, <1>e DEF ClaimError, WorkerTo, LocalTypeOK, WorkerPhases
        <3>4. QED  BY <2>3, <3>2, <3>3
    <2>4. CASE Beat
        BY <2>4 DEF Beat, LocalTypeOK
    <2>5. CASE BeatStops \/ BeatError
        BY <2>5, <1>b, <1>e DEF BeatStops, BeatError, LocalTypeOK, WorkerPhases
    <2>6. ASSUME NEW result \in [outcome : Outcomes, draft : BOOLEAN], Execute(result)
          PROVE  LocalTypeOK'
        <3> DEFINE d == DocumentOf(worker.job)
        <3>1. ASSUME d \in Requests PROVE Materialized(document[d], result) \in DocumentRows
            <4>1. document[d] \in DocumentRows
                BY <3>1 DEF LocalTypeOK
            <4> HIDE DEF d
            <4> DEFINE n == IF result.draft THEN document[d].invoices + 1
                            ELSE document[d].invoices
                       shown == IF result.draft \/ result.outcome \in {"failed", "review_required"}
                                THEN "review_required" ELSE document[d].status
            <4>2. n \in Nat /\ shown \in DocumentStatuses
                BY <4>1 DEF DocumentRows, DocumentStatuses
            <4>3. Materialized(document[d], result)
                    = [document[d] EXCEPT !.invoices = n, !.status = shown]
                BY DEF Materialized
            <4> HIDE DEF n, shown
            <4>4. QED  BY <4>1, <4>2, <4>3 DEF DocumentRows
        <3>2. document' = [document EXCEPT ![d] = Materialized(document[d], result)]
            BY <2>6 DEF Execute
        <3> HIDE DEF d
        <3>3. document' \in [Requests -> DocumentRows]
            BY <3>1, <3>2 DEF LocalTypeOK
        <3>4. QED
            BY <2>6, <3>3, <1>e DEF Execute, LocalTypeOK, WorkerPhases
    <2>7. CASE Fenced \/ ExecutionFails
        BY <2>7, <1>e DEF Fenced, ExecutionFails, WorkerTo, LocalTypeOK, WorkerPhases
    <2>8. CASE FailRun \/ FailRunError
        BY <2>8, <1>b, <1>e DEF FailRun, FailRunError, LocalTypeOK, WorkerPhases
    <2>9. CASE DeadLetter \/ DeadLetterError \/ Finish
        BY <2>9, <1>b, <1>c DEF DeadLetter, DeadLetterError, Finish, LocalTypeOK, RefStatuses
    <2>10. QED
        BY <1>4, <2>1, <2>2, <2>3, <2>4, <2>5, <2>6, <2>7, <2>8, <2>9 DEF WorkerNext, Proceed
<1>5. CASE Restart
    <2>1. request' \in [Requests -> RequestRows]
        BY <1>5 DEF Restart, Closed, NewRequest, RequestRows, RequestPhases, DocumentStatuses
    <2>2. QED
        BY <1>5, <2>1, <1>b DEF Restart, LocalTypeOK, RefStatuses, WorkerRows, WorkerPhases,
                                IdleWorker
<1>6. QED  BY <1>1, <1>2, <1>3, <1>4, <1>5 DEF Next

-----------------------------------------------------------------------------
(* The memory of the process.                                              *)

LEMMA MemoryCalm ==
    ASSUME MemoryInv, Steady, NonePublished, UNCHANGED processVars
    PROVE  MemoryInv'
<1> USE DEF processVars, historyVars, MemoryInv
<1>1. WorkerHasJob'
    BY DEF WorkerHasJob, At
<1>2. MemoryFollows'
    BY DEF MemoryFollows, Steady, At
<1>3. PublishedHeld'
    BY DEF PublishedHeld, NonePublished, InMemory, At
<1>4. RefsFollow'
    BY NoneReopened DEF RefsFollow, Steady, At
<1>5. QED  BY <1>1, <1>2, <1>3, <1>4

LEMMA MemorySubmit ==
    ASSUME StoreInv, MemoryInv, NEW k \in Jobs, Submit(k), UNCHANGED processVars
    PROVE  MemoryInv'
<1> USE SubmitStep DEF processVars, historyVars, MemoryInv
<1>1. WorkerHasJob'
    BY DEF WorkerHasJob, At
<1>2. MemoryFollows'
    BY DEF MemoryFollows, At, TerminalJobStatuses
<1>3. PublishedHeld'
    BY DEF PublishedHeld, NonePublished, InMemory, At
<1>4. RefsFollow'
    BY DEF RefsFollow, MemoryFollows, At, Open
<1>5. QED  BY <1>1, <1>2, <1>3, <1>4

LEMMA MemoryEnqueued ==
    ASSUME LocalTypeOK, MemoryInv, Steady, NEW k \in Jobs, Enqueued(k),
           job[k].status # "absent", UNCHANGED <<dropped, skipped>>,
           \A j \in Jobs \ {k} : job'[j] = job[j] /\ pending'[j] = pending[j]
    PROVE  MemoryInv'
<1> USE DEF MemoryInv, Enqueued
<1>a. Range(queue') = Range(queue) \cup {k}
    BY RangeOfAppend DEF LocalTypeOK
<1>b. ref' = [ref EXCEPT ![k] = "queued"] /\ ref \in [Jobs -> RefStatuses]
    BY DEF LocalTypeOK
<1>1. WorkerHasJob'
    BY DEF WorkerHasJob, At
<1>2. MemoryFollows'
    BY <1>a, <1>b DEF MemoryFollows, Steady, At
<1>3. PublishedHeld'
    BY <1>a DEF PublishedHeld, InMemory, At
<1>4. RefsFollow'
    BY <1>a, <1>b, NoneReopened DEF RefsFollow, Steady, At
<1>5. QED  BY <1>1, <1>2, <1>3, <1>4

\* The end of a delivery, when its job is not published or is given up as dropped.
LEMMA MemoryEnded ==
    ASSUME LocalTypeOK, MemoryInv, Steady, NonePublished,
           NEW status \in {"succeeded", "failed"}, Ended(status), ~ At("idle"),
           NEW k \in Jobs, worker.job = k,
           dropped \subseteq dropped', skipped \subseteq skipped',
           At("received") =>
               k \in dropped' \/ job[k].status # "published" \/ job'[k].status # "published",
           status = "succeeded" => k \in skipped' \/ ~ Open(k)'
    PROVE  MemoryInv'
<1> USE DEF MemoryInv, Ended, IdleWorker
<1>b. /\ ref \in [Jobs -> RefStatuses] /\ worker'.phase = "idle" /\ worker'.job = None
      /\ \A j \in Jobs : j # None
      /\ UNCHANGED <<queue, toCancel>>
    BY JobsAreNumbered DEF LocalTypeOK, Requests, None
<1>c. \A j \in Jobs :
        ref'[j] = IF j = k /\ ref[j] = "running" THEN status ELSE ref[j]
    BY <1>b
<1>1. WorkerHasJob'
    BY <1>b DEF WorkerHasJob, At
<1>2. MemoryFollows'
    BY <1>b, <1>c DEF MemoryFollows, Steady, At
<1>3. PublishedHeld'
    BY <1>b DEF PublishedHeld, NonePublished, InMemory, At
<1>4. RefsFollow'
    BY <1>b, <1>c, NoneReopened DEF RefsFollow, Steady, At
<1>5. QED  BY <1>1, <1>2, <1>3, <1>4

\* The worker goes on with its job, which it has claimed or which is given up as dropped.
LEMMA MemoryGoesOn ==
    ASSUME LocalTypeOK, MemoryInv, Steady, NonePublished,
           UNCHANGED <<queue, ref, toCancel, skipped>>, dropped \subseteq dropped',
           ~ At("idle"), worker'.job = worker.job, worker'.phase # "idle",
           At("received") => \/ worker.job \in dropped'
                             \/ job[worker.job].status # "published"
                             \/ job'[worker.job].status # "published",
           worker'.phase = "finishing" => job'[worker.job].status \in TerminalJobStatuses
    PROVE  MemoryInv'
<1> USE DEF MemoryInv, historyVars
<1>1. WorkerHasJob'
    BY DEF WorkerHasJob, At
<1>2. MemoryFollows'
    BY DEF MemoryFollows, Steady, At
<1>3. PublishedHeld'
    BY DEF PublishedHeld, NonePublished, InMemory, At
<1>4. RefsFollow'
    BY NoneReopened DEF RefsFollow, Steady, At
<1>5. QED  BY <1>1, <1>2, <1>3, <1>4

LEMMA MemoryStep ==
    ASSUME StoreInv, LocalTypeOK, RequestsFit, MemoryInv, [Next]_vars
    PROVE  MemoryInv'
<1> USE DEF intakeVars, boundVars
<1>a. LocalWorker \in WorkerIds
    BY LocalWorkerOnly
<1>b. Requests = Jobs
    BY JobsAreNumbered
<1>c. ~ At("idle") => worker.job \in Jobs
    BY DEF MemoryInv, WorkerHasJob
<1>1. CASE UNCHANGED vars
    BY <1>1, SteadyIfUnchanged, MemoryCalm DEF vars, storeVars
<1>2. ASSUME NEW q \in Requests, RequestNext(q) PROVE MemoryInv'
    <2>1. CASE Submit(q) /\ UNCHANGED processVars
        BY <2>1, <1>b, MemorySubmit
    <2>2. CASE UNCHANGED <<storeVars, processVars>>
        BY <2>2, SteadyIfUnchanged, MemoryCalm DEF storeVars
    <2>3. QED
        BY <1>2, <2>1, <2>2 DEF RequestNext, RefuseDuplicate, BeginUpload, StorageError,
               CommitUpload, LoseUpload, BeginReprocess, CommitReprocess
<1>3. ASSUME NEW j \in Jobs, JobNext(j) PROVE MemoryInv'
    <2>1. CASE Dispatch(j)
        <3>1. Enqueued(j) /\ PublishCommit(j)
            BY <2>1 DEF Dispatch
        <3>2. UNCHANGED <<dropped, skipped>>
            BY <3>1 DEF Enqueued, historyVars
        <3>3. QED  BY <3>1, <3>2, PublishStep, MemoryEnqueued
    <2>2. CASE DispatchUncommitted(j)
        <3>1. Enqueued(j) /\ Open(j) /\ UNCHANGED <<job, pending>>
            BY <2>2 DEF DispatchUncommitted, storeVars
        <3>2. UNCHANGED <<dropped, skipped>> /\ job[j].status # "absent"
            BY <3>1 DEF Enqueued, historyVars, Open
        <3>3. QED  BY <3>1, <3>2, SteadyIfUnchanged, MemoryEnqueued
    <2>3. CASE Discard(j) \/ Recover(j) \/ BeginCancel(j) \/ OperatorRequeue(j) \/ TimePasses(j)
        BY <2>3, <1>a, SteadyStep, MemoryCalm
        DEF Discard, Recover, BeginCancel, OperatorRequeue, TimePasses
    <2>4. CASE EndCancel(j)
        <3>1. Steady /\ NonePublished
            BY <2>4, <1>a, SteadyStep DEF EndCancel
        <3>2. /\ UNCHANGED <<queue, ref, worker, dropped, skipped>>
              /\ \A k \in Jobs : k \in toCancel' => k \in toCancel \/ job'[k].status = "cancelled"
            BY <2>4 DEF EndCancel, historyVars, Cancel, StoreInv, TypeOK, JobRows
        <3>3. WorkerHasJob'
            BY <3>2 DEF MemoryInv, WorkerHasJob, At
        <3>4. MemoryFollows'
            BY <3>1, <3>2 DEF MemoryInv, MemoryFollows, Steady, At
        <3>5. PublishedHeld'
            BY <3>1, <3>2 DEF MemoryInv, PublishedHeld, NonePublished, InMemory, At
        <3>6. RefsFollow'
            BY <3>1, <3>2, NoneReopened DEF MemoryInv, RefsFollow, Steady, At
        <3>7. QED  BY <3>3, <3>4, <3>5, <3>6 DEF MemoryInv
    <2>5. CASE CancelRef(j)
        <3>1. UNCHANGED <<job, pending, queue, worker, dropped, skipped>>
            BY <2>5 DEF CancelRef, storeVars, historyVars
        <3>2. /\ toCancel' \subseteq toCancel
              /\ \A k \in Jobs : \/ ref'[k] = ref[k]
                                \/ /\ ref[k] = "queued" /\ ref'[k] = "cancelled"
                                   /\ k \in toCancel
            BY <2>5 DEF CancelRef, LocalTypeOK
        <3>3. WorkerHasJob'
            BY <3>1 DEF MemoryInv, WorkerHasJob, At
        <3>4. MemoryFollows'
            BY <3>1, <3>2 DEF MemoryInv, MemoryFollows, At
        <3>5. PublishedHeld'
            BY <3>1 DEF MemoryInv, PublishedHeld, InMemory, At
        <3>6. RefsFollow'
            BY <3>1, <3>2 DEF MemoryInv, RefsFollow, MemoryFollows, At, Open
        <3>7. QED  BY <3>3, <3>4, <3>5, <3>6 DEF MemoryInv
    <2>6. QED  BY <1>3, <2>1, <2>2, <2>3, <2>4, <2>5 DEF JobNext
<1>4. CASE WorkerNext
    <2>1. CASE Take
        <3> DEFINE k == Head(queue)
        <3>1. /\ k \in Jobs /\ Range(queue) = {k} \cup Range(queue')
              /\ At("idle") /\ UNCHANGED <<job, pending, toCancel, dropped, skipped>>
            BY <2>1, RangeOfTail DEF Take, LocalTypeOK, storeVars, historyVars
        <3>2. \/ ref[k] = "cancelled" /\ UNCHANGED <<worker, ref>>
              \/ /\ worker' = [phase |-> "received", job |-> k, beats |-> "off"]
                 /\ ref' = [ref EXCEPT ![k] = "running"]
            BY <2>1 DEF Take
        <3> HIDE DEF k
        <3>3. \A j \in Jobs : ref[j] # "running"
            BY <3>1 DEF MemoryInv, RefsFollow
        <3>4. job[k].status # "absent"
            BY <3>1 DEF MemoryInv, MemoryFollows
        <3>5. CASE ref[k] = "cancelled" /\ UNCHANGED <<worker, ref>>
            <4>1. job[k].status = "cancelled"
                BY <3>1, <3>5 DEF MemoryInv, RefsFollow
            <4>2. WorkerHasJob'
                BY <3>5 DEF MemoryInv, WorkerHasJob, At
            <4>3. MemoryFollows'
                BY <3>1, <3>5 DEF MemoryInv, MemoryFollows, At
            <4>4. PublishedHeld'
                BY <3>1, <3>5, <4>1 DEF MemoryInv, PublishedHeld, InMemory, At
            <4>5. RefsFollow'
                BY <3>1, <3>5 DEF MemoryInv, RefsFollow, At, Open
            <4>6. QED  BY <4>2, <4>3, <4>4, <4>5 DEF MemoryInv
        <3>6. CASE /\ worker' = [phase |-> "received", job |-> k, beats |-> "off"]
                   /\ ref' = [ref EXCEPT ![k] = "running"]
            <4>1. worker'.phase = "received" /\ worker'.job = k
                BY <3>6
            <4>2. \A j \in Jobs : ref'[j] = IF j = k THEN "running" ELSE ref[j]
                BY <3>6, <3>1 DEF LocalTypeOK
            <4>3. WorkerHasJob'
                BY <4>1, <3>1 DEF WorkerHasJob
            <4>4. MemoryFollows'
                BY <3>1, <3>4, <4>1, <4>2 DEF MemoryInv, MemoryFollows, At
            <4>5. PublishedHeld'
                BY <3>1, <4>1 DEF MemoryInv, PublishedHeld, InMemory, At
            <4>6. RefsFollow'
                BY <3>1, <3>3, <4>1, <4>2 DEF MemoryInv, RefsFollow, At, Open
            <4>7. QED  BY <4>3, <4>4, <4>5, <4>6 DEF MemoryInv
        <3>7. QED  BY <3>2, <3>5, <3>6
    <2>2. ASSUME NEW k \in Jobs, worker.job = k, ~ At("idle"), ~ Take PROVE MemoryInv'
        <3>1. CASE ClaimDelivery
            <4>1. Claim(k, LocalWorker) /\ UNCHANGED historyVars
                BY <3>1, <2>2 DEF ClaimDelivery
            <4>2. Steady /\ NonePublished
                BY <4>1, <1>a, SteadyStep
            <4>3. job'[k].status \in {"running", "succeeded"}
                BY <4>1 DEF Claim, StoreInv, TypeOK, JobRows
            <4>4. CASE run[k].status \in TerminalSuccess
                <5>1. Ended("succeeded") /\ ~ Open(k)'
                    BY <3>1, <4>1, <4>4, <2>2 DEF ClaimDelivery, Claim, Open,
                           TerminalJobStatuses, StoreInv, TypeOK, JobRows
                <5>2. QED
                    BY <4>1, <4>2, <4>3, <5>1, <2>2, MemoryEnded DEF historyVars
            <4>5. CASE run[k].status \notin TerminalSuccess
                <5>1. /\ UNCHANGED <<queue, ref, toCancel>>
                      /\ worker' = [worker EXCEPT !.phase = "executing", !.beats = "on"]
                    BY <3>1, <4>5, <2>2 DEF ClaimDelivery
                <5>2. worker'.phase = "executing" /\ worker'.job = worker.job
                    BY <5>1 DEF LocalTypeOK, WorkerRows
                <5>3. QED  BY <4>1, <4>2, <4>3, <5>1, <5>2, <2>2, MemoryGoesOn DEF historyVars
            <4>6. QED  BY <4>4, <4>5
        <3>2. CASE SkipDelivery
            <4>1. /\ UNCHANGED <<job, pending, dropped>> /\ Ended("succeeded")
                  /\ ~ Claimable(k) /\ skipped \subseteq skipped'
                  /\ Open(k) => k \in skipped'
                BY <3>2, <2>2 DEF SkipDelivery, storeVars
            <4>2. Steady /\ NonePublished /\ (Open(k)' => Open(k))
                BY <4>1, SteadyIfUnchanged DEF Open
            <4>3. job[k].status # "published"
                BY <4>1 DEF Claimable, Open, TerminalJobStatuses
            <4>4. QED  BY <4>1, <4>2, <4>3, <2>2, MemoryEnded
        <3>3. CASE ClaimError
            <4>1. /\ UNCHANGED <<job, pending, queue, ref, toCancel, skipped>>
                  /\ dropped \subseteq dropped' /\ worker.job \in dropped'
                  /\ worker' = [worker EXCEPT !.phase = "raised"]
                BY <3>3 DEF ClaimError, WorkerTo, storeVars
            <4>2. worker'.phase = "raised" /\ worker'.job = worker.job
                BY <4>1 DEF LocalTypeOK, WorkerRows
            <4>3. QED  BY <4>1, <4>2, SteadyIfUnchanged, MemoryGoesOn, <2>2
        <3>4. CASE Beat
            BY <3>4, <2>2, <1>a, SteadyStep, MemoryCalm DEF Beat
        <3>5. CASE BeatStops \/ BeatError
            <4>1. /\ UNCHANGED <<job, pending, queue, ref, toCancel, historyVars>>
                  /\ Beating
                  /\ \E beats \in {"off", "broken"} : worker' = [worker EXCEPT !.beats = beats]
                BY <3>5 DEF BeatStops, BeatError, storeVars
            <4>2. /\ worker'.phase = worker.phase /\ worker'.job = worker.job
                  /\ worker.phase \in {"executing", "failing"}
                BY <4>1 DEF LocalTypeOK, WorkerRows, Beating
            <4>3. QED  BY <4>1, <4>2, SteadyIfUnchanged, MemoryGoesOn, <2>2 DEF historyVars, At
        <3>6. ASSUME NEW result \in [outcome : Outcomes, draft : BOOLEAN], Execute(result)
              PROVE  MemoryInv'
            <4>1. /\ Complete(k, LocalWorker, result.outcome) /\ At("executing")
                  /\ UNCHANGED <<queue, ref, toCancel, historyVars>>
                  /\ \E phase \in {"raised", "finishing"} :
                       worker' = [worker EXCEPT !.beats = "off", !.phase = phase]
                BY <3>6, <2>2 DEF Execute
            <4>2. Steady /\ NonePublished
                BY <4>1, <1>a, SteadyStep
            <4>3. job'[k].status = "succeeded"
                BY <4>1 DEF Complete, StoreInv, TypeOK, JobRows
            <4>4. worker'.phase \in {"raised", "finishing"} /\ worker'.job = worker.job
                BY <4>1 DEF LocalTypeOK, WorkerRows
            <4>5. QED
                BY <4>1, <4>2, <4>3, <4>4, <2>2, MemoryGoesOn DEF historyVars, At, TerminalJobStatuses
        <3>7. CASE Fenced \/ ExecutionFails
            <4>1. /\ UNCHANGED <<job, pending, queue, ref, toCancel, historyVars>>
                  /\ At("executing") /\ worker' = [worker EXCEPT !.phase = "failing"]
                BY <3>7 DEF Fenced, ExecutionFails, WorkerTo, storeVars
            <4>2. worker'.phase = "failing" /\ worker'.job = worker.job
                BY <4>1 DEF LocalTypeOK, WorkerRows
            <4>3. QED  BY <4>1, <4>2, SteadyIfUnchanged, MemoryGoesOn, <2>2 DEF historyVars, At
        <3>8. CASE FailRun \/ FailRunError
            <4>1. /\ UNCHANGED <<job, pending, queue, ref, toCancel, historyVars>>
                  /\ At("failing")
                  /\ worker' = [worker EXCEPT !.phase = "raised", !.beats = "off"]
                BY <3>8 DEF FailRun, FailRunError, MarkRunFailed, storeVars
            <4>2. worker'.phase = "raised" /\ worker'.job = worker.job
                BY <4>1 DEF LocalTypeOK, WorkerRows
            <4>3. QED  BY <4>1, <4>2, SteadyIfUnchanged, MemoryGoesOn, <2>2 DEF historyVars, At
        <3>9. CASE DeadLetter \/ DeadLetterError
            <4>1. /\ Ended("failed") /\ UNCHANGED historyVars /\ At("raised")
                  /\ MarkDeadLettered(k, LocalWorker) \/ UNCHANGED <<job, pending>>
                BY <3>9, <2>2 DEF DeadLetter, DeadLetterError, storeVars
            <4>2. Steady /\ NonePublished
                BY <4>1, <1>a, SteadyStep, SteadyIfUnchanged
            <4>3. QED  BY <4>1, <4>2, <2>2, MemoryEnded DEF historyVars, At
        <3>10. CASE Finish
            <4>1. /\ Ended("succeeded") /\ UNCHANGED <<job, pending, historyVars>>
                  /\ At("finishing")
                BY <3>10 DEF Finish, storeVars
            <4>2. ~ Open(k)'
                BY <4>1, <2>2 DEF MemoryInv, MemoryFollows, Open
            <4>3. QED  BY <4>1, <4>2, <2>2, SteadyIfUnchanged, MemoryEnded DEF historyVars, At
        <3>11. QED
            BY <1>4, <2>2, <3>1, <3>2, <3>3, <3>4, <3>5, <3>6, <3>7, <3>8, <3>9, <3>10
            DEF WorkerNext, Proceed
    <2>3. CASE At("idle")
        BY <1>4, <2>1, <2>3 DEF WorkerNext, Proceed, At, ClaimDelivery, SkipDelivery, ClaimError,
               Beat, Beating, BeatStops, BeatError, Execute, Fenced, ExecutionFails, FailRun,
               FailRunError, DeadLetter, DeadLetterError, Finish
    <2>4. QED  BY <2>1, <2>2, <2>3, <1>c
<1>5. CASE Restart
    <2>1. /\ UNCHANGED <<job, pending, skipped>> /\ queue' = <<>>
          /\ ref' = [j \in Jobs |-> "none"] /\ worker' = IdleWorker /\ toCancel' = {}
          /\ dropped' = dropped \cup {j \in Jobs : InMemory(j)}
        BY <1>5 DEF Restart
    <2>2. worker'.phase = "idle" /\ worker'.job = None /\ Range(queue') = {}
        BY <2>1 DEF IdleWorker, Range
    <2>3. \A j \in Jobs : j # None
        BY JobsAreNumbered DEF Requests, None
    <2>4. WorkerHasJob'
        BY <2>2 DEF WorkerHasJob, At
    <2>5. MemoryFollows'
        BY <2>1, <2>2, <2>3 DEF MemoryInv, MemoryFollows, At
    <2>6. PublishedHeld'
        BY <2>1 DEF MemoryInv, PublishedHeld
    <2>7. RefsFollow'
        BY <2>1 DEF RefsFollow
    <2>8. QED  BY <2>4, <2>5, <2>6, <2>7 DEF MemoryInv
<1>6. QED  BY <1>1, <1>2, <1>3, <1>4, <1>5 DEF Next

-----------------------------------------------------------------------------
(* Documents and requests.                                                 *)

LEMMA RunsAreJobs ==
    ASSUME LocalTypeOK, NEW d \in Requests
    PROVE  Range(document[d].runs) \subseteq Jobs
    BY RangeInSet DEF LocalTypeOK, DocumentRows

LEMMA IntakeCalm ==
    ASSUME LocalTypeOK, IntakeInv, Steady, UNCHANGED <<document, originals, overlapped>>,
           \A q \in Requests : \/ request'[q] \in {request[q], Closed}
                               \/ request[q].phase = "idle" /\ request'[q] = NewRequest
    PROVE  IntakeInv'
<1> USE JobsAreNumbered DEF IntakeInv
<1>1. RequestsFit'
    BY DEF RequestsFit, Exists, Steady, Closed, NewRequest
<1>2. IntakeComplete'
    BY DEF IntakeComplete, Exists, Steady, Processable
<1>3. \A d \in Requests : \A j \in Range(document[d].runs) : Open(j)' => Open(j)
    BY NoneReopened, RunsAreJobs
<1>4. InvoiceAccount'
    BY <1>3 DEF InvoiceAccount
<1>5. QED  BY <1>1, <1>2, <1>4

LEMMA IntakeClosed ==
    ASSUME IntakeInv, LocalTypeOK, NEW q \in Requests, Close(q),
           UNCHANGED <<storeVars, document, originals, overlapped>>
    PROVE  IntakeInv'
<1>1. \A p \in Requests : request'[p] \in {request[p], Closed}
    BY DEF Close, LocalTypeOK
<1>2. QED  BY <1>1, SteadyIfUnchanged, IntakeCalm DEF storeVars

LEMMA IntakeBegun ==
    ASSUME IntakeInv, LocalTypeOK, NEW q \in Requests,
           \/ \E file \in Files : BeginUpload(q, file)
           \/ \E d \in Requests : BeginReprocess(q, d)
    PROVE  IntakeInv'
<1> USE DEF IntakeInv
<1>1. /\ UNCHANGED <<job, document, overlapped>>
      /\ request[q].phase = "idle"
      /\ \A p \in Requests \ {q} : request'[p] = request[p]
      /\ originals \subseteq originals'
    BY DEF BeginUpload, BeginReprocess, Arrives, LocalTypeOK, storeVars
<1>2. \/ /\ request'[q].phase = "stored" /\ request'[q].file \in Files /\ q \in originals'
      \/ /\ request'[q].phase = "read" /\ request'[q].target \in Requests
         /\ Exists(request'[q].target) /\ document[request'[q].target].runs # <<>>
    <2>1. ASSUME NEW file \in Files, BeginUpload(q, file)
          PROVE  request'[q].phase = "stored" /\ request'[q].file = file /\ q \in originals'
        BY <2>1 DEF BeginUpload, LocalTypeOK, RequestRows
    <2>2. ASSUME NEW d \in Requests, BeginReprocess(q, d)
          PROVE  request'[q].phase = "read" /\ request'[q].target = d /\ Reprocessable(d)
        BY <2>2 DEF BeginReprocess, LocalTypeOK, RequestRows
    <2>3. QED  BY <2>1, <2>2 DEF Reprocessable
<1>3. RequestsFit'
    BY <1>1, <1>2 DEF RequestsFit, Exists
<1>4. IntakeComplete'
    BY <1>1 DEF IntakeComplete, Exists, Processable
<1>5. InvoiceAccount'
    BY <1>1 DEF InvoiceAccount, Open
<1>6. QED  BY <1>3, <1>4, <1>5

\* No document claims a job that was not submitted.
LEMMA NotYetClaimed ==
    ASSUME IntakeInv, NEW j \in Jobs, job[j].status = "absent", NEW d \in Requests
    PROVE  j \notin Range(document[d].runs)
    BY DEF IntakeInv, IntakeComplete

LEMMA IntakeUploaded ==
    ASSUME StoreInv, IntakeInv, LocalTypeOK, NEW q \in Requests, CommitUpload(q)
    PROVE  IntakeInv'
<1> USE DEF IntakeInv
<1>a. q \in Jobs /\ Jobs = Requests
    BY JobsAreNumbered
<1> DEFINE file == request[q].file
           row(runs) == [file |-> file, status |-> "accepted", runs |-> runs, invoices |-> 0]
           runs == IF Processable(file) THEN <<q>> ELSE <<>>
<1>1. /\ request[q].phase = "stored" /\ ~ Duplicate(file.content)
      /\ document' = [document EXCEPT ![q] = row(runs)]
      /\ IF Processable(file) THEN Submit(q) ELSE UNCHANGED job
      /\ UNCHANGED <<originals, overlapped>> /\ Close(q)
    BY DEF CommitUpload, NoRow, storeVars
<1>2. /\ document[q] = NoRow /\ job[q].status = "absent" /\ q \in originals /\ file \in Files
    BY <1>1 DEF RequestsFit
<1>3. Range(runs) = IF Processable(file) THEN {q} ELSE {}
    BY DEF Range
<1> HIDE DEF runs
<1>4. /\ document'[q].file = file /\ document'[q].status = "accepted"
      /\ document'[q].runs = runs /\ document'[q].invoices = 0
      /\ \A d \in Requests \ {q} : document'[d] = document[d]
    BY <1>1 DEF LocalTypeOK
<1> HIDE DEF file
<1>5. /\ request'[q].phase = "closed"
      /\ \A p \in Requests \ {q} : request'[p] = request[p]
    BY <1>1 DEF Close, Closed, NewRequest, LocalTypeOK
<1>6. /\ \A j \in Jobs \ {q} : job'[j] = job[j]
      /\ job'[q].status = IF Processable(file) THEN "queued" ELSE "absent"
    BY <1>1, <1>2, <1>a, SubmitStep
<1>7. \A d \in Requests : q \notin Range(document[d].runs)
    BY <1>2, <1>a, NotYetClaimed
<1>8. RequestsFit'
    BY <1>1, <1>2, <1>4, <1>5, <1>6, <1>a DEF RequestsFit, Exists, NoRow
<1>9. runs # <<>> <=> Processable(file)
    BY DEF runs
<1>10. IntakeComplete'
    <2>1. ASSUME NEW d \in Requests, NEW e \in Requests, Exists(d)', Exists(e)', d # e
          PROVE  /\ document'[d].file.content # document'[e].file.content
                 /\ Range(document'[d].runs) \cap Range(document'[e].runs) = {}
        BY <2>1, <1>1, <1>3, <1>4, <1>7 DEF IntakeComplete, Exists, Duplicate
    <2>2. ASSUME NEW d \in Requests, Exists(d)'
          PROVE  /\ d \in originals'
                 /\ Processable(document'[d].file) <=> document'[d].runs # <<>>
        BY <2>2, <1>1, <1>2, <1>4, <1>9 DEF IntakeComplete, Exists, Processable
    <2>3. ASSUME NEW j \in Jobs
          PROVE  job'[j].status # "absent" <=> \E d \in Requests : j \in Range(document'[d].runs)
        <3>1. CASE j = q
            BY <3>1, <1>3, <1>4, <1>6, <1>7
        <3>2. CASE j # q
            <4>1. job'[j] = job[j] /\ j \notin Range(runs)
                BY <3>2, <1>3, <1>6
            <4>2. \A d \in Requests : j \in Range(document'[d].runs) <=> j \in Range(document[d].runs)
                BY <4>1, <1>2, <1>4 DEF NoRow, Range
            <4>3. QED  BY <4>1, <4>2 DEF IntakeComplete
        <3>3. QED  BY <3>1, <3>2
    <2>4. QED  BY <2>1, <2>2, <2>3 DEF IntakeComplete, Exists, Processable
<1>11. InvoiceAccount'
    <2>1. ASSUME NEW d \in Requests \ {q}, NEW j \in Range(document'[d].runs)
          PROVE  job'[j] = job[j] /\ j \in Range(document[d].runs)
        BY <1>4, <1>6, <1>7, RunsAreJobs
    <2>2. \A d \in Requests \ {q} : document'[d] = document[d]
        BY <1>4
    <2>3. QED
        BY <1>1, <1>3, <1>4, <2>1, <2>2 DEF InvoiceAccount, Open
<1>12. QED  BY <1>8, <1>10, <1>11

LEMMA IntakeReprocessed ==
    ASSUME StoreInv, IntakeInv, LocalTypeOK, NEW q \in Requests, CommitReprocess(q)
    PROVE  IntakeInv'
<1> USE DEF IntakeInv
<1>a. q \in Jobs /\ Jobs = Requests
    BY JobsAreNumbered
<1>0. PICK d \in Requests : d = request[q].target
    BY DEF CommitReprocess, RequestsFit
<1>1. /\ request[q].phase = "read" /\ Submit(q) /\ Close(q) /\ UNCHANGED originals
      /\ overlapped' = overlapped \cup (IF Unfinished(d) THEN {d} ELSE {})
    BY <1>0 DEF CommitReprocess
<1>2. /\ job[q].status = "absent" /\ document[q] = NoRow
      /\ d \in Requests /\ Exists(d) /\ document[d].runs # <<>>
    BY <1>0, <1>1 DEF RequestsFit
<1>3. PICK status \in DocumentStatuses \ {"absent"} :
        document' = [document EXCEPT ![d].runs = Append(@, q), ![d].status = status]
    BY <1>0, <1>2 DEF CommitReprocess, LocalTypeOK, DocumentRows, DocumentStatuses, Exists
<1>4. /\ document[d] \in DocumentRows /\ document[d].runs \in Seq(Jobs)
      /\ document'[d].status = status
      /\ document'[d].runs = Append(document[d].runs, q)
      /\ document'[d].file = document[d].file /\ document'[d].invoices = document[d].invoices
      /\ \A e \in Requests \ {d} : document'[e] = document[e]
    BY <1>2, <1>3 DEF LocalTypeOK, DocumentRows
<1>5. document'[d].runs # <<>> /\ Range(document'[d].runs) = Range(document[d].runs) \cup {q}
    BY <1>4, <1>a, RangeOfAppend
<1>6. /\ request'[q].phase = "closed"
      /\ \A p \in Requests \ {q} : request'[p] = request[p]
    BY <1>1 DEF Close, Closed, NewRequest, LocalTypeOK
<1>7. /\ \A j \in Jobs \ {q} : job'[j] = job[j]
      /\ job'[q].status = "queued"
    BY <1>1, <1>a, SubmitStep
<1>8. \A e \in Requests : q \notin Range(document[e].runs)
    BY <1>2, <1>a, NotYetClaimed
<1>9. d # q
    BY <1>2 DEF NoRow
<1>10. RequestsFit'
    <2>1. ASSUME NEW p \in Requests, p # d PROVE ~ Exists(p)' => document'[p] = NoRow
        BY <2>1, <1>4 DEF RequestsFit, Exists
    <2>2. Exists(d)'
        BY <1>4 DEF Exists
    <2>3. ASSUME NEW p \in Requests, request'[p].phase # "closed"
          PROVE  /\ document'[p] = NoRow /\ job'[p].status = "absent"
                 /\ request'[p] = request[p] /\ p # q
        <3>1. p # q /\ request'[p] = request[p] /\ request[p].phase # "closed"
            BY <2>3, <1>6
        <3>2. document[p] = NoRow /\ job[p].status = "absent"
            BY <3>1 DEF RequestsFit
        <3>3. p # d
            BY <3>2, <1>2 DEF NoRow
        <3>4. QED  BY <3>1, <3>2, <3>3, <1>4, <1>7, <1>a
    <2>4. ASSUME NEW t \in Requests, Exists(t), document[t].runs # <<>>
          PROVE  Exists(t)' /\ document'[t].runs # <<>>
        BY <2>2, <2>4, <1>4, <1>5 DEF Exists
    <2>5. QED  BY <2>1, <2>2, <2>3, <2>4, <1>1 DEF RequestsFit
<1>11. IntakeComplete'
    <2>1. \A e \in Requests : Exists(e)' <=> Exists(e)
        BY <1>2, <1>4 DEF Exists
    <2>2. \A e \in Requests : /\ document'[e].file = document[e].file
                              /\ document'[e].runs # <<>> <=> document[e].runs # <<>>
        BY <1>2, <1>4, <1>5
    <2>3. ASSUME NEW e \in Requests, NEW f \in Requests, Exists(e), Exists(f), e # f
          PROVE  Range(document'[e].runs) \cap Range(document'[f].runs) = {}
        <3>1. Range(document[e].runs) \cap Range(document[f].runs) = {}
            BY <2>3 DEF IntakeComplete
        <3>2. \A g \in Requests :
                Range(document'[g].runs) = Range(document[g].runs) \cup (IF g = d THEN {q} ELSE {})
            BY <1>4, <1>5
        <3>3. q \notin Range(document[e].runs) /\ q \notin Range(document[f].runs)
            BY <1>8
        <3>4. e # d \/ f # d
            BY <2>3
        <3>5. QED  BY <3>1, <3>2, <3>3, <3>4
    <2>4. ASSUME NEW j \in Jobs
          PROVE  job'[j].status # "absent" <=> \E e \in Requests : j \in Range(document'[e].runs)
        <3>1. CASE j = q
            BY <3>1, <1>2, <1>5, <1>7
        <3>2. CASE j # q
            <4>1. job'[j] = job[j]
                BY <3>2, <1>7
            <4>2. \A e \in Requests : j \in Range(document'[e].runs) <=> j \in Range(document[e].runs)
                BY <3>2, <1>4, <1>5
            <4>3. QED  BY <4>1, <4>2 DEF IntakeComplete
        <3>3. QED  BY <3>1, <3>2
    <2>5. QED
        BY <2>1, <2>2, <2>3, <2>4, <1>1 DEF IntakeComplete, Processable
<1>12. InvoiceAccount'
    <2>1. ASSUME NEW e \in Requests, e # d, NEW j \in Range(document'[e].runs)
          PROVE  job'[j] = job[j] /\ j \in Range(document[e].runs)
        BY <2>1, <1>4, <1>7, <1>8, RunsAreJobs
    <2>2. ASSUME d \notin overlapped'
          PROVE  /\ d \notin overlapped /\ document'[d].invoices = 0
                 /\ \A j \in Range(document'[d].runs) : Open(j)' => j = q
        <3>1. ~ Unfinished(d) /\ d \notin overlapped
            BY <2>2, <1>1
        <3>2. document[d].invoices = 0
            BY <3>1, <1>4 DEF Unfinished, DocumentRows
        <3>3. ASSUME NEW j \in Range(document'[d].runs), j # q PROVE ~ Open(j)'
            <4>1. j \in Range(document[d].runs) /\ job'[j] = job[j]
                BY <3>3, <1>2, <1>5, <1>7, RunsAreJobs
            <4>2. QED  BY <3>1, <4>1 DEF Unfinished, Open
        <3>4. QED  BY <3>1, <3>2, <3>3, <1>4
    <2>3. overlapped \subseteq overlapped'
        BY <1>1
    <2>4. QED
        <3>1. ASSUME NEW e \in Requests \ {d}, e \notin overlapped'
              PROVE  /\ document'[e].invoices <= 1
                     /\ \A i, j \in Range(document'[e].runs) : Open(i)' /\ Open(j)' => i = j
                     /\ document'[e].invoices > 0 =>
                          /\ document'[e].status = "review_required"
                          /\ \A j \in Range(document'[e].runs) : ~ Open(j)'
            <4>1. e \notin overlapped /\ document'[e] = document[e]
                BY <3>1, <2>3, <1>4
            <4>2. \A j \in Range(document[e].runs) : Open(j)' <=> Open(j)
                BY <4>1, <2>1 DEF Open
            <4>3. QED  BY <4>1, <4>2 DEF InvoiceAccount
        <3>2. QED
            BY <3>1, <2>2 DEF InvoiceAccount
<1>13. QED  BY <1>10, <1>11, <1>12

LEMMA IntakeExecuted ==
    ASSUME StoreInv, StoreInv', IntakeInv, LocalTypeOK, MemoryInv,
           NEW result \in [outcome : Outcomes, draft : BOOLEAN], Execute(result)
    PROVE  IntakeInv'
<1> USE DEF IntakeInv
<1>1. PICK k \in Jobs : k = worker.job
    BY DEF Execute, MemoryInv, WorkerHasJob, At
<1>2. /\ Complete(k, LocalWorker, result.outcome) /\ result.outcome \in Outcomes
      /\ UNCHANGED <<originals, request, overlapped>>
    BY <1>1 DEF Execute
<1>3. job[k].status = "running" /\ job'[k].status = "succeeded" /\ Steady
    <2>1. LocalWorker \in WorkerIds
        BY LocalWorkerOnly
    <2>2. Steady
        BY <1>2, <2>1, SteadyStep
    <2>3. QED
        BY <1>2, <2>2 DEF Complete, Fence, Owns, StoreInv, TypeOK, JobRows
<1>4. \E e \in Requests : k \in Range(document[e].runs)
    BY <1>3 DEF IntakeComplete
<1>5. PICK d \in Requests : d = DocumentOf(k) /\ k \in Range(document[d].runs)
    BY <1>4 DEF DocumentOf
<1>6. Exists(d)
    <2>1. Range(NoRow.runs) = {}
        BY DEF NoRow, Range
    <2>2. QED  BY <1>5, <2>1 DEF RequestsFit
<1>7. document[d] \in DocumentRows
    BY <1>5 DEF LocalTypeOK
<1>8. /\ document'[d] = Materialized(document[d], result)
      /\ \A e \in Requests \ {d} : document'[e] = document[e]
    BY <1>1, <1>5 DEF Execute, LocalTypeOK
<1>9. /\ document'[d].file = document[d].file /\ document'[d].runs = document[d].runs
      /\ document'[d].invoices = IF result.draft THEN document[d].invoices + 1
                                 ELSE document[d].invoices
      /\ document'[d].status \in {document[d].status, "review_required"}
      /\ result.draft => document'[d].status = "review_required"
    BY <1>7, <1>8 DEF Materialized, DocumentRows
<1>10. /\ document[d].invoices \in Nat /\ result.draft \in BOOLEAN
       /\ document'[d].status # "absent"
    BY <1>6, <1>7, <1>9 DEF DocumentRows, Exists
<1>11. RequestsFit'
    <2>1. \A p \in Requests : request[p].phase # "closed" => p # d
        BY <1>6 DEF RequestsFit, Exists, NoRow
    <2>2. QED
        BY <2>1, <1>2, <1>3, <1>8, <1>9, <1>10, JobsAreNumbered DEF RequestsFit, Exists, Steady
<1>12. IntakeComplete'
    <2>1. \A e \in Requests : /\ Exists(e)' <=> Exists(e)
                              /\ document'[e].file = document[e].file
                              /\ document'[e].runs = document[e].runs
        BY <1>6, <1>8, <1>9, <1>10 DEF Exists
    <2>2. QED
        <3>1. \A j \in Jobs : job'[j].status # "absent" <=> job[j].status # "absent"
            BY <1>3 DEF Steady
        <3>2. ASSUME NEW e \in Requests, NEW f \in Requests, Exists(e), Exists(f), e # f
              PROVE  /\ document'[e].file.content # document'[f].file.content
                     /\ Range(document'[e].runs) \cap Range(document'[f].runs) = {}
            BY <2>1, <3>2 DEF IntakeComplete
        <3>3. ASSUME NEW e \in Requests, Exists(e)
              PROVE  /\ e \in originals'
                     /\ Processable(document'[e].file) <=> document'[e].runs # <<>>
            BY <2>1, <3>3, <1>2 DEF IntakeComplete, Processable
        <3>4. \A j \in Jobs : job'[j].status # "absent" <=>
                 \E e \in Requests : j \in Range(document'[e].runs)
            BY <2>1, <3>1 DEF IntakeComplete
        <3>5. QED  BY <2>1, <3>2, <3>3, <3>4 DEF IntakeComplete, Processable
<1>13. InvoiceAccount'
    <2>1. \A e \in Requests : \A j \in Range(document[e].runs) : Open(j)' => Open(j)
        BY <1>3, NoneReopened, RunsAreJobs
    <2>2. Open(k) /\ ~ Open(k)'
        BY <1>3 DEF Open, TerminalJobStatuses
    <2>3. ASSUME d \notin overlapped
          PROVE  /\ document[d].invoices = 0
                 /\ \A j \in Range(document[d].runs) : ~ Open(j)'
        <3>1. ~ (document[d].invoices > 0)
            BY <2>2, <2>3, <1>5 DEF InvoiceAccount
        <3>2. \A j \in Range(document[d].runs) : Open(j) => j = k
            BY <2>2, <2>3, <1>5 DEF InvoiceAccount
        <3>3. \A j \in Range(document[d].runs) : ~ Open(j)'
            BY <3>2, <2>1, <2>2, <1>5
        <3>4. QED  BY <3>1, <3>3, <1>10
    <2>4. ASSUME NEW e \in Requests \ {d}
          PROVE  document'[e] = document[e]
        BY <1>8
    <2>5. QED
        BY <2>1, <2>3, <2>4, <1>2, <1>5, <1>9, <1>10 DEF InvoiceAccount
<1>14. QED  BY <1>11, <1>12, <1>13

LEMMA IntakeStep ==
    ASSUME StoreInv, StoreInv', LocalTypeOK, MemoryInv, IntakeInv, [Next]_vars
    PROVE  IntakeInv'
<1> USE DEF intakeVars
<1>a. LocalWorker \in WorkerIds
    BY LocalWorkerOnly
<1>b. ~ At("idle") => worker.job \in Jobs
    BY DEF MemoryInv, WorkerHasJob
<1>c. Steady /\ UNCHANGED intakeVars => IntakeInv'
    BY IntakeCalm
<1>1. CASE UNCHANGED vars
    BY <1>1, <1>c, SteadyIfUnchanged DEF vars, storeVars
<1>2. ASSUME NEW q \in Requests, RequestNext(q) PROVE IntakeInv'
    <2>1. CASE LoseUpload(q) \/ \E file \in Files : RefuseDuplicate(q, file) \/ StorageError(q, file)
        BY <2>1, IntakeClosed DEF RefuseDuplicate, StorageError, LoseUpload
    <2>2. CASE \/ \E file \in Files : BeginUpload(q, file)
               \/ \E d \in Requests : BeginReprocess(q, d)
        BY <2>2, IntakeBegun
    <2>3. QED  BY <1>2, <2>1, <2>2, IntakeUploaded, IntakeReprocessed DEF RequestNext
<1>3. ASSUME NEW j \in Jobs, JobNext(j) PROVE IntakeInv'
    <2>1. UNCHANGED intakeVars
        BY <1>3 DEF JobNext, Dispatch, DispatchUncommitted, Discard, Recover, BeginCancel,
                    EndCancel, CancelRef, OperatorRequeue, TimePasses
    <2>2. Steady
        <3>1. CASE Dispatch(j)
            BY <3>1, PublishStep DEF Dispatch
        <3>2. CASE DispatchUncommitted(j) \/ CancelRef(j)
            BY <3>2, SteadyIfUnchanged DEF DispatchUncommitted, CancelRef, storeVars
        <3>3. CASE \/ Discard(j) \/ Recover(j) \/ BeginCancel(j) \/ EndCancel(j)
                   \/ OperatorRequeue(j) \/ TimePasses(j)
            BY <3>3, <1>a, SteadyStep
            DEF Discard, Recover, BeginCancel, EndCancel, OperatorRequeue, TimePasses
        <3>4. QED  BY <1>3, <3>1, <3>2, <3>3 DEF JobNext
    <2>3. QED  BY <2>1, <2>2, <1>c
<1>4. CASE WorkerNext
    <2>1. CASE \E result \in [outcome : Outcomes, draft : BOOLEAN] : Execute(result)
        BY <2>1, IntakeExecuted
    <2>2. CASE \/ Take \/ SkipDelivery \/ ClaimError \/ BeatStops \/ BeatError \/ Fenced
               \/ ExecutionFails \/ FailRunError \/ DeadLetterError \/ Finish
        <3>1. UNCHANGED <<job, pending>> /\ UNCHANGED intakeVars
            BY <2>2 DEF Take, SkipDelivery, ClaimError, BeatStops, BeatError, Fenced,
                   ExecutionFails, FailRunError, DeadLetterError, Finish, storeVars
        <3>2. QED  BY <3>1, <1>c, SteadyIfUnchanged
    <2>3. ASSUME ClaimDelivery \/ Beat \/ FailRun \/ DeadLetter PROVE IntakeInv'
        <3>1. UNCHANGED intakeVars
            BY <2>3 DEF ClaimDelivery, Beat, FailRun, DeadLetter
        <3>2. worker.job \in Jobs
            BY <2>3, <1>b DEF ClaimDelivery, Beat, Beating, FailRun, DeadLetter, At
        <3>3. Steady
            BY <2>3, <3>2, <1>a, SteadyStep, SteadyIfUnchanged
            DEF ClaimDelivery, Beat, FailRun, DeadLetter, storeVars
        <3>4. QED  BY <3>1, <3>3, <1>c
    <2>4. QED  BY <1>4, <2>1, <2>2, <2>3 DEF WorkerNext, Proceed
<1>5. CASE Restart
    <2>1. UNCHANGED <<job, pending, document, originals, overlapped>>
        BY <1>5 DEF Restart
    <2>2. \A q \in Requests : \/ request'[q] = Closed
                              \/ request[q].phase = "idle" /\ request'[q] = NewRequest
        BY <1>5 DEF Restart
    <2>3. QED  BY <2>1, <2>2, SteadyIfUnchanged, IntakeCalm
<1>6. QED  BY <1>1, <1>2, <1>3, <1>4, <1>5 DEF Next

-----------------------------------------------------------------------------
(* The theorems.                                                           *)

LEMMA LocalInitInv == Init => LocalInv
<1> SUFFICES ASSUME Init PROVE LocalInv
    OBVIOUS
<1> USE DEF Init
<1>1. StoreInv
    BY StoreInitInv
<1>2. LocalTypeOK
    BY LocalBounds DEF LocalTypeOK, NoRow, DocumentRows, DocumentStatuses, NewRequest,
           RequestRows, RequestPhases, IdleWorker, WorkerRows, WorkerPhases, RefStatuses
<1>3. \A j \in Jobs : j # None /\ job[j].status = "absent"
    BY JobsAreNumbered DEF Requests, None, StoreInit
<1>4. Range(queue) = {} /\ Range(NoRow.runs) = {}
    BY DEF Range, NoRow
<1>5. MemoryInv
    BY <1>3, <1>4 DEF MemoryInv, WorkerHasJob, MemoryFollows, PublishedHeld, RefsFollow, At,
           IdleWorker
<1>6. \A d \in Requests : document[d] = NoRow /\ ~ Exists(d)
    BY DEF Exists, NoRow
<1>7. IntakeInv
    BY <1>3, <1>4, <1>6, JobsAreNumbered DEF IntakeInv, RequestsFit, IntakeComplete,
           InvoiceAccount, NewRequest, NoRow
<1>8. QED  BY <1>1, <1>2, <1>5, <1>7 DEF LocalInv

LEMMA LocalStepInv == LocalInv /\ [Next]_vars => LocalInv'
<1> SUFFICES ASSUME LocalInv, [Next]_vars PROVE LocalInv'
    OBVIOUS
<1> USE DEF LocalInv
<1>1. WorkerHasJob /\ RequestsFit
    BY DEF MemoryInv, IntakeInv
<1>2. StoreInv'
    BY <1>1, StepOnStore, StoreStepInv, StoreKept
<1>3. QED
    BY <1>1, <1>2, LocalTypeStep, MemoryStep, IntakeStep

\* Tables, memory and requests of the process fit together after every step,
\* whatever faults occur and however often it restarts.
THEOREM LocalInvariant == Spec => []LocalInv
<1>1. QED  BY LocalInitInv, LocalStepInv, PTL DEF Spec

\* Rows, requests, queue and references have their types.
THEOREM LocalTypes == Spec => []LocalTypeOK
<1>1. LocalInv => LocalTypeOK
    BY DEF LocalInv
<1>2. QED  BY <1>1, LocalInvariant, PTL

\* One document per content, each with its original and, where there is a
\* workflow, with runs of its own.
THEOREM UploadsComplete == Spec => []IntakeComplete
<1>1. LocalInv => IntakeComplete
    BY DEF LocalInv, IntakeInv
<1>2. QED  BY <1>1, LocalInvariant, PTL

\* An open job is held by an event, the memory, its execution or its lease,
\* unless a restart or a failed claim dropped its delivery.
THEOREM DeliveriesAreHeld == Spec => []DeliveriesHeld
<1>1. ASSUME LocalInv PROVE DeliveriesHeld
    <2> SUFFICES ASSUME NEW j \in Jobs, Open(j) PROVE Held(j) \/ j \in dropped
        BY DEF DeliveriesHeld
    <2>1. job[j].status \in {"queued", "published", "running", "lost"}
        BY <1>1 DEF LocalInv, StoreInv, TypeOK, JobRows, JobStatus, MemoryInv, MemoryFollows,
               Open, TerminalJobStatuses
    <2>2. CASE job[j].status \in {"queued", "lost"}
        BY <1>1, <2>2 DEF LocalInv, StoreInv, StagedHasEvent, Held
    <2>3. CASE job[j].status = "running"
        BY <1>1, <2>3 DEF LocalInv, StoreInv, RunningIsHeld, Held
    <2>4. CASE job[j].status = "published"
        BY <1>1, <2>4 DEF LocalInv, MemoryInv, PublishedHeld, Held
    <2>5. QED  BY <2>1, <2>2, <2>3, <2>4
<1>2. QED  BY <1>1, LocalInvariant, PTL

\* The JobRefs of the process tell what the durable jobs do.
THEOREM RefsAreTrue == Spec => []RefsFollow
<1>1. LocalInv => RefsFollow
    BY DEF LocalInv, MemoryInv
<1>2. QED  BY <1>1, LocalInvariant, PTL

\* Only a reprocess request that overlaps with an earlier run makes a second
\* invoice of a document.
THEOREM OneInvoice == Spec => []SecondInvoiceExplained
<1>1. ASSUME LocalInv PROVE SecondInvoiceExplained
    <2>1. \A d \in Requests : document[d].invoices \in Nat
        BY <1>1 DEF LocalInv, LocalTypeOK, DocumentRows
    <2>2. QED
        BY <1>1, <2>1 DEF LocalInv, IntakeInv, InvoiceAccount, SecondInvoiceExplained
<1>2. QED  BY <1>1, LocalInvariant, PTL

\* A document with an invoice shows that it waits for review, with the same
\* exception.
THEOREM InvoicesAreShown == Spec => []InvoiceIsShown
<1>1. LocalInv => InvoiceIsShown
    BY DEF LocalInv, IntakeInv, InvoiceAccount, InvoiceIsShown
<1>2. QED  BY <1>1, LocalInvariant, PTL

\* The promises of the durable store hold in the in-process deployment too.
THEOREM StoreHoldsLocally == Spec => [](MaterializedOnce /\ RunAgrees /\ StagedHasEvent)
<1>1. LocalInv => MaterializedOnce /\ RunAgrees /\ StagedHasEvent
    BY DEF LocalInv, StoreInv
<1>2. QED  BY <1>1, LocalInvariant, PTL
=============================================================================
