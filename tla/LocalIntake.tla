---------------------------- MODULE LocalIntake ----------------------------
(***************************************************************************)
(* Document intake and the in-process deployment: the upload and reprocess *)
(* requests of routers/documents.py and services/document_ingestion.py,    *)
(* the publisher of workflows/triggers.py, and the FastAPI process of      *)
(* main.py that runs the outbox dispatcher and the asyncio worker of       *)
(* jobs/in_process.py over the durable store of WorkflowJobs.              *)
(*                                                                         *)
(* Requests are numbered in the order they arrive, and a document and a    *)
(* job have the number of the request that creates them.  Everything but   *)
(* the database and the stored originals lives in the memory of one        *)
(* process and is gone when it restarts.  Actions are what runs between    *)
(* two awaits that matter; a JobRef is written in the same continuation as *)
(* the transaction it follows.  Faults, restarts among them, are bounded   *)
(* by MaxFaults.                                                           *)
(***************************************************************************)
EXTENDS WorkflowJobs, SequencesExt

CONSTANTS MaxRequests,   \* bound on the uploads and reprocess requests
          Files,         \* what may be uploaded: [content, type]
          LocalWorker,   \* "in-process-worker"
          NoFile,
          FaultKinds, MaxFaults,
          MaxCancels     \* bound on the cancel requests

Requests == 1..MaxRequests
None == 0

ASSUME JobsAreNumbered == MaxRequests \in Nat /\ Jobs = Requests
ASSUME LocalWorkerOnly == WorkerIds = {LocalWorker}
ASSUME LocalBounds == MaxFaults \in Nat /\ MaxCancels \in Nat /\ NoFile \notin Files

VARIABLES
    document,    \* [Requests -> [file, status, runs, invoices]]: runs in the order
                 \*  of created_at, invoices the number of invoice rows
    originals,   \* documents whose original is in the document storage
    request,     \* [Requests -> [phase, file, target, seen]]
    queue,       \* the asyncio.Queue of accepted commands
    ref,         \* [Jobs -> status of the JobRef, or "none"]
    worker,      \* the asyncio worker task: [phase, job, beats]
    toCancel,    \* cancelled jobs whose JobRef is not cancelled yet
    dropped,     \* jobs a restart or a failed claim took a delivery from (history)
    skipped,     \* jobs skipped under the lease of an execution that is gone (history)
    overlapped,  \* documents reprocessed while an earlier run was open or had
                 \*  made an invoice (history)
    faults, cancels

intakeVars == <<document, originals, request, overlapped>>
historyVars == <<dropped, skipped>>
processVars == <<queue, ref, worker, toCancel, historyVars>>
boundVars == <<faults, cancels>>
vars == <<storeVars, intakeVars, processVars, boundVars>>

DocumentStatuses == {"absent", "accepted", "review_required"}
RequestPhases == {"idle", "stored", "read", "closed"}
RefStatuses == {"none", "queued", "running", "succeeded", "failed", "cancelled"}

\* received: the JobRef is RUNNING and the job not claimed; failing: the
\* executor has rolled back; raised: an exception reached execute_local_job.
WorkerPhases == {"idle", "received", "executing", "failing", "raised", "finishing"}

NoRow == [file |-> NoFile, status |-> "absent", runs |-> <<>>, invoices |-> 0]
NewRequest == [phase |-> "idle", file |-> NoFile, target |-> None, seen |-> "absent"]
IdleWorker == [phase |-> "idle", job |-> None, beats |-> "off"]

Init ==
    /\ StoreInit
    /\ document = [d \in Requests |-> NoRow]
    /\ originals = {}
    /\ request = [q \in Requests |-> NewRequest]
    /\ queue = <<>>
    /\ ref = [j \in Jobs |-> "none"]
    /\ worker = IdleWorker
    /\ toCancel = {} /\ dropped = {} /\ skipped = {} /\ overlapped = {}
    /\ faults = 0 /\ cancels = 0

Fault(kind) ==
    /\ kind \in FaultKinds
    /\ faults < MaxFaults
    /\ faults' = faults + 1
    /\ UNCHANGED cancels

Exists(d) == document[d].status # "absent"

DocumentOf(j) == CHOOSE d \in Requests : j \in Range(document[d].runs)

\* The types that have a workflow.
Processable(file) == file.type \in {"invoice", "bank_statement"}

\* The next request to arrive.
Arrives(q) ==
    /\ request[q].phase = "idle"
    /\ \A p \in Requests : p < q => request[p].phase # "idle"

Closed == [NewRequest EXCEPT !.phase = "closed"]

Close(q) == request' = [request EXCEPT ![q] = Closed]

-----------------------------------------------------------------------------
(* Upload.                                                                 *)

Duplicate(content) == \E d \in Requests : Exists(d) /\ document[d].file.content = content

\* DuplicateDocumentError (409).
RefuseDuplicate(q, file) ==
    /\ Arrives(q)
    /\ Duplicate(file.content)
    /\ Close(q)
    /\ UNCHANGED <<storeVars, document, originals, overlapped, processVars, boundVars>>

\* Valid, not a duplicate so far, scanned; the original is stored before anything
\* is committed.
BeginUpload(q, file) ==
    /\ Arrives(q)
    /\ ~ Duplicate(file.content)
    /\ request' = [request EXCEPT ![q] = [@ EXCEPT !.phase = "stored", !.file = file]]
    /\ originals' = originals \cup {q}
    /\ UNCHANGED <<storeVars, document, overlapped, processVars, boundVars>>

StorageError(q, file) ==
    /\ Arrives(q)
    /\ ~ Duplicate(file.content)
    /\ Fault("storage_error")
    /\ Close(q)
    /\ UNCHANGED <<storeVars, document, originals, overlapped, processVars>>

\* Mutant of CommitUpload: the unique constraint on tenant and hash is missing.
CommitUploadAnyway(q) ==
    LET row == [NoRow EXCEPT !.file = request[q].file, !.status = "accepted"]
    IN  /\ request[q].phase = "stored"
        /\ IF Processable(request[q].file)
           THEN /\ Submit(q)
                /\ document' = [document EXCEPT ![q] = [row EXCEPT !.runs = <<q>>]]
           ELSE document' = [document EXCEPT ![q] = row] /\ UNCHANGED storeVars
        /\ Close(q)
        /\ UNCHANGED <<originals, overlapped, processVars, boundVars>>

\* The document is committed together with the run, the job and the outbox event
\* that publish_document_ingested stages.
CommitUpload(q) ==
    LET row == [NoRow EXCEPT !.file = request[q].file, !.status = "accepted"]
    IN  /\ request[q].phase = "stored"
        /\ ~ Duplicate(request[q].file.content)
        /\ IF Processable(request[q].file)
           THEN /\ Submit(q)
                /\ document' = [document EXCEPT ![q] = [row EXCEPT !.runs = <<q>>]]
           ELSE document' = [document EXCEPT ![q] = row] /\ UNCHANGED storeVars
        /\ Close(q)
        /\ UNCHANGED <<originals, overlapped, processVars, boundVars>>

\* uq_documents_tenant_hash refuses the later of two uploads; its original stays.
LoseUpload(q) ==
    /\ request[q].phase = "stored"
    /\ Duplicate(request[q].file.content)
    /\ Close(q)
    /\ UNCHANGED <<storeVars, document, originals, overlapped, processVars, boundVars>>

-----------------------------------------------------------------------------
(* Reprocessing.                                                           *)

FailedRunStatuses == {"failed", "dead_lettered", "lost"}

\* Nothing in the program writes the document status FAILED, so the newest run
\* alone decides.
Reprocessable(d) ==
    /\ Exists(d)
    /\ document[d].invoices = 0
    /\ document[d].runs # <<>>
    /\ run[Last(document[d].runs)].status \in FailedRunStatuses

BeginReprocess(q, d) ==
    /\ Arrives(q)
    /\ Reprocessable(d)
    /\ request' = [request EXCEPT ![q] = [@ EXCEPT !.phase = "read", !.target = d,
                                                   !.seen = document[d].status]]
    /\ UNCHANGED <<storeVars, document, originals, overlapped, processVars, boundVars>>

\* An earlier run of the document can still make, or has made, an invoice.
Unfinished(d) ==
    \/ document[d].invoices > 0
    \/ \E j \in Range(document[d].runs) : Open(j)

\* The commit asks nothing again.  A status that was read as accepted is not
\* written: the session sees no change.
CommitReprocess(q) ==
    LET d == request[q].target
    IN  /\ request[q].phase = "read"
        /\ Submit(q)
        /\ document' = [document EXCEPT
             ![d].runs = Append(@, q),
             ![d].status = IF request[q].seen = "accepted" THEN @ ELSE "accepted"]
        /\ overlapped' = overlapped \cup (IF Unfinished(d) THEN {d} ELSE {})
        /\ Close(q)
        /\ UNCHANGED <<originals, processVars, boundVars>>

-----------------------------------------------------------------------------
(* The dispatcher and the queue.                                           *)

\* Mutant of Enqueued: a job that is being handled keeps its JobRef and gets no
\* second delivery.
EnqueuedUnlessRunning(j) ==
    /\ queue' = IF ref[j] = "running" THEN queue ELSE Append(queue, j)
    /\ ref' = IF ref[j] = "running" THEN ref ELSE [ref EXCEPT ![j] = "queued"]
    /\ UNCHANGED <<worker, toCancel, historyVars>>

\* enqueue replaces the JobRef, whatever it was.
Enqueued(j) ==
    /\ queue' = Append(queue, j)
    /\ ref' = [ref EXCEPT ![j] = "queued"]
    /\ UNCHANGED <<worker, toCancel, historyVars>>

Dispatch(j) ==
    /\ PublishCommit(j)
    /\ Enqueued(j)
    /\ UNCHANGED <<intakeVars, boundVars>>

\* The command is in the queue and the commit of the statuses fails.
DispatchUncommitted(j) ==
    /\ pending[j] > 0 /\ Open(j)
    /\ Fault("dispatch_error")
    /\ Enqueued(j)
    /\ UNCHANGED <<storeVars, intakeVars>>

Discard(j) == DiscardEvent(j) /\ UNCHANGED <<intakeVars, processVars, boundVars>>

Recover(j) ==
    /\ RecoverExhausted(j) \/ RecoverLost(j)
    /\ UNCHANGED <<intakeVars, processVars, boundVars>>

-----------------------------------------------------------------------------
(* The worker task.                                                        *)

At(phase) == worker.phase = phase

WorkerTo(phase) == worker' = [worker EXCEPT !.phase = phase]

\* The heartbeat task runs until the executor is done with the job.
Beating == worker.phase \in {"executing", "failing"} /\ worker.beats = "on"

\* Mutant of Ended: the JobRef takes the status the job had.
EndedAsStored(status) ==
    /\ worker' = IdleWorker
    /\ ref' = [ref EXCEPT ![worker.job] = IF @ = "running" THEN job[worker.job].status ELSE @]
    /\ UNCHANGED <<queue, toCancel>>

\* The end of a delivery: a JobRef that is still RUNNING is closed.
Ended(status) ==
    /\ worker' = IdleWorker
    /\ ref' = [ref EXCEPT ![worker.job] = IF @ = "running" THEN status ELSE @]
    /\ UNCHANGED <<queue, toCancel>>

\* _run_worker takes the next command; one that was cancelled is passed over.
Take ==
    /\ At("idle")
    /\ queue # <<>>
    /\ queue' = Tail(queue)
    /\ IF ref[Head(queue)] = "cancelled"
       THEN UNCHANGED <<worker, ref>>
       ELSE /\ worker' = [phase |-> "received", job |-> Head(queue), beats |-> "off"]
            /\ ref' = [ref EXCEPT ![Head(queue)] = "running"]
    /\ UNCHANGED <<storeVars, intakeVars, toCancel, historyVars, boundVars>>

ClaimDelivery ==
    /\ At("received")
    /\ Claim(worker.job, LocalWorker)
    /\ IF run[worker.job].status \in TerminalSuccess
       THEN Ended("succeeded")
       ELSE /\ worker' = [worker EXCEPT !.phase = "executing", !.beats = "on"]
            /\ UNCHANGED <<queue, ref, toCancel>>
    /\ UNCHANGED <<intakeVars, historyVars, boundVars>>

\* A closed job, or one under an unexpired lease, is skipped without an error.
SkipDelivery ==
    /\ At("received")
    /\ ~ Claimable(worker.job)
    /\ Ended("succeeded")
    /\ skipped' = skipped \cup {j \in {worker.job} : Open(j)}
    /\ UNCHANGED <<storeVars, intakeVars, dropped, boundVars>>

\* The claim raises, as an execution does: the job is dead-lettered if it runs under
\* the name that all deliveries of the process share, and nobody delivers it again.
ClaimError ==
    /\ At("received")
    /\ Fault("claim_error")
    /\ WorkerTo("raised")
    /\ dropped' = dropped \cup {worker.job}
    /\ UNCHANGED <<storeVars, intakeVars, queue, ref, toCancel, skipped>>

Beat ==
    /\ Beating
    /\ Heartbeat(worker.job, LocalWorker)
    /\ UNCHANGED <<intakeVars, processVars, boundVars>>

BeatStops ==
    /\ Beating
    /\ ~ Owns(worker.job, LocalWorker)
    /\ worker' = [worker EXCEPT !.beats = "off"]
    /\ UNCHANGED <<storeVars, intakeVars, queue, ref, toCancel, historyVars, boundVars>>

\* The heartbeat raises, which the end of the execution raises again.
BeatError ==
    /\ Beating
    /\ Fault("beat_error")
    /\ worker' = [worker EXCEPT !.beats = "broken"]
    /\ UNCHANGED <<storeVars, intakeVars, queue, ref, toCancel, historyVars>>

\* What a workflow may end with: a run that is dead-lettered or completed has an
\* assembled draft; a bank statement only completes.
Results(file) ==
    IF file.type = "bank_statement" THEN {[outcome |-> "completed", draft |-> FALSE]}
    ELSE {[outcome |-> o, draft |-> TRUE] : o \in Outcomes}
         \cup {[outcome |-> o, draft |-> FALSE] : o \in {"failed", "review_required"}}

\* Mutant of Materialized: only a run that asks for review moves the document.
MaterializedQuietly(row, result) ==
    [row EXCEPT
       !.invoices = IF result.draft THEN @ + 1 ELSE @,
       !.status = IF result.outcome \in {"failed", "review_required"}
                  THEN "review_required" ELSE @]

\* persist_invoice_review_from_workflow_result: an invoice with its review task,
\* or for a failure a review task on the document.
Materialized(row, result) ==
    [row EXCEPT
       !.invoices = IF result.draft THEN @ + 1 ELSE @,
       !.status = IF result.draft \/ result.outcome \in {"failed", "review_required"}
                  THEN "review_required" ELSE @]

Execute(result) ==
    LET d == DocumentOf(worker.job)
    IN  /\ At("executing")
        /\ result \in Results(document[d].file)
        /\ Complete(worker.job, LocalWorker, result.outcome)
        /\ document' = [document EXCEPT ![d] = Materialized(@, result)]
        /\ worker' = [worker EXCEPT !.beats = "off",
                         !.phase = IF worker.beats = "broken" THEN "raised" ELSE "finishing"]
        /\ UNCHANGED <<originals, request, overlapped, queue, ref, toCancel, historyVars,
                       boundVars>>

\* The fence refuses the output: rolled back like any other exception.
Fenced ==
    /\ At("executing")
    /\ ~ Fence(worker.job, LocalWorker)
    /\ WorkerTo("failing")
    /\ UNCHANGED <<storeVars, intakeVars, queue, ref, toCancel, historyVars, boundVars>>

ExecutionFails ==
    /\ At("executing")
    /\ WorkerTo("failing")
    /\ UNCHANGED <<storeVars, intakeVars, queue, ref, toCancel, historyVars, boundVars>>

\* The executor's _mark_failed does not ask whether the job is still its own.
FailRun ==
    /\ At("failing")
    /\ MarkRunFailed(worker.job)
    /\ worker' = [worker EXCEPT !.phase = "raised", !.beats = "off"]
    /\ UNCHANGED <<intakeVars, queue, ref, toCancel, historyVars, boundVars>>

FailRunError ==
    /\ At("failing")
    /\ Fault("mark_error")
    /\ worker' = [worker EXCEPT !.phase = "raised", !.beats = "off"]
    /\ UNCHANGED <<storeVars, intakeVars, queue, ref, toCancel, historyVars>>

\* execute_local_job never retries.
DeadLetter ==
    /\ At("raised")
    /\ IF Owns(worker.job, LocalWorker) THEN MarkDeadLettered(worker.job, LocalWorker)
                                        ELSE UNCHANGED storeVars
    /\ Ended("failed")
    /\ UNCHANGED <<intakeVars, historyVars, boundVars>>

DeadLetterError ==
    /\ At("raised")
    /\ Fault("mark_error")
    /\ Ended("failed")
    /\ UNCHANGED <<storeVars, intakeVars, historyVars>>

\* mark_succeeded leaves the job, which the execution has closed, alone.
Finish ==
    /\ At("finishing")
    /\ Ended("succeeded")
    /\ UNCHANGED <<storeVars, intakeVars, historyVars, boundVars>>

-----------------------------------------------------------------------------
(* Other requests, time, and the life of the process.                      *)

\* Mutant of BeginCancel: the JobRef is cancelled first.
BeginCancelInMemory(j) ==
    /\ ReadForCancel(j)
    /\ cancels < MaxCancels
    /\ cancels' = cancels + 1
    /\ ref' = [ref EXCEPT ![j] = IF @ = "queued" THEN "cancelled" ELSE @]
    /\ UNCHANGED <<intakeVars, queue, worker, toCancel, historyVars, faults>>

BeginCancel(j) ==
    /\ ReadForCancel(j)
    /\ cancels < MaxCancels
    /\ cancels' = cancels + 1
    /\ UNCHANGED <<intakeVars, processVars, faults>>

EndCancel(j) ==
    /\ \/ Cancel(j) /\ toCancel' = toCancel \cup {j}
       \/ RefuseCancel(j) /\ UNCHANGED toCancel
    /\ UNCHANGED <<intakeVars, queue, ref, worker, historyVars, boundVars>>

\* cancel_for_workflow_run after the commit: only a QUEUED JobRef.
CancelRef(j) ==
    /\ j \in toCancel
    /\ toCancel' = toCancel \ {j}
    /\ ref' = [ref EXCEPT ![j] = IF @ = "queued" THEN "cancelled" ELSE @]
    /\ UNCHANGED <<storeVars, intakeVars, queue, worker, historyVars, boundVars>>

OperatorRequeue(j) ==
    /\ Requeue(j)
    /\ Fault("requeue")
    /\ UNCHANGED <<intakeVars, processVars>>

\* The heartbeat shares the event loop with the execution and may be late.
TimePasses(j) == LeaseTick(j) /\ UNCHANGED <<intakeVars, processVars, boundVars>>

\* Commands in memory: queued, or taken and not claimed.
InMemory(j) == j \in Range(queue) \/ (At("received") /\ worker.job = j)

\* A stop cancels the worker task where it awaits; a crash does the same.
Restart ==
    /\ Fault("restart")
    /\ queue' = <<>>
    /\ ref' = [j \in Jobs |-> "none"]
    /\ worker' = IdleWorker
    /\ toCancel' = {}
    /\ dropped' = dropped \cup {j \in Jobs : InMemory(j)}
    /\ request' = [q \in Requests |->
                     IF request[q].phase = "idle" THEN NewRequest ELSE Closed]
    /\ cancelReads' = {}
    /\ UNCHANGED <<job, run, pending, outputs, document, originals, overlapped, skipped>>

-----------------------------------------------------------------------------
\* What the worker task does without a fault.
Proceed ==
    \/ Take
    \/ ClaimDelivery
    \/ SkipDelivery
    \/ \E result \in [outcome : Outcomes, draft : BOOLEAN] : Execute(result)
    \/ Fenced
    \/ ExecutionFails
    \/ FailRun
    \/ DeadLetter
    \/ Finish

WorkerNext ==
    \/ Proceed
    \/ Beat
    \/ BeatStops
    \/ BeatError
    \/ ClaimError
    \/ FailRunError
    \/ DeadLetterError

RequestNext(q) ==
    \/ \E file \in Files :
         RefuseDuplicate(q, file) \/ BeginUpload(q, file) \/ StorageError(q, file)
    \/ CommitUpload(q)
    \/ LoseUpload(q)
    \/ \E d \in Requests : BeginReprocess(q, d)
    \/ CommitReprocess(q)

JobNext(j) ==
    \/ Dispatch(j)
    \/ DispatchUncommitted(j)
    \/ Discard(j)
    \/ Recover(j)
    \/ BeginCancel(j)
    \/ EndCancel(j)
    \/ CancelRef(j)
    \/ OperatorRequeue(j)
    \/ TimePasses(j)

Next ==
    \/ WorkerNext
    \/ \E q \in Requests : RequestNext(q)
    \/ \E j \in Jobs : JobNext(j)
    \/ Restart

Spec == Init /\ [][Next]_vars

\* The worker task and the dispatcher's loop are resumed by the event loop, and
\* time passes.  Clients, operators and faults are not obliged to do anything.
FairSpec ==
    /\ Spec
    /\ WF_vars(Proceed)
    /\ \A j \in Jobs : WF_vars(Dispatch(j)) /\ WF_vars(Recover(j))
                       /\ WF_vars(TimePasses(j))

-----------------------------------------------------------------------------
(* Properties.                                                             *)

DocumentRows == [file : Files \cup {NoFile}, status : DocumentStatuses,
                 runs : Seq(Jobs), invoices : Nat]

RequestRows == [phase : RequestPhases, file : Files \cup {NoFile},
                target : Requests \cup {None}, seen : DocumentStatuses]

WorkerRows == [phase : WorkerPhases, job : Jobs \cup {None},
               beats : {"off", "on", "broken"}]

LocalTypeOK ==
    /\ document \in [Requests -> DocumentRows]
    /\ originals \subseteq Requests
    /\ request \in [Requests -> RequestRows]
    /\ queue \in Seq(Jobs)
    /\ ref \in [Jobs -> RefStatuses]
    /\ worker \in WorkerRows
    /\ toCancel \subseteq Jobs /\ dropped \subseteq Jobs /\ skipped \subseteq Jobs
    /\ overlapped \subseteq Requests
    /\ faults \in 0..MaxFaults /\ cancels \in 0..MaxCancels

\* However uploads of the same content, storage errors and restarts interleave:
\* one document per content, none without its original, and every document of a
\* type with a workflow has a run, which belongs to it alone.
IntakeComplete ==
    /\ \A d, e \in Requests : Exists(d) /\ Exists(e) /\ d # e =>
         /\ document[d].file.content # document[e].file.content
         /\ Range(document[d].runs) \cap Range(document[e].runs) = {}
    /\ \A d \in Requests : Exists(d) =>
         /\ d \in originals
         /\ Processable(document[d].file) <=> document[d].runs # <<>>
    /\ \A j \in Jobs : job[j].status # "absent" <=>
         \E d \in Requests : j \in Range(document[d].runs)

\* Something still delivers the job or closes it: an event, the memory of the
\* process, the execution, or the expiry of its lease.
Held(j) ==
    \/ pending[j] > 0
    \/ InMemory(j)
    \/ job[j].status = "running" /\ job[j].lease # "none"

\* "durable job": an accepted job is never left lying, unless its command was in
\* memory when the process restarted (recovery looks at RUNNING jobs alone) or
\* its claim raised.
DeliveriesHeld == \A j \in Jobs : Open(j) => Held(j) \/ j \in dropped

\* The JobRefs of the process follow the durable jobs: RUNNING names the job the
\* worker has, QUEUED one that is in the queue, CANCELLED a cancelled job.  A job
\* that shows as SUCCEEDED is closed, unless it was skipped under the lease of an
\* execution that the process had lost (recovery then takes it up again).
RefsFollow == \A j \in Jobs :
    /\ ref[j] = "running" => ~ At("idle") /\ worker.job = j
    /\ ref[j] = "queued" => j \in Range(queue)
    /\ ref[j] = "cancelled" => job[j].status = "cancelled"
    /\ ref[j] = "succeeded" => ~ Open(j) \/ j \in skipped

\* Reprocessing makes a second invoice of a document only where it overlapped
\* with an earlier run: once every run is closed without an invoice, none of them
\* makes one later, and the next run makes at most one.
SecondInvoiceExplained == \A d \in Requests :
    document[d].invoices > 1 => d \in overlapped

\* A document that shows no review has no invoice that waits for one, unless a
\* reprocess request overlapped with the run that made it.
InvoiceIsShown == \A d \in Requests :
    document[d].invoices > 0 /\ d \notin overlapped => document[d].status = "review_required"

\* Every accepted job is closed in the end, through lost leases and faults,
\* except where its delivery was dropped.
Settles == \A j \in Jobs : Open(j) ~> (~ Open(j) \/ j \in dropped)
=============================================================================
