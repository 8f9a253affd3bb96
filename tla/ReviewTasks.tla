---------------------------- MODULE ReviewTasks ----------------------------
(***************************************************************************)
(* Human review of extracted records: app/services/review_tasks.py with    *)
(* the continuation it triggers (post_extraction.py) and the version rules *)
(* (review/versioning.py).  A workflow run or a bank import leaves records *)
(* and open review tasks; a reviewer's request decides or corrects the     *)
(* record a task points at.                                                *)
(*                                                                         *)
(* A request reads the task, then reads the record, may wait for a         *)
(* language model, and writes everything in one commit.  No row is locked  *)
(* and none carries a version counter for the database to compare, so the  *)
(* commits of other requests may fall between any two of these steps, and  *)
(* an UPDATE writes the columns whose value this request changed, over     *)
(* whatever is there.  `contended` remembers the tasks on which two        *)
(* requests were under way at once: the code promises less for those.      *)
(***************************************************************************)
EXTENDS Naturals, Sequences, FiniteSets

CONSTANTS Reviewers,      \* slots for requests in flight
          MaxDocuments,   \* bound: workflow results materialized
          MaxImports,     \* bound: matches committed by bank imports
          MaxDecisions    \* bound: no request starts after that many commits

ASSUME BoundsAssumption == MaxDocuments \in Nat /\ MaxImports \in Nat

VARIABLES
    rec,        \* rows of invoices, classification_proposals, reconciliations
    task,       \* rows of review_tasks
    audit,      \* rows of audit_events, in the order of their commits
    req,        \* [Reviewers -> request in flight]
    importing,  \* invoice the bank import matched and has not committed, or 0
    documents,  \* workflow results materialized (bound)
    imports,    \* matches committed (bound)
    contended   \* tasks that had two requests in flight at once (history)

vars == <<rec, task, audit, req, importing, documents, imports, contended>>

Kinds == {"invoice", "classification", "reconciliation"}
Undecided == {"pending_review", "proposed", "extracted"}
Status == Undecided \cup {"approved", "rejected", "superseded"}
Decisions == {"approve", "reject"}
Corrections == {"correct_extraction", "correct_classification",
                "correct_reconciliation"}

\* A row: about is the invoice a proposal concerns (0 for an invoice),
\* supersedes the row it replaces (0 for a first version).
Row(kind, status, about, origin) ==
    [kind |-> kind, status |-> status, version |-> 1, supersedes |-> 0,
     about |-> about, origin |-> origin]

\* A task; target 0 is a task about a document, not about a record.
OpenTask(type, target) == [type |-> type, target |-> target, status |-> "open"]

Idle == [phase |-> "idle", task |-> 0, action |-> "approve", target |-> 0,
         seen |-> "proposed"]

Init ==
    /\ rec = <<>>
    /\ task = <<>>
    /\ audit = <<>>
    /\ req = [r \in Reviewers |-> Idle]
    /\ importing = 0
    /\ documents = 0
    /\ imports = 0
    /\ contended = {}

-----------------------------------------------------------------------------
(* Where records and tasks come from.                                      *)

\* A workflow result with a draft: the invoice, its review task and, when the
\* run got that far, a proposed classification and a proposed reconciliation.
MaterializeInvoice ==
    /\ documents < MaxDocuments
    /\ \E proposals \in {<<>>, <<"classification">>,
                          <<"classification", "reconciliation">>} :
         rec' = Append(rec, Row("invoice", "pending_review", 0, "workflow"))
                \o [k \in DOMAIN proposals |->
                      Row(proposals[k], "proposed", Len(rec) + 1, "workflow")]
    /\ task' = Append(task, OpenTask("extraction", Len(rec) + 1))
    /\ documents' = documents + 1
    /\ UNCHANGED <<audit, req, importing, imports, contended>>

\* A failed or stopped run without a draft: a task about the document only.
MaterializeFailure ==
    /\ documents < MaxDocuments
    /\ task' = Append(task, OpenTask("extraction", 0))
    /\ documents' = documents + 1
    /\ UNCHANGED <<rec, audit, req, importing, imports, contended>>

\* A statement import reads the invoices that are neither rejected nor
\* superseded and scores them against its transactions; it finds one it has
\* no allocation for yet (a second match is another transaction's) ...
ImportReads(i) ==
    /\ importing = 0 /\ imports < MaxImports
    /\ rec[i].kind = "invoice" /\ rec[i].status \notin {"rejected", "superseded"}
    /\ importing' = i
    /\ UNCHANGED <<rec, task, audit, req, documents, imports, contended>>

\* ... and commits the match, with a task when it is not a sure one.
ImportCommits(sure) ==
    /\ importing # 0
    /\ rec' = Append(rec, Row("reconciliation",
                              IF sure THEN "proposed" ELSE "pending_review",
                              importing, "import"))
    /\ task' = IF sure THEN task
                       ELSE Append(task, OpenTask("reconciliation", Len(rec) + 1))
    /\ importing' = 0
    /\ imports' = imports + 1
    /\ UNCHANGED <<audit, req, documents, contended>>

-----------------------------------------------------------------------------
(* A reviewer's request.                                                   *)

\* Mutant of Actionable: the status of the task is not looked at.
AnyActionable(t) == TRUE

Actionable(t) == task[t].status = "open"
InFlight(t) == {r \in Reviewers : req[r].phase # "idle" /\ req[r].task = t}

\* The task is read; one that is resolved, or about no record, is refused.
ReadTask(r, t, a) ==
    /\ req[r].phase = "idle" /\ Len(audit) < MaxDecisions
    /\ Actionable(t)
    /\ task[t].target # 0
    /\ req' = [req EXCEPT ![r] = [phase |-> "read", task |-> t, action |-> a,
                                  target |-> task[t].target, seen |-> "proposed"]]
    /\ contended' = IF InFlight(t) = {} THEN contended ELSE contended \cup {t}
    /\ UNCHANGED <<rec, task, audit, importing, documents, imports>>

\* A correction must fit the record's kind and may not replace a record that
\* is already replaced; approve and reject ask nothing of the record.
Corrects(a, kind) == \/ a = "correct_extraction" /\ kind = "invoice"
                     \/ a = "correct_classification" /\ kind = "classification"
                     \/ a = "correct_reconciliation" /\ kind = "reconciliation"

Admissible(a, row) == a \in Corrections =>
                        Corrects(a, row.kind) /\ row.status # "superseded"

\* The record is read, and the decision applied to the object in memory.
ReadRecord(r) ==
    /\ req[r].phase = "read"
    /\ Admissible(req[r].action, rec[req[r].target])
    /\ req' = [req EXCEPT ![r].phase = "loaded",
                          ![r].seen = rec[req[r].target].status]
    /\ UNCHANGED <<rec, task, audit, importing, documents, imports, contended>>

\* A request ends without a commit: refused by Admissible, fields that cannot
\* be corrected, a failing model, a lost connection.
GiveUp(r) ==
    /\ req[r].phase # "idle"
    /\ req' = [req EXCEPT ![r] = Idle]
    /\ UNCHANGED <<rec, task, audit, importing, documents, imports, contended>>

-----------------------------------------------------------------------------
(* What a commit writes.                                                   *)

\* The UPDATE of a status column: none when the value read is the new one.
Written(i, seen, new) ==
    IF seen = new THEN rec ELSE [rec EXCEPT ![i].status = new]

Verdict(a) == IF a = "approve" THEN "approved" ELSE "rejected"

\* Mutants of Continues: the record is not asked for its kind; any action on an
\* invoice continues, rejecting it too.
ContinuesAnyKind(q, kind) == q.action \in {"approve", "correct_extraction"}
ContinuesRejected(q, kind) == kind = "invoice" /\ task[q.task].type = "extraction"

\* Approving or correcting an extraction publishes InvoiceApproved.
Continues(q, kind) == /\ kind = "invoice"
                      /\ task[q.task].type = "extraction"
                      /\ q.action \in {"approve", "correct_extraction"}

\* What the continuation adds for an invoice: a classification, a
\* reconciliation without a transaction, and a task when the classification
\* has low confidence; n is the number of rows before it.
FollowUps(invoice, low) ==
    << Row("classification", IF low THEN "pending_review" ELSE "proposed",
           invoice, "review"),
       Row("reconciliation", "proposed", invoice, "review") >>

\* Mutant of FollowUpTasks: the task points at the row before the new ones.
FollowUpTasksMispointed(n, low) ==
    IF low THEN <<OpenTask("classification", n)>> ELSE <<>>

FollowUpTasks(n, low) ==
    IF low THEN <<OpenTask("classification", n + 1)>> ELSE <<>>

\* Mutant of Replacement: the version is copied with the other columns.
ReplacementSameVersion(i) ==
    [rec[i] EXCEPT !.status = IF rec[i].kind = "invoice" THEN "extracted"
                                                         ELSE "proposed",
                   !.supersedes = i]

\* The new version of row i.
Replacement(i) ==
    [rec[i] EXCEPT !.status = IF rec[i].kind = "invoice" THEN "extracted"
                                                         ELSE "proposed",
                   !.version = @ + 1, !.supersedes = i]

Resolved(t) == [task EXCEPT ![t].status = "resolved"]
Corrected(t, i) == [task EXCEPT ![t].status = "resolved", ![t].target = i]

\* Mutant of Event: the status is taken before the decision is applied.
EventBefore(q, record, replaced, status) ==
    [task |-> q.task, action |-> q.action, record |-> record,
     replaced |-> replaced, status |-> q.seen]

Event(q, record, replaced, status) ==
    [task |-> q.task, action |-> q.action, record |-> record,
     replaced |-> replaced, status |-> status]

\* _decide: status of the record, continuation, task and audit event.
CommitDecision(r, low) ==
    LET q == req[r]
        continues == Continues(q, rec[q.target].kind) IN
    /\ q.phase = "loaded" /\ q.action \in Decisions
    /\ rec' = Written(q.target, q.seen, Verdict(q.action))
              \o (IF continues THEN FollowUps(q.target, low) ELSE <<>>)
    /\ task' = Resolved(q.task)
               \o (IF continues THEN FollowUpTasks(Len(rec), low) ELSE <<>>)
    /\ audit' = Append(audit, Event(q, q.target, 0, Verdict(q.action)))
    /\ req' = [req EXCEPT ![r] = Idle]
    /\ UNCHANGED <<importing, documents, imports, contended>>

\* _correct: the old version superseded, the new one added, the task pointed
\* at it, continuation and audit event.
CommitCorrection(r, low) ==
    LET q == req[r]
        new == Len(rec) + 1
        continues == Continues(q, rec[q.target].kind) IN
    /\ q.phase = "loaded" /\ q.action \in Corrections
    /\ rec' = Append(Written(q.target, q.seen, "superseded"),
                     Replacement(q.target))
              \o (IF continues THEN FollowUps(new, low) ELSE <<>>)
    /\ task' = Corrected(q.task, new)
               \o (IF continues THEN FollowUpTasks(new, low) ELSE <<>>)
    /\ audit' = Append(audit, Event(q, new, q.target, Replacement(q.target).status))
    /\ req' = [req EXCEPT ![r] = Idle]
    /\ UNCHANGED <<importing, documents, imports, contended>>

Next ==
    \/ MaterializeInvoice
    \/ MaterializeFailure
    \/ \E i \in DOMAIN rec : ImportReads(i)
    \/ \E sure \in BOOLEAN : ImportCommits(sure)
    \/ \E r \in Reviewers :
         \/ \E t \in DOMAIN task, a \in Decisions \cup Corrections : ReadTask(r, t, a)
         \/ ReadRecord(r)
         \/ GiveUp(r)
         \/ \E low \in BOOLEAN : CommitDecision(r, low) \/ CommitCorrection(r, low)

Spec == Init /\ [][Next]_vars

-----------------------------------------------------------------------------
(* Properties.                                                             *)

RowSet == [kind : Kinds, status : Status, version : Nat \ {0},
           supersedes : Nat, about : Nat,
           origin : {"workflow", "import", "review"}]
TaskSet == [type : {"extraction", "classification", "reconciliation"},
            target : Nat, status : {"open", "resolved"}]
RequestSet == [phase : {"idle", "read", "loaded"}, task : Nat,
               action : Decisions \cup Corrections, target : Nat, seen : Status]
EventSet == [task : Nat, action : Decisions \cup Corrections, record : Nat,
             replaced : Nat, status : Status]

\* Rows and requests are well formed, and every foreign key names a row of the
\* right table and kind.
ReviewTypeOK ==
    /\ rec \in Seq(RowSet) /\ task \in Seq(TaskSet) /\ audit \in Seq(EventSet)
    /\ req \in [Reviewers -> RequestSet]
    /\ importing \in DOMAIN rec \cup {0}
    /\ documents \in 0..MaxDocuments /\ imports \in 0..MaxImports
    /\ contended \subseteq DOMAIN task
    /\ \A i \in DOMAIN rec :
         /\ rec[i].supersedes < i
         /\ rec[i].kind # "invoice" =>
              rec[i].about \in DOMAIN rec /\ rec[rec[i].about].kind = "invoice"
    /\ \A t \in DOMAIN task : task[t].target \in DOMAIN rec \cup {0}

\* Events whose commit touched record i.
Touches(e, i) == e.record = i \/ e.replaced = i

\* A task is resolved exactly when some decision on it is on the audit trail
\* (docs/data_model.md, audit rule), however requests interleave.
ResolvedIsAudited ==
    \A t \in DOMAIN task :
        task[t].status = "resolved" <=> \E k \in DOMAIN audit : audit[k].task = t

\* An open task points at a record nobody has decided, so a reviewer who opens
\* it has something to decide; no two open tasks point at the same record.
OpenTargetsUndecided ==
    \A t \in DOMAIN task : task[t].status = "open" /\ task[t].target # 0 =>
        /\ rec[task[t].target].status \in Undecided
        /\ \A u \in DOMAIN task : task[u].target = task[t].target => u = t

\* A task is decided once, unless requests for it overlapped: the check that
\* it is open and the commit that resolves it are not one step.
DecidedOnce ==
    \A k, l \in DOMAIN audit :
        audit[k].task = audit[l].task => k = l \/ audit[k].task \in contended

\* Versions form chains: a superseded row has a next version of its kind,
\* and a row that has one is superseded and has no other, unless requests
\* for its task overlapped.
VersionsLinear ==
    /\ \A i \in DOMAIN rec : rec[i].status = "superseded" =>
         \E n \in DOMAIN rec : /\ rec[n].supersedes = i
                              /\ rec[n].kind = rec[i].kind
                              /\ rec[n].version = rec[i].version + 1
    /\ \A k \in DOMAIN audit : audit[k].replaced # 0 /\ audit[k].task \notin contended =>
         /\ rec[audit[k].replaced].status = "superseded"
         /\ \A n \in DOMAIN rec : rec[n].supersedes = audit[k].replaced
                                  => n = audit[k].record

\* The status of a row is what the last event about it says it became, unless
\* requests for that task overlapped; a row without events is undecided.
StatusExplained ==
    \A i \in DOMAIN rec :
        LET events == {k \in DOMAIN audit : Touches(audit[k], i)} IN
        \/ events = {} /\ rec[i].status \in Undecided
        \/ \E k \in events :
             /\ \A l \in events : l <= k
             /\ \/ audit[k].task \in contended
                \/ rec[i].status = IF audit[k].replaced = i THEN "superseded"
                                                            ELSE audit[k].status

\* Classifications the continuation added for an invoice row.
Continuations(i) == {n \in DOMAIN rec : /\ rec[n].kind = "classification"
                                        /\ rec[n].origin = "review"
                                        /\ rec[n].version = 1
                                        /\ rec[n].about = i}

\* The continuation ran for an invoice row once for each event that approved
\* it or created it as a correction, and for no other: none for rejected
\* invoices, none lost.
FollowUpsAudited ==
    \A i \in DOMAIN rec : rec[i].kind = "invoice" =>
        Cardinality(Continuations(i))
          = Cardinality({k \in DOMAIN audit : /\ audit[k].record = i
                                              /\ audit[k].action # "reject"})

\* The previous version of a correction is superseded, as docs/data_model.md
\* has it; the code keeps this only when requests do not overlap.
PreviousIsSuperseded ==
    \A n \in DOMAIN rec : rec[n].supersedes # 0 =>
        rec[rec[n].supersedes].status = "superseded"
=============================================================================
