-------------------------- MODULE ReviewHistoryProofs --------------------------
(***************************************************************************)
(* What the audit trail of human review explains: the status of every row, *)
(* the chains of versions, and the continuations that ran.  These follow   *)
(* from ReviewInv and from how requests, tasks and events keep out of one  *)
(* another's way (HistoryInv).  A step either creates rows that no event   *)
(* is about (CreatesStep), or is the commit of one request with its one    *)
(* event (SettlesStep), or leaves the tables alone.                        *)
(***************************************************************************)
EXTENDS ReviewTasksProofs, FiniteSetTheorems

\* Every event names rows that exist.
EventsNameRows == \A k \in DOMAIN audit :
    /\ audit[k].record \in DOMAIN rec
    /\ audit[k].replaced \in DOMAIN rec \cup {0}

\* A request without a rival has its task's record before it, undecided.
LoneTargets == \A r \in Reviewers :
    req[r].phase # "idle" /\ req[r].task \notin contended =>
        /\ task[req[r].task].target = req[r].target
        /\ req[r].phase = "loaded" => req[r].seen \in Undecided

\* No event is about the record of an open task.
OpenTargetsUntouched == \A u \in DOMAIN task : \A k \in DOMAIN audit :
    task[u].status = "open" /\ task[u].target # 0 => ~Touches(audit[k], task[u].target)

\* Requests about one record came by one task.
RequestsShareTasks == \A r, s \in Reviewers :
    req[r].phase # "idle" /\ req[s].phase # "idle" /\ req[r].target = req[s].target
        => req[r].task = req[s].task

\* A request about a record with an event came by that event's task.
RequestsFollowEvents == \A r \in Reviewers : \A k \in DOMAIN audit :
    req[r].phase # "idle" /\ Touches(audit[k], req[r].target)
        => audit[k].task = req[r].task

\* A row that supersedes another came with an event that says so.
VersionsAudited == \A n \in DOMAIN rec : rec[n].supersedes # 0 =>
    \E k \in DOMAIN audit : audit[k].replaced = rec[n].supersedes

\* An invoice is reviewed by an extraction task.
InvoiceTasks ==
    /\ \A u \in DOMAIN task :
         task[u].target # 0 /\ rec[task[u].target].kind = "invoice"
             => task[u].type = "extraction"
    /\ \A r \in Reviewers :
         req[r].phase # "idle" /\ rec[req[r].target].kind = "invoice"
             => task[req[r].task].type = "extraction"

\* A loaded correction fits the record's kind.
LoadedFits == \A r \in Reviewers :
    req[r].phase = "loaded" /\ req[r].action \in Corrections
        => Corrects(req[r].action, rec[req[r].target].kind)

HistoryInv ==
    /\ EventsNameRows
    /\ LoneTargets
    /\ OpenTargetsUntouched
    /\ RequestsShareTasks
    /\ RequestsFollowEvents
    /\ VersionsAudited
    /\ InvoiceTasks
    /\ LoadedFits

Explained ==
    /\ StatusExplained
    /\ VersionsLinear
    /\ FollowUpsAudited

-----------------------------------------------------------------------------
(* The shapes of the steps.                                                *)

\* The rows and the tasks a step adds.
NewRows == DOMAIN rec' \ DOMAIN rec
NewTasks == DOMAIN task' \ DOMAIN task

\* Row c of the step is a classification the continuation adds for the invoice.
NewContinuation(c, invoice) ==
    /\ rec'[c].kind = "classification" /\ rec'[c].origin = "review"
    /\ rec'[c].version = 1 /\ rec'[c].about = invoice

\* A step creates rows nobody has decided, none of them a continuation, and
\* tasks about them.
CreatesStep ==
    /\ audit' = audit /\ req' = req /\ contended' = contended
    /\ \A k \in DOMAIN rec : k \in DOMAIN rec' /\ rec'[k] = rec[k]
    /\ \A k \in NewRows : /\ rec'[k].supersedes = 0 /\ rec'[k].status \in Undecided
                          /\ rec'[k].origin # "review"
    /\ \A u \in DOMAIN task : u \in DOMAIN task' /\ task'[u] = task[u]
    /\ \A u \in NewTasks : task'[u].target # 0 =>
         /\ task'[u].target \in NewRows
         /\ rec'[task'[u].target].kind = "invoice" => task'[u].type = "extraction"

\* The event of a request that decides its record, or replaces it by a new
\* version; status is what becomes of the record.
DecisionEvent(r, e, status) ==
    /\ req[r].action \in Decisions /\ status = Verdict(req[r].action)
    /\ e.record = req[r].target /\ e.replaced = 0 /\ e.status = status

CorrectionEvent(r, e, status) ==
    /\ req[r].action \in Corrections /\ status = "superseded"
    /\ e.record \in NewRows /\ e.replaced = req[r].target
    /\ rec'[e.record].kind = rec[req[r].target].kind
    /\ rec'[e.record].version = rec[req[r].target].version + 1
    /\ rec'[e.record].supersedes = req[r].target
    /\ rec'[e.record].status = e.status /\ e.status \in Undecided

\* The rows after a commit: the request's record has the status, unless the
\* request believed it had it already, and the new rows are the new version
\* and what the continuation adds.
SettlesRows(r, e, status) ==
    /\ \A k \in DOMAIN rec :
         /\ k \in DOMAIN rec' /\ rec'[k].kind = rec[k].kind
         /\ rec'[k].version = rec[k].version /\ rec'[k].supersedes = rec[k].supersedes
         /\ rec'[k].about = rec[k].about /\ rec'[k].origin = rec[k].origin
         /\ k # req[r].target => rec'[k].status = rec[k].status
    /\ \/ rec'[req[r].target].status = status
       \/ /\ req[r].seen = status
          /\ rec'[req[r].target].status = rec[req[r].target].status
    /\ \A k \in NewRows : k # e.record =>
         rec'[k].supersedes = 0 /\ rec'[k].status \in Undecided
    /\ IF Continues(req[r], rec[req[r].target].kind)
         THEN \E c \in NewRows :
                /\ c # e.record /\ NewContinuation(c, e.record)
                /\ \A k \in NewRows : k \notin {c, e.record}
                                      => rec'[k].kind # "classification"
         ELSE \A k \in NewRows : k = e.record

\* The tasks after a commit.
SettlesTasks(r, e) ==
    /\ \A u \in DOMAIN task : /\ u \in DOMAIN task' /\ task'[u].type = task[u].type
                              /\ u # req[r].task => task'[u] = task[u]
    /\ task'[req[r].task].status = "resolved"
    /\ task'[req[r].task].target \in {task[req[r].task].target, e.record}
    /\ \A u \in NewTasks : /\ task'[u].target \in NewRows \ {e.record}
                           /\ rec'[task'[u].target].kind # "invoice"

\* A step is the commit of request r.
SettlesStep(r, e, status) ==
    /\ req[r].phase = "loaded"
    /\ e.task = req[r].task /\ e.action = req[r].action
    /\ audit' = Append(audit, e)
    /\ DecisionEvent(r, e, status) \/ CorrectionEvent(r, e, status)
    /\ SettlesRows(r, e, status) /\ SettlesTasks(r, e)
    /\ req' = [req EXCEPT ![r] = Idle] /\ contended' = contended

-----------------------------------------------------------------------------
\* The domain of a sequence is an interval from 1.
LEMMA SeqDomain ==
    ASSUME NEW S, NEW s \in Seq(S)
    PROVE  /\ Len(s) \in Nat /\ DOMAIN s = 1..Len(s) /\ DOMAIN s \subseteq Nat
           /\ 0 \notin DOMAIN s /\ \A k \in DOMAIN s : s[k] \in S
<1>1. Len(s) \in Nat /\ DOMAIN s = 1..Len(s)
    BY LenProperties
<1>2. \A k \in DOMAIN s : s[k] \in S
    BY <1>1, ElementOfSeq
<1>3. QED  BY <1>1, <1>2

\* The last event is the one a commit adds.
LEMMA EventAdded ==
    ASSUME ReviewTypeOK, NEW e \in EventSet, audit' = Append(audit, e)
    PROVE  /\ Len(audit) + 1 \notin DOMAIN audit
           /\ DOMAIN audit' = DOMAIN audit \cup {Len(audit) + 1}
           /\ audit'[Len(audit) + 1] = e
           /\ \A k \in DOMAIN audit : audit'[k] = audit[k]
           /\ \A k \in DOMAIN audit' : k <= Len(audit) + 1
<1>1. audit \in Seq(EventSet)
    BY DEF ReviewTypeOK
<1>2. Len(audit) \in Nat /\ DOMAIN audit = 1..Len(audit)
    BY <1>1, SeqDomain
<1>3. /\ audit' \in Seq(EventSet) /\ Len(audit') = Len(audit) + 1
      /\ audit'[Len(audit) + 1] = e /\ \A k \in DOMAIN audit : audit'[k] = audit[k]
    BY <1>1, OneLonger
<1>4. DOMAIN audit' = 1..(Len(audit) + 1)
    BY <1>3, SeqDomain
<1>5. QED  BY <1>2, <1>3, <1>4

\* What a commit finds: its record and task exist, and while no other request
\* came for the task it is still open, about that record, and the record gets
\* the status; the new event is the last one.
LEMMA SettlesFacts ==
    ASSUME ReviewInv, ReviewTypeOK', HistoryInv,
           NEW r \in Reviewers, NEW e \in EventSet, NEW status, SettlesStep(r, e, status)
    PROVE  /\ req[r].target \in DOMAIN rec /\ req[r].target \in DOMAIN rec'
           /\ req[r].task \in DOMAIN task
           /\ e.record \in DOMAIN rec'
           /\ e.record = req[r].target \/ e.record \in NewRows
           /\ e.replaced = 0 \/ (e.replaced = req[r].target /\ e.record # req[r].target)
           /\ Touches(e, req[r].target)
           /\ \A j \in DOMAIN rec' : Touches(e, j) => j = req[r].target \/ j = e.record
           /\ status \notin Undecided
           /\ req[r].task \notin contended =>
                /\ rec'[req[r].target].status = status
                /\ task[req[r].task].status = "open"
                /\ task[req[r].task].target = req[r].target
                /\ \A k \in DOMAIN audit : audit[k].task # req[r].task
                /\ \A s \in Reviewers :
                     req[s].phase # "idle" /\ req[s].task = req[r].task => s = r
<1> DEFINE i == req[r].target
           t == req[r].task
<1>1. req[r].phase = "loaded" /\ req[r].phase # "idle"
    BY DEF SettlesStep
<1>2. i \in DOMAIN rec /\ t \in DOMAIN task
    BY <1>1 DEF ReviewInv, RequestsPointSomewhere
<1>3. i \in DOMAIN rec' /\ 0 \notin DOMAIN rec' /\ 0 \notin DOMAIN rec /\ i # 0
    <2>1. rec \in Seq(RowSet) /\ rec' \in Seq(RowSet)
        BY DEF ReviewInv, ReviewTypeOK
    <2>2. 0 \notin DOMAIN rec /\ 0 \notin DOMAIN rec'
        BY <2>1, SeqDomain
    <2>3. QED  BY <1>2, <2>2 DEF SettlesStep, SettlesRows
<1>5. /\ e.record \in DOMAIN rec' /\ (e.record = i \/ e.record \in NewRows)
      /\ e.replaced = 0 \/ (e.replaced = i /\ e.record # i)
      /\ e.record = i \/ e.replaced = i
    BY <1>2, <1>3 DEF SettlesStep, DecisionEvent, CorrectionEvent, NewRows
<1>6. /\ Touches(e, i)
      /\ \A j \in DOMAIN rec' : Touches(e, j) => j = i \/ j = e.record
    BY <1>3, <1>5 DEF Touches
<1>8. status \notin Undecided
    BY DEF SettlesStep, DecisionEvent, CorrectionEvent, Verdict, Undecided
<1>9. ASSUME t \notin contended
      PROVE  /\ rec'[i].status = status
             /\ task[t].status = "open" /\ task[t].target = i
             /\ \A k \in DOMAIN audit : audit[k].task # t
             /\ \A s \in Reviewers : req[s].phase # "idle" /\ req[s].task = t => s = r
    <2>1. task[t].status = "open" /\ task[t].target = i /\ req[r].seen \in Undecided
        BY <1>1, <1>9 DEF ReviewInv, LoneRequests, HistoryInv, LoneTargets
    <2>2. rec'[i].status = status
        BY <2>1, <1>8 DEF SettlesStep, SettlesRows
    <2>3. \A s \in Reviewers : req[s].phase # "idle" /\ req[s].task = t => s = r
        BY <1>1, <1>9 DEF ReviewInv, LoneRequests
    <2>4. \A k \in DOMAIN audit : audit[k].task # t
        BY <2>1, <1>2 DEF ReviewInv, ResolvedIsAudited
    <2>5. QED  BY <2>1, <2>2, <2>3, <2>4
<1>10. QED  BY <1>2, <1>3, <1>5, <1>6, <1>8, <1>9

\* The commit's event is last, so the rows it is about have its status; the
\* other rows keep their last event and their status.
LEMMA SettlesExplains ==
    ASSUME ReviewInv, ReviewTypeOK', HistoryInv, StatusExplained,
           NEW r \in Reviewers, NEW e \in EventSet, NEW status, SettlesStep(r, e, status)
    PROVE  StatusExplained'
<1> DEFINE i == req[r].target
           last == Len(audit) + 1
           events(j) == {k \in DOMAIN audit : Touches(audit[k], j)}
           after(j) == {k \in DOMAIN audit' : Touches(audit'[k], j)}
           explains(j, k) == \/ audit'[k].task \in contended'
                             \/ rec'[j].status = IF audit'[k].replaced = j
                                                   THEN "superseded" ELSE audit'[k].status
<1>1. /\ i \in DOMAIN rec /\ i \in DOMAIN rec' /\ i # 0
      /\ e.record = i \/ e.record \in NewRows
      /\ e.replaced = 0 \/ (e.replaced = i /\ e.record # i)
      /\ Touches(e, i) /\ \A j \in DOMAIN rec' : Touches(e, j) => j = i \/ j = e.record
      /\ req[r].task \notin contended => rec'[i].status = status
    <2>1. rec \in Seq(RowSet)
        BY DEF ReviewInv, ReviewTypeOK
    <2>2. 0 \notin DOMAIN rec
        BY <2>1, SeqDomain
    <2>3. QED  BY <2>2, SettlesFacts
<1>2. /\ contended' = contended /\ e.task = req[r].task
      /\ last \notin DOMAIN audit /\ DOMAIN audit' = DOMAIN audit \cup {last}
      /\ audit'[last] = e /\ \A k \in DOMAIN audit : audit'[k] = audit[k]
      /\ \A k \in DOMAIN audit' : k <= last
    BY EventAdded DEF SettlesStep, ReviewInv
<1>3. ASSUME NEW j \in DOMAIN rec', Touches(e, j)
      PROVE  last \in after(j) /\ explains(j, last) /\ \A l \in after(j) : l <= last
    <2>1. last \in after(j) /\ \A l \in after(j) : l <= last
        BY <1>1, <1>2, <1>3
    <2>2. ASSUME req[r].task \notin contended
          PROVE  rec'[j].status = IF e.replaced = j THEN "superseded" ELSE e.status
        <3>1. CASE DecisionEvent(r, e, status)
            BY <3>1, <2>2, <1>1, <1>3 DEF DecisionEvent, Touches
        <3>2. CASE CorrectionEvent(r, e, status)
            <4>1. CASE j = i
                BY <4>1, <3>2, <2>2, <1>1 DEF CorrectionEvent
            <4>2. CASE j = e.record
                BY <4>2, <3>2, <1>1 DEF CorrectionEvent
            <4>3. QED  BY <4>1, <4>2, <1>1, <1>3
        <3>3. QED  BY <3>1, <3>2 DEF SettlesStep
    <2>3. audit'[last] = e
        BY <1>2
    <2>4. QED  BY <2>1, <2>2, <2>3, <1>2
<1>4. ASSUME NEW j \in DOMAIN rec', ~Touches(e, j)
      PROVE  \/ after(j) = {} /\ rec'[j].status \in Undecided
             \/ \E k \in after(j) : explains(j, k) /\ \A l \in after(j) : l <= k
    <2>1. after(j) = events(j) /\ j # i /\ j # e.record
        BY <1>1, <1>2, <1>4 DEF Touches
    <2>2. CASE j \in DOMAIN rec
        <3>1. rec'[j].status = rec[j].status
            BY <2>1, <2>2 DEF SettlesStep, SettlesRows
        <3>2. CASE events(j) = {} /\ rec[j].status \in Undecided
            BY <3>1, <3>2, <2>1
        <3>3. ASSUME NEW k \in events(j), \A l \in events(j) : l <= k,
                     \/ audit[k].task \in contended
                     \/ rec[j].status = IF audit[k].replaced = j THEN "superseded"
                                                               ELSE audit[k].status
              PROVE  k \in after(j) /\ explains(j, k) /\ \A l \in after(j) : l <= k
            BY <3>1, <3>3, <2>1, <1>1, <1>2
        <3>4. QED  BY <3>2, <3>3, <2>2 DEF StatusExplained
    <2>3. CASE j \notin DOMAIN rec
        <3>1. rec'[j].status \in Undecided
            BY <2>1, <2>3 DEF SettlesStep, SettlesRows, NewRows
        <3>2. j # 0
            <4>1. rec' \in Seq(RowSet)
                BY DEF ReviewTypeOK
            <4>2. QED  BY <4>1, SeqDomain
        <3>3. events(j) = {}
            BY <2>3, <3>2 DEF HistoryInv, EventsNameRows, Touches
        <3>4. QED  BY <3>1, <3>3, <2>1
    <2>4. QED  BY <2>2, <2>3
<1>5. QED  BY <1>3, <1>4 DEF StatusExplained

\* The commit supersedes a row only with a next version of it, and when no
\* other request came for the task the row had none before.
LEMMA SettlesLinear ==
    ASSUME ReviewInv, ReviewTypeOK', HistoryInv, VersionsLinear,
           NEW r \in Reviewers, NEW e \in EventSet, NEW status, SettlesStep(r, e, status)
    PROVE  VersionsLinear'
<1> DEFINE i == req[r].target
           last == Len(audit) + 1
<1>1. /\ i \in DOMAIN rec /\ i \in DOMAIN rec'
      /\ e.record = i \/ e.record \in NewRows
      /\ e.replaced = 0 \/ (e.replaced = i /\ e.record # i)
      /\ Touches(e, i)
      /\ req[r].task \notin contended =>
           /\ rec'[i].status = status
           /\ task[req[r].task].status = "open" /\ task[req[r].task].target = i
           /\ \A k \in DOMAIN audit : audit[k].task # req[r].task
    BY SettlesFacts
<1>2. /\ contended' = contended /\ e.task = req[r].task /\ req[r].phase = "loaded"
      /\ req[r].task \in DOMAIN task /\ 0 \notin DOMAIN rec
    <2>1. rec \in Seq(RowSet)
        BY DEF ReviewInv, ReviewTypeOK
    <2>2. 0 \notin DOMAIN rec
        BY <2>1, SeqDomain
    <2>3. QED  BY <2>2 DEF SettlesStep, ReviewInv, RequestsPointSomewhere
<1>3. /\ DOMAIN audit' = DOMAIN audit \cup {last}
      /\ audit'[last] = e /\ \A k \in DOMAIN audit : audit'[k] = audit[k]
    BY EventAdded DEF SettlesStep, ReviewInv
<1>4. /\ \A k \in DOMAIN rec :
           /\ k \in DOMAIN rec' /\ rec'[k].kind = rec[k].kind
           /\ rec'[k].version = rec[k].version /\ rec'[k].supersedes = rec[k].supersedes
           /\ k # i => rec'[k].status = rec[k].status
      /\ rec'[i].status = status \/ rec'[i].status = rec[i].status
      /\ \A k \in NewRows : k # e.record =>
           rec'[k].supersedes = 0 /\ rec'[k].status \in Undecided
      /\ e.record \in NewRows => /\ CorrectionEvent(r, e, status)
                                 /\ rec'[e.record].status \in Undecided
                                 /\ rec'[e.record].supersedes = i
    BY <1>1, <1>2 DEF SettlesStep, SettlesRows, DecisionEvent, CorrectionEvent, NewRows
<1>5. ASSUME NEW j \in DOMAIN rec', rec'[j].status = "superseded"
      PROVE  \E n \in DOMAIN rec' : /\ rec'[n].supersedes = j
                                   /\ rec'[n].kind = rec'[j].kind
                                   /\ rec'[n].version = rec'[j].version + 1
    <2>1. j \in DOMAIN rec
        BY <1>4, <1>5 DEF NewRows, Undecided
    <2>2. CASE rec[j].status = "superseded"
        <3>1. PICK n \in DOMAIN rec : /\ rec[n].supersedes = j
                                      /\ rec[n].kind = rec[j].kind
                                      /\ rec[n].version = rec[j].version + 1
            BY <2>1, <2>2 DEF VersionsLinear
        <3>2. QED  BY <3>1, <2>1, <1>4
    <2>3. CASE rec[j].status # "superseded"
        <3>1. j = i /\ status = "superseded"
            BY <2>1, <2>3, <1>4, <1>5
        <3>2. CorrectionEvent(r, e, status)
            BY <3>1 DEF SettlesStep, DecisionEvent, Verdict
        <3>3. QED  BY <3>1, <3>2, <2>1, <1>4 DEF CorrectionEvent, NewRows
    <2>4. QED  BY <2>2, <2>3
<1>6. ASSUME NEW k \in DOMAIN audit', audit'[k].replaced # 0,
             audit'[k].task \notin contended'
      PROVE  /\ rec'[audit'[k].replaced].status = "superseded"
             /\ \A n \in DOMAIN rec' : rec'[n].supersedes = audit'[k].replaced
                                       => n = audit'[k].record
    <2>1. CASE k \in DOMAIN audit
        <3> DEFINE j == audit[k].replaced
        <3>1. /\ audit'[k] = audit[k] /\ j \in DOMAIN rec
              /\ audit[k].task \notin contended /\ j # 0
            BY <2>1, <1>2, <1>6, <1>3 DEF HistoryInv, EventsNameRows
        <3>2. j # i
            <4>1. SUFFICES ASSUME j = i PROVE FALSE
                OBVIOUS
            <4>2. audit[k].task = req[r].task
                BY <4>1, <2>1, <1>2 DEF HistoryInv, RequestsFollowEvents, Touches
            <4>3. QED  BY <4>2, <3>1, <2>1, <1>1
        <3>3. /\ rec[j].status = "superseded"
              /\ \A n \in DOMAIN rec : rec[n].supersedes = j => n = audit[k].record
            BY <3>1, <2>1 DEF VersionsLinear
        <3>4. rec'[j].status = "superseded"
            BY <3>1, <3>2, <3>3, <1>4
        <3>5. ASSUME NEW n \in DOMAIN rec', rec'[n].supersedes = j PROVE n = audit[k].record
            BY <3>1, <3>2, <3>3, <3>5, <1>4 DEF NewRows
        <3>6. QED  BY <3>1, <3>4, <3>5
    <2>2. CASE k = last
        <3>1. /\ audit'[k] = e /\ e.replaced = i /\ e.record # i
              /\ req[r].task \notin contended /\ CorrectionEvent(r, e, status)
            BY <2>2, <1>1, <1>2, <1>4, <1>6, <1>3
        <3>2. rec'[i].status = "superseded"
            BY <3>1, <1>1 DEF CorrectionEvent
        <3>3. \A n \in DOMAIN rec : rec[n].supersedes # i
            <4>1. \A l \in DOMAIN audit : ~Touches(audit[l], i)
                BY <3>1, <1>1, <1>2 DEF HistoryInv, OpenTargetsUntouched
            <4>2. QED  BY <4>1, <1>1, <1>2 DEF HistoryInv, VersionsAudited, Touches
        <3>4. ASSUME NEW n \in DOMAIN rec', rec'[n].supersedes = i PROVE n = e.record
            BY <3>3, <3>4, <1>1, <1>2, <1>4 DEF NewRows
        <3>5. QED  BY <3>1, <3>2, <3>4
    <2>3. QED  BY <2>1, <2>2, <1>3
<1>7. QED  BY <1>5, <1>6 DEF VersionsLinear

\* Events that approved invoice i or created it as a correction.
Approvals(i) == {k \in DOMAIN audit : audit[k].record = i /\ audit[k].action # "reject"}

\* Rows and events are finitely many; a row that does not exist yet has
\* neither continuations nor events.
LEMMA Counted ==
    ASSUME ReviewInv, HistoryInv, FollowUpsAudited
    PROVE  /\ \A i : IsFiniteSet(Continuations(i)) /\ IsFiniteSet(Approvals(i))
           /\ \A i : i \notin DOMAIN rec \/ rec[i].kind = "invoice"
                => Cardinality(Continuations(i)) = Cardinality(Approvals(i))
<1>1. rec \in Seq(RowSet) /\ audit \in Seq(EventSet)
    BY DEF ReviewInv, ReviewTypeOK
<1>2. IsFiniteSet(DOMAIN rec) /\ IsFiniteSet(DOMAIN audit)
    <2>1. /\ Len(rec) \in Nat /\ DOMAIN rec = 1..Len(rec)
          /\ Len(audit) \in Nat /\ DOMAIN audit = 1..Len(audit)
        BY <1>1, SeqDomain
    <2>2. IsFiniteSet(1..Len(rec)) /\ IsFiniteSet(1..Len(audit))
        BY <2>1, FS_Interval
    <2>3. QED  BY <2>1, <2>2
<1>3. ASSUME NEW i
      PROVE  IsFiniteSet(Continuations(i)) /\ IsFiniteSet(Approvals(i))
    <2>1. Continuations(i) \subseteq DOMAIN rec /\ Approvals(i) \subseteq DOMAIN audit
        BY DEF Continuations, Approvals
    <2>2. QED  BY <2>1, <1>2, FS_Subset
<1>4. ASSUME NEW i, i \notin DOMAIN rec
      PROVE  Cardinality(Continuations(i)) = Cardinality(Approvals(i))
    <2>1. Continuations(i) = {}
        BY <1>4 DEF Continuations, ReviewInv, ReviewTypeOK
    <2>2. Approvals(i) = {}
        BY <1>4 DEF Approvals, HistoryInv, EventsNameRows
    <2>3. QED  BY <2>1, <2>2
<1>5. ASSUME NEW i \in DOMAIN rec, rec[i].kind = "invoice"
      PROVE  Cardinality(Continuations(i)) = Cardinality(Approvals(i))
    BY <1>5 DEF FollowUpsAudited, Approvals
<1>6. QED  BY <1>3, <1>4, <1>5

\* One element more on both sides.
LEMMA OneMore ==
    ASSUME NEW S, NEW T, IsFiniteSet(S), IsFiniteSet(T), Cardinality(S) = Cardinality(T),
           NEW x, NEW y, x \notin S, y \notin T
    PROVE  Cardinality(S \cup {x}) = Cardinality(T \cup {y})
BY FS_AddElement

\* The continuation of an approval or a correction is one more for the invoice
\* the event approves or creates, and no commit adds one for another.
LEMMA SettlesFollowUps ==
    ASSUME ReviewInv, ReviewTypeOK', HistoryInv, FollowUpsAudited,
           NEW r \in Reviewers, NEW e \in EventSet, NEW status, SettlesStep(r, e, status)
    PROVE  FollowUpsAudited'
<1> DEFINE i == req[r].target
           last == Len(audit) + 1
           continues == Continues(req[r], rec[i].kind)
<1>1. /\ i \in DOMAIN rec /\ i \in DOMAIN rec'
      /\ e.record = i \/ e.record \in NewRows
    BY SettlesFacts
<1>2. /\ last \notin DOMAIN audit /\ DOMAIN audit' = DOMAIN audit \cup {last}
      /\ audit'[last] = e /\ \A k \in DOMAIN audit : audit'[k] = audit[k]
    BY EventAdded DEF SettlesStep, ReviewInv
<1>3. /\ req[r].phase = "loaded" /\ e.action = req[r].action
      /\ \A k \in DOMAIN rec :
           /\ k \in DOMAIN rec' /\ rec'[k].kind = rec[k].kind
           /\ rec'[k].version = rec[k].version
           /\ rec'[k].about = rec[k].about /\ rec'[k].origin = rec[k].origin
    BY DEF SettlesStep, SettlesRows
<1>4. e.record \in NewRows =>
         /\ rec'[e.record].kind = rec[i].kind /\ rec'[e.record].version # 1
         /\ req[r].action \in Corrections
    <2>1. rec \in Seq(RowSet)
        BY DEF ReviewInv, ReviewTypeOK
    <2>2. rec[i] \in RowSet
        BY <2>1, <1>1, SeqDomain
    <2>3. rec[i].version \in Nat \ {0}
        BY <2>2 DEF RowSet
    <2>4. rec[i].version + 1 # 1
        BY <2>3
    <2>5. QED  BY <2>4, <1>1 DEF SettlesStep, DecisionEvent, CorrectionEvent, NewRows
<1>5. continues <=> rec[i].kind = "invoice" /\ req[r].action # "reject"
    <2>1. rec[i].kind = "invoice" => task[req[r].task].type = "extraction"
        BY <1>3 DEF HistoryInv, InvoiceTasks
    <2>2. req[r].action \in Corrections /\ rec[i].kind = "invoice"
             => req[r].action = "correct_extraction"
        BY <1>3 DEF HistoryInv, LoadedFits, Corrects
    <2>3. req[r].action \in Decisions \cup Corrections
        BY DEF SettlesStep, DecisionEvent, CorrectionEvent
    <2>4. QED  BY <2>1, <2>2, <2>3 DEF Continues, Decisions, Corrections
<1>6. ASSUME NEW j \in DOMAIN rec', rec'[j].kind = "invoice"
      PROVE  Cardinality(Continuations(j))' = Cardinality(Approvals(j)')
    <2>1. j \notin DOMAIN rec \/ rec[j].kind = "invoice"
        BY <1>3, <1>6
    <2>2. /\ Cardinality(Continuations(j)) = Cardinality(Approvals(j))
          /\ IsFiniteSet(Continuations(j)) /\ IsFiniteSet(Approvals(j))
        BY <2>1, Counted
    <2>3. \A n \in DOMAIN rec : n \in Continuations(j)' <=> n \in Continuations(j)
        BY <1>3 DEF Continuations
    <2>4. Continuations(j) \subseteq DOMAIN rec /\ Approvals(j) \subseteq DOMAIN audit
        BY DEF Continuations, Approvals
    <2>5. \A k \in DOMAIN audit : k \in Approvals(j)' <=> k \in Approvals(j)
        BY <1>2 DEF Approvals
    <2>6. e.record \notin Continuations(j)' \/ e.record \in DOMAIN rec
        BY <1>1, <1>4 DEF Continuations
    <2>7. CASE j = e.record /\ e.action # "reject"
        <3>1. continues
            BY <2>7, <1>1, <1>3, <1>4, <1>5, <1>6
        <3>2. PICK c \in NewRows :
                 /\ c # e.record /\ NewContinuation(c, e.record)
                 /\ \A k \in NewRows : k \notin {c, e.record}
                                       => rec'[k].kind # "classification"
            BY <3>1 DEF SettlesStep, SettlesRows
        <3>3. c \in Continuations(j)' /\ c \notin DOMAIN rec
            BY <3>2, <2>7 DEF NewContinuation, Continuations, NewRows
        <3>4. \A n \in DOMAIN rec' : n \in Continuations(j)' => n \in DOMAIN rec \/ n = c
            BY <3>2, <2>6 DEF Continuations, NewRows
        <3>5. Continuations(j)' \subseteq DOMAIN rec'
            BY DEF Continuations
        <3>6. Continuations(j)' = Continuations(j) \cup {c}
            BY <3>3, <3>4, <3>5, <2>3, <2>4
        <3>7. Approvals(j)' = Approvals(j) \cup {last}
            BY <2>7, <2>4, <2>5, <1>2 DEF Approvals
        <3>8. c \notin Continuations(j) /\ last \notin Approvals(j)
            BY <3>3, <2>4, <1>2
        <3>9. Cardinality(Continuations(j) \cup {c}) = Cardinality(Approvals(j) \cup {last})
            BY <3>8, <2>2, OneMore
        <3>10. QED  BY <3>6, <3>7, <3>9
    <2>8. CASE ~(j = e.record /\ e.action # "reject")
        <3>1. \A n \in NewRows : n \notin Continuations(j)'
            <4>1. CASE continues
                <5>1. j # e.record
                    BY <4>1, <2>8, <1>3, <1>5
                <5>2. PICK c \in NewRows :
                         /\ NewContinuation(c, e.record)
                         /\ \A k \in NewRows : k \notin {c, e.record}
                                               => rec'[k].kind # "classification"
                    BY <4>1 DEF SettlesStep, SettlesRows
                <5>3. c \notin Continuations(j)'
                    BY <5>1, <5>2 DEF NewContinuation, Continuations
                <5>4. QED  BY <5>2, <5>3, <2>6 DEF Continuations, NewRows
            <4>2. CASE ~continues
                BY <4>2, <2>6 DEF SettlesStep, SettlesRows, NewRows
            <4>3. QED  BY <4>1, <4>2
        <3>2. Continuations(j)' \subseteq DOMAIN rec'
            BY DEF Continuations
        <3>3. Continuations(j)' = Continuations(j)
            BY <3>1, <3>2, <2>3, <2>4, <1>3 DEF NewRows
        <3>4. Approvals(j)' = Approvals(j)
            BY <2>8, <2>4, <2>5, <1>2 DEF Approvals
        <3>5. QED  BY <3>3, <3>4, <2>2
    <2>9. QED  BY <2>7, <2>8
<1>7. QED  BY <1>6 DEF FollowUpsAudited, Approvals

\* A commit keeps requests, tasks and events out of one another's way: its
\* record belonged to its task alone, and that task is resolved.
LEMMA SettlesHistory ==
    ASSUME ReviewInv, ReviewInv', HistoryInv,
           NEW r \in Reviewers, NEW e \in EventSet, NEW status, SettlesStep(r, e, status)
    PROVE  HistoryInv'
<1> DEFINE i == req[r].target
           t == req[r].task
           last == Len(audit) + 1
<1> USE DEF HistoryInv
<1>1. ReviewTypeOK /\ ReviewTypeOK' /\ req \in [Reviewers -> RequestSet]
    BY DEF ReviewInv, ReviewTypeOK
<1>2. /\ i \in DOMAIN rec /\ i \in DOMAIN rec' /\ t \in DOMAIN task
      /\ e.record \in DOMAIN rec' /\ (e.record = i \/ e.record \in NewRows)
      /\ e.replaced = 0 \/ (e.replaced = i /\ e.record # i)
      /\ Touches(e, i) /\ \A j \in DOMAIN rec' : Touches(e, j) => j = i \/ j = e.record
      /\ t \notin contended =>
           /\ task[t].status = "open" /\ task[t].target = i
           /\ \A s \in Reviewers : req[s].phase # "idle" /\ req[s].task = t => s = r
    BY <1>1, SettlesFacts
<1>3. /\ last \notin DOMAIN audit /\ DOMAIN audit' = DOMAIN audit \cup {last}
      /\ audit'[last] = e /\ \A k \in DOMAIN audit : audit'[k] = audit[k]
    BY <1>1, EventAdded DEF SettlesStep
<1>4. /\ req[r].phase = "loaded" /\ e.task = t /\ contended' = contended
      /\ req'[r].phase = "idle" /\ \A s \in Reviewers : s # r => req'[s] = req[s]
    BY <1>1 DEF SettlesStep, Idle
<1>5. \A k \in DOMAIN rec : /\ k \in DOMAIN rec' /\ rec'[k].kind = rec[k].kind
                            /\ rec'[k].supersedes = rec[k].supersedes
    BY DEF SettlesStep, SettlesRows
<1>6. /\ 0 \notin DOMAIN rec /\ 0 \notin DOMAIN rec'
    <2>1. rec \in Seq(RowSet) /\ rec' \in Seq(RowSet)
        BY <1>1 DEF ReviewTypeOK
    <2>2. QED  BY <2>1, SeqDomain
<1>7. /\ \A u \in DOMAIN task : /\ u \in DOMAIN task' /\ task'[u].type = task[u].type
                                /\ u # t => task'[u] = task[u]
      /\ task'[t].status = "resolved" /\ task'[t].target \in {task[t].target, e.record}
      /\ \A u \in NewTasks : /\ task'[u].target \in NewRows \ {e.record}
                             /\ rec'[task'[u].target].kind # "invoice"
    BY DEF SettlesStep, SettlesTasks
<1>8. /\ \A s \in Reviewers : req[s].phase # "idle" =>
           req[s].task \in DOMAIN task /\ req[s].target \in DOMAIN rec
      /\ \A s \in Reviewers : \A u \in DOMAIN task :
           req[s].phase # "idle" /\ task[u].status = "open" /\ task[u].target = req[s].target
               => u = req[s].task
      /\ \A u \in DOMAIN task : task[u].target \in DOMAIN rec \cup {0}
    BY DEF ReviewInv, RequestsPointSomewhere, RequestsMindTheirTask, ReviewTypeOK
<1>9. EventsNameRows'
    BY <1>2, <1>3, <1>5 DEF EventsNameRows
<1>10. LoneTargets'
    <2>1. ASSUME NEW s \in Reviewers, req'[s].phase # "idle", req'[s].task \notin contended'
          PROVE  /\ task'[req'[s].task].target = req'[s].target
                 /\ req'[s].phase = "loaded" => req'[s].seen \in Undecided
        <3>1. s # r /\ req'[s] = req[s] /\ req[s].task \notin contended
            BY <2>1, <1>4
        <3>2. req[s].task # t /\ req[s].task \in DOMAIN task
            BY <3>1, <2>1, <1>2, <1>8
        <3>3. QED  BY <3>1, <3>2, <2>1, <1>7 DEF LoneTargets
    <2>2. QED  BY <2>1 DEF LoneTargets
<1>11. OpenTargetsUntouched'
    <2>1. ASSUME NEW u \in DOMAIN task', NEW k \in DOMAIN audit',
                 task'[u].status = "open", task'[u].target # 0,
                 Touches(audit'[k], task'[u].target)
          PROVE  FALSE
        <3>1. u # t
            BY <2>1, <1>7
        <3>2. CASE u \in DOMAIN task
            <4>1. task'[u] = task[u] /\ task[u].target \in DOMAIN rec
                BY <3>1, <3>2, <2>1, <1>7, <1>8
            <4>2. CASE k = last
                <5>1. task[u].target # i
                    BY <4>1, <3>1, <3>2, <2>1, <1>4, <1>8
                <5>2. task[u].target # e.record
                    BY <4>1, <5>1, <1>2 DEF NewRows
                <5>3. QED  BY <4>1, <4>2, <5>1, <5>2, <2>1, <1>2, <1>3, <1>5
            <4>3. CASE k # last
                BY <4>1, <4>3, <3>2, <2>1, <1>3 DEF OpenTargetsUntouched
            <4>4. QED  BY <4>2, <4>3
        <3>3. CASE u \notin DOMAIN task
            <4>1. task'[u].target \in NewRows \ {e.record}
                BY <3>3, <2>1, <1>7 DEF NewTasks
            <4>2. CASE k = last
                BY <4>1, <4>2, <2>1, <1>2, <1>3 DEF NewRows
            <4>3. CASE k # last
                BY <4>1, <4>3, <2>1, <1>3, <1>6 DEF NewRows, EventsNameRows, Touches
            <4>4. QED  BY <4>2, <4>3
        <3>4. QED  BY <3>2, <3>3
    <2>2. QED  BY <2>1 DEF OpenTargetsUntouched
<1>12. RequestsShareTasks'
    BY <1>4 DEF RequestsShareTasks
<1>13. RequestsFollowEvents'
    <2>1. ASSUME NEW s \in Reviewers, NEW k \in DOMAIN audit', req'[s].phase # "idle",
                 Touches(audit'[k], req'[s].target)
          PROVE  audit'[k].task = req'[s].task
        <3>1. s # r /\ req'[s] = req[s] /\ req[s].target \in DOMAIN rec
            BY <2>1, <1>4, <1>8
        <3>2. CASE k = last
            <4>1. req[s].target = i
                BY <3>1, <3>2, <2>1, <1>2, <1>3, <1>5 DEF NewRows
            <4>2. QED
                BY <4>1, <3>1, <3>2, <2>1, <1>3, <1>4 DEF RequestsShareTasks
        <3>3. CASE k # last
            BY <3>1, <3>3, <2>1, <1>3 DEF RequestsFollowEvents
        <3>4. QED  BY <3>2, <3>3
    <2>2. QED  BY <2>1 DEF RequestsFollowEvents
<1>14. VersionsAudited'
    <2>1. ASSUME NEW n \in DOMAIN rec', rec'[n].supersedes # 0
          PROVE  \E k \in DOMAIN audit' : audit'[k].replaced = rec'[n].supersedes
        <3>1. CASE n \in DOMAIN rec
            BY <3>1, <2>1, <1>3, <1>5 DEF VersionsAudited
        <3>2. CASE n \notin DOMAIN rec
            <4>1. n = e.record
                BY <3>2, <2>1 DEF SettlesStep, SettlesRows, NewRows
            <4>2. CorrectionEvent(r, e, status)
                BY <4>1, <3>2, <1>2 DEF SettlesStep, DecisionEvent
            <4>3. QED  BY <4>1, <4>2, <1>3 DEF CorrectionEvent
        <3>3. QED  BY <3>1, <3>2
    <2>2. QED  BY <2>1 DEF VersionsAudited
<1>15. InvoiceTasks'
    <2>1. ASSUME NEW u \in DOMAIN task', task'[u].target # 0,
                 rec'[task'[u].target].kind = "invoice"
          PROVE  task'[u].type = "extraction"
        <3>1. CASE u \in DOMAIN task /\ task'[u].target = task[u].target
            BY <3>1, <2>1, <1>5, <1>7, <1>8 DEF InvoiceTasks
        <3>2. CASE u = t /\ task'[u].target = e.record
            <4>1. rec'[e.record].kind = rec[i].kind
                BY <1>2, <1>5 DEF SettlesStep, DecisionEvent, CorrectionEvent
            <4>2. QED  BY <4>1, <3>2, <2>1, <1>2, <1>4, <1>7 DEF InvoiceTasks
        <3>3. CASE u \notin DOMAIN task
            BY <3>3, <2>1, <1>7 DEF NewTasks
        <3>4. QED  BY <3>1, <3>2, <3>3, <1>7
    <2>2. ASSUME NEW s \in Reviewers, req'[s].phase # "idle",
                 rec'[req'[s].target].kind = "invoice"
          PROVE  task'[req'[s].task].type = "extraction"
        BY <2>2, <1>4, <1>5, <1>7, <1>8 DEF InvoiceTasks
    <2>3. QED  BY <2>1, <2>2 DEF InvoiceTasks
<1>16. LoadedFits'
    BY <1>4, <1>5, <1>8 DEF LoadedFits
<1>17. QED
    BY <1>9, <1>10, <1>11, <1>12, <1>13, <1>14, <1>15, <1>16

-----------------------------------------------------------------------------
\* Rows and tasks that come from a run or an import have no history.
LEMMA CreatesKeeps ==
    ASSUME ReviewInv, ReviewInv', HistoryInv, Explained, CreatesStep
    PROVE  HistoryInv' /\ Explained'
<1> USE DEF HistoryInv, Explained
<1>1. /\ audit' = audit /\ req' = req /\ contended' = contended
      /\ \A k \in DOMAIN rec : k \in DOMAIN rec' /\ rec'[k] = rec[k]
      /\ \A k \in NewRows : /\ rec'[k].supersedes = 0 /\ rec'[k].status \in Undecided
                            /\ rec'[k].origin # "review"
      /\ \A u \in DOMAIN task : u \in DOMAIN task' /\ task'[u] = task[u]
      /\ \A u \in NewTasks : task'[u].target # 0 =>
           /\ task'[u].target \in NewRows
           /\ rec'[task'[u].target].kind = "invoice" => task'[u].type = "extraction"
    BY DEF CreatesStep
<1>2. /\ 0 \notin DOMAIN rec /\ 0 \notin DOMAIN rec'
    <2>1. rec \in Seq(RowSet) /\ rec' \in Seq(RowSet)
        BY DEF ReviewInv, ReviewTypeOK
    <2>2. QED  BY <2>1, SeqDomain
<1>3. /\ \A s \in Reviewers : req[s].phase # "idle" =>
           req[s].task \in DOMAIN task /\ req[s].target \in DOMAIN rec
      /\ \A u \in DOMAIN task : task[u].target \in DOMAIN rec \cup {0}
    BY DEF ReviewInv, RequestsPointSomewhere, ReviewTypeOK
<1>4. \A k \in DOMAIN audit : \A j \in NewRows : ~Touches(audit[k], j)
    BY <1>2 DEF EventsNameRows, Touches, NewRows
<1>5. EventsNameRows' /\ LoneTargets' /\ RequestsShareTasks' /\ RequestsFollowEvents'
    BY <1>1, <1>3 DEF EventsNameRows, LoneTargets, RequestsShareTasks, RequestsFollowEvents
<1>6. OpenTargetsUntouched'
    BY <1>1, <1>4 DEF OpenTargetsUntouched, NewTasks
<1>7. VersionsAudited'
    BY <1>1 DEF VersionsAudited, NewRows
<1>8. InvoiceTasks' /\ LoadedFits'
    BY <1>1, <1>3 DEF InvoiceTasks, LoadedFits, NewTasks
<1>9. StatusExplained'
    <2> DEFINE events(j) == {k \in DOMAIN audit : Touches(audit[k], j)}
               explains(j, k) == \/ audit[k].task \in contended
                                 \/ rec'[j].status = IF audit[k].replaced = j
                                                       THEN "superseded" ELSE audit[k].status
    <2>1. ASSUME NEW j \in DOMAIN rec'
          PROVE  \/ events(j) = {} /\ rec'[j].status \in Undecided
                 \/ \E k \in events(j) : explains(j, k) /\ \A l \in events(j) : l <= k
        <3>1. CASE j \in DOMAIN rec
            BY <3>1, <1>1 DEF StatusExplained
        <3>2. CASE j \notin DOMAIN rec
            BY <3>2, <1>1, <1>4 DEF NewRows
        <3>3. QED  BY <3>1, <3>2
    <2>2. ASSUME NEW j \in DOMAIN rec'
          PROVE  {k \in DOMAIN audit' : Touches(audit'[k], j)} = events(j)
        BY <1>1 DEF Touches
    <2>3. QED  BY <2>1, <2>2, <1>1 DEF StatusExplained
<1>10. VersionsLinear'
    <2>1. ASSUME NEW j \in DOMAIN rec', rec'[j].status = "superseded"
          PROVE  \E n \in DOMAIN rec' : /\ rec'[n].supersedes = j
                                       /\ rec'[n].kind = rec'[j].kind
                                       /\ rec'[n].version = rec'[j].version + 1
        <3>1. j \in DOMAIN rec /\ rec'[j] = rec[j]
            BY <2>1, <1>1 DEF NewRows, Undecided
        <3>2. QED  BY <3>1, <2>1, <1>1 DEF VersionsLinear
    <2>2. ASSUME NEW k \in DOMAIN audit, audit[k].replaced # 0, audit[k].task \notin contended
          PROVE  /\ rec'[audit[k].replaced].status = "superseded"
                 /\ \A n \in DOMAIN rec' : rec'[n].supersedes = audit[k].replaced
                                          => n = audit[k].record
        BY <2>2, <1>1 DEF VersionsLinear, EventsNameRows, NewRows
    <2>3. QED  BY <2>1, <2>2, <1>1 DEF VersionsLinear
<1>11. FollowUpsAudited'
    <2>1. ASSUME NEW j \in DOMAIN rec', rec'[j].kind = "invoice"
          PROVE  Cardinality(Continuations(j))' = Cardinality(Approvals(j)')
        <3>1. Continuations(j)' = Continuations(j) /\ Approvals(j)' = Approvals(j)
            BY <1>1 DEF Continuations, Approvals, NewRows
        <3>2. j \notin DOMAIN rec \/ rec[j].kind = "invoice"
            BY <2>1, <1>1
        <3>3. QED  BY <3>1, <3>2, Counted
    <2>2. QED  BY <2>1 DEF FollowUpsAudited, Approvals
<1>12. QED  BY <1>5, <1>6, <1>7, <1>8, <1>9, <1>10, <1>11

-----------------------------------------------------------------------------
\* What is explained stays so while only requests come and go.
LEMMA TablesStayExplained ==
    ASSUME Explained, rec' = rec, audit' = audit, contended \subseteq contended'
    PROVE  Explained'
<1>1. StatusExplained'
    <2> DEFINE events(j) == {k \in DOMAIN audit : Touches(audit[k], j)}
    <2>1. ASSUME NEW j \in DOMAIN rec
          PROVE  {k \in DOMAIN audit' : Touches(audit'[k], j)} = events(j)
        BY DEF Touches
    <2>2. QED  BY <2>1 DEF Explained, StatusExplained
<1>2. VersionsLinear'
    BY DEF Explained, VersionsLinear
<1>3. FollowUpsAudited'
    BY DEF Explained, FollowUpsAudited, Continuations
<1>4. QED  BY <1>1, <1>2, <1>3 DEF Explained

\* A request that reads an open task has a record without events before it,
\* and is alone or makes the task contended.
LEMMA ReadTaskHistory ==
    ASSUME ReviewInv, HistoryInv, NEW r \in Reviewers, NEW t \in DOMAIN task,
           NEW a \in Decisions \cup Corrections, ReadTask(r, t, a)
    PROVE  HistoryInv'
<1> DEFINE request == [phase |-> "read", task |-> t, action |-> a,
                       target |-> task[t].target, seen |-> "proposed"]
<1> USE DEF HistoryInv
<1>1. /\ task[t].status = "open" /\ task[t].target # 0
      /\ req' = [req EXCEPT ![r] = request]
      /\ contended \subseteq contended'
      /\ rec' = rec /\ task' = task /\ audit' = audit
    BY DEF ReadTask, Actionable
<1>2. req \in [Reviewers -> RequestSet]
    BY DEF ReviewInv, ReviewTypeOK
<1>3. /\ request.phase = "read" /\ request.task = t /\ request.target = task[t].target
      /\ request.phase # "idle" /\ request.phase # "loaded"
    OBVIOUS
<1> HIDE DEF request
<1>4. req'[r] = request /\ \A s \in Reviewers : s # r => req'[s] = req[s]
    BY <1>1, <1>2
<1>5. EventsNameRows' /\ OpenTargetsUntouched' /\ VersionsAudited'
    BY <1>1 DEF EventsNameRows, OpenTargetsUntouched, VersionsAudited
<1>6. LoneTargets'
    BY <1>1, <1>3, <1>4 DEF LoneTargets
<1>7. RequestsShareTasks'
    <2>1. \A s \in Reviewers : req[s].phase # "idle" /\ req[s].target = task[t].target
             => req[s].task = t
        BY <1>1 DEF ReviewInv, RequestsMindTheirTask
    <2>2. QED  BY <2>1, <1>3, <1>4 DEF RequestsShareTasks
<1>8. RequestsFollowEvents'
    BY <1>1, <1>3, <1>4 DEF RequestsFollowEvents, OpenTargetsUntouched
<1>9. InvoiceTasks' /\ LoadedFits'
    BY <1>1, <1>3, <1>4 DEF InvoiceTasks, LoadedFits
<1>10. QED  BY <1>5, <1>6, <1>7, <1>8, <1>9

\* A request that reads its record, while it is alone, finds it undecided; a
\* correction is admitted only for a record of its kind.
LEMMA ReadRecordHistory ==
    ASSUME ReviewInv, HistoryInv, NEW r \in Reviewers, ReadRecord(r)
    PROVE  HistoryInv'
<1> USE DEF HistoryInv
<1>1. /\ req[r].phase # "idle" /\ Admissible(req[r].action, rec[req[r].target])
      /\ rec' = rec /\ task' = task /\ audit' = audit /\ contended' = contended
    BY DEF ReadRecord
<1>2. req \in [Reviewers -> RequestSet]
    BY DEF ReviewInv, ReviewTypeOK
<1>3. /\ req'[r].task = req[r].task /\ req'[r].target = req[r].target
      /\ req'[r].action = req[r].action /\ req'[r].phase = "loaded"
      /\ req'[r].seen = rec[req[r].target].status
      /\ \A s \in Reviewers : s # r => req'[s] = req[s]
    BY <1>2 DEF ReadRecord, RequestSet
<1>4. \A s \in Reviewers : /\ req'[s].phase # "idle" => req[s].phase # "idle"
                           /\ req'[s].task = req[s].task /\ req'[s].target = req[s].target
    BY <1>1, <1>3
<1>5. EventsNameRows' /\ OpenTargetsUntouched' /\ VersionsAudited'
    BY <1>1 DEF EventsNameRows, OpenTargetsUntouched, VersionsAudited
<1>6. RequestsShareTasks' /\ RequestsFollowEvents' /\ InvoiceTasks'
    BY <1>1, <1>4 DEF RequestsShareTasks, RequestsFollowEvents, InvoiceTasks
<1>7. req[r].task \notin contended => rec[req[r].target].status \in Undecided
    <2>1. ASSUME req[r].task \notin contended
          PROVE  /\ task[req[r].task].target = req[r].target
                 /\ task[req[r].task].status = "open"
                 /\ req[r].task \in DOMAIN task /\ req[r].target \in DOMAIN rec
        BY <2>1, <1>1 DEF LoneTargets, ReviewInv, LoneRequests, RequestsPointSomewhere
    <2>2. 0 \notin DOMAIN rec
        BY SeqDomain DEF ReviewInv, ReviewTypeOK
    <2>3. QED  BY <2>1, <2>2 DEF ReviewInv, OpenTargetsUndecided
<1>8. LoneTargets'
    BY <1>1, <1>3, <1>4, <1>7 DEF LoneTargets
<1>9. LoadedFits'
    BY <1>1, <1>3 DEF LoadedFits, Admissible
<1>10. QED  BY <1>5, <1>6, <1>8, <1>9

LEMMA GiveUpHistory ==
    ASSUME ReviewInv, HistoryInv, NEW r \in Reviewers, GiveUp(r)
    PROVE  HistoryInv'
<1> USE DEF HistoryInv
<1>1. /\ rec' = rec /\ task' = task /\ audit' = audit /\ contended' = contended
      /\ req' = [req EXCEPT ![r] = Idle] /\ Idle.phase = "idle"
    BY DEF GiveUp, Idle
<1>2. req \in [Reviewers -> RequestSet]
    BY DEF ReviewInv, ReviewTypeOK
<1>3. req'[r].phase = "idle" /\ \A s \in Reviewers : s # r => req'[s] = req[s]
    BY <1>1, <1>2
<1>4. EventsNameRows' /\ OpenTargetsUntouched' /\ VersionsAudited'
    BY <1>1 DEF EventsNameRows, OpenTargetsUntouched, VersionsAudited
<1>5. LoneTargets' /\ RequestsShareTasks' /\ RequestsFollowEvents' /\ InvoiceTasks'
      /\ LoadedFits'
    BY <1>1, <1>3 DEF LoneTargets, RequestsShareTasks, RequestsFollowEvents, InvoiceTasks,
        LoadedFits
<1>6. QED  BY <1>4, <1>5

\* Neither an import that reads nor a stutter touches any of it.
LEMMA NothingHappens ==
    ASSUME HistoryInv, rec' = rec, task' = task, audit' = audit, req' = req,
           contended' = contended
    PROVE  HistoryInv'
BY DEF HistoryInv, EventsNameRows, LoneTargets, OpenTargetsUntouched, RequestsShareTasks,
    RequestsFollowEvents, VersionsAudited, InvoiceTasks, LoadedFits

-----------------------------------------------------------------------------
(* The steps that write rows have the shapes above.                        *)

\* A table made longer has its old rows and, after them, the added ones.
LEMMA TableGrows ==
    ASSUME NEW S, NEW s \in Seq(S), NEW old \in Seq(S), NEW more \in Seq(S),
           Len(old) = Len(s)
    PROVE  /\ \A k \in DOMAIN s : k \in DOMAIN (old \o more) /\ (old \o more)[k] = old[k]
           /\ \A k \in DOMAIN (old \o more) \ DOMAIN s :
                k - Len(s) \in DOMAIN more /\ (old \o more)[k] = more[k - Len(s)]
           /\ \A k \in DOMAIN more : Len(s) + k \in DOMAIN (old \o more) \ DOMAIN s
                                     /\ (old \o more)[Len(s) + k] = more[k]
<1>1. IsLonger(old \o more, old, more)
    BY Longer
<1>2. /\ DOMAIN s = 1..Len(s) /\ DOMAIN old = 1..Len(s)
      /\ Len(s) \in Nat /\ Len(more) \in Nat /\ DOMAIN more = 1..Len(more)
    BY SeqDomain
<1>3. QED  BY <1>1, <1>2 DEF IsLonger

LEMMA MaterializeInvoiceCreates ==
    ASSUME ReviewInv, MaterializeInvoice
    PROVE  CreatesStep
<1> DEFINE invoice == Row("invoice", "pending_review", 0, "workflow")
           proposed(p) == [k \in DOMAIN p |-> Row(p[k], "proposed", Len(rec) + 1, "workflow")]
           about == OpenTask("extraction", Len(rec) + 1)
<1>1. PICK proposals \in {<<>>, <<"classification">>,
                          <<"classification", "reconciliation">>} :
         rec' = Append(rec, invoice) \o proposed(proposals)
    BY DEF MaterializeInvoice
<1>2. audit' = audit /\ req' = req /\ contended' = contended /\ task' = Append(task, about)
    BY DEF MaterializeInvoice
<1>3. /\ rec \in Seq(RowSet) /\ task \in Seq(TaskSet) /\ Len(rec) \in Nat
      /\ DOMAIN rec = 1..Len(rec)
    BY SeqDomain DEF ReviewInv, ReviewTypeOK
<1> DEFINE added == proposed(proposals)
<1>4. /\ invoice \in RowSet /\ invoice.status \in Undecided /\ invoice.supersedes = 0
      /\ invoice.origin = "workflow" /\ invoice.kind = "invoice"
    BY DEF Row, RowSet, Kinds, Status, Undecided
<1>5. /\ DOMAIN proposals = 1..Len(proposals) /\ Len(proposals) \in Nat
      /\ \A k \in DOMAIN proposals : proposals[k] \in Kinds
    BY DEF Kinds
<1>6. \A k \in DOMAIN added :
         /\ added[k] \in RowSet /\ added[k].status \in Undecided
         /\ added[k].supersedes = 0 /\ added[k].origin = "workflow"
    <2>1. ASSUME NEW kind \in Kinds
          PROVE  LET row == Row(kind, "proposed", Len(rec) + 1, "workflow") IN
                   /\ row \in RowSet /\ row.status \in Undecided
                   /\ row.supersedes = 0 /\ row.origin = "workflow"
        BY <1>3 DEF Row, RowSet, Status, Undecided
    <2>2. QED  BY <1>5, <2>1
<1>7. added \in Seq(RowSet)
    <2>1. added \in [1..Len(proposals) -> RowSet]
        BY <1>5, <1>6
    <2>2. QED  BY <2>1, <1>5, SeqDef
<1>8. /\ about \in TaskSet /\ about.target = Len(rec) + 1 /\ about.type = "extraction"
    BY <1>3 DEF OpenTask, TaskSet
<1> HIDE DEF invoice, added, about
<1>9. rec' = rec \o (<<invoice>> \o added) /\ <<invoice>> \o added \in Seq(RowSet)
      /\ Len(<<invoice>> \o added) = Len(added) + 1
    <2>1. rec' = Append(rec, invoice) \o added
        BY <1>1 DEF added
    <2>2. rec \in Seq(RowSet) /\ invoice \in RowSet /\ added \in Seq(RowSet)
        BY <1>3, <1>4, <1>7
    <2>3. /\ <<invoice>> \o added \in Seq(RowSet)
          /\ Append(rec, invoice) \o added = rec \o (<<invoice>> \o added)
          /\ Len(<<invoice>> \o added) = Len(added) + 1
        BY <2>2, AppendThen
    <2>4. QED  BY <2>1, <2>3
<1> DEFINE all == <<invoice>> \o added
<1>10. /\ all[1] = invoice
       /\ \A k \in DOMAIN all : k # 1 => k - 1 \in DOMAIN added /\ all[k] = added[k - 1]
    BY <1>3, <1>4, <1>7, AppendThen
<1>11. all \in Seq(RowSet) /\ rec' = rec \o all /\ 1 \in DOMAIN all
    <2>1. Len(added) \in Nat /\ DOMAIN all = 1..Len(all)
        BY <1>7, <1>9, SeqDomain
    <2>2. QED  BY <2>1, <1>9
<1> HIDE DEF all
<1>12. /\ \A k \in DOMAIN rec : k \in DOMAIN rec' /\ rec'[k] = rec[k]
       /\ \A k \in DOMAIN rec' \ DOMAIN rec :
            k - Len(rec) \in DOMAIN all /\ rec'[k] = all[k - Len(rec)]
       /\ Len(rec) + 1 \in DOMAIN rec' \ DOMAIN rec
    BY <1>3, <1>11, TableGrows
<1>13. \A k \in NewRows : /\ rec'[k].supersedes = 0 /\ rec'[k].status \in Undecided
                          /\ rec'[k].origin # "review"
    BY <1>4, <1>6, <1>10, <1>12 DEF NewRows
<1>14. /\ \A u \in DOMAIN task : u \in DOMAIN task' /\ task'[u] = task[u]
       /\ \A u \in NewTasks : task'[u] = about
    BY <1>2, <1>3, <1>8, OneLonger DEF NewTasks
<1>15. QED
    BY <1>2, <1>8, <1>12, <1>13, <1>14 DEF CreatesStep, NewRows

LEMMA MaterializeFailureCreates ==
    ASSUME ReviewInv, MaterializeFailure
    PROVE  CreatesStep
<1> DEFINE about == OpenTask("extraction", 0)
<1>1. /\ rec' = rec /\ audit' = audit /\ req' = req /\ contended' = contended
      /\ task' = Append(task, about)
    BY DEF MaterializeFailure
<1>2. about \in TaskSet /\ about.target = 0
    BY DEF OpenTask, TaskSet
<1> HIDE DEF about
<1>3. task \in Seq(TaskSet)
    BY DEF ReviewInv, ReviewTypeOK
<1>4. /\ \A u \in DOMAIN task : u \in DOMAIN task' /\ task'[u] = task[u]
      /\ \A u \in NewTasks : task'[u] = about
    BY <1>1, <1>2, <1>3, OneLonger DEF NewTasks
<1>5. QED  BY <1>1, <1>2, <1>4 DEF CreatesStep, NewRows

LEMMA ImportCommitsCreates ==
    ASSUME ReviewInv, NEW sure \in BOOLEAN, ImportCommits(sure)
    PROVE  CreatesStep
<1> DEFINE row == Row("reconciliation", IF sure THEN "proposed" ELSE "pending_review",
                      importing, "import")
           about == OpenTask("reconciliation", Len(rec) + 1)
<1>1. /\ audit' = audit /\ req' = req /\ contended' = contended
      /\ importing # 0 /\ rec' = Append(rec, row)
      /\ task' = IF sure THEN task ELSE Append(task, about)
    BY DEF ImportCommits
<1>2. /\ rec \in Seq(RowSet) /\ task \in Seq(TaskSet) /\ importing \in DOMAIN rec
    BY <1>1 DEF ReviewInv, ReviewTypeOK
<1>3. Len(rec) \in Nat /\ DOMAIN rec = 1..Len(rec) /\ importing \in Nat
    BY <1>2, SeqDomain
<1>4. /\ row \in RowSet /\ row.status \in Undecided /\ row.supersedes = 0
      /\ row.origin = "import" /\ row.kind = "reconciliation"
    BY <1>3 DEF Row, RowSet, Kinds, Status, Undecided
<1>5. about \in TaskSet /\ about.target = Len(rec) + 1
    BY <1>3 DEF OpenTask, TaskSet
<1> HIDE DEF row, about
<1>6. /\ \A k \in DOMAIN rec : k \in DOMAIN rec' /\ rec'[k] = rec[k]
      /\ \A k \in NewRows : rec'[k] = row
      /\ Len(rec) + 1 \in NewRows
    BY <1>1, <1>2, <1>3, <1>4, OneLonger DEF NewRows
<1>7. /\ \A u \in DOMAIN task : u \in DOMAIN task' /\ task'[u] = task[u]
      /\ \A u \in NewTasks : task'[u] = about
    <2>1. CASE sure
        BY <2>1, <1>1 DEF NewTasks
    <2>2. CASE ~sure
        BY <2>2, <1>1, <1>2, <1>5, OneLonger DEF NewTasks
    <2>3. QED  BY <2>1, <2>2
<1>8. QED  BY <1>1, <1>4, <1>5, <1>6, <1>7 DEF CreatesStep

\* The stored rows after the UPDATE of one status column.
LEMMA StatusWritten ==
    ASSUME ReviewInv, NEW i \in DOMAIN rec, NEW seen \in Status, NEW new \in Status
    PROVE  /\ Written(i, seen, new) \in Seq(RowSet) /\ Len(Written(i, seen, new)) = Len(rec)
           /\ \A k \in DOMAIN rec :
                /\ Written(i, seen, new)[k].kind = rec[k].kind
                /\ Written(i, seen, new)[k].version = rec[k].version
                /\ Written(i, seen, new)[k].supersedes = rec[k].supersedes
                /\ Written(i, seen, new)[k].about = rec[k].about
                /\ Written(i, seen, new)[k].origin = rec[k].origin
                /\ k # i => Written(i, seen, new)[k].status = rec[k].status
           /\ \/ Written(i, seen, new)[i].status = new
              \/ seen = new /\ Written(i, seen, new)[i].status = rec[i].status
<1>1. rec \in Seq(RowSet) /\ rec[i] \in RowSet
    BY SeqDomain DEF ReviewInv, ReviewTypeOK
<1>2. CASE seen = new
    BY <1>1, <1>2 DEF Written
<1>3. CASE seen # new
    <2> DEFINE row == [rec[i] EXCEPT !.status = new]
    <2>1. /\ row \in RowSet /\ row.status = new
          /\ row.kind = rec[i].kind /\ row.version = rec[i].version
          /\ row.supersedes = rec[i].supersedes /\ row.about = rec[i].about
          /\ row.origin = rec[i].origin
        BY <1>1 DEF RowSet
    <2>2. Written(i, seen, new) = [rec EXCEPT ![i] = row]
        BY <1>3 DEF Written
    <2> HIDE DEF row
    <2>3. /\ Written(i, seen, new) \in Seq(RowSet) /\ Len(Written(i, seen, new)) = Len(rec)
          /\ Written(i, seen, new)[i] = row
          /\ \A k \in DOMAIN rec : k # i => Written(i, seen, new)[k] = rec[k]
        BY <1>1, <2>1, <2>2, ExceptSeq
    <2>4. QED  BY <2>1, <2>3
<1>4. QED  BY <1>2, <1>3

\* What the continuation adds: a classification that is a Continuation, and a
\* reconciliation.
LEMMA ContinuationRows ==
    ASSUME NEW invoice \in Nat, NEW low \in BOOLEAN
    PROVE  /\ FollowUps(invoice, low) \in Seq(RowSet)
           /\ DOMAIN FollowUps(invoice, low) = 1..2
           /\ FollowUps(invoice, low)[1].kind = "classification"
           /\ FollowUps(invoice, low)[1].origin = "review"
           /\ FollowUps(invoice, low)[1].version = 1
           /\ FollowUps(invoice, low)[1].about = invoice
           /\ FollowUps(invoice, low)[2].kind = "reconciliation"
           /\ \A k \in 1..2 : /\ FollowUps(invoice, low)[k].supersedes = 0
                              /\ FollowUps(invoice, low)[k].status \in Undecided
<1> DEFINE rows == FollowUps(invoice, low)
<1>1. /\ rows \in Seq(RowSet) /\ Len(rows) = 2 /\ DOMAIN rows = 1..2
      /\ \A k \in 1..2 : rows[k].supersedes = 0 /\ rows[k].status \in Undecided
    BY FollowUpsForm
<1>2. /\ rows[1].kind = "classification" /\ rows[1].origin = "review"
      /\ rows[1].version = 1 /\ rows[1].about = invoice
      /\ rows[2].kind = "reconciliation"
    BY DEF FollowUps, Row
<1>3. QED  BY <1>1, <1>2

\* The tasks, with task t resolved and pointed at the target.
SettledTask(tasks, t, target) ==
    /\ tasks \in Seq(TaskSet) /\ Len(tasks) = Len(task)
    /\ \A u \in DOMAIN task : /\ tasks[u].type = task[u].type
                              /\ u # t => tasks[u] = task[u]
    /\ tasks[t].status = "resolved" /\ tasks[t].target = target

\* The tasks after a commit, from the task it resolves and the one it may add.
LEMMA TasksSettled ==
    ASSUME ReviewInv, NEW r \in Reviewers, NEW e, NEW tasks, NEW target, NEW more,
           req[r].task \in DOMAIN task, SettledTask(tasks, req[r].task, target),
           target \in {task[req[r].task].target, e.record},
           more \in Seq(TaskSet),
           \A k \in DOMAIN more : /\ more[k].target \in NewRows \ {e.record}
                                  /\ rec'[more[k].target].kind # "invoice",
           task' = tasks \o more
    PROVE  SettlesTasks(r, e)
<1>1. task \in Seq(TaskSet)
    BY DEF ReviewInv, ReviewTypeOK
<1>2. /\ \A u \in DOMAIN task : u \in DOMAIN task' /\ task'[u] = tasks[u]
      /\ \A u \in DOMAIN task' \ DOMAIN task :
           u - Len(task) \in DOMAIN more /\ task'[u] = more[u - Len(task)]
    BY <1>1, TableGrows DEF SettledTask
<1>3. \A u \in NewTasks : /\ task'[u].target \in NewRows \ {e.record}
                          /\ rec'[task'[u].target].kind # "invoice"
    BY <1>2 DEF NewTasks
<1>4. QED  BY <1>2, <1>3 DEF SettlesTasks, SettledTask

\* The task a commit resolves.
LEMMA TaskSettled ==
    ASSUME ReviewInv, NEW t \in DOMAIN task, NEW i \in Nat
    PROVE  /\ SettledTask(Resolved(t), t, task[t].target)
           /\ SettledTask(Corrected(t, i), t, i)
<1>1. task \in Seq(TaskSet) /\ task[t] \in TaskSet
    BY SeqDomain DEF ReviewInv, ReviewTypeOK
<1> DEFINE decided == [task[t] EXCEPT !.status = "resolved"]
           moved == [task[t] EXCEPT !.status = "resolved", !.target = i]
<1>2. /\ decided \in TaskSet /\ decided.status = "resolved"
      /\ decided.target = task[t].target /\ decided.type = task[t].type
      /\ moved \in TaskSet /\ moved.status = "resolved" /\ moved.target = i
      /\ moved.type = task[t].type
    BY <1>1 DEF TaskSet
<1>3. Resolved(t) = [task EXCEPT ![t] = decided] /\ Corrected(t, i) = [task EXCEPT ![t] = moved]
    BY <1>1 DEF Resolved, Corrected
<1> HIDE DEF decided, moved
<1>4. QED  BY <1>1, <1>2, <1>3, ExceptSeq DEF SettledTask

\* The task the continuation may add.
LEMMA FollowUpTask ==
    ASSUME NEW n \in Nat, NEW low \in BOOLEAN
    PROVE  /\ FollowUpTasks(n, low) \in Seq(TaskSet)
           /\ \A k \in DOMAIN FollowUpTasks(n, low) : FollowUpTasks(n, low)[k].target = n + 1
<1>1. OpenTask("classification", n + 1) \in TaskSet
      /\ OpenTask("classification", n + 1).target = n + 1
    BY DEF OpenTask, TaskSet
<1>2. QED  BY <1>1 DEF FollowUpTasks

LEMMA CommitDecisionSettles ==
    ASSUME ReviewInv, NEW r \in Reviewers, NEW low \in BOOLEAN, CommitDecision(r, low)
    PROVE  \E e \in EventSet : SettlesStep(r, e, Verdict(req[r].action))
<1> DEFINE i == req[r].target
           t == req[r].task
           status == Verdict(req[r].action)
           continues == Continues(req[r], rec[i].kind)
           row == Written(i, req[r].seen, status)
           more == IF continues THEN FollowUps(i, low) ELSE <<>>
           tasks == IF continues THEN FollowUpTasks(Len(rec), low) ELSE <<>>
           e == Event(req[r], i, 0, status)
<1>1. /\ req[r].phase = "loaded" /\ req[r].action \in Decisions
      /\ rec' = row \o more /\ task' = Resolved(t) \o tasks
      /\ audit' = Append(audit, e) /\ req' = [req EXCEPT ![r] = Idle]
      /\ contended' = contended
    BY DEF CommitDecision
<1>2. /\ i \in DOMAIN rec /\ t \in DOMAIN task /\ req[r] \in RequestSet
    BY <1>1 DEF ReviewInv, ReviewTypeOK, RequestsPointSomewhere
<1>3. rec \in Seq(RowSet) /\ Len(rec) \in Nat /\ DOMAIN rec = 1..Len(rec) /\ i \in Nat
    BY <1>2, SeqDomain DEF ReviewInv, ReviewTypeOK
<1>4. status \in Status /\ req[r].seen \in Status
    BY <1>2 DEF Verdict, Status, RequestSet
<1>5. /\ e \in EventSet /\ e.task = t /\ e.action = req[r].action
      /\ DecisionEvent(r, e, status) /\ e.record = i
    BY <1>1, <1>2, <1>4 DEF Event, EventSet, RequestSet, DecisionEvent
<1> HIDE DEF e
<1>6. /\ more \in Seq(RowSet)
      /\ continues =>
           /\ DOMAIN more = 1..2
           /\ more[1].kind = "classification" /\ more[1].origin = "review"
           /\ more[1].version = 1 /\ more[1].about = i
           /\ more[2].kind = "reconciliation"
           /\ \A k \in 1..2 : more[k].supersedes = 0 /\ more[k].status \in Undecided
      /\ ~continues => DOMAIN more = {}
    <2>1. CASE continues
        <3>1. more = FollowUps(i, low)
            BY <2>1
        <3>2. i \in Nat
            BY <1>3
        <3> HIDE DEF more, continues, i, status, row, tasks
        <3>3. QED  BY <2>1, <3>1, <3>2, ContinuationRows
    <2>2. CASE ~continues
        BY <2>2
    <2>3. QED  BY <2>1, <2>2
<1>7. /\ row \in Seq(RowSet) /\ Len(row) = Len(rec)
      /\ \A k \in DOMAIN rec :
           /\ row[k].kind = rec[k].kind /\ row[k].version = rec[k].version
           /\ row[k].supersedes = rec[k].supersedes /\ row[k].about = rec[k].about
           /\ row[k].origin = rec[k].origin /\ (k # i => row[k].status = rec[k].status)
      /\ row[i].status = status \/ (req[r].seen = status /\ row[i].status = rec[i].status)
    BY <1>2, <1>4, StatusWritten
<1> HIDE DEF row, more, continues, status
<1>8. /\ \A k \in DOMAIN rec : k \in DOMAIN rec' /\ rec'[k] = row[k]
      /\ \A k \in NewRows : k - Len(rec) \in DOMAIN more /\ rec'[k] = more[k - Len(rec)]
      /\ \A k \in DOMAIN more : Len(rec) + k \in NewRows /\ rec'[Len(rec) + k] = more[k]
    BY <1>1, <1>3, <1>6, <1>7, TableGrows DEF NewRows
<1>9. continues => /\ Len(rec) + 1 \in NewRows /\ Len(rec) + 1 # i
                   /\ rec'[Len(rec) + 1].kind = "classification"
    BY <1>2, <1>6, <1>8 DEF NewRows
<1>10. SettlesRows(r, e, status)
    <2>1. CASE continues
        <3>1. NewContinuation(Len(rec) + 1, i)
            BY <2>1, <1>6, <1>8 DEF NewContinuation
        <3>2. \A k \in NewRows : k # Len(rec) + 1 => rec'[k].kind # "classification"
            <4>1. ASSUME NEW k \in NewRows, k # Len(rec) + 1
                  PROVE  k - Len(rec) = 2
                <5>1. k - Len(rec) \in 1..2
                    BY <2>1, <1>6, <1>8
                <5>2. rec' \in Seq(RowSet)
                    BY <1>1, <1>6, <1>7, Longer DEF more, row
                <5>3. k \in Int
                    BY <5>2, SeqDomain DEF NewRows
                <5>4. QED  BY <5>1, <5>3, <4>1, <1>3
            <4>2. QED  BY <4>1, <2>1, <1>6, <1>8
        <3>3. \A k \in NewRows : rec'[k].supersedes = 0 /\ rec'[k].status \in Undecided
            BY <2>1, <1>6, <1>8
        <3>4. QED  BY <2>1, <3>1, <3>2, <3>3, <1>2, <1>5, <1>7, <1>8, <1>9
                   DEF SettlesRows, continues
    <2>2. CASE ~continues
        BY <2>2, <1>2, <1>5, <1>6, <1>7, <1>8 DEF SettlesRows, continues
    <2>3. QED  BY <2>1, <2>2
<1>11. SettlesTasks(r, e)
    <2>1. /\ tasks \in Seq(TaskSet)
          /\ \A k \in DOMAIN tasks : tasks[k].target = Len(rec) + 1
          /\ ~continues => DOMAIN tasks = {}
        BY <1>3, FollowUpTask
    <2> HIDE DEF tasks
    <2>2. \A k \in DOMAIN tasks : /\ tasks[k].target \in NewRows \ {e.record}
                                  /\ rec'[tasks[k].target].kind # "invoice"
        BY <2>1, <1>5, <1>9
    <2>3. SettledTask(Resolved(t), t, task[t].target)
        BY <1>2, <1>3, TaskSettled
    <2>4. QED  BY <2>1, <2>2, <2>3, <1>1, <1>2, TasksSettled
<1>12. SettlesStep(r, e, status)
    BY <1>1, <1>5, <1>10, <1>11 DEF SettlesStep
<1>13. QED  BY <1>5, <1>12 DEF status

LEMMA CommitCorrectionSettles ==
    ASSUME ReviewInv, NEW r \in Reviewers, NEW low \in BOOLEAN, CommitCorrection(r, low)
    PROVE  \E e \in EventSet : SettlesStep(r, e, "superseded")
<1> DEFINE i == req[r].target
           t == req[r].task
           n == Len(rec) + 1
           continues == Continues(req[r], rec[i].kind)
           row == Written(i, req[r].seen, "superseded")
           new == Replacement(i)
           follow == IF continues THEN FollowUps(n, low) ELSE <<>>
           more == <<new>> \o follow
           tasks == IF continues THEN FollowUpTasks(n, low) ELSE <<>>
           e == Event(req[r], n, i, new.status)
<1>1. /\ req[r].phase = "loaded" /\ req[r].action \in Corrections
      /\ rec' = Append(row, new) \o follow /\ task' = Corrected(t, n) \o tasks
      /\ audit' = Append(audit, e) /\ req' = [req EXCEPT ![r] = Idle]
      /\ contended' = contended
    BY DEF CommitCorrection
<1>2. /\ i \in DOMAIN rec /\ t \in DOMAIN task /\ req[r] \in RequestSet
    BY <1>1 DEF ReviewInv, ReviewTypeOK, RequestsPointSomewhere
<1>3. /\ rec \in Seq(RowSet) /\ Len(rec) \in Nat /\ DOMAIN rec = 1..Len(rec) /\ i \in Nat
      /\ n \in Nat /\ n # i /\ rec[i] \in RowSet
    BY <1>2, SeqDomain DEF ReviewInv, ReviewTypeOK
<1>4. "superseded" \in Status /\ req[r].seen \in Status
    BY <1>2 DEF Status, RequestSet
<1>5. /\ new \in RowSet /\ new.status \in Undecided /\ new.supersedes = i
      /\ new.version = rec[i].version + 1 /\ new.kind = rec[i].kind
    <2> DEFINE status == IF rec[i].kind = "invoice" THEN "extracted" ELSE "proposed"
               old == rec[i]
               version == rec[i].version + 1
    <2>1. status \in Undecided
        BY DEF Undecided
    <2>2. new = [old EXCEPT !.status = status, !.version = version, !.supersedes = i]
        <3>1. rec[i] \in RowSet
            BY <1>3
        <3>2. QED  BY <3>1 DEF Replacement, RowSet
    <2>3. old \in RowSet /\ version \in Nat \ {0} /\ i \in Nat
        <3>1. rec[i] \in RowSet /\ i \in Nat
            BY <1>3
        <3>2. rec[i].version \in Nat \ {0}
            BY <3>1 DEF RowSet
        <3>3. rec[i].version + 1 \in Nat \ {0}
            BY <3>2
        <3>4. QED  BY <3>1, <3>3
    <2> HIDE DEF status, old, version, new, i
    <2>4. /\ new \in RowSet /\ new.status = status /\ new.supersedes = i
          /\ new.version = version /\ new.kind = old.kind
        BY <2>1, <2>2, <2>3 DEF RowSet, Status
    <2>5. QED  BY <2>1, <2>4 DEF old, version
<1>6. /\ e \in EventSet /\ e.task = t /\ e.action = req[r].action
      /\ e.record = n /\ e.replaced = i /\ e.status = new.status
    BY <1>1, <1>2, <1>3, <1>5 DEF Event, EventSet, RequestSet, RowSet
<1> HIDE DEF e, new
<1>7. /\ follow \in Seq(RowSet)
      /\ continues =>
           /\ DOMAIN follow = 1..2
           /\ follow[1].kind = "classification" /\ follow[1].origin = "review"
           /\ follow[1].version = 1 /\ follow[1].about = n
           /\ follow[2].kind = "reconciliation"
           /\ \A k \in 1..2 : follow[k].supersedes = 0 /\ follow[k].status \in Undecided
      /\ ~continues => DOMAIN follow = {}
    <2>1. CASE continues
        <3>1. follow = FollowUps(n, low)
            BY <2>1
        <3> HIDE DEF follow, continues, n, i, row, tasks
        <3>2. QED  BY <2>1, <3>1, <1>3, ContinuationRows
    <2>2. CASE ~continues
        BY <2>2
    <2>3. QED  BY <2>1, <2>2
<1>8. /\ row \in Seq(RowSet) /\ Len(row) = Len(rec)
      /\ \A k \in DOMAIN rec :
           /\ row[k].kind = rec[k].kind /\ row[k].version = rec[k].version
           /\ row[k].supersedes = rec[k].supersedes /\ row[k].about = rec[k].about
           /\ row[k].origin = rec[k].origin /\ (k # i => row[k].status = rec[k].status)
      /\ \/ row[i].status = "superseded"
         \/ req[r].seen = "superseded" /\ row[i].status = rec[i].status
    BY <1>2, <1>4, StatusWritten
<1> HIDE DEF row, follow, continues
<1>9. /\ more \in Seq(RowSet) /\ Append(row, new) \o follow = row \o more
      /\ more[1] = new /\ Len(more) = Len(follow) + 1
      /\ \A k \in DOMAIN more : k # 1 => k - 1 \in DOMAIN follow /\ more[k] = follow[k - 1]
    <2>1. row \in Seq(RowSet) /\ new \in RowSet /\ follow \in Seq(RowSet)
        BY <1>5, <1>7, <1>8
    <2>2. QED  BY <2>1, AppendThen
<1> HIDE DEF more
<1>10. /\ 1 \in DOMAIN more
       /\ \A k \in DOMAIN follow : k + 1 \in DOMAIN more /\ more[k + 1] = follow[k]
    <2>1. /\ DOMAIN more = 1..Len(more) /\ DOMAIN follow = 1..Len(follow) /\ Len(follow) \in Nat
        BY <1>7, <1>9, SeqDomain
    <2>2. QED  BY <2>1, <1>9
<1>11. /\ \A k \in DOMAIN rec : k \in DOMAIN rec' /\ rec'[k] = row[k]
       /\ \A k \in NewRows : k - Len(rec) \in DOMAIN more /\ rec'[k] = more[k - Len(rec)]
       /\ \A k \in DOMAIN more : Len(rec) + k \in NewRows /\ rec'[Len(rec) + k] = more[k]
    <2>1. rec' = row \o more
        BY <1>1, <1>9
    <2>2. QED  BY <2>1, <1>3, <1>8, <1>9, TableGrows DEF NewRows
<1>12. n \in NewRows /\ rec'[n] = new
    BY <1>9, <1>10, <1>11
<1>13. \A k \in NewRows : k # n =>
          k - n \in DOMAIN follow /\ rec'[k] = follow[k - n]
    <2>1. rec' \in Seq(RowSet)
        <3>1. row \o more \in Seq(RowSet)
            BY <1>8, <1>9, Longer
        <3>2. QED  BY <3>1, <1>1, <1>9
    <2>2. DOMAIN rec' \subseteq Nat
        BY <2>1, SeqDomain
    <2>3. ASSUME NEW k \in NewRows, k # n
          PROVE  k - n \in DOMAIN follow /\ rec'[k] = follow[k - n]
        <3>1. k \in Nat /\ k - Len(rec) # 1 /\ k - Len(rec) - 1 = k - n
            BY <2>2, <2>3, <1>3 DEF NewRows
        <3>2. k - Len(rec) \in DOMAIN more /\ rec'[k] = more[k - Len(rec)]
            BY <1>11
        <3>3. k - Len(rec) - 1 \in DOMAIN follow
              /\ more[k - Len(rec)] = follow[k - Len(rec) - 1]
            BY <3>1, <3>2, <1>9
        <3>4. QED  BY <3>1, <3>2, <3>3
    <2>4. QED  BY <2>3
<1>14. continues => /\ n + 1 \in NewRows /\ n + 1 # n
                    /\ rec'[n + 1] = follow[1]
    <2>1. ASSUME continues PROVE 2 \in DOMAIN more /\ more[2] = follow[1]
        BY <2>1, <1>7, <1>10
    <2>2. Len(rec) + 2 = n + 1
        BY <1>3
    <2>3. QED  BY <2>1, <2>2, <1>3, <1>11
<1>15. CorrectionEvent(r, e, "superseded")
    BY <1>1, <1>5, <1>6, <1>12 DEF CorrectionEvent
<1> HIDE DEF n
<1>16. SettlesRows(r, e, "superseded")
    <2>1. CASE continues
        <3>1. NewContinuation(n + 1, n)
            BY <2>1, <1>7, <1>14 DEF NewContinuation
        <3>2. \A k \in NewRows : k \notin {n + 1, n} => rec'[k].kind # "classification"
            <4>1. ASSUME NEW k \in NewRows, k \notin {n + 1, n} PROVE k - n = 2
                <5>1. k - n \in 1..2
                    BY <4>1, <2>1, <1>7, <1>13
                <5>2. k \in Int
                    <6>1. rec' \in Seq(RowSet)
                        <7>1. row \o more \in Seq(RowSet)
                            BY <1>8, <1>9, Longer
                        <7>2. QED  BY <7>1, <1>1, <1>9
                    <6>2. QED  BY <6>1, SeqDomain DEF NewRows
                <5>3. QED  BY <5>1, <5>2, <4>1, <1>3
            <4>2. QED  BY <4>1, <2>1, <1>7, <1>13
        <3>3. \A k \in NewRows : k # n =>
                 rec'[k].supersedes = 0 /\ rec'[k].status \in Undecided
            BY <2>1, <1>7, <1>13
        <3>4. QED  BY <2>1, <3>1, <3>2, <3>3, <1>2, <1>6, <1>8, <1>11, <1>14
                   DEF SettlesRows, continues
    <2>2. CASE ~continues
        <3>1. \A k \in NewRows : k = n
            BY <2>2, <1>7, <1>13
        <3>2. QED  BY <2>2, <3>1, <1>2, <1>6, <1>8, <1>11 DEF SettlesRows, continues
    <2>3. QED  BY <2>1, <2>2
<1>17. SettlesTasks(r, e)
    <2>1. /\ tasks \in Seq(TaskSet)
          /\ \A k \in DOMAIN tasks : tasks[k].target = n + 1
          /\ ~continues => DOMAIN tasks = {}
        BY <1>3, FollowUpTask
    <2> HIDE DEF tasks
    <2>2. \A k \in DOMAIN tasks : /\ tasks[k].target \in NewRows \ {e.record}
                                  /\ rec'[tasks[k].target].kind # "invoice"
        BY <2>1, <1>6, <1>7, <1>14
    <2>3. SettledTask(Corrected(t, n), t, n) /\ n \in {task[t].target, e.record}
        BY <1>2, <1>3, <1>6, TaskSettled
    <2>4. QED  BY <2>1, <2>2, <2>3, <1>1, <1>2, TasksSettled
<1>18. SettlesStep(r, e, "superseded")
    BY <1>1, <1>6, <1>15, <1>16, <1>17 DEF SettlesStep
<1>19. QED  BY <1>6, <1>18

-----------------------------------------------------------------------------
LEMMA HistoryInit == Init => HistoryInv /\ Explained
<1> SUFFICES ASSUME Init PROVE HistoryInv /\ Explained
    OBVIOUS
<1>1. /\ DOMAIN rec = {} /\ DOMAIN task = {} /\ DOMAIN audit = {}
      /\ \A r \in Reviewers : req[r].phase = "idle"
    BY DEF Init, Idle
<1>2. HistoryInv
    BY <1>1 DEF HistoryInv, EventsNameRows, LoneTargets, OpenTargetsUntouched,
        RequestsShareTasks, RequestsFollowEvents, VersionsAudited, InvoiceTasks, LoadedFits
<1>3. Explained
    BY <1>1 DEF Explained, StatusExplained, VersionsLinear, FollowUpsAudited
<1>4. QED  BY <1>2, <1>3

LEMMA HistoryNext ==
    ASSUME ReviewInv, ReviewInv', HistoryInv, Explained, [Next]_vars
    PROVE  HistoryInv' /\ Explained'
<1>1. CASE MaterializeInvoice
    BY <1>1, MaterializeInvoiceCreates, CreatesKeeps
<1>2. CASE MaterializeFailure
    BY <1>2, MaterializeFailureCreates, CreatesKeeps
<1>3. ASSUME NEW i \in DOMAIN rec, ImportReads(i) PROVE HistoryInv' /\ Explained'
    BY <1>3, NothingHappens, TablesStayExplained DEF ImportReads
<1>4. ASSUME NEW sure \in BOOLEAN, ImportCommits(sure) PROVE HistoryInv' /\ Explained'
    BY <1>4, ImportCommitsCreates, CreatesKeeps
<1>5. ASSUME NEW r \in Reviewers, NEW t \in DOMAIN task,
             NEW a \in Decisions \cup Corrections, ReadTask(r, t, a)
      PROVE  HistoryInv' /\ Explained'
    <2>1. rec' = rec /\ audit' = audit /\ contended \subseteq contended'
        BY <1>5 DEF ReadTask
    <2>2. QED  BY <2>1, <1>5, ReadTaskHistory, TablesStayExplained
<1>6. ASSUME NEW r \in Reviewers, ReadRecord(r) PROVE HistoryInv' /\ Explained'
    BY <1>6, ReadRecordHistory, TablesStayExplained DEF ReadRecord
<1>7. ASSUME NEW r \in Reviewers, GiveUp(r) PROVE HistoryInv' /\ Explained'
    BY <1>7, GiveUpHistory, TablesStayExplained DEF GiveUp
<1>8. ASSUME NEW r \in Reviewers, NEW e \in EventSet, NEW status, SettlesStep(r, e, status)
      PROVE  HistoryInv' /\ Explained'
    <2>1. HistoryInv'
        BY <1>8, SettlesHistory
    <2>2. ReviewTypeOK'
        BY DEF ReviewInv
    <2>3. Explained'
        BY <1>8, <2>2, SettlesExplains, SettlesLinear, SettlesFollowUps DEF Explained
    <2>4. QED  BY <2>1, <2>3
<1>9. ASSUME NEW r \in Reviewers, NEW low \in BOOLEAN, CommitDecision(r, low)
      PROVE  HistoryInv' /\ Explained'
    BY <1>8, <1>9, CommitDecisionSettles
<1>10. ASSUME NEW r \in Reviewers, NEW low \in BOOLEAN, CommitCorrection(r, low)
       PROVE  HistoryInv' /\ Explained'
    BY <1>8, <1>10, CommitCorrectionSettles
<1>11. CASE UNCHANGED vars
    BY <1>11, NothingHappens, TablesStayExplained DEF vars
<1>12. QED
    BY <1>1, <1>2, <1>3, <1>4, <1>5, <1>6, <1>7, <1>9, <1>10, <1>11 DEF Next

\* The invariant the theorems below rest on: what the audit trail explains, and
\* how requests, tasks and events keep out of one another's way.
THEOREM ReviewHistory == Spec => [](HistoryInv /\ Explained)
<1>1. Init => HistoryInv /\ Explained
    BY HistoryInit
<1>2. /\ ReviewInv /\ ReviewInv' /\ HistoryInv /\ Explained /\ [Next]_vars
         => HistoryInv' /\ Explained'
    BY HistoryNext
<1>3. QED  BY <1>1, <1>2, ReviewInvariant, PTL DEF Spec

\* The status of every row is what the last event about it made it, unless
\* requests for that event's task overlapped; a row without events is undecided.
THEOREM ReviewStatusExplained == Spec => []StatusExplained
<1>1. HistoryInv /\ Explained => StatusExplained
    BY DEF Explained
<1>2. QED  BY <1>1, ReviewHistory, PTL

\* A superseded row has a next version, and one that was corrected without a
\* rival request is superseded and has exactly one.
THEOREM ReviewVersions == Spec => []VersionsLinear
<1>1. HistoryInv /\ Explained => VersionsLinear
    BY DEF Explained
<1>2. QED  BY <1>1, ReviewHistory, PTL

\* As many continuations ran for an invoice as events approved or created it.
THEOREM ReviewFollowUps == Spec => []FollowUpsAudited
<1>1. HistoryInv /\ Explained => FollowUpsAudited
    BY DEF Explained
<1>2. QED  BY <1>1, ReviewHistory, PTL
=============================================================================
