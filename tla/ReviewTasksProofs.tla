------------------------- MODULE ReviewTasksProofs -------------------------
(***************************************************************************)
(* Theorems about human review, for any number of requests in flight and   *)
(* any bounds.  Rows and tasks are only ever added, so the argument is     *)
(* about what one step adds and the one row and one task it changes        *)
(* (RowsStep, TasksStep); the steps of the specification are shown to be   *)
(* of that shape first.                                                    *)
(***************************************************************************)
EXTENDS ReviewTasks, SequenceTheorems, TLAPS

\* A request in flight points at an existing task and record.
RequestsPointSomewhere == \A r \in Reviewers : req[r].phase # "idle" =>
    req[r].task \in DOMAIN task /\ req[r].target \in DOMAIN rec

\* An open task with a request's record as target is that request's task: a
\* request, however late it commits, changes no record of another open task.
RequestsMindTheirTask == \A r \in Reviewers : \A t \in DOMAIN task :
    req[r].phase # "idle" /\ task[t].status = "open" /\ task[t].target = req[r].target
        => t = req[r].task

\* While requests for a task do not overlap, the one in flight found it open
\* and it still is.
LoneRequests == \A r \in Reviewers :
    req[r].phase # "idle" /\ req[r].task \notin contended =>
        /\ task[req[r].task].status = "open"
        /\ \A s \in Reviewers :
             req[s].phase # "idle" /\ req[s].task = req[r].task => s = r

EventsPointSomewhere == \A k \in DOMAIN audit : audit[k].task \in DOMAIN task

\* The import matches an invoice, and the bound leaves room for it.
ImportUnderWay == importing # 0 =>
    rec[importing].kind = "invoice" /\ imports < MaxImports

ReviewInv ==
    /\ ReviewTypeOK
    /\ ImportUnderWay
    /\ RequestsPointSomewhere
    /\ RequestsMindTheirTask
    /\ LoneRequests
    /\ EventsPointSomewhere
    /\ ResolvedIsAudited
    /\ OpenTargetsUndecided
    /\ DecidedOnce

\* all has the elements of s and after them those of u.
IsLonger(all, s, u) ==
    /\ Len(all) = Len(s) + Len(u)
    /\ \A i \in DOMAIN s : i \in DOMAIN all /\ all[i] = s[i]
    /\ \A k \in DOMAIN u : Len(s) + k \in DOMAIN all /\ all[Len(s) + k] = u[k]
    /\ \A i \in DOMAIN all :
         i \notin DOMAIN s => i - Len(s) \in DOMAIN u /\ all[i] = u[i - Len(s)]

\* A sequence made longer keeps its elements and adds those of the other.
LEMMA Longer ==
    ASSUME NEW S, NEW s \in Seq(S), NEW u \in Seq(S)
    PROVE  s \o u \in Seq(S) /\ IsLonger(s \o u, s, u)
<1>1. /\ s \o u \in Seq(S) /\ Len(s \o u) = Len(s) + Len(u)
      /\ \A i \in 1..(Len(s) + Len(u)) :
           (s \o u)[i] = IF i <= Len(s) THEN s[i] ELSE u[i - Len(s)]
    BY ConcatProperties
<1>2. /\ DOMAIN s = 1..Len(s) /\ Len(s) \in Nat
      /\ DOMAIN u = 1..Len(u) /\ Len(u) \in Nat
    BY LenProperties
<1>3. DOMAIN (s \o u) = 1..(Len(s) + Len(u))
    BY <1>1, LenProperties
<1>4. QED  BY <1>1, <1>2, <1>3 DEF IsLonger

\* Appending is lengthening by one element.
LEMMA OneLonger ==
    ASSUME NEW S, NEW s \in Seq(S), NEW e \in S
    PROVE  /\ Append(s, e) \in Seq(S)
           /\ Len(Append(s, e)) = Len(s) + 1
           /\ Len(s) + 1 \in DOMAIN Append(s, e)
           /\ Append(s, e)[Len(s) + 1] = e
           /\ \A i \in DOMAIN s : i \in DOMAIN Append(s, e) /\ Append(s, e)[i] = s[i]
           /\ \A i \in DOMAIN Append(s, e) : i \notin DOMAIN s => i = Len(s) + 1
BY LenProperties

-----------------------------------------------------------------------------
\* A row that a step adds as number k: undecided, newer than the row it
\* replaces, and about an invoice.
NewRow(k) ==
    /\ rec'[k].status \in Undecided
    /\ rec'[k].supersedes < k
    /\ rec'[k].kind # "invoice" =>
         rec'[k].about \in DOMAIN rec' /\ rec'[rec'[k].about].kind = "invoice"

\* A step adds rows, and of the old ones changes at most the status of row i.
RowsStep(i) ==
    /\ rec' \in Seq(RowSet) /\ Len(rec) <= Len(rec')
    /\ \A k \in DOMAIN rec :
         /\ rec'[k].kind = rec[k].kind /\ rec'[k].about = rec[k].about
         /\ rec'[k].supersedes = rec[k].supersedes
         /\ k # i => rec'[k] = rec[k]
    /\ \A k \in DOMAIN rec' \ DOMAIN rec : NewRow(k)

\* A step adds at most one task, open and about no old row, and of the old
\* ones at most resolves task t, possibly pointing it at a new row.
TasksStep(t) ==
    /\ task' \in Seq(TaskSet)
    /\ Len(task) <= Len(task') /\ Len(task') <= Len(task) + 1
    /\ \A u \in DOMAIN task : u # t => task'[u] = task[u]
    /\ t \in DOMAIN task =>
         /\ task'[t].status = "resolved"
         /\ \/ task'[t].target = task[t].target
            \/ task'[t].target \in DOMAIN rec' \ DOMAIN rec
    /\ \A u \in DOMAIN task' \ DOMAIN task :
         /\ task'[u].status = "open"
         /\ task'[u].target \in {0} \cup (DOMAIN rec' \ DOMAIN rec)
         /\ t \in DOMAIN task => task'[u].target # task'[t].target \/ task'[u].target = 0

\* The tables keep their form under steps of that shape.
LEMMA TablesStep ==
    ASSUME ReviewTypeOK, NEW i, NEW t, RowsStep(i), TasksStep(t)
    PROVE  /\ \A k \in DOMAIN rec' :
                /\ rec'[k].supersedes < k
                /\ rec'[k].kind # "invoice" =>
                     rec'[k].about \in DOMAIN rec' /\ rec'[rec'[k].about].kind = "invoice"
           /\ \A u \in DOMAIN task' : task'[u].target \in DOMAIN rec' \cup {0}
           /\ DOMAIN rec \subseteq DOMAIN rec' /\ DOMAIN task \subseteq DOMAIN task'
           /\ \A u, v \in DOMAIN task' \ DOMAIN task : u = v
<1>1. /\ DOMAIN rec = 1..Len(rec) /\ Len(rec) \in Nat
      /\ DOMAIN rec' = 1..Len(rec') /\ Len(rec') \in Nat
      /\ DOMAIN task = 1..Len(task) /\ Len(task) \in Nat
      /\ DOMAIN task' = 1..Len(task') /\ Len(task') \in Nat
    BY LenProperties DEF ReviewTypeOK, RowsStep, TasksStep
<1>2. DOMAIN rec \subseteq DOMAIN rec' /\ DOMAIN task \subseteq DOMAIN task'
    BY <1>1 DEF RowsStep, TasksStep
<1>3. ASSUME NEW k \in DOMAIN rec'
      PROVE  /\ rec'[k].supersedes < k
             /\ rec'[k].kind # "invoice" =>
                  rec'[k].about \in DOMAIN rec' /\ rec'[rec'[k].about].kind = "invoice"
    <2>1. CASE k \in DOMAIN rec
        BY <2>1, <1>2 DEF ReviewTypeOK, RowsStep
    <2>2. CASE k \notin DOMAIN rec
        BY <2>2, <1>3 DEF RowsStep, NewRow
    <2>3. QED  BY <2>1, <2>2
<1>4. ASSUME NEW u \in DOMAIN task' PROVE task'[u].target \in DOMAIN rec' \cup {0}
    <2>1. CASE u \in DOMAIN task
        BY <2>1, <1>2 DEF ReviewTypeOK, TasksStep
    <2>2. CASE u \notin DOMAIN task
        BY <2>2, <1>4 DEF TasksStep
    <2>3. QED  BY <2>1, <2>2
<1>5. \A u, v \in DOMAIN task' \ DOMAIN task : u = v
    BY <1>1 DEF TasksStep
<1>6. QED  BY <1>2, <1>3, <1>4, <1>5

\* No request enters flight or changes what it points at, and if task t is
\* resolved while nobody else's request for it overlapped, none is left.
RequestsStep(t) ==
    /\ req' \in [Reviewers -> RequestSet]
    /\ \A r \in Reviewers : req'[r].phase # "idle" =>
         /\ req[r].phase # "idle"
         /\ req'[r].task = req[r].task /\ req'[r].target = req[r].target
    /\ contended' = contended
    /\ t \in DOMAIN task \ contended =>
         \A r \in Reviewers : req'[r].phase # "idle" => req'[r].task # t

\* An open task keeps an undecided record of its own, provided the record a
\* step decides belongs to the task it resolves.
LEMMA OpenStep ==
    ASSUME ReviewTypeOK, OpenTargetsUndecided,
           NEW i, NEW t, RowsStep(i), TasksStep(t),
           \A u \in DOMAIN task :
               task[u].status = "open" /\ task[u].target = i => u = t /\ t \in DOMAIN task
    PROVE  OpenTargetsUndecided'
<1> USE DEF OpenTargetsUndecided
<1>1. /\ \A u \in DOMAIN task : task[u].target \in DOMAIN rec \cup {0}
      /\ 0 \notin DOMAIN rec /\ 0 \notin DOMAIN rec'
    BY LenProperties DEF ReviewTypeOK, RowsStep
<1>2. \A u, v \in DOMAIN task' \ DOMAIN task : u = v
    BY TablesStep
<1>3. ASSUME NEW u \in DOMAIN task', task'[u].status = "open", task'[u].target # 0
      PROVE  /\ rec'[task'[u].target].status \in Undecided
             /\ \A v \in DOMAIN task' : task'[v].target = task'[u].target => v = u
    <2>1. CASE u \in DOMAIN task
        <3>1. u # t /\ task'[u] = task[u]
            BY <2>1, <1>3 DEF TasksStep
        <3>2. task[u].target \in DOMAIN rec /\ task[u].target # i
            BY <3>1, <2>1, <1>1, <1>3
        <3>3. rec'[task'[u].target].status \in Undecided
            BY <3>1, <3>2, <2>1, <1>3 DEF RowsStep
        <3>4. ASSUME NEW v \in DOMAIN task', task'[v].target = task'[u].target
              PROVE  v = u
            <4>1. CASE v \in DOMAIN task /\ v # t
                BY <4>1, <3>1, <3>4, <2>1, <1>3 DEF TasksStep
            <4>2. CASE v \in DOMAIN task /\ v = t
                BY <4>2, <3>1, <3>2, <3>4, <2>1, <1>3 DEF TasksStep
            <4>3. CASE v \notin DOMAIN task
                BY <4>3, <3>1, <3>2, <3>4, <1>3 DEF TasksStep
            <4>4. QED  BY <4>1, <4>2, <4>3
        <3>5. QED  BY <3>3, <3>4
    <2>2. CASE u \notin DOMAIN task
        <3>1. task'[u].target \in DOMAIN rec' \ DOMAIN rec
            BY <2>2, <1>3 DEF TasksStep
        <3>2. rec'[task'[u].target].status \in Undecided
            BY <3>1 DEF RowsStep, NewRow
        <3>3. ASSUME NEW v \in DOMAIN task', task'[v].target = task'[u].target
              PROVE  v = u
            <4>1. CASE v \in DOMAIN task /\ v # t
                BY <4>1, <3>1, <3>3, <1>1, <1>3 DEF TasksStep
            <4>2. CASE v \in DOMAIN task /\ v = t
                BY <4>2, <3>3, <2>2, <1>3 DEF TasksStep
            <4>3. CASE v \notin DOMAIN task
                BY <4>3, <2>2, <1>2
            <4>4. QED  BY <4>1, <4>2, <4>3
        <3>4. QED  BY <3>2, <3>3
    <2>3. QED  BY <2>1, <2>2
<1>4. QED  BY <1>3

\* Requests in flight keep to their records and tasks.
LEMMA RequestsKept ==
    ASSUME ReviewTypeOK, RequestsPointSomewhere, RequestsMindTheirTask, LoneRequests,
           NEW i, NEW t, RowsStep(i), TasksStep(t), RequestsStep(t)
    PROVE  RequestsPointSomewhere' /\ RequestsMindTheirTask' /\ LoneRequests'
<1>1. DOMAIN rec \subseteq DOMAIN rec' /\ DOMAIN task \subseteq DOMAIN task'
    BY TablesStep
<1>2. RequestsPointSomewhere'
    BY <1>1 DEF RequestsPointSomewhere, RequestsStep
<1>3. ASSUME NEW r \in Reviewers, NEW u \in DOMAIN task', req'[r].phase # "idle",
             task'[u].status = "open", task'[u].target = req'[r].target
      PROVE  u = req'[r].task
    <2>1. req[r].target \in DOMAIN rec /\ req'[r].target = req[r].target
          /\ req'[r].task = req[r].task /\ 0 \notin DOMAIN rec /\ req[r].phase # "idle"
        BY <1>3, LenProperties DEF RequestsPointSomewhere, RequestsStep, ReviewTypeOK
    <2>2. CASE u \in DOMAIN task
        <3>1. u # t /\ task'[u] = task[u]
            BY <2>2, <1>3 DEF TasksStep
        <3>2. QED  BY <3>1, <2>1, <2>2, <1>3 DEF RequestsMindTheirTask
    <2>3. CASE u \notin DOMAIN task
        BY <2>3, <2>1, <1>3 DEF TasksStep
    <2>4. QED  BY <2>2, <2>3
<1>4. ASSUME NEW r \in Reviewers, req'[r].phase # "idle", req'[r].task \notin contended'
      PROVE  /\ task'[req'[r].task].status = "open"
             /\ \A s \in Reviewers :
                  req'[s].phase # "idle" /\ req'[s].task = req'[r].task => s = r
    <2>1. /\ req[r].phase # "idle" /\ req'[r].task = req[r].task
          /\ req[r].task \in DOMAIN task \ contended
        BY <1>4 DEF RequestsStep, RequestsPointSomewhere
    <2>2. req[r].task # t
        BY <2>1, <1>4 DEF RequestsStep
    <2>3. QED  BY <2>1, <2>2 DEF LoneRequests, RequestsStep, TasksStep
<1>5. QED  BY <1>2, <1>3, <1>4 DEF RequestsMindTheirTask, LoneRequests

\* A step leaves the audit trail alone and resolves nothing, or adds one event
\* about the task it resolves.
AuditStep(t) ==
    \/ audit' = audit /\ t \notin DOMAIN task
    \/ /\ t \in DOMAIN task
       /\ \E e \in EventSet : e.task = t /\ audit' = Append(audit, e)

\* The audit trail agrees with the tasks, and a task is decided twice only if
\* it was contended.
LEMMA AuditKept ==
    ASSUME ReviewTypeOK, EventsPointSomewhere, ResolvedIsAudited, DecidedOnce,
           NEW t, TasksStep(t), AuditStep(t), contended \subseteq contended',
           t \in DOMAIN task \ contended => task[t].status = "open",
           DOMAIN task \subseteq DOMAIN task'
    PROVE  EventsPointSomewhere' /\ ResolvedIsAudited' /\ DecidedOnce'
<1> USE DEF EventsPointSomewhere, ResolvedIsAudited, DecidedOnce
<1>1. CASE audit' = audit /\ t \notin DOMAIN task
    <2>1. \A u \in DOMAIN task : task'[u] = task[u]
        BY <1>1 DEF TasksStep
    <2>2. \A u \in DOMAIN task' : u \in DOMAIN task \/ task'[u].status = "open"
        BY DEF TasksStep
    <2>3. ResolvedIsAudited'
        BY <2>1, <2>2, <1>1
    <2>4. QED  BY <1>1, <2>3
<1>2. ASSUME t \in DOMAIN task, NEW e \in EventSet, e.task = t, audit' = Append(audit, e)
      PROVE  EventsPointSomewhere' /\ ResolvedIsAudited' /\ DecidedOnce'
    <2>1. /\ Len(audit) + 1 \in DOMAIN audit' /\ audit'[Len(audit) + 1] = e
          /\ \A k \in DOMAIN audit : k \in DOMAIN audit' /\ audit'[k] = audit[k]
          /\ \A k \in DOMAIN audit' : k \notin DOMAIN audit => k = Len(audit) + 1
        BY <1>2, OneLonger DEF ReviewTypeOK
    <2>2. EventsPointSomewhere'
        BY <2>1, <1>2
    <2>3. ASSUME NEW u \in DOMAIN task'
          PROVE  task'[u].status = "resolved" <=> \E k \in DOMAIN audit' : audit'[k].task = u
        <3>1. CASE u = t
            BY <3>1, <2>1, <1>2 DEF TasksStep
        <3>2. CASE u # t /\ u \in DOMAIN task
            BY <3>2, <2>1, <1>2 DEF TasksStep
        <3>3. CASE u \notin DOMAIN task
            BY <3>3, <2>1, <2>3, <1>2 DEF TasksStep
        <3>4. QED  BY <3>1, <3>2, <3>3
    <2>4. ASSUME NEW k \in DOMAIN audit', NEW l \in DOMAIN audit',
                 audit'[k].task = audit'[l].task, audit'[k].task \notin contended'
          PROVE  k = l
        <3>1. CASE k \in DOMAIN audit /\ l \in DOMAIN audit
            BY <3>1, <2>1, <2>4
        <3>2. t \notin contended => \A m \in DOMAIN audit : audit[m].task # t
            BY <1>2 DEF TasksStep
        <3>3. QED  BY <3>1, <3>2, <2>1, <2>4, <1>2
    <2>5. QED  BY <2>2, <2>3, <2>4
<1>3. QED  BY <1>1, <1>2 DEF AuditStep

-----------------------------------------------------------------------------
(* Every step that writes rows or tasks has that shape.                    *)

\* Rows that differ from the stored ones at most in the status of row i.
SameRows(rows, i) ==
    /\ rows \in Seq(RowSet) /\ Len(rows) = Len(rec)
    /\ \A k \in DOMAIN rec :
         /\ rows[k].kind = rec[k].kind /\ rows[k].about = rec[k].about
         /\ rows[k].supersedes = rec[k].supersedes
         /\ k # i => rows[k] = rec[k]

\* Rows to add: each undecided, replacing an old row if any, and about an
\* old invoice or about the first of them, itself an invoice.
AddedRows(more) ==
    /\ more \in Seq(RowSet)
    /\ \A k \in DOMAIN more :
         /\ more[k].status \in Undecided /\ more[k].supersedes <= Len(rec)
         /\ more[k].kind # "invoice" =>
              \/ more[k].about \in DOMAIN rec /\ rec[more[k].about].kind = "invoice"
              \/ more[k].about = Len(rec) + 1 /\ more[1].kind = "invoice"

LEMMA RowsAdded ==
    ASSUME ReviewTypeOK, NEW i, NEW rows, NEW more, SameRows(rows, i), AddedRows(more),
           rec' = rows \o more
    PROVE  RowsStep(i) /\ Len(rec') = Len(rec) + Len(more)
<1>1. /\ DOMAIN rec = 1..Len(rec) /\ Len(rec) \in Nat /\ rec \in Seq(RowSet)
      /\ DOMAIN rows = 1..Len(rec) /\ rows \in Seq(RowSet) /\ Len(rows) = Len(rec)
      /\ DOMAIN more = 1..Len(more) /\ Len(more) \in Nat /\ more \in Seq(RowSet)
    BY LenProperties DEF ReviewTypeOK, SameRows, AddedRows
<1>2. /\ rec' \in Seq(RowSet) /\ Len(rec') = Len(rec) + Len(more)
      /\ \A k \in DOMAIN rec : k \in DOMAIN rec' /\ rec'[k] = rows[k]
      /\ \A k \in DOMAIN more : Len(rec) + k \in DOMAIN rec'
                                /\ rec'[Len(rec) + k] = more[k]
      /\ \A k \in DOMAIN rec' : k \notin DOMAIN rec =>
           k - Len(rec) \in DOMAIN more /\ rec'[k] = more[k - Len(rec)]
    <2>1. rec' \in Seq(RowSet) /\ IsLonger(rec', rows, more)
        BY <1>1, Longer
    <2>2. QED  BY <2>1, <1>1 DEF IsLonger
<1>3. DOMAIN rec' = 1..Len(rec')
    BY <1>2, LenProperties
<1>4. ASSUME NEW k \in DOMAIN rec' \ DOMAIN rec PROVE NewRow(k)
    <2>1. k - Len(rec) \in DOMAIN more /\ rec'[k] = more[k - Len(rec)] /\ k > Len(rec)
        BY <1>1, <1>2, <1>3
    <2>2. more[k - Len(rec)] \in RowSet
        BY <2>1, <1>1, ElementOfSeq
    <2>3. rec'[k].status \in Undecided /\ rec'[k].supersedes < k
        BY <2>1, <2>2, <1>1, <1>3 DEF AddedRows, RowSet
    <2>4. ASSUME rec'[k].kind # "invoice"
          PROVE  rec'[k].about \in DOMAIN rec' /\ rec'[rec'[k].about].kind = "invoice"
        <3>1. CASE rec'[k].about \in DOMAIN rec /\ rec[rec'[k].about].kind = "invoice"
            BY <3>1, <1>2 DEF SameRows
        <3>2. CASE rec'[k].about = Len(rec) + 1 /\ more[1].kind = "invoice"
            <4>1. 1 \in DOMAIN more
                BY <2>1, <1>1
            <4>2. QED  BY <3>2, <4>1, <1>2
        <3>3. QED  BY <3>1, <3>2, <2>1, <2>4 DEF AddedRows
    <2>5. QED  BY <2>3, <2>4 DEF NewRow
<1>5. Len(rec) <= Len(rec')
    BY <1>1, <1>2
<1>6. QED  BY <1>2, <1>4, <1>5 DEF RowsStep, SameRows

\* The stored rows, and the stored rows with one status written.
LEMMA RowsWritten ==
    ASSUME ReviewTypeOK
    PROVE  /\ \A i : SameRows(rec, i)
           /\ \A i \in DOMAIN rec, seen \in Status, new \in Status :
                SameRows(Written(i, seen, new), i)
<1>1. \A i : SameRows(rec, i)
    BY DEF SameRows, ReviewTypeOK
<1>2. ASSUME NEW i \in DOMAIN rec, NEW seen \in Status, NEW new \in Status
      PROVE  SameRows(Written(i, seen, new), i)
    <2>1. CASE seen = new
        BY <2>1, <1>1 DEF Written
    <2>2. CASE seen # new
        <3>1. DOMAIN rec = 1..Len(rec) /\ rec \in Seq(RowSet)
            BY LenProperties DEF ReviewTypeOK
        <3> DEFINE row == [rec[i] EXCEPT !.status = new]
        <3>2. rec[i] \in RowSet
            BY <3>1, ElementOfSeq
        <3>3. /\ row \in RowSet /\ row.kind = rec[i].kind /\ row.about = rec[i].about
              /\ row.supersedes = rec[i].supersedes
            BY <3>2 DEF RowSet
        <3>4. Written(i, seen, new) = [rec EXCEPT ![i] = row]
            BY <2>2 DEF Written
        <3> HIDE DEF row
        <3>5. QED  BY <3>1, <3>3, <3>4, ExceptSeq DEF SameRows
    <2>3. QED  BY <2>1, <2>2
<1>3. QED  BY <1>1, <1>2

\* Appending an element and then others adds them all.
LEMMA AppendThen ==
    ASSUME NEW S, NEW s \in Seq(S), NEW e \in S, NEW u \in Seq(S)
    PROVE  /\ <<e>> \o u \in Seq(S) /\ Append(s, e) \o u = s \o (<<e>> \o u)
           /\ Append(s, e) = s \o <<e>>
           /\ Len(<<e>> \o u) = Len(u) + 1 /\ (<<e>> \o u)[1] = e
           /\ \A k \in DOMAIN (<<e>> \o u) :
                k # 1 => k - 1 \in DOMAIN u /\ (<<e>> \o u)[k] = u[k - 1]
<1>1. <<e>> \in Seq(S) /\ Len(<<e>>) = 1 /\ DOMAIN <<e>> = {1} /\ <<e>>[1] = e
    OBVIOUS
<1>2. Append(s, e) = s \o <<e>>
    OBVIOUS
<1>3. (s \o <<e>>) \o u = s \o (<<e>> \o u)
    BY <1>1, ConcatAssociative
<1>4. <<e>> \o u \in Seq(S) /\ IsLonger(<<e>> \o u, <<e>>, u)
    BY <1>1, Longer
<1>5. Len(u) \in Nat
    BY LenProperties
<1>6. QED  BY <1>1, <1>2, <1>3, <1>4, <1>5 DEF IsLonger

\* Tasks that differ from the stored ones at most in task t, resolved.
SameTasks(tasks, t) ==
    /\ tasks \in Seq(TaskSet) /\ Len(tasks) = Len(task)
    /\ \A u \in DOMAIN task : u # t => tasks[u] = task[u]
    /\ t \in DOMAIN task =>
         /\ tasks[t].status = "resolved"
         /\ \/ tasks[t].target = task[t].target
            \/ tasks[t].target \in DOMAIN rec' \ DOMAIN rec

\* At most one task to add: open, and about a row added by the same step that
\* task t is not pointed at.
AddedTasks(more, tasks, t) ==
    /\ more \in Seq(TaskSet) /\ Len(more) <= 1
    /\ \A k \in DOMAIN more :
         /\ more[k].status = "open"
         /\ \/ more[k].target = 0
            \/ /\ more[k].target \in DOMAIN rec' \ DOMAIN rec
               /\ t \in DOMAIN task => more[k].target # tasks[t].target

LEMMA TasksAdded ==
    ASSUME ReviewTypeOK, NEW t, NEW tasks, NEW more,
           SameTasks(tasks, t), AddedTasks(more, tasks, t), task' = tasks \o more
    PROVE  TasksStep(t)
<1>1. /\ DOMAIN task = 1..Len(task) /\ Len(task) \in Nat /\ task \in Seq(TaskSet)
      /\ DOMAIN tasks = 1..Len(task) /\ tasks \in Seq(TaskSet) /\ Len(tasks) = Len(task)
      /\ DOMAIN more = 1..Len(more) /\ Len(more) \in Nat /\ more \in Seq(TaskSet)
    BY LenProperties DEF ReviewTypeOK, SameTasks, AddedTasks
<1>2. task' \in Seq(TaskSet) /\ IsLonger(task', tasks, more)
    BY <1>1, Longer
<1>3. /\ Len(task) <= Len(task') /\ Len(task') <= Len(task) + 1
      /\ \A u \in DOMAIN task : task'[u] = tasks[u]
      /\ \A u \in DOMAIN task' \ DOMAIN task : \E k \in DOMAIN more : task'[u] = more[k]
    BY <1>1, <1>2 DEF IsLonger, AddedTasks
<1>4. QED  BY <1>2, <1>3 DEF TasksStep, SameTasks, AddedTasks

\* Nothing to add, and the tasks as they are.
LEMMA NothingAdded ==
    ASSUME ReviewTypeOK
    PROVE  /\ AddedRows(<<>>) /\ \A tasks, t : AddedTasks(<<>>, tasks, t)
           /\ \A t : t \notin DOMAIN task => SameTasks(task, t)
BY DEF AddedRows, AddedTasks, SameTasks, ReviewTypeOK

\* The rows of the continuation, for an old invoice or one added just before.
LEMMA FollowUpsForm ==
    ASSUME NEW invoice \in Nat, NEW low \in BOOLEAN
    PROVE  /\ FollowUps(invoice, low) \in Seq(RowSet) /\ Len(FollowUps(invoice, low)) = 2
           /\ DOMAIN FollowUps(invoice, low) = 1..2
           /\ \A k \in 1..2 : LET row == FollowUps(invoice, low)[k] IN
                /\ row.status \in Undecided /\ row.supersedes = 0
                /\ row.about = invoice
<1>1. /\ FollowUps(invoice, low)[1] =
           Row("classification", IF low THEN "pending_review" ELSE "proposed", invoice, "review")
      /\ FollowUps(invoice, low)[2] = Row("reconciliation", "proposed", invoice, "review")
      /\ Len(FollowUps(invoice, low)) = 2
    BY DEF FollowUps
<1>2. \A k \in 1..2 : LET row == FollowUps(invoice, low)[k] IN
         /\ row \in RowSet /\ row.status \in Undecided /\ row.supersedes = 0
         /\ row.about = invoice
    BY <1>1 DEF Row, RowSet, Kinds, Status, Undecided
<1>3. FollowUps(invoice, low) \in Seq(RowSet)
    BY <1>1, <1>2 DEF FollowUps
<1>4. QED  BY <1>1, <1>2, <1>3, LenProperties

-----------------------------------------------------------------------------
\* A step of that shape keeps the whole invariant.
LEMMA ShapedStep ==
    ASSUME ReviewInv, NEW i, NEW t,
           RowsStep(i), TasksStep(t), RequestsStep(t), AuditStep(t),
           \A u \in DOMAIN task :
               task[u].status = "open" /\ task[u].target = i => u = t /\ t \in DOMAIN task,
           t \in DOMAIN task \ contended => task[t].status = "open",
           importing' = 0 \/ (importing' = importing /\ imports' = imports),
           documents' \in 0..MaxDocuments, imports' \in 0..MaxImports
    PROVE  ReviewInv'
<1> USE DEF ReviewInv
<1>1. /\ \A k \in DOMAIN rec' :
           /\ rec'[k].supersedes < k
           /\ rec'[k].kind # "invoice" =>
                rec'[k].about \in DOMAIN rec' /\ rec'[rec'[k].about].kind = "invoice"
      /\ \A u \in DOMAIN task' : task'[u].target \in DOMAIN rec' \cup {0}
      /\ DOMAIN task \subseteq DOMAIN task'
    BY TablesStep
<1>2. audit' \in Seq(EventSet)
    <2>1. audit \in Seq(EventSet)
        BY DEF ReviewTypeOK
    <2>2. ASSUME NEW e \in EventSet, audit' = Append(audit, e) PROVE audit' \in Seq(EventSet)
        BY <2>1, <2>2
    <2>3. QED  BY <2>1, <2>2 DEF AuditStep
<1>3. ReviewTypeOK'
    BY <1>1, <1>2, TablesStep DEF ReviewTypeOK, RowsStep, TasksStep, RequestsStep
<1>4. RequestsPointSomewhere' /\ RequestsMindTheirTask' /\ LoneRequests'
    BY RequestsKept
<1>5. OpenTargetsUndecided'
    BY OpenStep
<1>6. EventsPointSomewhere' /\ ResolvedIsAudited' /\ DecidedOnce'
    BY <1>1, AuditKept DEF RequestsStep
<1>7. ImportUnderWay'
    BY DEF ImportUnderWay, ReviewTypeOK, RowsStep
<1>8. QED  BY <1>3, <1>4, <1>5, <1>6, <1>7

\* Creating rows and tasks is no request's business.
LEMMA Bystanders ==
    ASSUME ReviewInv, req' = req, contended' = contended, audit' = audit
    PROVE  /\ RequestsStep(0) /\ AuditStep(0) /\ 0 \notin DOMAIN task
           /\ \A u \in DOMAIN task : task[u].target # -1
           /\ Len(rec) \in Nat /\ DOMAIN rec = 1..Len(rec) /\ rec \in Seq(RowSet)
           /\ task \in Seq(TaskSet)
<1>1. /\ DOMAIN task = 1..Len(task) /\ DOMAIN rec = 1..Len(rec) /\ Len(rec) \in Nat
      /\ rec \in Seq(RowSet) /\ task \in Seq(TaskSet)
    BY LenProperties DEF ReviewInv, ReviewTypeOK
<1>2. RequestsStep(0)
    BY <1>1 DEF RequestsStep, ReviewInv, ReviewTypeOK
<1>3. \A u \in DOMAIN task : task[u].target # -1
    BY <1>1 DEF ReviewInv, ReviewTypeOK
<1>4. QED  BY <1>1, <1>2, <1>3 DEF AuditStep

LEMMA MaterializeInvoiceKeeps ==
    ASSUME ReviewInv, MaterializeInvoice
    PROVE  ReviewInv'
<1>1. req' = req /\ contended' = contended /\ audit' = audit
    BY DEF MaterializeInvoice
<1>2. /\ RequestsStep(0) /\ AuditStep(0) /\ 0 \notin DOMAIN task
      /\ \A u \in DOMAIN task : task[u].target # -1
      /\ Len(rec) \in Nat /\ DOMAIN rec = 1..Len(rec) /\ rec \in Seq(RowSet)
      /\ task \in Seq(TaskSet)
    BY <1>1, Bystanders
<1>3. PICK proposals \in {<<>>, <<"classification">>,
                          <<"classification", "reconciliation">>} :
        rec' = Append(rec, Row("invoice", "pending_review", 0, "workflow"))
               \o [k \in DOMAIN proposals |->
                     Row(proposals[k], "proposed", Len(rec) + 1, "workflow")]
    BY DEF MaterializeInvoice
<1> DEFINE invoice == Row("invoice", "pending_review", 0, "workflow")
           more == [k \in DOMAIN proposals |->
                      Row(proposals[k], "proposed", Len(rec) + 1, "workflow")]
<1>4. /\ DOMAIN proposals = 1..Len(proposals) /\ Len(proposals) \in Nat
      /\ \A k \in DOMAIN proposals : proposals[k] \in Kinds
    BY DEF Kinds
<1>5. invoice \in RowSet /\ invoice.status \in Undecided /\ invoice.supersedes = 0
      /\ invoice.kind = "invoice"
    BY DEF Row, RowSet, Kinds, Status, Undecided
<1>6. /\ DOMAIN more = DOMAIN proposals
      /\ \A k \in DOMAIN more :
           /\ more[k] \in RowSet /\ more[k].status \in Undecided
           /\ more[k].supersedes = 0 /\ more[k].about = Len(rec) + 1
    <2>1. ASSUME NEW kind \in Kinds
          PROVE  LET row == Row(kind, "proposed", Len(rec) + 1, "workflow") IN
                   /\ row \in RowSet /\ row.status \in Undecided
                   /\ row.supersedes = 0 /\ row.about = Len(rec) + 1
        BY <1>2 DEF Row, RowSet, Status, Undecided
    <2>2. QED  BY <1>4, <2>1
<1>7. more \in Seq(RowSet)
    <2>1. more \in [1..Len(proposals) -> RowSet]
        BY <1>4, <1>6
    <2>2. QED  BY <2>1, <1>4, SeqDef
<1> HIDE DEF invoice, more
<1>8. /\ rec' = rec \o (<<invoice>> \o more) /\ <<invoice>> \o more \in Seq(RowSet)
      /\ Len(<<invoice>> \o more) = Len(more) + 1 /\ Len(more) \in Nat
    <2>1. rec' = Append(rec, invoice) \o more
        BY <1>3 DEF invoice, more
    <2>2. rec \in Seq(RowSet) /\ invoice \in RowSet /\ more \in Seq(RowSet)
        BY <1>2, <1>5, <1>7
    <2>3. /\ <<invoice>> \o more \in Seq(RowSet)
          /\ Append(rec, invoice) \o more = rec \o (<<invoice>> \o more)
          /\ Len(<<invoice>> \o more) = Len(more) + 1
        BY <2>2, AppendThen
    <2>4. QED  BY <2>1, <2>2, <2>3, LenProperties
<1>9. AddedRows(<<invoice>> \o more)
    <2>1. /\ (<<invoice>> \o more)[1] = invoice
          /\ \A k \in DOMAIN (<<invoice>> \o more) :
               k # 1 => k - 1 \in DOMAIN more /\ (<<invoice>> \o more)[k] = more[k - 1]
        BY <1>2, <1>5, <1>7, AppendThen
    <2> DEFINE all == <<invoice>> \o more
    <2>2. \A k \in DOMAIN all : all[k] = invoice \/ \E l \in DOMAIN more : all[k] = more[l]
        BY <2>1
    <2>3. all \in Seq(RowSet) /\ all[1] = invoice
        BY <2>1, <1>8
    <2> HIDE DEF all
    <2>4. AddedRows(all)
        BY <2>2, <2>3, <1>2, <1>5, <1>6 DEF AddedRows
    <2>5. QED  BY <2>4 DEF all
<1>10. RowsStep(-1) /\ Len(rec') = Len(rec) + Len(more) + 1
    <2> DEFINE all == <<invoice>> \o more
    <2>1. ReviewTypeOK /\ SameRows(rec, -1) /\ AddedRows(all) /\ rec' = rec \o all
        BY <1>8, <1>9, RowsWritten DEF ReviewInv
    <2>2. Len(all) = Len(more) + 1
        BY <1>8
    <2> HIDE DEF all
    <2>3. RowsStep(-1) /\ Len(rec') = Len(rec) + Len(all)
        BY <2>1, RowsAdded
    <2>4. QED  BY <2>2, <2>3, <1>2, <1>8
<1>11. DOMAIN rec' = 1..Len(rec') /\ Len(rec) + 1 \in DOMAIN rec' \ DOMAIN rec
    BY <1>2, <1>8, <1>10, LenProperties DEF RowsStep
<1>12. TasksStep(0)
    <2>1. OpenTask("extraction", Len(rec) + 1) \in TaskSet
        BY <1>2 DEF OpenTask, TaskSet
    <2>2. task' = task \o <<OpenTask("extraction", Len(rec) + 1)>>
        BY <1>2, <2>1 DEF MaterializeInvoice
    <2>3. AddedTasks(<<OpenTask("extraction", Len(rec) + 1)>>, task, 0)
        BY <2>1, <1>2, <1>11 DEF AddedTasks, OpenTask
    <2>4. SameTasks(task, 0)
        BY <1>2, NothingAdded DEF ReviewInv
    <2>5. QED  BY <2>2, <2>3, <2>4, TasksAdded DEF ReviewInv
<1>13. /\ importing' = 0 \/ (importing' = importing /\ imports' = imports)
       /\ documents' \in 0..MaxDocuments /\ imports' \in 0..MaxImports
    BY <1>2, <1>8, <1>10, <1>11, BoundsAssumption DEF MaterializeInvoice, ReviewInv, ReviewTypeOK
<1>14. QED  BY <1>2, <1>10, <1>12, <1>13, ShapedStep

\* Rows as they are.
LEMMA RowsUnchanged == ASSUME ReviewTypeOK, rec' = rec PROVE RowsStep(-1)
BY LenProperties DEF RowsStep, ReviewTypeOK

LEMMA MaterializeFailureKeeps ==
    ASSUME ReviewInv, MaterializeFailure
    PROVE  ReviewInv'
<1>1. /\ req' = req /\ contended' = contended /\ audit' = audit /\ rec' = rec
      /\ importing' = importing /\ imports' = imports
    BY DEF MaterializeFailure
<1>2. /\ RequestsStep(0) /\ AuditStep(0) /\ 0 \notin DOMAIN task
      /\ \A u \in DOMAIN task : task[u].target # -1
      /\ task \in Seq(TaskSet)
    BY <1>1, Bystanders
<1>3. RowsStep(-1)
    BY <1>1, RowsUnchanged DEF ReviewInv
<1>4. TasksStep(0)
    <2>1. OpenTask("extraction", 0) \in TaskSet
        BY DEF OpenTask, TaskSet
    <2>2. task' = task \o <<OpenTask("extraction", 0)>>
        BY <1>2, <2>1 DEF MaterializeFailure
    <2>3. AddedTasks(<<OpenTask("extraction", 0)>>, task, 0)
        BY <2>1, <1>2 DEF AddedTasks, OpenTask
    <2>4. SameTasks(task, 0)
        BY <1>2, NothingAdded DEF ReviewInv
    <2>5. QED  BY <2>2, <2>3, <2>4, TasksAdded DEF ReviewInv
<1>5. /\ importing' = 0 \/ (importing' = importing /\ imports' = imports)
      /\ documents' \in 0..MaxDocuments /\ imports' \in 0..MaxImports
    BY <1>1, BoundsAssumption DEF MaterializeFailure, ReviewInv, ReviewTypeOK
<1>6. QED  BY <1>2, <1>3, <1>4, <1>5, ShapedStep

LEMMA ImportCommitsKeeps ==
    ASSUME ReviewInv, NEW sure \in BOOLEAN, ImportCommits(sure)
    PROVE  ReviewInv'
<1> DEFINE row == Row("reconciliation", IF sure THEN "proposed" ELSE "pending_review",
                      importing, "import")
<1>1. /\ req' = req /\ contended' = contended /\ audit' = audit
      /\ importing # 0 /\ importing' = 0 /\ rec' = Append(rec, row)
    BY DEF ImportCommits
<1>2. /\ RequestsStep(0) /\ AuditStep(0) /\ 0 \notin DOMAIN task
      /\ \A u \in DOMAIN task : task[u].target # -1
      /\ Len(rec) \in Nat /\ DOMAIN rec = 1..Len(rec) /\ rec \in Seq(RowSet)
      /\ task \in Seq(TaskSet)
    BY <1>1, Bystanders
<1>3. importing \in DOMAIN rec /\ rec[importing].kind = "invoice" /\ importing \in Nat
    BY <1>1, <1>2 DEF ImportUnderWay, ReviewInv, ReviewTypeOK
<1>4. /\ row \in RowSet /\ row.status \in Undecided /\ row.supersedes = 0
      /\ row.about = importing
    BY <1>3 DEF Row, RowSet, Kinds, Status, Undecided
<1> HIDE DEF row
<1>5. rec' = rec \o <<row>> /\ AddedRows(<<row>>) /\ Len(<<row>>) = 1
    <2>1. /\ <<row>> \in Seq(RowSet) /\ Len(<<row>>) = 1 /\ DOMAIN <<row>> = {1}
          /\ <<row>>[1] = row
        BY <1>4
    <2>2. rec' = rec \o <<row>>
        BY <1>1, <1>2, <1>4, AppendThen, EmptySeq
    <2>3. QED  BY <2>1, <2>2, <1>2, <1>3, <1>4 DEF AddedRows
<1>6. RowsStep(-1) /\ Len(rec') = Len(rec) + 1
    BY <1>5, RowsAdded, RowsWritten DEF ReviewInv
<1>7. Len(rec) + 1 \in DOMAIN rec' \ DOMAIN rec
    BY <1>2, <1>6, LenProperties DEF RowsStep
<1>8. TasksStep(0)
    <2>1. SameTasks(task, 0)
        BY <1>2, NothingAdded DEF ReviewInv
    <2>2. CASE sure
        <3>1. task' = task \o <<>>
            BY <2>2, <1>2 DEF ImportCommits
        <3>2. QED  BY <3>1, <2>1, NothingAdded, TasksAdded DEF ReviewInv
    <2>3. CASE ~sure
        <3>1. OpenTask("reconciliation", Len(rec) + 1) \in TaskSet
            BY <1>2 DEF OpenTask, TaskSet
        <3>2. task' = task \o <<OpenTask("reconciliation", Len(rec) + 1)>>
            BY <2>3, <1>2, <3>1 DEF ImportCommits
        <3>3. AddedTasks(<<OpenTask("reconciliation", Len(rec) + 1)>>, task, 0)
            BY <3>1, <1>2, <1>7 DEF AddedTasks, OpenTask
        <3>4. QED  BY <3>2, <3>3, <2>1, TasksAdded DEF ReviewInv
    <2>4. QED  BY <2>2, <2>3
<1>9. /\ importing' = 0 \/ (importing' = importing /\ imports' = imports)
      /\ documents' \in 0..MaxDocuments /\ imports' \in 0..MaxImports
    <2>1. imports < MaxImports /\ imports \in 0..MaxImports /\ documents \in 0..MaxDocuments
        BY <1>1 DEF ImportUnderWay, ReviewInv, ReviewTypeOK
    <2>2. imports' = imports + 1 /\ documents' = documents
        BY DEF ImportCommits
    <2>3. QED  BY <2>1, <2>2, <1>1, BoundsAssumption
<1>10. QED  BY <1>2, <1>6, <1>8, <1>9, ShapedStep

\* A request that ends leaves the others, and what it found is still there.
LEMMA RequestEnds ==
    ASSUME ReviewInv, NEW r \in Reviewers, req[r].phase # "idle",
           req' = [req EXCEPT ![r] = Idle], contended' = contended
    PROVE  /\ RequestsStep(req[r].task)
           /\ req[r].target \in DOMAIN rec /\ req[r].task \in DOMAIN task
           /\ \A u \in DOMAIN task : task[u].status = "open" /\ task[u].target = req[r].target
                => u = req[r].task
           /\ req[r].task \notin contended => task[req[r].task].status = "open"
           /\ req[r] \in RequestSet
           /\ Len(rec) \in Nat /\ DOMAIN rec = 1..Len(rec) /\ rec \in Seq(RowSet)
           /\ Len(task) \in Nat /\ DOMAIN task = 1..Len(task) /\ task \in Seq(TaskSet)
           /\ \A i \in DOMAIN rec : rec[i] \in RowSet
           /\ \A u \in DOMAIN task : task[u] \in TaskSet
<1>1. req \in [Reviewers -> RequestSet] /\ req[r] \in RequestSet
    BY DEF ReviewInv, ReviewTypeOK
<1>2. Idle \in RequestSet /\ Idle.phase = "idle"
    BY DEF Idle, RequestSet, Decisions, Corrections, Status, Undecided
<1>3. req' \in [Reviewers -> RequestSet] /\ req'[r].phase = "idle"
      /\ \A s \in Reviewers : s # r => req'[s] = req[s]
    BY <1>1, <1>2
<1>4. RequestsStep(req[r].task)
    BY <1>3 DEF RequestsStep, ReviewInv, LoneRequests
<1>5. /\ Len(rec) \in Nat /\ DOMAIN rec = 1..Len(rec) /\ rec \in Seq(RowSet)
      /\ Len(task) \in Nat /\ DOMAIN task = 1..Len(task) /\ task \in Seq(TaskSet)
    BY LenProperties DEF ReviewInv, ReviewTypeOK
<1>6. (\A i \in DOMAIN rec : rec[i] \in RowSet) /\ (\A u \in DOMAIN task : task[u] \in TaskSet)
    BY <1>5, ElementOfSeq
<1>7. QED
    BY <1>1, <1>4, <1>5, <1>6 DEF ReviewInv, RequestsPointSomewhere, RequestsMindTheirTask, LoneRequests

\* The task a commit resolves, its target old or new.
LEMMA TaskResolved ==
    ASSUME ReviewTypeOK, NEW t \in DOMAIN task
    PROVE  /\ SameTasks(Resolved(t), t) /\ Resolved(t)[t].target = task[t].target
           /\ \A i \in Nat : i \in DOMAIN rec' \ DOMAIN rec =>
                SameTasks(Corrected(t, i), t) /\ Corrected(t, i)[t].target = i
<1>1. DOMAIN task = 1..Len(task) /\ task \in Seq(TaskSet) /\ task[t] \in TaskSet
    BY LenProperties, ElementOfSeq DEF ReviewTypeOK
<1>2. SameTasks(Resolved(t), t) /\ Resolved(t)[t].target = task[t].target
    <2> DEFINE new == [task[t] EXCEPT !.status = "resolved"]
    <2>1. new \in TaskSet /\ new.status = "resolved" /\ new.target = task[t].target
        BY <1>1 DEF TaskSet
    <2>2. Resolved(t) = [task EXCEPT ![t] = new]
        BY DEF Resolved
    <2> HIDE DEF new
    <2>3. QED  BY <1>1, <2>1, <2>2, ExceptSeq DEF SameTasks
<1>3. ASSUME NEW i \in Nat, i \in DOMAIN rec' \ DOMAIN rec
      PROVE  SameTasks(Corrected(t, i), t) /\ Corrected(t, i)[t].target = i
    <2> DEFINE new == [task[t] EXCEPT !.status = "resolved", !.target = i]
    <2>1. new \in TaskSet /\ new.status = "resolved" /\ new.target = i
        BY <1>1, <1>3 DEF TaskSet
    <2>2. Corrected(t, i) = [task EXCEPT ![t] = new]
        BY <1>1 DEF Corrected
    <2> HIDE DEF new
    <2>3. QED  BY <1>1, <1>3, <2>1, <2>2, ExceptSeq DEF SameTasks
<1>4. QED  BY <1>2, <1>3

\* The task of a continuation points at the row after row n.
LEMMA FollowUpTasksForm ==
    ASSUME NEW n \in Nat, NEW low \in BOOLEAN, NEW tasks, NEW t,
           n + 1 \in DOMAIN rec' \ DOMAIN rec, tasks[t].target # n + 1
    PROVE  AddedTasks(FollowUpTasks(n, low), tasks, t)
<1>1. CASE low
    BY <1>1 DEF FollowUpTasks, OpenTask, AddedTasks, TaskSet
<1>2. CASE ~low
    BY <1>2 DEF FollowUpTasks, AddedTasks
<1>3. QED  BY <1>1, <1>2

LEMMA CommitDecisionKeeps ==
    ASSUME ReviewInv, NEW r \in Reviewers, NEW low \in BOOLEAN, CommitDecision(r, low)
    PROVE  ReviewInv'
<1> DEFINE i == req[r].target
           t == req[r].task
           continues == Continues(req[r], rec[i].kind)
           more == IF continues THEN FollowUps(i, low) ELSE <<>>
           tasks == IF continues THEN FollowUpTasks(Len(rec), low) ELSE <<>>
           row == Written(i, req[r].seen, Verdict(req[r].action))
           event == Event(req[r], i, 0, Verdict(req[r].action))
<1>1. /\ req[r].phase # "idle" /\ rec' = row \o more /\ task' = Resolved(t) \o tasks
      /\ audit' = Append(audit, event) /\ req' = [req EXCEPT ![r] = Idle]
      /\ importing' = importing /\ documents' = documents /\ imports' = imports
      /\ contended' = contended
    BY DEF CommitDecision
<1>2. /\ RequestsStep(t) /\ i \in DOMAIN rec /\ t \in DOMAIN task
      /\ \A u \in DOMAIN task : task[u].status = "open" /\ task[u].target = i => u = t
      /\ t \notin contended => task[t].status = "open"
      /\ req[r] \in RequestSet /\ Len(rec) \in Nat /\ DOMAIN rec = 1..Len(rec)
    BY <1>1, RequestEnds
<1>3. Verdict(req[r].action) \in Status /\ req[r].seen \in Status
    BY <1>2 DEF Verdict, Status, RequestSet
<1>4. SameRows(row, i)
    BY <1>2, <1>3, RowsWritten DEF ReviewInv
<1>5. AddedRows(more) /\ (continues => Len(more) = 2)
    <2>1. CASE continues
        <3>1. more = FollowUps(i, low) /\ i \in Nat /\ rec[i].kind = "invoice"
            BY <2>1, <1>2 DEF Continues
        <3> HIDE DEF more, i
        <3>2. QED  BY <3>1, <1>2, FollowUpsForm DEF AddedRows
    <2>2. CASE ~continues
        BY <2>2, NothingAdded DEF ReviewInv
    <2>3. QED  BY <2>1, <2>2
<1>6. event \in EventSet /\ event.task = t
    BY <1>2, <1>3 DEF Event, EventSet, RequestSet
<1> HIDE DEF i, t, more, row, event
<1>7. RowsStep(i) /\ Len(rec') = Len(rec) + Len(more)
    BY <1>1, <1>4, <1>5, RowsAdded DEF ReviewInv
<1>8. AddedTasks(tasks, Resolved(t), t)
    <2>1. CASE continues
        <3>1. Len(rec) + 1 \in DOMAIN rec' \ DOMAIN rec
            <4>1. DOMAIN rec' = 1..Len(rec')
                BY <1>7, LenProperties DEF RowsStep
            <4>2. Len(more) = 2
                BY <2>1, <1>5
            <4>3. QED  BY <4>1, <4>2, <1>2, <1>7
        <3>2. Resolved(t)[t].target # Len(rec) + 1
            BY <1>2, TaskResolved DEF ReviewInv, ReviewTypeOK
        <3>3. QED  BY <2>1, <3>1, <3>2, <1>2, FollowUpTasksForm
    <2>2. CASE ~continues
        BY <2>2, NothingAdded DEF ReviewInv
    <2>3. QED  BY <2>1, <2>2
<1> HIDE DEF tasks
<1>9. TasksStep(t)
    BY <1>1, <1>2, <1>8, TaskResolved, TasksAdded DEF ReviewInv
<1>10. AuditStep(t)
    BY <1>1, <1>2, <1>6 DEF AuditStep
<1>11. documents' \in 0..MaxDocuments /\ imports' \in 0..MaxImports
    BY <1>1 DEF ReviewInv, ReviewTypeOK
<1>12. QED  BY <1>1, <1>2, <1>7, <1>9, <1>10, <1>11, ShapedStep

LEMMA CommitCorrectionKeeps ==
    ASSUME ReviewInv, NEW r \in Reviewers, NEW low \in BOOLEAN, CommitCorrection(r, low)
    PROVE  ReviewInv'
<1> DEFINE i == req[r].target
           t == req[r].task
           n == Len(rec) + 1
           continues == Continues(req[r], rec[i].kind)
           follow == IF continues THEN FollowUps(n, low) ELSE <<>>
           new == Replacement(i)
           more == <<new>> \o follow
           tasks == IF continues THEN FollowUpTasks(n, low) ELSE <<>>
           row == Written(i, req[r].seen, "superseded")
           event == Event(req[r], n, i, new.status)
<1>1. /\ req[r].phase # "idle" /\ rec' = Append(row, new) \o follow
      /\ task' = Corrected(t, n) \o tasks
      /\ audit' = Append(audit, event) /\ req' = [req EXCEPT ![r] = Idle]
      /\ importing' = importing /\ documents' = documents /\ imports' = imports
      /\ contended' = contended
    BY DEF CommitCorrection
<1>2. /\ RequestsStep(t) /\ i \in DOMAIN rec /\ t \in DOMAIN task
      /\ \A u \in DOMAIN task : task[u].status = "open" /\ task[u].target = i => u = t
      /\ t \notin contended => task[t].status = "open"
      /\ req[r] \in RequestSet /\ Len(rec) \in Nat /\ DOMAIN rec = 1..Len(rec)
      /\ rec[i] \in RowSet
    BY <1>1, RequestEnds
<1>3. SameRows(row, i)
    BY <1>2, RowsWritten DEF ReviewInv, RequestSet, Status
<1>4. /\ new \in RowSet /\ new.status \in Undecided /\ new.supersedes = i
      /\ new.about = rec[i].about /\ new.kind = rec[i].kind
    <2> DEFINE status == IF rec[i].kind = "invoice" THEN "extracted" ELSE "proposed"
    <2>1. status \in Undecided
        BY DEF Undecided
    <2>2. new = [rec[i] EXCEPT !.status = status, !.version = rec[i].version + 1,
                              !.supersedes = i]
        BY <1>2 DEF Replacement, RowSet
    <2>3. i \in Nat
        BY <1>2
    <2>4. rec[i] \in RowSet
        BY <1>2
    <2>5. rec[i].version + 1 \in Nat \ {0}
        BY <2>4 DEF RowSet
    <2> DEFINE old == rec[i]
               version == rec[i].version + 1
    <2> HIDE DEF status, i, new, old, version
    <2>6. new = [old EXCEPT !.status = status, !.version = version, !.supersedes = i]
        BY <2>2 DEF old, version
    <2>7. old \in RowSet /\ version \in Nat \ {0}
        BY <2>4, <2>5 DEF old, version
    <2>8. /\ new.status = status /\ new.supersedes = i
          /\ new.about = old.about /\ new.kind = old.kind
        BY <2>6, <2>7 DEF RowSet
    <2>9. new \in RowSet
        BY <2>1, <2>3, <2>6, <2>7 DEF RowSet, Status
    <2>10. QED  BY <2>1, <2>8, <2>9 DEF old
<1>5. event \in EventSet /\ event.task = t
    BY <1>2, <1>4 DEF Event, EventSet, RequestSet, RowSet
<1>6. /\ follow \in Seq(RowSet)
      /\ \A k \in DOMAIN follow :
           /\ follow[k].status \in Undecided /\ follow[k].supersedes = 0
           /\ follow[k].about = n /\ new.kind = "invoice"
      /\ continues => Len(follow) = 2
    <2>1. CASE continues
        <3>1. follow = FollowUps(n, low) /\ n \in Nat /\ new.kind = "invoice"
            BY <2>1, <1>2, <1>4 DEF Continues
        <3> HIDE DEF follow, n, new
        <3>2. /\ follow \in Seq(RowSet) /\ Len(follow) = 2 /\ DOMAIN follow = 1..2
              /\ \A k \in 1..2 : /\ follow[k].status \in Undecided
                               /\ follow[k].supersedes = 0 /\ follow[k].about = n
            BY <3>1, FollowUpsForm
        <3>3. QED  BY <3>1, <3>2
    <2>2. CASE ~continues
        BY <2>2, EmptySeq
    <2>3. QED  BY <2>1, <2>2
<1> HIDE DEF i, t, new, follow, row, event
<1>7. /\ more \in Seq(RowSet) /\ Append(row, new) \o follow = row \o more
      /\ Len(more) = Len(follow) + 1 /\ more[1] = new
      /\ \A k \in DOMAIN more : k # 1 => k - 1 \in DOMAIN follow /\ more[k] = follow[k - 1]
    <2>1. row \in Seq(RowSet) /\ new \in RowSet /\ follow \in Seq(RowSet)
        BY <1>3, <1>4, <1>6 DEF SameRows
    <2>2. QED  BY <2>1, AppendThen
<1> HIDE DEF more
<1>8. AddedRows(more)
    <2>1. ASSUME NEW k \in DOMAIN more
          PROVE  /\ more[k].status \in Undecided /\ more[k].supersedes <= Len(rec)
                 /\ more[k].kind # "invoice" =>
                      \/ more[k].about \in DOMAIN rec /\ rec[more[k].about].kind = "invoice"
                      \/ more[k].about = Len(rec) + 1 /\ more[1].kind = "invoice"
        <3>1. CASE k = 1
            BY <3>1, <1>2, <1>4, <1>7 DEF ReviewInv, ReviewTypeOK
        <3>2. CASE k # 1
            BY <3>2, <2>1, <1>2, <1>6, <1>7
        <3>3. QED  BY <3>1, <3>2
    <2>2. QED  BY <2>1, <1>7 DEF AddedRows
<1>9. RowsStep(i) /\ Len(rec') = Len(rec) + Len(more)
    BY <1>1, <1>3, <1>7, <1>8, RowsAdded DEF ReviewInv
<1>10. n \in DOMAIN rec' \ DOMAIN rec /\ n \in Nat
       /\ (continues => n + 1 \in DOMAIN rec' \ DOMAIN rec)
    <2>1. Len(follow) \in Nat /\ DOMAIN rec' = 1..Len(rec')
        BY <1>6, <1>9, LenProperties DEF RowsStep
    <2>2. QED  BY <2>1, <1>2, <1>6, <1>7, <1>9
<1>11. SameTasks(Corrected(t, n), t) /\ Corrected(t, n)[t].target = n
    BY <1>2, <1>10, TaskResolved DEF ReviewInv
<1>12. AddedTasks(tasks, Corrected(t, n), t)
    <2>1. CASE continues
        <3>1. Corrected(t, n)[t].target # n + 1
            BY <1>10, <1>11
        <3>2. QED  BY <2>1, <3>1, <1>10, FollowUpTasksForm
    <2>2. CASE ~continues
        BY <2>2, NothingAdded DEF ReviewInv
    <2>3. QED  BY <2>1, <2>2
<1> HIDE DEF tasks, n
<1>13. TasksStep(t)
    BY <1>1, <1>11, <1>12, TasksAdded DEF ReviewInv
<1>14. AuditStep(t)
    BY <1>1, <1>2, <1>5 DEF AuditStep
<1>15. documents' \in 0..MaxDocuments /\ imports' \in 0..MaxImports
    BY <1>1 DEF ReviewInv, ReviewTypeOK
<1>16. QED  BY <1>1, <1>2, <1>9, <1>13, <1>14, <1>15, ShapedStep

-----------------------------------------------------------------------------
\* A step that leaves the tables as they are.
LEMMA TablesUnchanged ==
    ASSUME ReviewInv, rec' = rec, task' = task, audit' = audit,
           contended \subseteq contended'
    PROVE  /\ EventsPointSomewhere' /\ ResolvedIsAudited' /\ OpenTargetsUndecided'
           /\ DecidedOnce'
BY DEF ReviewInv, EventsPointSomewhere, ResolvedIsAudited, OpenTargetsUndecided, DecidedOnce

LEMMA ImportReadsKeeps ==
    ASSUME ReviewInv, NEW i \in DOMAIN rec, ImportReads(i)
    PROVE  ReviewInv'
<1> USE DEF ImportReads
<1>1. ReviewTypeOK'
    BY DEF ReviewInv, ReviewTypeOK
<1>2. ImportUnderWay'
    BY BoundsAssumption DEF ImportUnderWay
<1>3. RequestsPointSomewhere' /\ RequestsMindTheirTask' /\ LoneRequests'
    BY DEF ReviewInv, RequestsPointSomewhere, RequestsMindTheirTask, LoneRequests
<1>4. QED  BY <1>1, <1>2, <1>3, TablesUnchanged DEF ReviewInv

LEMMA ReadTaskKeeps ==
    ASSUME ReviewInv, NEW r \in Reviewers, NEW t \in DOMAIN task,
           NEW a \in Decisions \cup Corrections, ReadTask(r, t, a)
    PROVE  ReviewInv'
<1> DEFINE request == [phase |-> "read", task |-> t, action |-> a,
                       target |-> task[t].target, seen |-> "proposed"]
<1>1. /\ task[t].status = "open" /\ task[t].target # 0
      /\ req' = [req EXCEPT ![r] = request]
      /\ contended' = IF InFlight(t) = {} THEN contended ELSE contended \cup {t}
      /\ rec' = rec /\ task' = task /\ audit' = audit /\ importing' = importing
      /\ documents' = documents /\ imports' = imports
    BY DEF ReadTask, Actionable
<1>2. /\ task[t].target \in DOMAIN rec
      /\ t \in Nat /\ task[t].target \in Nat
    <2>1. DOMAIN rec = 1..Len(rec) /\ DOMAIN task = 1..Len(task)
          /\ Len(rec) \in Nat /\ Len(task) \in Nat
        BY LenProperties DEF ReviewInv, ReviewTypeOK
    <2>2. QED  BY <2>1, <1>1 DEF ReviewInv, ReviewTypeOK
<1>3. request \in RequestSet /\ request.phase # "idle" /\ request.task = t
      /\ request.target = task[t].target
    BY <1>2 DEF RequestSet, Status, Undecided
<1> HIDE DEF request
<1>4. req \in [Reviewers -> RequestSet]
    BY DEF ReviewInv, ReviewTypeOK
<1>5. /\ req' \in [Reviewers -> RequestSet] /\ req'[r] = request
      /\ \A s \in Reviewers : s # r => req'[s] = req[s]
    BY <1>1, <1>3, <1>4
<1>6. ReviewTypeOK'
    BY <1>1, <1>5 DEF ReviewInv, ReviewTypeOK
<1>7. ImportUnderWay' /\ contended \subseteq contended'
    BY <1>1 DEF ReviewInv, ImportUnderWay
<1>8. RequestsPointSomewhere'
    BY <1>1, <1>2, <1>3, <1>5 DEF ReviewInv, RequestsPointSomewhere
<1>9. RequestsMindTheirTask'
    BY <1>1, <1>3, <1>5 DEF ReviewInv, RequestsMindTheirTask, OpenTargetsUndecided
<1>10. ASSUME NEW s \in Reviewers, req'[s].phase # "idle", req'[s].task \notin contended'
       PROVE  /\ task'[req'[s].task].status = "open"
              /\ \A q \in Reviewers :
                   req'[q].phase # "idle" /\ req'[q].task = req'[s].task => q = s
    <2>1. \A q \in Reviewers : q # r /\ req[q].phase # "idle" /\ req[q].task = t
            => t \in contended'
        BY <1>1 DEF InFlight
    <2>2. CASE s = r
        BY <2>1, <2>2, <1>1, <1>3, <1>5, <1>10
    <2>3. CASE s # r
        BY <2>1, <2>3, <1>1, <1>3, <1>5, <1>7, <1>10 DEF ReviewInv, LoneRequests
    <2>4. QED  BY <2>2, <2>3
<1>11. QED
    BY <1>1, <1>6, <1>7, <1>8, <1>9, <1>10, TablesUnchanged DEF ReviewInv, LoneRequests

\* The record is read, or the request gives up: it still minds the same task.
LEMMA ReadOrGiveUpKeeps ==
    ASSUME ReviewInv, NEW r \in Reviewers, ReadRecord(r) \/ GiveUp(r)
    PROVE  ReviewInv'
<1>1. /\ rec' = rec /\ task' = task /\ audit' = audit /\ importing' = importing
      /\ documents' = documents /\ imports' = imports /\ contended' = contended
      /\ req[r].phase # "idle"
    BY DEF ReadRecord, GiveUp
<1>2. req \in [Reviewers -> RequestSet] /\ \A k \in DOMAIN rec : rec[k] \in RowSet
    BY ElementOfSeq, LenProperties DEF ReviewInv, ReviewTypeOK
<1>3. /\ req' \in [Reviewers -> RequestSet]
      /\ \A s \in Reviewers : req'[s].phase # "idle" =>
           /\ req[s].phase # "idle"
           /\ req'[s].task = req[s].task /\ req'[s].target = req[s].target
    <2>1. CASE ReadRecord(r)
        <3>1. req[r].target \in DOMAIN rec
            BY <1>1 DEF ReviewInv, RequestsPointSomewhere
        <3>2. rec[req[r].target].status \in Status
            BY <3>1, <1>2 DEF RowSet
        <3> DEFINE request == [req[r] EXCEPT !.phase = "loaded",
                                             !.seen = rec[req[r].target].status]
        <3>3. request \in RequestSet /\ request.task = req[r].task
              /\ request.target = req[r].target
            BY <3>2, <1>2 DEF RequestSet
        <3>4. req' = [req EXCEPT ![r] = request]
            BY <2>1, <1>2 DEF ReadRecord
        <3> HIDE DEF request
        <3>5. QED  BY <3>3, <3>4, <1>1, <1>2
    <2>2. CASE GiveUp(r)
        BY <2>2, <1>1, RequestEnds DEF GiveUp, RequestsStep
    <2>3. QED  BY <2>1, <2>2
<1>4. ReviewTypeOK' /\ ImportUnderWay'
    BY <1>1, <1>3 DEF ReviewInv, ReviewTypeOK, ImportUnderWay
<1>5. RequestsPointSomewhere' /\ RequestsMindTheirTask'
    BY <1>1, <1>3 DEF ReviewInv, RequestsPointSomewhere, RequestsMindTheirTask
<1>6. LoneRequests'
    BY <1>1, <1>3 DEF ReviewInv, LoneRequests
<1>7. QED  BY <1>1, <1>4, <1>5, <1>6, TablesUnchanged DEF ReviewInv

-----------------------------------------------------------------------------
LEMMA ReviewInit == Init => ReviewInv
<1> SUFFICES ASSUME Init PROVE ReviewInv
    OBVIOUS
<1>1. rec = <<>> /\ task = <<>> /\ audit = <<>>
      /\ req \in [Reviewers -> RequestSet] /\ \A r \in Reviewers : req[r].phase = "idle"
    BY DEF Init, Idle, RequestSet, Decisions, Corrections, Status, Undecided
<1>2. ReviewTypeOK
    BY <1>1, BoundsAssumption DEF Init, ReviewTypeOK
<1>3. QED
    BY <1>1, <1>2 DEF Init, ReviewInv, ImportUnderWay, RequestsPointSomewhere,
        RequestsMindTheirTask, LoneRequests, EventsPointSomewhere, ResolvedIsAudited,
        OpenTargetsUndecided, DecidedOnce

LEMMA ReviewNext == ASSUME ReviewInv, [Next]_vars PROVE ReviewInv'
<1>1. CASE MaterializeInvoice
    BY <1>1, MaterializeInvoiceKeeps
<1>2. CASE MaterializeFailure
    BY <1>2, MaterializeFailureKeeps
<1>3. ASSUME NEW i \in DOMAIN rec, ImportReads(i) PROVE ReviewInv'
    BY <1>3, ImportReadsKeeps
<1>4. ASSUME NEW sure \in BOOLEAN, ImportCommits(sure) PROVE ReviewInv'
    BY <1>4, ImportCommitsKeeps
<1>5. ASSUME NEW r \in Reviewers, NEW t \in DOMAIN task,
             NEW a \in Decisions \cup Corrections, ReadTask(r, t, a)
      PROVE  ReviewInv'
    BY <1>5, ReadTaskKeeps
<1>6. ASSUME NEW r \in Reviewers, ReadRecord(r) \/ GiveUp(r) PROVE ReviewInv'
    BY <1>6, ReadOrGiveUpKeeps
<1>7. ASSUME NEW r \in Reviewers, NEW low \in BOOLEAN, CommitDecision(r, low)
      PROVE  ReviewInv'
    BY <1>7, CommitDecisionKeeps
<1>8. ASSUME NEW r \in Reviewers, NEW low \in BOOLEAN, CommitCorrection(r, low)
      PROVE  ReviewInv'
    BY <1>8, CommitCorrectionKeeps
<1>9. CASE UNCHANGED vars
    BY <1>9 DEF vars, ReviewInv, ReviewTypeOK, ImportUnderWay, RequestsPointSomewhere,
        RequestsMindTheirTask, LoneRequests, EventsPointSomewhere, ResolvedIsAudited,
        OpenTargetsUndecided, DecidedOnce
<1>10. QED
    BY <1>1, <1>2, <1>3, <1>4, <1>5, <1>6, <1>7, <1>8, <1>9 DEF Next

\* The invariant that carries the theorems below: the tables fit together, and
\* no request in flight can spoil a record another task waits on.
THEOREM ReviewInvariant == Spec => []ReviewInv
<1>1. Init => ReviewInv
    BY ReviewInit
<1>2. ReviewInv /\ [Next]_vars => ReviewInv'
    BY ReviewNext
<1>3. QED  BY <1>1, <1>2, PTL DEF Spec

\* Rows, tasks and events are well formed and every reference between them
\* names a row of the right kind, for any number of overlapping requests.
THEOREM ReviewTypes == Spec => []ReviewTypeOK
<1>1. ReviewInv => ReviewTypeOK
    BY DEF ReviewInv
<1>2. QED  BY <1>1, ReviewInvariant, PTL

\* A task is resolved if and only if the audit trail has a decision about it.
THEOREM ReviewAudited == Spec => []ResolvedIsAudited
<1>1. ReviewInv => ResolvedIsAudited
    BY DEF ReviewInv
<1>2. QED  BY <1>1, ReviewInvariant, PTL

\* Every open task waits on an undecided record that no other task points at.
THEOREM ReviewOpenTargets == Spec => []OpenTargetsUndecided
<1>1. ReviewInv => OpenTargetsUndecided
    BY DEF ReviewInv
<1>2. QED  BY <1>1, ReviewInvariant, PTL

\* A task whose requests never overlapped is decided at most once.
THEOREM ReviewDecidedOnce == Spec => []DecidedOnce
<1>1. ReviewInv => DecidedOnce
    BY DEF ReviewInv
<1>2. QED  BY <1>1, ReviewInvariant, PTL
=============================================================================
