------------------------ MODULE AgentWorkflowProofs ------------------------
(***************************************************************************)
(* Theorems about the agent workflow, for any documents, models, ledgers    *)
(* and budgets and every driver.                                            *)
(*                                                                          *)
(* The argument is about the signals: a job has at most one extractor that  *)
(* is ever corrected (JobTarget), so the retries counted are its retries,   *)
(* and a driver passes validation only with no signal at all.               *)
(***************************************************************************)
EXTENDS AgentWorkflow, FiniteSetTheorems, TLAPS

\* The extractor a correction of this job names, or None.
JobTarget == IF job.scenario # "happy_path" THEN Totals ELSE job.injected

PCs == Agents \cup {"retry_gate", "request_retries", "complete", "done", "raised"}

\* The variables are records of this shape, whatever the data in them.
Shapes ==
  /\ job \in Jobs /\ Startable(job)
  /\ pc \in PCs
  /\ wf \in [status : Statuses, stage : Stages, agent : Agents \cup {None},
             completed : SUBSET Agents, retries : Retries, handoff : {wf.handoff},
             signals : {wf.signals}]
  /\ run \in [status : {wf.status}, agent : {wf.agent}, retryCount : Nat,
              error : {run.error}]
  /\ scratch \in [reading : {scratch.reading}, regions : {scratch.regions},
                  groups : {scratch.groups}, draft : {scratch.draft},
                  classified : {scratch.classified}, match : {scratch.match},
                  review : {scratch.review}, insights : BOOLEAN]
  /\ DOMAIN scratch.groups = Extractors
  /\ DOMAIN results = Agents
  /\ \A a \in Agents : results[a] # None => results[a].agent = a

\* Every signal calls for a person or for a correction, and one for the extractor
\* of this job.
SignalsKnown ==
  \A s \in wf.signals : /\ s.severity \in {"error", "blocking"}
                        /\ s.retryable <=> s.target # None
                        /\ s.target \in {None, JobTarget}

\* The failure scenarios have their signal once they are past assembly.
SignalInjected ==
  /\ job.scenario # "happy_path"
  /\ pc \notin PreparationAgents \cup Extractors \cup {Assembly, "done", "raised"}
  => CorrectionSignal(Totals) \in wf.signals

\* Where a correction is asked for, the last result names its extractor.
CorrectionAtHand ==
  /\ pc \in {"retry_gate", "request_retries"} =>
       JobTarget \in Extractors /\ latest.handoffs[1].target = JobTarget
  /\ pc = "request_retries" => job.scenario # "happy_path"

DraftIsGroups == pc \in {QA, "retry_gate", "request_retries"} =>
  scratch.draft = scratch.groups

\* Only the extractor of this job is retried, and within the budget until the end.
RetriesOfTarget ==
  /\ \A a \in Extractors : a # JobTarget => wf.retries[a] = 0
  /\ run.retryCount = IF JobTarget = None THEN 0 ELSE wf.retries[JobTarget]
  /\ run.retryCount <= job.maxRetries + 1
  /\ wf.status = "dead_lettered" <=> run.retryCount > job.maxRetries
  /\ wf.status = "dead_lettered" => pc = "done"

AgentInv ==
  /\ Shapes
  /\ SignalsKnown
  /\ SignalInjected
  /\ CorrectionAtHand
  /\ DraftIsGroups
  /\ RetriesOfTarget
  /\ ValidatedBeforeBusiness

-----------------------------------------------------------------------------
(* What a driver does next.                                                  *)

LEMMA Names ==
  /\ Extractors = {Metadata, Table, Totals} /\ PreparationAgents = {Intake, Layout, Privacy}
  /\ Agents = {Intake, Layout, Privacy, Metadata, Table, Totals, Assembly, QA,
               Classifier, Matching, Review, Insight}
  /\ BusinessAgents = {Classifier, Matching, Review, Insight}
BY DEF Extractors, PreparationAgents, Agents, BusinessAgents

\* The control state after each agent but the validator.
LEMMA NextAgent ==
  ASSUME job \in Jobs, NEW result
  PROVE  /\ result.agent = Intake /\ ~Terminal(result) => RouteAfter(result) = Layout
         /\ result.agent = Layout /\ ~Terminal(result) => RouteAfter(result) = Privacy
         /\ result.agent = Privacy /\ ~Terminal(result) =>
              RouteAfter(result) \in {Metadata, "done"}
         /\ result.agent = Metadata /\ ~Terminal(result) => RouteAfter(result) = Table
         /\ result.agent = Table /\ ~Terminal(result) => RouteAfter(result) = Totals
         /\ result.agent = Totals /\ ~Terminal(result) => RouteAfter(result) = Assembly
         /\ result.agent = Assembly /\ ~Terminal(result) => RouteAfter(result) = QA
         /\ result.agent \notin BusinessAgents \cup {Privacy} /\ Terminal(result) =>
              RouteAfter(result) = "done"
         /\ result.agent = Classifier => RouteAfter(result) \in {Matching, "complete"}
         /\ result.agent = Matching => RouteAfter(result) \in {Review, "complete"}
         /\ result.agent = Review => RouteAfter(result) \in {Insight, "complete"}
         /\ result.agent = Insight => RouteAfter(result) = "complete"
<1>1. /\ Successor[Intake] = Layout /\ Successor[Layout] = Privacy
      /\ Successor[Privacy] = Metadata /\ Successor[Metadata] = Table
      /\ Successor[Table] = Totals /\ Successor[Totals] = Assembly
      /\ Successor[Assembly] = QA /\ Successor[Classifier] = Matching
      /\ Successor[Matching] = Review /\ Successor[Review] = Insight
      /\ Successor[Insight] = "complete"
    BY Names DEF Successor, Intake, Layout, Privacy, Metadata, Table, Totals, Assembly,
                 QA, Classifier, Matching, Review, Insight
<1>2. /\ {Intake, Layout, Privacy, Metadata, Table, Totals, Assembly} \cap BusinessAgents = {}
      /\ Privacy \notin {Intake, Layout, Metadata, Table, Totals, Assembly}
                        \cup BusinessAgents
      /\ {Classifier, Matching, Review, Insight} = BusinessAgents
    BY DEF BusinessAgents, Intake, Layout, Privacy, Metadata, Table, Totals, Assembly,
           Classifier, Matching, Review, Insight
<1>3. result.agent \notin BusinessAgents \cup {Privacy} =>
        RouteAfter(result) = IF Terminal(result) THEN "done" ELSE Successor[result.agent]
    BY DEF RouteAfter
<1>4. result.agent = Privacy /\ ~Terminal(result) =>
        RouteAfter(result) \in {Successor[Privacy], "done"}
    BY <1>2 DEF RouteAfter
<1>5. result.agent \in BusinessAgents =>
        RouteAfter(result) \in {Successor[result.agent], "complete"}
    <2>1. SUFFICES ASSUME result.agent \in BusinessAgents
                   PROVE  RouteAfter(result) \in {Successor[result.agent], "complete"}
        OBVIOUS
    <2>2. result.agent # Privacy
        BY <1>2, <2>1
    <2>3. CASE Terminal(result) \/ result.handoffs = <<>>
        BY <2>1, <2>2, <2>3 DEF RouteAfter
    <2>4. CASE ~(Terminal(result) \/ result.handoffs = <<>>)
        BY <2>1, <2>2, <2>4 DEF RouteAfter
    <2>5. QED  BY <2>3, <2>4
<1>6. QED  BY <1>1, <1>2, <1>3, <1>4, <1>5

\* Recording a result keeps the shape of the state and changes no retries.
LEMMA RecordedState ==
  ASSUME Shapes, NEW result, NEW signals, Recorded(result, signals),
         result.agent \in Agents, result.status \in ResultStatuses,
         result.handoffs = <<>> \/ Last(result.handoffs).target \in Agents
  PROVE  /\ wf' \in [status : Statuses, stage : Stages, agent : Agents \cup {None},
                     completed : SUBSET Agents, retries : Retries, handoff : {wf'.handoff},
                     signals : {wf'.signals}]
         /\ run' \in [status : {wf'.status}, agent : {wf'.agent}, retryCount : Nat,
                      error : {run'.error}]
         /\ DOMAIN results' = Agents
         /\ \A a \in Agents : results'[a] # None => results'[a].agent = a
         /\ wf'.signals = signals /\ wf'.retries = wf.retries
         /\ wf'.status = IF Terminal(result) THEN result.status ELSE wf.status
         /\ run'.retryCount = run.retryCount
         /\ latest' = result /\ job' = job
<1> DEFINE stepped == StepRecorded([wf EXCEPT !.signals = signals], result)
           handed == HandoffsRecorded(stepped, result.handoffs)
<1>1. /\ stepped \in [status : Statuses, stage : Stages, agent : Agents \cup {None},
                      completed : SUBSET Agents, retries : Retries, handoff : {wf.handoff},
                      signals : {signals}]
      /\ stepped.retries = wf.retries
      /\ stepped.status = IF Terminal(result) THEN result.status ELSE wf.status
    <2>1. result.status \in Statuses \/ ~Terminal(result)
        BY DEF Terminal, Statuses
    <2>2. result.agent \in Stages /\ "failed" \in Stages
        BY DEF Stages
    <2>3. QED  BY <2>1, <2>2 DEF Shapes, StepRecorded
<1>2. /\ handed \in [status : Statuses, stage : Stages, agent : Agents \cup {None},
                     completed : SUBSET Agents, retries : Retries,
                     handoff : {handed.handoff}, signals : {signals}]
      /\ handed.retries = wf.retries
      /\ handed.status = stepped.status
    <2>1. CASE result.handoffs = <<>>
        BY <1>1, <2>1 DEF HandoffsRecorded
    <2>2. CASE result.handoffs # <<>>
        <3>1. Last(result.handoffs).target \in Agents /\ Last(result.handoffs).target \in Stages
            BY <2>2 DEF Stages
        <3>2. QED  BY <1>1, <2>2, <3>1 DEF HandoffsRecorded
    <2>3. QED  BY <2>1, <2>2
<1>3. wf' = handed /\ run' = RunRecorded(run, handed, result)
    BY DEF Recorded
<1>4. /\ run' \in [status : {wf'.status}, agent : {wf'.agent}, retryCount : Nat,
                   error : {run'.error}]
      /\ run'.retryCount = run.retryCount
    BY <1>3 DEF RunRecorded, Shapes
<1>5. /\ DOMAIN results' = Agents
      /\ \A a \in Agents : results'[a] # None => results'[a].agent = a
    BY DEF Recorded, Shapes
<1>6. latest' = result /\ job' = job
    BY DEF Recorded
<1> HIDE DEF stepped, handed
<1>7. /\ wf' \in [status : Statuses, stage : Stages, agent : Agents \cup {None},
                  completed : SUBSET Agents, retries : Retries, handoff : {wf'.handoff},
                  signals : {wf'.signals}]
      /\ wf'.signals = signals /\ wf'.retries = wf.retries
      /\ wf'.status = stepped.status
    BY <1>2, <1>3
<1>8. QED  BY <1>1, <1>4, <1>5, <1>6, <1>7

-----------------------------------------------------------------------------
(* The agents' actions, as far as the invariant looks at them.                *)

ScratchShape ==
  /\ scratch \in [reading : {scratch.reading}, regions : {scratch.regions},
                  groups : {scratch.groups}, draft : {scratch.draft},
                  classified : {scratch.classified}, match : {scratch.match},
                  review : {scratch.review}, insights : BOOLEAN]
  /\ DOMAIN scratch.groups = Extractors

\* What QA validated stays as it is.
DraftKept ==
  /\ scratch'.draft = scratch.draft /\ scratch'.groups = scratch.groups
  /\ scratch'.regions = scratch.regions

\* Agent a ran, left these signals, and the driver goes on at one of to.
Ran(a, signals, to) ==
  /\ pc = a /\ pc' \in to
  /\ wf' \in [status : Statuses, stage : Stages, agent : Agents \cup {None},
              completed : SUBSET Agents, retries : Retries, handoff : {wf'.handoff},
              signals : {wf'.signals}]
  /\ run' \in [status : {wf'.status}, agent : {wf'.agent}, retryCount : Nat,
               error : {run'.error}]
  /\ DOMAIN results' = Agents
  /\ \A b \in Agents : results'[b] # None => results'[b].agent = b
  /\ wf'.signals = signals /\ wf'.retries = wf.retries
  /\ wf'.status \in {wf.status, "failed", "review_required", "retry_requested"}
                    \cap Statuses
  /\ run'.retryCount = run.retryCount
  /\ job' = job

LEMMA Running ==
  ASSUME Shapes, NEW a \in Agents, NEW status \in ResultStatuses, NEW handoffs,
         NEW signals, NEW to, pc = a, pc' \in to,
         Recorded(Result(a, status, handoffs), signals),
         handoffs = <<>> \/ Last(handoffs).target \in Agents
  PROVE  /\ Ran(a, signals, to)
         /\ latest' = Result(a, status, handoffs)
<1> DEFINE result == Result(a, status, handoffs)
<1>1. result.agent = a /\ result.status = status /\ result.handoffs = handoffs
    BY DEF Result
<1>2. wf.status \in Statuses
    BY DEF Shapes
<1> HIDE DEF result
<1>3. /\ wf' \in [status : Statuses, stage : Stages, agent : Agents \cup {None},
                  completed : SUBSET Agents, retries : Retries, handoff : {wf'.handoff},
                  signals : {wf'.signals}]
      /\ run' \in [status : {wf'.status}, agent : {wf'.agent}, retryCount : Nat,
                   error : {run'.error}]
      /\ DOMAIN results' = Agents
      /\ \A b \in Agents : results'[b] # None => results'[b].agent = b
      /\ wf'.signals = signals /\ wf'.retries = wf.retries
      /\ wf'.status = IF Terminal(result) THEN result.status ELSE wf.status
      /\ run'.retryCount = run.retryCount
      /\ latest' = result /\ job' = job
    BY <1>1, RecordedState DEF result
<1>4. wf'.status \in {wf.status, "failed", "review_required", "retry_requested"}
                     \cap Statuses
    BY <1>1, <1>2, <1>3 DEF Terminal, Statuses
<1>5. QED  BY <1>3, <1>4 DEF Ran, result

\* A sequence written out ends in its last element.
LEMMA LastOf ==
  /\ \A x : Last(<<x>>) = x /\ <<x>>[1] = x
  /\ \A x, y, z : Last(<<x, y, z>>) = z
BY DEF Last

LEMMA HandoffTarget ==
  \A a, b, type : Handoff(a, b, type).target = b
BY DEF Handoff

LEMMA PreparationSteps ==
  ASSUME Shapes
  PROVE  /\ AcceptDocument => Ran(Intake, wf.signals, {Layout}) /\ scratch' = scratch
         /\ AnalyzeLayout => Ran(Layout, wf.signals, {Privacy}) /\ ScratchShape'
         /\ FailLayout => Ran(Layout, wf.signals, {"done"}) /\ scratch' = scratch
         /\ ApplyPolicy => /\ Ran(Privacy, wf.signals, {Metadata, "done"})
                           /\ scratch' = scratch
<1>0. /\ Intake \in Agents /\ Layout \in Agents /\ Privacy \in Agents /\ Totals \in Agents
      /\ "succeeded" \in ResultStatuses /\ "failed" \in ResultStatuses
      /\ Layout \notin BusinessAgents \cup {Privacy}
      /\ job \in Jobs
    BY Names DEF ResultStatuses, Shapes, BusinessAgents, Intake, Layout, Privacy,
                 Classifier, Matching, Review, Insight
<1>1. \A a, handoffs : /\ ~Terminal(Result(a, "succeeded", handoffs))
                       /\ Terminal(Result(a, "failed", handoffs))
                       /\ Result(a, "succeeded", handoffs).agent = a
                       /\ Result(a, "failed", handoffs).agent = a
    BY DEF Terminal, Result
<1>2. ASSUME AcceptDocument
      PROVE  Ran(Intake, wf.signals, {Layout}) /\ scratch' = scratch
    <2> DEFINE handoffs == <<Handoff(Intake, Layout, "control")>>
    <2>1. /\ pc = Intake /\ Recorded(Result(Intake, "succeeded", handoffs), wf.signals)
          /\ pc' = RouteAfter(Result(Intake, "succeeded", handoffs))
          /\ scratch' = scratch
        BY <1>2 DEF AcceptDocument, Await
    <2>2. pc' = Layout
        BY <1>0, <1>1, <2>1, NextAgent
    <2>3. Last(handoffs).target \in Agents
        BY <1>0, LastOf, HandoffTarget
    <2> HIDE DEF handoffs
    <2>4. QED  BY <1>0, <2>1, <2>2, <2>3, Running
<1>3. ASSUME AnalyzeLayout
      PROVE  Ran(Layout, wf.signals, {Privacy}) /\ ScratchShape'
    <2> DEFINE handoffs == <<Handoff(Layout, Privacy, "control")>>
    <2>1. /\ pc = Layout /\ Recorded(Result(Layout, "succeeded", handoffs), wf.signals)
          /\ pc' = RouteAfter(Result(Layout, "succeeded", handoffs))
          /\ scratch' = [scratch EXCEPT
                       !.reading = Reading(job.document),
                       !.regions = Layouts[job.document],
                       !.groups = PrebuiltGroups(@, job.document.prebuilt)]
        BY <1>3 DEF AnalyzeLayout, Await
    <2>2. pc' = Privacy
        BY <1>0, <1>1, <2>1, NextAgent
    <2>3. Last(handoffs).target \in Agents
        BY <1>0, LastOf, HandoffTarget
    <2>4. DOMAIN PrebuiltGroups(scratch.groups, job.document.prebuilt) = Extractors
        BY DEF PrebuiltGroups, Shapes
    <2>5. ScratchShape'
        BY <2>1, <2>4 DEF ScratchShape, Shapes
    <2> HIDE DEF handoffs
    <2>6. QED  BY <1>0, <2>1, <2>2, <2>3, <2>5, Running
<1>4. ASSUME FailLayout
      PROVE  Ran(Layout, wf.signals, {"done"}) /\ scratch' = scratch
    <2>1. /\ pc = Layout /\ Recorded(Result(Layout, "failed", <<>>), wf.signals)
          /\ pc' = RouteAfter(Result(Layout, "failed", <<>>))
          /\ scratch' = scratch
        BY <1>4 DEF FailLayout, Await
    <2>2. pc' = "done"
        BY <1>0, <1>1, <2>1, NextAgent
    <2>3. QED  BY <1>0, <2>1, <2>2, Running
<1>5. ASSUME ApplyPolicy
      PROVE  Ran(Privacy, wf.signals, {Metadata, "done"}) /\ scratch' = scratch
    <2> DEFINE to(a) == Handoff(Privacy, a, "control")
               handoffs == <<to(Metadata), to(Table), to(Totals)>>
    <2>1. /\ pc = Privacy /\ Recorded(Result(Privacy, "succeeded", handoffs), wf.signals)
          /\ pc' = RouteAfter(Result(Privacy, "succeeded", handoffs))
          /\ scratch' = scratch
        BY <1>5 DEF ApplyPolicy, Await
    <2>2. pc' \in {Metadata, "done"}
        BY <1>0, <1>1, <2>1, NextAgent
    <2>3. Last(handoffs).target \in Agents
        BY <1>0, LastOf, HandoffTarget
    <2> HIDE DEF handoffs
    <2>4. QED  BY <1>0, <2>1, <2>2, <2>3, Running
<1>6. QED  BY <1>2, <1>3, <1>4, <1>5

\* An agent that succeeds, and hands over if anything to b.
LEMMA Succeeding ==
  ASSUME Shapes, NEW a \in Agents, NEW handoffs, NEW signals, NEW to, pc = a,
         pc' = RouteAfter(Result(a, "succeeded", handoffs)),
         \A result : result.agent = a /\ ~Terminal(result) => RouteAfter(result) \in to,
         Recorded(Result(a, "succeeded", handoffs), signals),
         handoffs = <<>> \/ \E b \in Agents : \E type : handoffs = <<Handoff(a, b, type)>>
  PROVE  Ran(a, signals, to)
<1>1. /\ ~Terminal(Result(a, "succeeded", handoffs))
      /\ Result(a, "succeeded", handoffs).agent = a
      /\ "succeeded" \in ResultStatuses
    BY DEF Terminal, Result, ResultStatuses
<1>2. pc' \in to
    BY <1>1
<1>3. handoffs = <<>> \/ Last(handoffs).target \in Agents
    BY LastOf, HandoffTarget
<1>4. QED  BY <1>1, <1>2, <1>3, Running

\* The signal an extractor or the failure scenario adds.
NewSignals(more) == \A s \in more :
  \/ s = CorrectionSignal(Totals) /\ job.scenario # "happy_path"
  \/ \E code : s = ProviderSignal(code)

LEMMA ExtractionSteps ==
  ASSUME Shapes
  PROVE  /\ \A a \in Extractors : ExtractGroup(a) =>
              \E more : /\ Ran(a, wf.signals \cup more, {Table, Totals, Assembly})
                        /\ NewSignals(more) /\ ScratchShape'
         /\ Assemble =>
              \E more : /\ Ran(Assembly, wf.signals \cup more, {QA})
                        /\ NewSignals(more) /\ ScratchShape'
                        /\ scratch'.draft = scratch'.groups
                        /\ job.scenario # "happy_path" => CorrectionSignal(Totals) \in more
<1>0. Extractors \subseteq Agents /\ Assembly \in Agents /\ QA \in Agents /\ job \in Jobs
    BY Names DEF Shapes
<1>1. ASSUME NEW a \in Extractors, ExtractGroup(a)
      PROVE  \E more : /\ Ran(a, wf.signals \cup more, {Table, Totals, Assembly})
                       /\ NewSignals(more) /\ ScratchShape'
    <2> DEFINE handoffs == <<Handoff(a, Assembly, "data")>>
    <2>1. PICK made :
            /\ scratch' = [scratch EXCEPT !.groups[a] = made.group]
            /\ Recorded(Result(a, "succeeded", handoffs), wf.signals \cup
                 (IF made.error = None THEN {} ELSE {ProviderSignal(made.error)}))
            /\ pc' = RouteAfter(Result(a, "succeeded", handoffs))
        BY <1>1 DEF ExtractGroup
    <2>2. pc = a
        BY <1>1 DEF ExtractGroup, Await
    <2> DEFINE more == IF made.error = None THEN {} ELSE {ProviderSignal(made.error)}
    <2>3. NewSignals(more)
        BY DEF NewSignals
    <2>4. ScratchShape'
        BY <2>1 DEF ScratchShape, Shapes
    <2>5. \A result : result.agent = a /\ ~Terminal(result) =>
             RouteAfter(result) \in {Table, Totals, Assembly}
        BY <1>0, Names, NextAgent
    <2>6. \E b \in Agents : \E type : handoffs = <<Handoff(a, b, type)>>
        BY <1>0
    <2> HIDE DEF handoffs, more
    <2>7. Ran(a, wf.signals \cup more, {Table, Totals, Assembly})
        BY <1>0, <2>1, <2>2, <2>5, <2>6, Succeeding DEF more
    <2>8. QED  BY <2>3, <2>4, <2>7
<1>2. ASSUME Assemble
      PROVE  \E more : /\ Ran(Assembly, wf.signals \cup more, {QA})
                       /\ NewSignals(more) /\ ScratchShape'
                       /\ scratch'.draft = scratch'.groups
                       /\ job.scenario # "happy_path" => CorrectionSignal(Totals) \in more
    <2> DEFINE handoffs == <<Handoff(Assembly, QA, "data")>>
               more == IF job.scenario = "happy_path" THEN {} ELSE {CorrectionSignal(Totals)}
    <2>1. /\ pc = Assembly
          /\ scratch' = [scratch EXCEPT !.draft = scratch.groups]
          /\ Recorded(Result(Assembly, "succeeded", handoffs), wf.signals \cup more)
          /\ pc' = RouteAfter(Result(Assembly, "succeeded", handoffs))
        BY <1>2 DEF Assemble, Await
    <2>2. NewSignals(more) /\ (job.scenario # "happy_path" => CorrectionSignal(Totals) \in more)
        BY DEF NewSignals
    <2>3. ScratchShape' /\ scratch'.draft = scratch'.groups
        BY <2>1 DEF ScratchShape, Shapes
    <2>4. \A result : result.agent = Assembly /\ ~Terminal(result) =>
             RouteAfter(result) \in {QA}
        BY <1>0, NextAgent
    <2>5. \E b \in Agents : \E type : handoffs = <<Handoff(Assembly, b, type)>>
        BY <1>0
    <2> HIDE DEF handoffs, more
    <2>6. Ran(Assembly, wf.signals \cup more, {QA})
        BY <1>0, <2>1, <2>4, <2>5, Succeeding
    <2>7. QED  BY <2>2, <2>3, <2>6
<1>3. QED  BY <1>1, <1>2

LEMMA BusinessSteps ==
  ASSUME Shapes
  PROVE  /\ Classify => /\ Ran(Classifier, wf.signals, {Matching, "complete"})
                        /\ ScratchShape' /\ DraftKept
         /\ Match => /\ Ran(Matching, wf.signals, {Review, "complete"})
                     /\ ScratchShape' /\ DraftKept
         /\ Coordinate => /\ Ran(Review, wf.signals, {Insight, "complete"})
                          /\ ScratchShape' /\ DraftKept
         /\ ProduceInsights => /\ Ran(Insight, wf.signals, {"complete"})
                               /\ ScratchShape' /\ DraftKept
<1>0. /\ BusinessAgents \subseteq Agents
      /\ BusinessAgents = {Classifier, Matching, Review, Insight}
      /\ job \in Jobs
    BY Names DEF Shapes
<1>1. ASSUME Classify
      PROVE  /\ Ran(Classifier, wf.signals, {Matching, "complete"})
             /\ ScratchShape' /\ DraftKept
    <2> DEFINE handoffs == <<Handoff(Classifier, Matching, "data")>>
    <2>1. /\ pc = Classifier
          /\ \E made : scratch' = [scratch EXCEPT !.classified = made]
          /\ Recorded(Result(Classifier, "succeeded", handoffs), wf.signals)
          /\ pc' = RouteAfter(Result(Classifier, "succeeded", handoffs))
        BY <1>1 DEF Classify, Await
    <2>2. ScratchShape' /\ DraftKept
        BY <2>1 DEF ScratchShape, Shapes, DraftKept
    <2>3. \A result : result.agent = Classifier /\ ~Terminal(result) =>
             RouteAfter(result) \in {Matching, "complete"}
        BY <1>0, NextAgent
    <2>4. \E b \in Agents : \E type : handoffs = <<Handoff(Classifier, b, type)>>
        BY <1>0
    <2> HIDE DEF handoffs
    <2>5. QED  BY <1>0, <2>1, <2>2, <2>3, <2>4, Succeeding
<1>2. ASSUME Match
      PROVE  /\ Ran(Matching, wf.signals, {Review, "complete"})
             /\ ScratchShape' /\ DraftKept
    <2> DEFINE handoffs == <<Handoff(Matching, Review, "data")>>
    <2>1. /\ pc = Matching
          /\ \E made : scratch' = [scratch EXCEPT !.match = made]
          /\ Recorded(Result(Matching, "succeeded", handoffs), wf.signals)
          /\ pc' = RouteAfter(Result(Matching, "succeeded", handoffs))
        BY <1>2 DEF Match, Await
    <2>2. ScratchShape' /\ DraftKept
        BY <2>1 DEF ScratchShape, Shapes, DraftKept
    <2>3. \A result : result.agent = Matching /\ ~Terminal(result) =>
             RouteAfter(result) \in {Review, "complete"}
        BY <1>0, NextAgent
    <2>4. \E b \in Agents : \E type : handoffs = <<Handoff(Matching, b, type)>>
        BY <1>0
    <2> HIDE DEF handoffs
    <2>5. QED  BY <1>0, <2>1, <2>2, <2>3, <2>4, Succeeding
<1>3. ASSUME Coordinate
      PROVE  /\ Ran(Review, wf.signals, {Insight, "complete"})
             /\ ScratchShape' /\ DraftKept
    <2>1. PICK status \in {"succeeded", "review_required"},
               handoffs \in {<<>>, <<Handoff(Review, Insight, "control")>>} :
            /\ pc = Review
            /\ scratch' = [scratch EXCEPT !.review = ReviewReasons # {}]
            /\ Recorded(Result(Review, status, handoffs), wf.signals)
            /\ pc' = RouteAfter(Result(Review, status, handoffs))
        BY <1>3 DEF Coordinate, Await
    <2>2. ScratchShape' /\ DraftKept
        BY <2>1 DEF ScratchShape, Shapes, DraftKept
    <2>3. pc' \in {Insight, "complete"}
        <3>1. Result(Review, status, handoffs).agent = Review
            BY DEF Result
        <3>2. QED  BY <1>0, <2>1, <3>1, NextAgent
    <2>4. handoffs = <<>> \/ Last(handoffs).target \in Agents
        BY <1>0, <2>1, LastOf, HandoffTarget
    <2>5. status \in ResultStatuses /\ Review \in Agents
        BY <1>0, <2>1 DEF ResultStatuses
    <2>6. QED  BY <2>1, <2>2, <2>3, <2>4, <2>5, Running
<1>4. ASSUME ProduceInsights
      PROVE  /\ Ran(Insight, wf.signals, {"complete"})
             /\ ScratchShape' /\ DraftKept
    <2>1. /\ pc = Insight
          /\ scratch' = [scratch EXCEPT !.insights = TRUE]
          /\ Recorded(Result(Insight, "succeeded", <<>>), wf.signals)
          /\ pc' = RouteAfter(Result(Insight, "succeeded", <<>>))
        BY <1>4 DEF ProduceInsights, Await
    <2>2. ScratchShape' /\ DraftKept
        BY <2>1 DEF ScratchShape, Shapes, DraftKept
    <2>3. \A result : result.agent = Insight /\ ~Terminal(result) =>
             RouteAfter(result) \in {"complete"}
        BY <1>0, NextAgent
    <2>4. QED  BY <1>0, <2>1, <2>2, <2>3, Succeeding
<1>5. QED  BY <1>1, <1>2, <1>3, <1>4

-----------------------------------------------------------------------------
(* Validation.                                                               *)

LEMMA SequenceOfOne ==
  ASSUME NEW x
  PROVE  /\ SetToSeq({x}) # <<>>
         /\ Last(SetToSeq({x})) = x /\ SetToSeq({x})[1] = x
         /\ Range(SetToSeq({x})) = {x}
<1>1. Cardinality({x}) = 1
    BY FS_Singleton
<1>2. \E f \in [1..1 -> {x}] : IsInjective(f)
    <2>1. [i \in 1..1 |-> x] \in [1..1 -> {x}] /\ IsInjective([i \in 1..1 |-> x])
        BY DEF IsInjective
    <2>2. QED  BY <2>1
<1>3. SetToSeq({x}) \in [1..1 -> {x}]
    BY <1>1, <1>2 DEF SetToSeq
<1>4. \A f \in [1..1 -> {x}] : f \in Seq({x}) /\ Len(f) = 1 /\ f[1] = x
    OBVIOUS
<1>5. \A f \in [1..1 -> {x}] : Range(f) = {x}
    BY DEF Range
<1>6. Range(SetToSeq({x})) = {x}
    BY <1>3, <1>5
<1>7. SetToSeq({x}) # <<>> /\ Last(SetToSeq({x})) = x /\ SetToSeq({x})[1] = x
    BY <1>3, <1>4 DEF Last
<1>8. QED  BY <1>6, <1>7

\* A signal calls for a person or for a correction of this job's extractor.
Known(signals) ==
  \A s \in signals : /\ s.severity \in {"error", "blocking"}
                     /\ s.retryable <=> s.target # None
                     /\ s.target \in {None, JobTarget}

LEMMA NewAreKnown ==
  ASSUME Shapes
  PROVE  /\ \A more : NewSignals(more) => Known(more)
         /\ \A draft, regions : Known(QASignals(draft, regions))
<1>1. \A code : ProviderSignal(code).severity = "blocking" /\ ~ProviderSignal(code).retryable
               /\ ProviderSignal(code).target = None
    BY DEF ProviderSignal
<1>2. \A code : ReviewSignal(code).severity = "error" /\ ~ReviewSignal(code).retryable
               /\ ReviewSignal(code).target = None
    BY DEF ReviewSignal
<1>3. /\ CorrectionSignal(Totals).severity = "error" /\ CorrectionSignal(Totals).retryable
      /\ CorrectionSignal(Totals).target = Totals /\ Totals # None
    BY AgentAssumption, Names DEF CorrectionSignal
<1>4. job.scenario # "happy_path" => JobTarget = Totals
    BY DEF JobTarget
<1>5. \A more : NewSignals(more) => Known(more)
    BY <1>1, <1>3, <1>4 DEF NewSignals, Known
<1>6. \A draft, regions : Known(QASignals(draft, regions))
    BY <1>2 DEF QASignals, Signals, Known
<1>7. QED  BY <1>5, <1>6

LEMMA JobTargets ==
  ASSUME Shapes
  PROVE  /\ JobTarget \in Extractors \cup {None} /\ None \notin Extractors
         /\ JobTarget \in Extractors /\ job.driver = "custom" => job.scenario # "happy_path"
<1>1. job.injected \in Extractors \cup {None} /\ Totals \in Extractors
    BY Names DEF Shapes, Jobs
<1>2. None \notin Extractors
    BY AgentAssumption, Names
<1>3. job.driver = "custom" => job.injected = None
    BY DEF Shapes, Startable
<1>4. QED  BY <1>1, <1>2, <1>3 DEF JobTarget

LEMMA ValidateStep ==
  ASSUME Shapes, SignalsKnown, SignalInjected, Validate
  PROVE  \E signals :
           /\ signals = wf.signals \cup QASignals(scratch.draft, PartyRegions)
           /\ Known(signals)
           /\ scratch' = scratch
           /\ \/ Ran(QA, signals, {"done"})
              \/ Ran(QA, signals, {Classifier}) /\ signals = {}
              \/ /\ Ran(QA, signals, {"retry_gate", "request_retries"})
                 /\ JobTarget \in Extractors
                 /\ latest'.handoffs[1].target = JobTarget
                 /\ pc' = "request_retries" => job.scenario # "happy_path"
<1> DEFINE signals == wf.signals \cup QASignals(scratch.draft, PartyRegions)
           outcome == QAOutcome(signals)
           asked == {Handoff(QA, s.target, "correction") : s \in Corrections(signals)}
           handoffs == CASE outcome = "retry_requested" -> SetToSeq(asked)
                         [] outcome = "succeeded" -> <<Handoff(QA, Classifier, "control")>>
                         [] OTHER -> <<>>
<1>1. /\ pc = QA /\ scratch' = scratch
      /\ Recorded(Result(QA, outcome, handoffs), signals)
      /\ pc' = RouteAfterQA(outcome)
    BY DEF Validate, Await
<1>2. Known(signals)
    BY NewAreKnown DEF SignalsKnown, Known
<1>3. QA \in Agents /\ Classifier \in Agents /\ Extractors \subseteq Agents
    BY Names
<1>4. job.scenario # "happy_path" => CorrectionSignal(Totals) \in signals
    BY <1>1, Names DEF SignalInjected, QA, Intake, Layout, Privacy, Metadata, Table,
                       Totals, Assembly
<1>5. \A s \in Corrections(signals) : s.target = JobTarget /\ JobTarget # None
    BY <1>2 DEF Known, Corrections
<1>6. Corrections(signals) = {} => signals = {} \/ Reviews(signals) # {}
    BY <1>2 DEF Known, Corrections, Reviews
<1>7. Corrections(signals) = {} => job.scenario = "happy_path"
    <2>1. CorrectionSignal(Totals).retryable /\ CorrectionSignal(Totals).target # None
        BY AgentAssumption, Names DEF CorrectionSignal
    <2>2. QED  BY <1>4, <2>1 DEF Corrections
<1> HIDE DEF signals
<1>8. CASE Corrections(signals) # {}
    <2>1. outcome = "retry_requested"
        BY <1>8 DEF QAOutcome
    <2>2. asked = {Handoff(QA, JobTarget, "correction")}
        <3>1. \A h \in asked : h = Handoff(QA, JobTarget, "correction")
            BY <1>5
        <3>2. asked # {}
            BY <1>8
        <3> HIDE DEF asked
        <3>3. QED  BY <3>1, <3>2
    <2>3. JobTarget \in Extractors
        BY <1>5, <1>8, JobTargets
    <2>4. handoffs = SetToSeq({Handoff(QA, JobTarget, "correction")})
        BY <2>1, <2>2
    <2>5. Last(handoffs).target = JobTarget /\ handoffs[1].target = JobTarget
        <3>1. /\ Last(handoffs) = Handoff(QA, JobTarget, "correction")
              /\ handoffs[1] = Handoff(QA, JobTarget, "correction")
            BY <2>4, SequenceOfOne
        <3>2. QED  BY <3>1, HandoffTarget
    <2>6. /\ pc' \in {"retry_gate", "request_retries"}
          /\ pc' = "request_retries" => job.scenario # "happy_path"
        <3>1. pc' = IF job.driver # "custom" THEN "retry_gate"
                    ELSE IF job.scenario # "happy_path" THEN "request_retries"
                    ELSE IF job.driver \in {"adapter", "fallback"} THEN "done"
                    ELSE Classifier
            BY <1>1, <2>1 DEF RouteAfterQA
        <3>2. job.driver = "custom" => job.scenario # "happy_path"
            BY <2>3, JobTargets
        <3>3. QED  BY <3>1, <3>2
    <2>7. outcome \in ResultStatuses
        BY <2>1 DEF ResultStatuses
    <2> HIDE DEF outcome, asked, handoffs
    <2>8. /\ Ran(QA, signals, {"retry_gate", "request_retries"})
          /\ latest' = Result(QA, outcome, handoffs)
        <3>1. Last(handoffs).target \in Agents
            BY <1>3, <2>3, <2>5
        <3>2. pc' \in {"retry_gate", "request_retries"}
            BY <2>6
        <3>3. QED  BY <1>1, <1>3, <2>7, <3>1, <3>2, Running
    <2>9. latest'.handoffs[1].target = JobTarget
        BY <2>5, <2>8 DEF Result
    <2>10. QED  BY <1>1, <1>2, <2>3, <2>6, <2>8, <2>9 DEF signals
<1>9. CASE Corrections(signals) = {} /\ Reviews(signals) # {}
    <2>1. outcome = "review_required" /\ handoffs = <<>>
        BY <1>9 DEF QAOutcome
    <2>2. pc' = "done"
        BY <1>1, <2>1 DEF RouteAfterQA
    <2>3. outcome \in ResultStatuses
        BY <2>1 DEF ResultStatuses
    <2> HIDE DEF outcome, asked, handoffs
    <2>4. Ran(QA, signals, {"done"})
        BY <1>1, <1>3, <2>1, <2>2, <2>3, Running
    <2>5. QED  BY <1>1, <1>2, <2>4 DEF signals
<1>10. CASE Corrections(signals) = {} /\ Reviews(signals) = {}
    <2>1. outcome = "succeeded" /\ handoffs = <<Handoff(QA, Classifier, "control")>>
        BY <1>10 DEF QAOutcome
    <2>2. signals = {} /\ job.scenario = "happy_path"
        BY <1>6, <1>7, <1>10
    <2>3. pc' \in {"done", Classifier}
        BY <1>1, <2>1, <2>2 DEF RouteAfterQA
    <2>4. outcome \in ResultStatuses /\ Last(handoffs).target \in Agents
        BY <1>3, <2>1, LastOf, HandoffTarget DEF ResultStatuses
    <2> HIDE DEF outcome, asked, handoffs
    <2>5. Ran(QA, signals, {pc'})
        BY <1>1, <1>3, <2>4, Running
    <2>6. QED  BY <1>1, <1>2, <2>2, <2>3, <2>5 DEF signals
<1>11. QED  BY <1>8, <1>9, <1>10

-----------------------------------------------------------------------------
(* The drivers' own steps.                                                   *)

\* The target of the correction is counted, in its extractor and in the row.
Counted ==
  /\ wf'.retries = [wf.retries EXCEPT ![JobTarget] = @ + 1]
  /\ run'.retryCount = run.retryCount + 1
  /\ wf'.status = IF RetryAllowed(JobTarget) THEN "retrying" ELSE "dead_lettered"
  /\ wf'.signals = wf.signals

LEMMA RetrySteps ==
  ASSUME Shapes, CorrectionAtHand, RetryGate \/ RequestRetries
  PROVE  /\ Shapes' /\ Counted
         /\ UNCHANGED <<job, scratch, results, latest>>
         /\ ~RetryAllowed(JobTarget) => pc' = "done"
         /\ RetryGate => pc = "retry_gate" /\ pc' \in Extractors \cup {"done"}
         /\ RequestRetries => pc = "request_retries" /\ pc' \in {QA, "done"}
<1>1. /\ pc \in {"retry_gate", "request_retries"}
      /\ RetryGate => pc = "retry_gate"
      /\ RequestRetries => pc = "request_retries"
    BY DEF RetryGate, RequestRetries
<1>2. JobTarget \in Extractors /\ latest.handoffs[1].target = JobTarget
    BY <1>1 DEF CorrectionAtHand
<1>3. /\ RetryRequested(JobTarget)
      /\ UNCHANGED <<job, scratch, results, latest>>
      /\ \/ pc' = (IF RetryAllowed(JobTarget) THEN JobTarget ELSE "done") /\ RetryGate
         \/ pc' = (IF job.scenario = "retry_exhaustion" /\ RetryAllowed(JobTarget)
                   THEN QA ELSE "done") /\ RequestRetries
    BY <1>2 DEF RetryGate, RequestRetries
<1>4. Extractors \subseteq Agents /\ QA \in Agents
    BY Names
<1>5. wf.retries \in [Extractors -> Nat] /\ run.retryCount \in Nat
    BY DEF Shapes, Retries
<1> DEFINE counted == [wf EXCEPT !.retries[JobTarget] = @ + 1]
           allowed == [counted EXCEPT !.status = "retrying", !.agent = JobTarget]
           refused == [counted EXCEPT !.status = "dead_lettered", !.stage = "failed"]
           row == [run EXCEPT !.retryCount = @ + 1]
<1>6. [wf.retries EXCEPT ![JobTarget] = @ + 1] \in Retries
    BY <1>2, <1>5 DEF Retries
<1>7. /\ counted \in [status : Statuses, stage : Stages, agent : Agents \cup {None},
                      completed : SUBSET Agents, retries : Retries, handoff : {wf.handoff},
                      signals : {wf.signals}]
      /\ counted.retries = [wf.retries EXCEPT ![JobTarget] = @ + 1]
    BY <1>6 DEF Shapes
<1> HIDE DEF counted
<1>8. \E state, error :
        /\ StatusUpdated(state, row, error)
        /\ state = IF RetryAllowed(JobTarget) THEN allowed ELSE refused
    BY <1>3 DEF RetryRequested, counted
<1>9. PICK error : StatusUpdated(IF RetryAllowed(JobTarget) THEN allowed ELSE refused, row,
                                 error)
    BY <1>8
<1>10. wf' = (IF RetryAllowed(JobTarget) THEN allowed ELSE refused)
       /\ run' = [row EXCEPT !.status = wf'.status, !.agent = wf'.agent, !.error = error]
    BY <1>9 DEF StatusUpdated
<1>11. /\ wf' \in [status : Statuses, stage : Stages, agent : Agents \cup {None},
                   completed : SUBSET Agents, retries : Retries, handoff : {wf'.handoff},
                   signals : {wf'.signals}]
       /\ Counted \/ run'.retryCount # run.retryCount + 1
    <2>1. "retrying" \in Statuses /\ "dead_lettered" \in Statuses /\ "failed" \in Stages
          /\ JobTarget \in Agents
        BY <1>2, <1>4 DEF Statuses, Stages
    <2>2. CASE RetryAllowed(JobTarget)
        BY <1>7, <1>10, <2>1, <2>2 DEF Counted
    <2>3. CASE ~RetryAllowed(JobTarget)
        BY <1>7, <1>10, <2>1, <2>3 DEF Counted
    <2>4. QED  BY <2>2, <2>3
<1>12. /\ run' \in [status : {wf'.status}, agent : {wf'.agent}, retryCount : Nat,
                    error : {run'.error}]
       /\ run'.retryCount = run.retryCount + 1
    <2>1. run' = [[run EXCEPT !.retryCount = run.retryCount + 1]
                    EXCEPT !.status = wf'.status, !.agent = wf'.agent, !.error = error]
        BY <1>10
    <2>2. run \in [status : {wf.status}, agent : {wf.agent}, retryCount : Nat,
                  error : {run.error}]
        BY DEF Shapes
    <2> DEFINE n == run.retryCount + 1
               counting == [run EXCEPT !.retryCount = n]
    <2>3. n \in Nat
        BY <1>5
    <2> HIDE DEF n
    <2>4. /\ counting \in [status : {wf.status}, agent : {wf.agent}, retryCount : Nat,
                           error : {run.error}]
          /\ counting.retryCount = n
        BY <2>2, <2>3
    <2>5. run' = [counting EXCEPT !.status = wf'.status, !.agent = wf'.agent, !.error = error]
        BY <2>1 DEF n
    <2> HIDE DEF counting
    <2>6. QED  BY <2>4, <2>5 DEF n
<1>13. pc' \in PCs
    BY <1>2, <1>3, <1>4 DEF PCs
<1>14. Shapes'
    BY <1>3, <1>11, <1>12, <1>13 DEF Shapes, Startable
<1>15. QED  BY <1>1, <1>2, <1>3, <1>11, <1>12, <1>14

LEMMA CompleteStep ==
  ASSUME Shapes, Complete
  PROVE  /\ Shapes'
         /\ pc = "complete" /\ pc' = "done"
         /\ wf'.retries = wf.retries /\ run'.retryCount = run.retryCount
         /\ wf'.status = "completed" /\ wf'.signals = wf.signals
         /\ UNCHANGED <<job, scratch, results, latest>>
<1> DEFINE state == [wf EXCEPT !.status = "completed", !.stage = "completed",
                              !.agent = Insight]
<1>1. /\ wf' = state
      /\ run' = [run EXCEPT !.status = wf'.status, !.agent = wf'.agent, !.error = None]
      /\ pc = "complete" /\ pc' = "done"
      /\ UNCHANGED <<job, scratch, results, latest>>
    BY DEF Complete, StatusUpdated
<1>2. "completed" \in Statuses /\ "completed" \in Stages /\ Insight \in Agents /\ "done" \in PCs
    BY Names DEF Statuses, Stages, PCs
<1>3. /\ wf' \in [status : Statuses, stage : Stages, agent : Agents \cup {None},
                  completed : SUBSET Agents, retries : Retries, handoff : {wf'.handoff},
                  signals : {wf'.signals}]
      /\ wf'.retries = wf.retries /\ wf'.status = "completed" /\ wf'.signals = wf.signals
    BY <1>1, <1>2 DEF Shapes
<1> HIDE DEF state
<1>4. /\ run' \in [status : {wf'.status}, agent : {wf'.agent}, retryCount : Nat,
                   error : {run'.error}]
      /\ run'.retryCount = run.retryCount
    BY <1>1 DEF Shapes
<1>5. QED  BY <1>1, <1>2, <1>3, <1>4 DEF Shapes, Startable

-----------------------------------------------------------------------------
(* The invariant is inductive.                                               *)

\* The control states outside the agents, and those in which the invariant asks
\* for something.
LEMMA ControlStates ==
  /\ {"retry_gate", "request_retries", "complete", "done", "raised"} \cap Agents = {}
  /\ Business \cap ({QA, Assembly, "retry_gate", "request_retries", "done", "raised"}
                   \cup PreparationAgents \cup Extractors) = {}
  /\ QA \notin PreparationAgents \cup Extractors \cup BusinessAgents \cup {Assembly}
  /\ Assembly \notin PreparationAgents \cup Extractors \cup BusinessAgents
BY DEF Business, Agents, PreparationAgents, Extractors, BusinessAgents, Intake, Layout,
       Privacy, Metadata, Table, Totals, Assembly, QA, Classifier, Matching, Review, Insight

\* What any agent's step keeps, given what is known of the signals it leaves.
LEMMA RanKeeps ==
  ASSUME Shapes, RetriesOfTarget, NEW a \in Agents, NEW signals, NEW to,
         Ran(a, signals, to), to \subseteq PCs, Known(signals), ScratchShape'
  PROVE  Shapes' /\ SignalsKnown' /\ RetriesOfTarget' /\ JobTarget' = JobTarget
<1>1. job' = job /\ pc = a /\ pc' \in PCs /\ JobTarget' = JobTarget
    BY DEF Ran, JobTarget
<1>2. Shapes'
    BY <1>1 DEF Ran, Shapes, Startable, ScratchShape
<1>3. SignalsKnown'
    BY <1>1 DEF Ran, SignalsKnown, Known
<1>4. wf.status # "dead_lettered"
    BY <1>1, ControlStates DEF RetriesOfTarget
<1>5. /\ wf'.retries = wf.retries /\ run'.retryCount = run.retryCount
      /\ wf'.status # "dead_lettered"
    BY <1>4 DEF Ran
<1>6. RetriesOfTarget'
    BY <1>1, <1>4, <1>5 DEF RetriesOfTarget
<1>7. QED  BY <1>1, <1>2, <1>3, <1>6

LEMMA UntilValidation ==
  ASSUME AgentInv,
         \/ AcceptDocument \/ AnalyzeLayout \/ FailLayout \/ ApplyPolicy \/ Assemble
         \/ \E a \in Extractors : ExtractGroup(a)
  PROVE  AgentInv'
<1>1. /\ PreparationAgents \cup Extractors \cup {Assembly, QA} \subseteq Agents
      /\ PreparationAgents = {Intake, Layout, Privacy}
      /\ Extractors = {Metadata, Table, Totals}
    BY Names
<1>2. Shapes
    BY DEF AgentInv
<1>3. \E a, more, to :
        /\ a \in Agents
        /\ Ran(a, wf.signals \cup more, to) /\ NewSignals(more) /\ ScratchShape'
        /\ to \subseteq PreparationAgents \cup Extractors \cup {Assembly, QA, "done"}
        /\ pc' = QA => /\ scratch'.draft = scratch'.groups
                       /\ job.scenario # "happy_path" => CorrectionSignal(Totals) \in more
    <2>1. NewSignals({}) /\ wf.signals = wf.signals \cup {}
        BY DEF NewSignals
    <2>2. scratch' = scratch => ScratchShape'
        BY <1>2 DEF Shapes, ScratchShape
    <2>3. CASE AcceptDocument \/ AnalyzeLayout \/ FailLayout \/ ApplyPolicy
        <3>1. PICK a \in PreparationAgents : \E to :
                 /\ Ran(a, wf.signals, to) /\ ScratchShape'
                 /\ to \subseteq PreparationAgents \cup {Metadata, "done"}
            BY <1>1, <1>2, <2>2, <2>3, PreparationSteps
        <3>2. pc' # QA
            BY <1>1, <3>1, ControlStates DEF Ran, QA
        <3>3. QED  BY <1>1, <2>1, <3>1, <3>2
    <2>4. CASE \E a \in Extractors : ExtractGroup(a)
        <3>1. PICK a, more :
                 /\ a \in Extractors
                 /\ Ran(a, wf.signals \cup more, {Table, Totals, Assembly})
                 /\ NewSignals(more) /\ ScratchShape'
            BY <1>2, <2>4, ExtractionSteps
        <3>2. pc' # QA
            BY <1>1, <3>1, ControlStates DEF Ran
        <3>3. QED  BY <1>1, <3>1, <3>2
    <2>5. CASE Assemble
        BY <1>1, <1>2, <2>5, ExtractionSteps
    <2>6. QED  BY <2>3, <2>4, <2>5
<1>4. PICK a, more, to :
        /\ a \in Agents
        /\ Ran(a, wf.signals \cup more, to) /\ NewSignals(more) /\ ScratchShape'
        /\ to \subseteq PreparationAgents \cup Extractors \cup {Assembly, QA, "done"}
        /\ pc' = QA => /\ scratch'.draft = scratch'.groups
                       /\ job.scenario # "happy_path" => CorrectionSignal(Totals) \in more
    BY <1>3
<1>5. Known(wf.signals \cup more)
    BY <1>2, <1>4, NewAreKnown DEF AgentInv, SignalsKnown, Known
<1>6. to \subseteq PCs
    BY <1>1, <1>4 DEF PCs
<1>7. Shapes' /\ SignalsKnown' /\ RetriesOfTarget'
    BY <1>2, <1>4, <1>5, <1>6, RanKeeps DEF AgentInv
<1>8. /\ pc' \in PreparationAgents \cup Extractors \cup {Assembly, QA, "done"}
      /\ wf'.signals = wf.signals \cup more /\ job' = job
    BY <1>4 DEF Ran
<1>9. SignalInjected'
    BY <1>4, <1>8 DEF SignalInjected
<1>10. pc' \notin {"retry_gate", "request_retries"} \cup Business
    BY <1>1, <1>8, ControlStates
<1>11. CorrectionAtHand' /\ ValidatedBeforeBusiness' /\ DraftIsGroups'
    BY <1>4, <1>10 DEF CorrectionAtHand, ValidatedBeforeBusiness, DraftIsGroups
<1>12. QED  BY <1>7, <1>9, <1>11 DEF AgentInv

LEMMA Validation ==
  ASSUME AgentInv, Validate
  PROVE  AgentInv'
<1>1. Shapes /\ SignalsKnown /\ SignalInjected /\ RetriesOfTarget /\ pc = QA /\ QA \in Agents
    BY Names DEF AgentInv, Validate, Await
<1>2. PICK signals :
        /\ signals = wf.signals \cup QASignals(scratch.draft, PartyRegions)
        /\ Known(signals)
        /\ scratch' = scratch
        /\ \/ Ran(QA, signals, {"done"})
           \/ Ran(QA, signals, {Classifier}) /\ signals = {}
           \/ /\ Ran(QA, signals, {"retry_gate", "request_retries"})
              /\ JobTarget \in Extractors
              /\ latest'.handoffs[1].target = JobTarget
              /\ pc' = "request_retries" => job.scenario # "happy_path"
    BY <1>1, ValidateStep
<1>3. ScratchShape'
    BY <1>1, <1>2 DEF Shapes, ScratchShape
<1>4. /\ Shapes' /\ SignalsKnown' /\ RetriesOfTarget' /\ JobTarget' = JobTarget
      /\ wf'.signals = signals /\ job' = job
    <2>1. {"done"} \subseteq PCs /\ {Classifier} \subseteq PCs
          /\ {"retry_gate", "request_retries"} \subseteq PCs
        BY Names DEF PCs
    <2>2. \E to : Ran(QA, signals, to) /\ to \subseteq PCs
        BY <1>2, <2>1
    <2>3. QED  BY <1>1, <1>2, <1>3, <2>2, RanKeeps DEF Ran
<1>5. SignalInjected'
    <2>1. job.scenario # "happy_path" => CorrectionSignal(Totals) \in wf.signals
        BY <1>1, ControlStates DEF SignalInjected, QA
    <2>2. QED  BY <1>2, <1>4, <2>1 DEF SignalInjected
<1>6. scratch.draft = scratch.groups
    BY <1>1 DEF AgentInv, DraftIsGroups
<1>7. PartyRegions' = PartyRegions
    BY <1>2 DEF PartyRegions
<1>8. CASE pc' = "done"
    BY <1>4, <1>5, <1>8, ControlStates, Names
       DEF AgentInv, CorrectionAtHand, ValidatedBeforeBusiness, DraftIsGroups, QA
<1>9. CASE pc' = Classifier /\ signals = {}
    <2>1. QASignals(scratch.draft, PartyRegions) = {}
        BY <1>2, <1>9
    <2>2. ValidatedBeforeBusiness'
        BY <1>2, <1>4, <1>6, <1>7, <1>9, <2>1 DEF ValidatedBeforeBusiness
    <2>3. pc' \notin {QA, "retry_gate", "request_retries"}
        BY <1>9 DEF Classifier, QA
    <2>4. QED  BY <1>4, <1>5, <2>2, <2>3 DEF AgentInv, CorrectionAtHand, DraftIsGroups
<1>10. CASE /\ pc' \in {"retry_gate", "request_retries"}
            /\ JobTarget \in Extractors
            /\ latest'.handoffs[1].target = JobTarget
            /\ pc' = "request_retries" => job.scenario # "happy_path"
    <2>1. pc' \notin Business
        BY <1>10, ControlStates
    <2>2. QED  BY <1>2, <1>4, <1>5, <1>6, <1>10, <2>1
               DEF AgentInv, CorrectionAtHand, DraftIsGroups, ValidatedBeforeBusiness
<1>11. QED
    <2>1. \A to : Ran(QA, signals, to) => pc' \in to
        BY DEF Ran
    <2>2. QED  BY <1>2, <1>8, <1>9, <1>10, <2>1

LEMMA BusinessKeeps ==
  ASSUME AgentInv, Classify \/ Match \/ Coordinate \/ ProduceInsights
  PROVE  AgentInv'
<1>1. Shapes /\ SignalsKnown /\ SignalInjected /\ RetriesOfTarget
      /\ BusinessAgents \subseteq Agents
      /\ BusinessAgents = {Classifier, Matching, Review, Insight}
    BY Names DEF AgentInv
<1>2. PICK a, to :
        /\ a \in BusinessAgents
        /\ Ran(a, wf.signals, to) /\ ScratchShape' /\ DraftKept
        /\ to \subseteq Business
    BY <1>1, BusinessSteps DEF Business
<1>3. Business \subseteq PCs
    BY <1>1 DEF Business, PCs
<1>4. Known(wf.signals)
    BY <1>1 DEF SignalsKnown, Known
<1>5. /\ Shapes' /\ SignalsKnown' /\ RetriesOfTarget'
      /\ wf'.signals = wf.signals /\ job' = job /\ pc \in Business /\ pc' \in Business
    BY <1>1, <1>2, <1>3, <1>4, RanKeeps DEF Ran, Business
<1>6. ValidatedBeforeBusiness'
    BY <1>2, <1>5
       DEF AgentInv, ValidatedBeforeBusiness, DraftKept, PartyRegions
<1>7. SignalInjected'
    BY <1>1, <1>5, ControlStates DEF SignalInjected
<1>8. CorrectionAtHand' /\ DraftIsGroups'
    BY <1>5, ControlStates DEF CorrectionAtHand, DraftIsGroups
<1>9. QED  BY <1>5, <1>6, <1>7, <1>8 DEF AgentInv

\* A correction is counted once, and the budget is passed by one only to end.
LEMMA RetryKeeps ==
  ASSUME AgentInv, RetryGate \/ RequestRetries
  PROVE  AgentInv'
<1>1. Shapes /\ CorrectionAtHand /\ RetriesOfTarget /\ SignalsKnown /\ SignalInjected
    BY DEF AgentInv
<1>2. /\ Shapes' /\ Counted
      /\ UNCHANGED <<job, scratch, results, latest>>
      /\ ~RetryAllowed(JobTarget) => pc' = "done"
      /\ RetryGate => pc = "retry_gate" /\ pc' \in Extractors \cup {"done"}
      /\ RequestRetries => pc = "request_retries" /\ pc' \in {QA, "done"}
    BY <1>1, RetrySteps
<1>3. JobTarget \in Extractors /\ JobTarget' = JobTarget /\ JobTarget # None
    BY <1>1, <1>2, JobTargets DEF CorrectionAtHand, JobTarget
<1>4. /\ wf.retries \in [Extractors -> Nat] /\ job.maxRetries \in Nat
      /\ wf.status # "dead_lettered"
      /\ run.retryCount = wf.retries[JobTarget] /\ run.retryCount <= job.maxRetries
    <2>1. job.maxRetries \in Nat
        BY <1>1, AgentAssumption DEF Shapes, Jobs
    <2>2. wf.retries \in [Extractors -> Nat] /\ run.retryCount \in Nat
        BY <1>1 DEF Shapes, Retries
    <2>3. wf.status # "dead_lettered"
        BY <1>1, <1>2 DEF RetriesOfTarget
    <2>4. QED  BY <1>1, <1>3, <2>1, <2>2, <2>3 DEF RetriesOfTarget
<1>5. RetriesOfTarget'
    <2>1. \A a \in Extractors : a # JobTarget => wf'.retries[a] = 0
        BY <1>1, <1>2, <1>4 DEF Counted, RetriesOfTarget
    <2>2. /\ wf'.retries[JobTarget] = wf.retries[JobTarget] + 1
          /\ run'.retryCount = run.retryCount + 1
          /\ job' = job
        BY <1>2, <1>3, <1>4 DEF Counted
    <2>3. wf'.status = "dead_lettered" <=> ~RetryAllowed(JobTarget)
        BY <1>2 DEF Counted
    <2>4. RetryAllowed(JobTarget) <=> run.retryCount < job.maxRetries
        BY <1>4 DEF RetryAllowed
    <2>5. /\ run'.retryCount = wf'.retries[JobTarget]
          /\ run'.retryCount <= job.maxRetries + 1
          /\ wf'.status = "dead_lettered" <=> run'.retryCount > job.maxRetries
          /\ wf'.status = "dead_lettered" => pc' = "done"
        BY <1>2, <1>3, <1>4, <2>2, <2>3, <2>4
    <2>6. QED  BY <1>3, <2>1, <2>2, <2>5 DEF RetriesOfTarget
<1>6. SignalsKnown' /\ wf'.signals = wf.signals
    BY <1>1, <1>2, <1>3 DEF Counted, SignalsKnown
<1>7. pc' \in Extractors \cup {QA, "done"} /\ (pc' = QA => RequestRetries)
    BY <1>2, ControlStates DEF QA
<1>8. SignalInjected'
    BY <1>1, <1>2, <1>6, <1>7, ControlStates, Names DEF SignalInjected
<1>9. CorrectionAtHand' /\ ValidatedBeforeBusiness'
    BY <1>7, ControlStates, Names DEF CorrectionAtHand, ValidatedBeforeBusiness
<1>10. DraftIsGroups'
    BY <1>2 DEF AgentInv, DraftIsGroups
<1>11. QED  BY <1>2, <1>5, <1>6, <1>8, <1>9, <1>10 DEF AgentInv

LEMMA EndKeeps ==
  ASSUME AgentInv, Complete \/ LoseHandoff
  PROVE  AgentInv'
<1>1. Shapes /\ SignalsKnown /\ RetriesOfTarget
    BY DEF AgentInv
<1>2. CASE Complete
    <2>1. /\ Shapes'
          /\ pc = "complete" /\ pc' = "done"
          /\ wf'.retries = wf.retries /\ run'.retryCount = run.retryCount
          /\ wf'.status = "completed" /\ wf'.signals = wf.signals
          /\ UNCHANGED <<job, scratch, results, latest>>
        BY <1>1, <1>2, CompleteStep
    <2>2. RetriesOfTarget' /\ SignalsKnown'
        BY <1>1, <2>1 DEF RetriesOfTarget, SignalsKnown, JobTarget
    <2>3. "done" \notin Business \cup {QA, "retry_gate", "request_retries"}
        BY ControlStates DEF QA
    <2>4. QED
        BY <2>1, <2>2, <2>3 DEF AgentInv, SignalInjected, CorrectionAtHand, DraftIsGroups,
                                ValidatedBeforeBusiness
<1>3. CASE LoseHandoff
    <2>1. pc \in Agents /\ pc' = "raised"
          /\ UNCHANGED <<job, wf, run, scratch, results, latest>>
        BY <1>3 DEF LoseHandoff
    <2>2. pc # "done" /\ "raised" \notin Business \cup {QA, "retry_gate", "request_retries"}
        BY <2>1, ControlStates DEF QA
    <2>3. RetriesOfTarget' /\ SignalsKnown'
        BY <1>1, <2>1, <2>2 DEF RetriesOfTarget, SignalsKnown, JobTarget
    <2>4. Shapes'
        BY <1>1, <2>1 DEF Shapes, Startable, PCs
    <2>5. QED
        BY <2>1, <2>2, <2>3, <2>4 DEF AgentInv, SignalInjected, CorrectionAtHand,
                                      DraftIsGroups, ValidatedBeforeBusiness
<1>4. QED  BY <1>2, <1>3

LEMMA AgentInvStep == AgentInv /\ [Next]_vars => AgentInv'
<1>1. ASSUME AgentInv, UNCHANGED vars PROVE AgentInv'
    BY <1>1 DEF vars, AgentInv, Shapes, Startable, SignalsKnown, SignalInjected,
       CorrectionAtHand, DraftIsGroups, RetriesOfTarget, ValidatedBeforeBusiness,
       JobTarget, PartyRegions
<1>2. QED
    BY <1>1, UntilValidation, Validation, BusinessKeeps, RetryKeeps, EndKeeps DEF Next

LEMMA AgentInvInit == Init => AgentInv
<1> SUFFICES ASSUME Init PROVE AgentInv
    OBVIOUS
<1>1. /\ job \in Jobs /\ Startable(job) /\ pc = Intake
      /\ wf = [status |-> "running", stage |-> "ingested", agent |-> None, completed |-> {},
               retries |-> [a \in Extractors |-> 0], handoff |-> None,
               signals |-> IF job.injected = None THEN {}
                           ELSE {CorrectionSignal(job.injected)}]
      /\ run = [status |-> "running", agent |-> None, retryCount |-> 0, error |-> None]
      /\ scratch = EmptyScratchpad
      /\ results = [a \in Agents |-> None]
    BY DEF Init
<1>2. Shapes
    <2>1. wf \in [status : Statuses, stage : Stages, agent : Agents \cup {None},
                  completed : SUBSET Agents, retries : Retries, handoff : {wf.handoff},
                  signals : {wf.signals}]
        BY <1>1 DEF Statuses, Stages, Retries
    <2>2. run \in [status : {wf.status}, agent : {wf.agent}, retryCount : Nat,
                   error : {run.error}]
        BY <1>1
    <2>3. ScratchShape
        BY <1>1 DEF ScratchShape, EmptyScratchpad
    <2>4. pc \in PCs
        BY <1>1, Names DEF PCs
    <2>5. QED  BY <1>1, <2>1, <2>2, <2>3, <2>4 DEF Shapes, ScratchShape
<1>3. job.injected # None => job.scenario = "happy_path" /\ JobTarget = job.injected
    BY <1>1 DEF Startable, JobTarget
<1>4. SignalsKnown
    <2>1. \A a : /\ CorrectionSignal(a).severity = "error" /\ CorrectionSignal(a).retryable
                 /\ CorrectionSignal(a).target = a
        BY DEF CorrectionSignal
    <2>2. QED  BY <1>1, <1>3, <2>1 DEF SignalsKnown
<1>5. RetriesOfTarget
    <2>1. job.maxRetries \in Nat
        BY <1>1, AgentAssumption DEF Jobs
    <2>2. JobTarget \in Extractors \cup {None}
        BY <1>2, JobTargets
    <2>3. wf.status = "running" /\ run.retryCount = 0 /\ \A a \in Extractors : wf.retries[a] = 0
        BY <1>1
    <2>4. QED  BY <2>1, <2>2, <2>3 DEF RetriesOfTarget
<1>6. pc \in PreparationAgents
    BY <1>1, Names
<1>7. pc \notin Business \cup {QA, "retry_gate", "request_retries"}
    BY <1>6, ControlStates, Names
<1>8. SignalInjected /\ CorrectionAtHand /\ DraftIsGroups /\ ValidatedBeforeBusiness
    BY <1>6, <1>7
    DEF SignalInjected, CorrectionAtHand, DraftIsGroups, ValidatedBeforeBusiness
<1>9. QED  BY <1>2, <1>4, <1>5, <1>8 DEF AgentInv

LEMMA AgentInvHolds == Spec => []AgentInv
BY AgentInvInit, AgentInvStep, PTL DEF Spec

-----------------------------------------------------------------------------
\* The control state keeps its shape, and the run's row mirrors the state.
THEOREM AgentTypes == Spec => []AgentTypeOK
<1>1. AgentInv => AgentTypeOK
    BY DEF AgentInv, Shapes, PCs, AgentTypeOK, SignalsKnown
<1>2. QED  BY <1>1, AgentInvHolds, PTL

\* The business agents see no draft but the one that passed validation, and none
\* with a signal.
THEOREM OnlyValidatedReachBusiness == Spec => []ValidatedBeforeBusiness
<1>1. AgentInv => ValidatedBeforeBusiness
    BY DEF AgentInv
<1>2. QED  BY <1>1, AgentInvHolds, PTL

\* Retries stay within the budget, and a workflow is given up exactly when they
\* would not.
THEOREM RetriesWithinBudget == Spec => []RetryBudget
<1>1. AgentInv => RetryBudget
    <2> SUFFICES ASSUME AgentInv PROVE RetryBudget
        OBVIOUS
    <2>1. RetriesOfTarget /\ Shapes
        BY DEF AgentInv
    <2>2. wf.retries \in [Extractors -> Nat] /\ Extractors = {Metadata, Table, Totals}
        BY <2>1, Names DEF Shapes, Retries
    <2>3. Metadata # Table /\ Metadata # Totals /\ Table # Totals
        BY DEF Metadata, Table, Totals
    <2>4. JobTarget \in Extractors \cup {None} /\ None \notin Extractors
        BY <2>1, JobTargets
    <2>5. run.retryCount = wf.retries[Metadata] + wf.retries[Table] + wf.retries[Totals]
        <3>1. CASE JobTarget = None
            BY <2>1, <2>2, <2>4, <3>1 DEF RetriesOfTarget
        <3>2. CASE JobTarget = Metadata
            BY <2>1, <2>2, <2>3, <2>4, <3>2 DEF RetriesOfTarget
        <3>3. CASE JobTarget = Table
            BY <2>1, <2>2, <2>3, <2>4, <3>3 DEF RetriesOfTarget
        <3>4. CASE JobTarget = Totals
            BY <2>1, <2>2, <2>3, <2>4, <3>4 DEF RetriesOfTarget
        <3>5. QED  BY <2>2, <2>4, <3>1, <3>2, <3>3, <3>4
    <2>6. QED  BY <2>1, <2>5 DEF RetryBudget, RetriesOfTarget
<1>2. QED  BY <1>1, AgentInvHolds, PTL

-----------------------------------------------------------------------------
(* The drivers implement the pipeline.                                       *)

LEMMA PhaseOfControl ==
  /\ pc \in PreparationAgents => Phase = "prepare"
  /\ pc \in Extractors \cup {Assembly} => Phase = "extract"
  /\ pc = QA => Phase = "validate"
  /\ pc \in {"retry_gate", "request_retries"} => Phase = "correct"
  /\ pc \in Business => Phase = "business"
  /\ pc \in {"done", "raised"} => Phase = "ended"
BY DEF Phase, Business, PreparationAgents, Extractors, BusinessAgents, Intake, Layout,
       Privacy, Metadata, Table, Totals, Assembly, QA, Classifier, Matching, Review, Insight

LEMMA PhaseAfter ==
  /\ pc' \in PreparationAgents => Phase' = "prepare"
  /\ pc' \in Extractors \cup {Assembly} => Phase' = "extract"
  /\ pc' = QA => Phase' = "validate"
  /\ pc' \in {"retry_gate", "request_retries"} => Phase' = "correct"
  /\ pc' \in Business => Phase' = "business"
  /\ pc' \in {"done", "raised"} => Phase' = "ended"
BY DEF Phase, Business, PreparationAgents, Extractors, BusinessAgents, Intake, Layout,
       Privacy, Metadata, Table, Totals, Assembly, QA, Classifier, Matching, Review, Insight

\* A step of the code is a step of the pipeline, or leaves it where it is.
LEMMA StepIsPipelineStep ==
  AgentInv /\ [Next]_vars
    => [Pipeline!PipelineNext]_<<Phase, run.retryCount, job.maxRetries>>
<1> DEFINE Goal == [Pipeline!PipelineNext]_<<Phase, run.retryCount, job.maxRetries>>
           Same == run'.retryCount = run.retryCount /\ job' = job
<1> SUFFICES ASSUME AgentInv, [Next]_vars PROVE Goal
    OBVIOUS
<1>1. /\ Shapes /\ SignalsKnown /\ SignalInjected /\ CorrectionAtHand /\ RetriesOfTarget
      /\ PreparationAgents = {Intake, Layout, Privacy}
      /\ Extractors = {Metadata, Table, Totals}
      /\ BusinessAgents = {Classifier, Matching, Review, Insight}
    BY Names DEF AgentInv
<1>2. \A a, signals, to : Ran(a, signals, to) => pc = a /\ pc' \in to /\ Same
    BY DEF Ran
<1>3. ASSUME Same,
             \/ Phase' = Phase
             \/ Phase = "prepare" /\ Phase' \in {"extract", "ended"}
             \/ Phase = "extract" /\ Phase' \in {"validate", "ended"}
             \/ Phase = "validate" /\ Phase' \in {"business", "correct", "ended"}
             \/ Phase = "business" /\ Phase' = "ended"
      PROVE  Goal
    BY <1>3
    DEF Pipeline!PipelineNext, Pipeline!Prepared, Pipeline!Extracted, Pipeline!Judged,
                Pipeline!Finished, Pipeline!Move
<1>4. CASE UNCHANGED vars
    BY <1>4 DEF vars, Phase
<1>5. CASE AcceptDocument \/ AnalyzeLayout \/ FailLayout \/ ApplyPolicy
    <2>1. /\ Same /\ pc \in PreparationAgents
          /\ pc' \in PreparationAgents \cup Extractors \cup {"done"}
        BY <1>1, <1>2, <1>5, PreparationSteps
    <2>2. QED  BY <1>3, <2>1, PhaseOfControl, PhaseAfter
<1>6. CASE \E a \in Extractors : ExtractGroup(a)
    <2>1. Same /\ pc \in Extractors /\ pc' \in Extractors \cup {Assembly}
        BY <1>1, <1>2, <1>6, ExtractionSteps
    <2>2. QED  BY <1>3, <2>1, PhaseOfControl, PhaseAfter
<1>7. CASE Assemble
    <2>1. Same /\ pc = Assembly /\ pc' = QA
        <3>1. PICK more : Ran(Assembly, wf.signals \cup more, {QA})
            BY <1>1, <1>7, ExtractionSteps
        <3>2. QED  BY <3>1, <1>2
    <2>2. QED  BY <1>3, <2>1, PhaseOfControl, PhaseAfter
<1>8. CASE Validate
    <2>1. Same /\ pc = QA /\ pc' \in Business \cup {"retry_gate", "request_retries", "done"}
        BY <1>1, <1>2, <1>8, ValidateStep DEF Business
    <2>2. QED  BY <1>3, <2>1, PhaseOfControl, PhaseAfter
<1>9. CASE Classify \/ Match \/ Coordinate \/ ProduceInsights
    <2>1. Same /\ pc \in Business /\ pc' \in Business
        BY <1>1, <1>2, <1>9, BusinessSteps DEF Business
    <2>2. QED  BY <1>3, <2>1, PhaseOfControl, PhaseAfter
<1>10. CASE RetryGate \/ RequestRetries
    <2>1. /\ Counted /\ job' = job
          /\ ~RetryAllowed(JobTarget) => pc' = "done"
          /\ pc \in {"retry_gate", "request_retries"}
          /\ pc' \in Extractors \cup {QA, "done"}
        BY <1>1, <1>10, RetrySteps
    <2>2. Phase = "correct" /\ Phase' \in {"extract", "validate", "ended"}
        BY <2>1, PhaseOfControl, PhaseAfter
    <2>3. /\ run.retryCount \in Nat /\ job.maxRetries \in Nat
          /\ run.retryCount <= job.maxRetries
          /\ RetryAllowed(JobTarget) <=> run.retryCount < job.maxRetries
        <3>1. job.maxRetries \in Nat /\ run.retryCount \in Nat
            BY <1>1, AgentAssumption DEF Shapes, Jobs
        <3>2. pc # "done" /\ JobTarget \in Extractors /\ JobTarget # None
            BY <1>1, <2>1, JobTargets DEF CorrectionAtHand
        <3>3. QED  BY <1>1, <3>1, <3>2 DEF RetriesOfTarget, RetryAllowed
    <2>4. CASE RetryAllowed(JobTarget)
        BY <2>1, <2>2, <2>3, <2>4 DEF Counted, Pipeline!PipelineNext, Pipeline!Corrected
    <2>5. CASE ~RetryAllowed(JobTarget)
        <3>1. Phase' = "ended" /\ run.retryCount = job.maxRetries
            BY <2>1, <2>3, <2>5, PhaseAfter
        <3>2. QED  BY <2>1, <2>2, <3>1 DEF Counted, Pipeline!PipelineNext, Pipeline!GivenUp
    <2>6. QED  BY <2>4, <2>5
<1>11. CASE Complete
    <2>1. Same /\ pc \in Business /\ pc' = "done"
        BY <1>1, <1>11, CompleteStep DEF Business
    <2>2. QED  BY <1>3, <2>1, PhaseOfControl, PhaseAfter
<1>12. CASE LoseHandoff
    <2>1. Same /\ pc \in Agents /\ pc' = "raised"
        BY <1>12 DEF LoseHandoff
    <2>2. pc \in PreparationAgents \cup Extractors \cup {Assembly, QA} \cup Business
        BY <2>1 DEF Agents, Business
    <2>3. QED  BY <1>3, <2>1, <2>2, PhaseOfControl, PhaseAfter
<1>13. QED
    BY <1>4, <1>5, <1>6, <1>7, <1>8, <1>9, <1>10, <1>11, <1>12 DEF Next

\* Every step of every driver is a step of the pipeline, or none: a draft reaches the
\* business agents by validation alone, a correction is counted against the budget,
\* and the document is given up on exactly when it is spent.
THEOREM DriversImplementPipeline == Spec => Pipeline!PipelineSafety
<1>1. Init => Pipeline!PipelineInit
    <2> SUFFICES ASSUME Init PROVE Pipeline!PipelineInit
        OBVIOUS
    <2>1. pc \in PreparationAgents /\ run.retryCount = 0 /\ job.maxRetries \in Nat
        BY AgentAssumption, Names DEF Init, Jobs
    <2>2. QED  BY <2>1, PhaseOfControl DEF Pipeline!PipelineInit
<1>2. QED
    BY <1>1, StepIsPipelineStep, AgentInvHolds, PTL DEF Spec, Pipeline!PipelineSafety

-----------------------------------------------------------------------------
(* Where a driver ends.                                                      *)
(*                                                                          *)
(* What the last state says depends on what every earlier step left behind:  *)
(* the status, the results that the next lookup reads, the signal a          *)
(* correction keeps.  OutcomeInv says so for each place of the driver.       *)

Waiting == {"retry_gate", "request_retries"}

\* The handoffs of the two agents whose results an extractor's lookup reads.
ToPrivacy == <<Handoff(Layout, Privacy, "control")>>
ToExtractors == <<Handoff(Privacy, Metadata, "control"), Handoff(Privacy, Table, "control"),
                  Handoff(Privacy, Totals, "control")>>

\* Until a driver ends, the status tells only whether a correction was asked for.
StatusOfControl ==
  /\ pc \notin {"complete", "done"} =>
       wf.status = IF run.retryCount = 0 THEN "running" ELSE "retrying"
  /\ pc = "complete" => wf.status \in {"running", "review_required"}

\* A signal for a correction is never withdrawn, and none precedes extraction.
TargetSignalled ==
  /\ job.injected # None \/ run.retryCount > 0 => CorrectionSignal(JobTarget) \in wf.signals
  /\ pc \in PreparationAgents => run.retryCount = 0

ReadingTaken ==
  /\ pc \in {Intake, Layout} => scratch.reading = None
  /\ pc \in (Agents \ {Intake, Layout}) \cup Waiting \cup {"complete"} =>
       scratch.reading = Reading(job.document)

\* Where extractor a has been.
After(a) == {Assembly, QA} \cup Waiting \cup
            CASE a = Metadata -> {Table, Totals} [] a = Table -> {Totals} [] OTHER -> {}

GroupsMade == \A a \in Extractors :
  pc \in After(a) \/ run.retryCount > 0 => scratch.groups[a] # None

\* The results that the driver's next lookup reads.
HandoffsInPlace ==
  /\ pc = Layout => HasHandoffTo(results[Intake], Layout)
  /\ pc \in {Privacy, Assembly, QA} \cup Extractors \cup Waiting =>
       results[Layout] = Result(Layout, "succeeded", ToPrivacy)
  /\ pc \in {Assembly, QA} \cup Extractors \cup Waiting =>
       results[Privacy] = Result(Privacy, "succeeded", ToExtractors)
  /\ pc \in {QA} \cup Waiting => HasHandoffTo(results[Assembly], QA)
  /\ pc = Classifier => HasHandoffTo(results[QA], Classifier)

\* A correction is addressed to the extractor of this job; only after one of metadata
\* or the table do extractors follow that it is not addressed to.
CorrectionsForTarget ==
  /\ pc \in Extractors \cup Waiting =>
       \A h \in Range(latest.handoffs) : h.type = "correction" => h.target = JobTarget
  /\ pc \in Waiting => HasHandoffTo(latest, JobTarget)
  /\ pc \in Extractors /\ run.retryCount > 0 =>
       \/ pc = JobTarget /\ HasHandoffTo(latest, JobTarget)
       \/ JobTarget \in {Metadata, Table}

\* How far a driver goes.
DriverPlace ==
  /\ job.driver = "prepare" => pc \in PreparationAgents \cup {"done", "raised"}
  /\ pc \in Business => job.driver \in {"custom", "graph"} /\ QA \in wf.completed

\* Without a correction an observer has been told of no later stage.
ProgressBound ==
  /\ progress.percent \in 0 .. 100
  /\ run.retryCount = 0 /\ pc \in Agents => progress.percent <= StagePercent[pc]

OutcomeInv ==
  /\ StatusOfControl
  /\ TargetSignalled
  /\ ReadingTaken
  /\ GroupsMade
  /\ HandoffsInPlace
  /\ CorrectionsForTarget
  /\ DriverPlace
  /\ ProgressBound
  /\ FinalOutcome

-----------------------------------------------------------------------------
(* What an agent's step leaves, in full.                                     *)

Took(a, status, handoffs, signals) ==
  /\ pc = a /\ job' = job
  /\ wf'.signals = signals /\ wf'.retries = wf.retries
  /\ run'.retryCount = run.retryCount
  /\ wf'.status = IF status \in {"failed", "review_required"} THEN status ELSE wf.status
  /\ wf'.completed = IF status = "succeeded" THEN wf.completed \cup {a} ELSE wf.completed
  /\ results' = [results EXCEPT ![a] = Result(a, status, handoffs)]
  /\ latest' = Result(a, status, handoffs)
  /\ progress'.percent = IF wf'.status \in TerminalStatuses THEN 100 ELSE StagePercent[a]

LEMMA Percents ==
  /\ StagePercent[Intake] = 8 /\ StagePercent[Layout] = 25 /\ StagePercent[Privacy] = 32
  /\ StagePercent[Metadata] = 44 /\ StagePercent[Table] = 54 /\ StagePercent[Totals] = 64
  /\ StagePercent[Assembly] = 70 /\ StagePercent[QA] = 78
  /\ StagePercent[Classifier] = 85 /\ StagePercent[Matching] = 92
  /\ StagePercent[Review] = 96 /\ StagePercent[Insight] = 99
BY Names DEF StagePercent, Intake, Layout, Privacy, Metadata, Table, Totals, Assembly, QA,
             Classifier, Matching, Review, Insight

LEMMA Taking ==
  ASSUME Shapes, NEW a \in Agents, NEW status, NEW handoffs, NEW signals, pc = a,
         Recorded(Result(a, status, handoffs), signals)
  PROVE  Took(a, status, handoffs, signals)
<1> DEFINE result == Result(a, status, handoffs)
           stepped == StepRecorded([wf EXCEPT !.signals = signals], result)
           handed == HandoffsRecorded(stepped, handoffs)
<1>1. result.agent = a /\ result.status = status /\ result.handoffs = handoffs
    BY DEF Result
<1>2. /\ wf' = handed /\ run' = RunRecorded(run, handed, result)
      /\ results' = [results EXCEPT ![a] = result] /\ latest' = result
      /\ progress' = Snapshot(stepped) /\ job' = job
    BY <1>1 DEF Recorded
<1> HIDE DEF result
<1>3. /\ stepped.status = IF status \in {"failed", "review_required"} THEN status
                          ELSE wf.status
      /\ stepped.completed = IF status = "succeeded" THEN wf.completed \cup {a}
                             ELSE wf.completed
      /\ stepped.stage = IF status = "failed" THEN "failed" ELSE a
      /\ stepped.signals = signals /\ stepped.retries = wf.retries
      /\ {"status", "stage", "agent", "completed", "retries", "handoff", "signals"}
           \subseteq DOMAIN stepped
    BY <1>1 DEF StepRecorded, Terminal, Shapes
<1> HIDE DEF stepped
<1>4. /\ handed.status = stepped.status /\ handed.completed = stepped.completed
      /\ handed.signals = signals /\ handed.retries = wf.retries
    BY <1>3 DEF HandoffsRecorded
<1> HIDE DEF handed
<1>5. run'.retryCount = run.retryCount
    BY <1>2 DEF RunRecorded, Shapes
<1>6. a \notin {"completed", "failed", "ingested"}
    BY DEF Agents, PreparationAgents, Extractors, BusinessAgents, Intake, Layout, Privacy,
           Metadata, Table, Totals, Assembly, QA, Classifier, Matching, Review, Insight
<1>7. progress'.percent = IF stepped.status \in TerminalStatuses THEN 100 ELSE StagePercent[a]
    BY <1>2, <1>3, <1>6 DEF Snapshot, TerminalStatuses
<1>8. QED  BY <1>2, <1>3, <1>4, <1>5, <1>7 DEF Took, result

LEMMA Order ==
  /\ Successor[Metadata] = Table /\ Successor[Table] = Totals
  /\ Successor[Totals] = Assembly
  /\ {Metadata, Table, Totals, Assembly, QA, Review, Matching, Classifier, Insight}
       \cap (PreparationAgents \cup {"complete", "done", "raised"} \cup Waiting) = {}
  /\ {Classifier, Matching, Review, Insight}
       \cap ({Assembly, QA, Intake, Layout, Privacy} \cup Extractors) = {}
  /\ {Assembly, QA} \cap Extractors = {} /\ Assembly # QA
  /\ Metadata # Table /\ Metadata # Totals /\ Table # Totals
  /\ Intake # Layout /\ Intake # Privacy /\ Layout # Privacy
  /\ Classifier # Matching /\ Classifier # Review /\ Classifier # Insight
BY Names DEF Successor, PreparationAgents, Waiting, Extractors, Intake, Layout, Privacy,
       Metadata, Table, Totals, Assembly, QA, Classifier, Matching, Review, Insight

LEMMA PreparationTook ==
  ASSUME Shapes
  PROVE  /\ AcceptDocument =>
              /\ Took(Intake, "succeeded", <<Handoff(Intake, Layout, "control")>>, wf.signals)
              /\ pc' = Layout /\ scratch' = scratch
         /\ AnalyzeLayout =>
              /\ Took(Layout, "succeeded", ToPrivacy, wf.signals)
              /\ pc' = Privacy /\ scratch'.reading = Reading(job.document)
         /\ FailLayout =>
              /\ Took(Layout, "failed", <<>>, wf.signals)
              /\ pc' = "done" /\ scratch' = scratch
         /\ ApplyPolicy =>
              /\ Took(Privacy, "succeeded", ToExtractors, wf.signals)
              /\ pc' = IF job.driver = "prepare" THEN "done" ELSE Metadata
              /\ scratch' = scratch
<1>1. Intake \in Agents /\ Layout \in Agents /\ Privacy \in Agents
    BY Names
<1>2. /\ AcceptDocument => pc' = Layout /\ scratch' = scratch
      /\ AnalyzeLayout => pc' = Privacy
      /\ FailLayout => pc' = "done" /\ scratch' = scratch
    BY PreparationSteps DEF Ran
<1>3. AcceptDocument =>
        Took(Intake, "succeeded", <<Handoff(Intake, Layout, "control")>>, wf.signals)
    BY <1>1, Taking DEF AcceptDocument, Await
<1>4. AnalyzeLayout => Took(Layout, "succeeded", ToPrivacy, wf.signals)
    BY <1>1, Taking DEF AnalyzeLayout, Await, ToPrivacy
<1>5. AnalyzeLayout => scratch'.reading = Reading(job.document)
    BY DEF AnalyzeLayout, Shapes
<1>6. FailLayout => Took(Layout, "failed", <<>>, wf.signals)
    BY <1>1, Taking DEF FailLayout, Await
<1>7. ASSUME ApplyPolicy
      PROVE  /\ Took(Privacy, "succeeded", ToExtractors, wf.signals)
             /\ pc' = IF job.driver = "prepare" THEN "done" ELSE Metadata
             /\ scratch' = scratch
    <2>1. /\ pc = Privacy /\ scratch' = scratch
          /\ Recorded(Result(Privacy, "succeeded", ToExtractors), wf.signals)
          /\ pc' = RouteAfter(Result(Privacy, "succeeded", ToExtractors))
        BY <1>7 DEF ApplyPolicy, Await, ToExtractors
    <2>2. /\ Result(Privacy, "succeeded", ToExtractors).agent = Privacy
          /\ ~Terminal(Result(Privacy, "succeeded", ToExtractors))
        BY DEF Result, Terminal
    <2>3. Privacy \notin BusinessAgents /\ Successor[Privacy] = Metadata
        BY Names, Order DEF Successor, Intake, Layout, Privacy, Metadata
    <2>4. QED  BY <1>1, <2>1, <2>2, <2>3, Taking DEF RouteAfter
<1>8. QED  BY <1>2, <1>3, <1>4, <1>5, <1>6, <1>7

\* The group an extractor leaves is one it kept or one it made of the reading.
Extracted(a, signals) ==
  \E made : \E reply \in Replies[a] :
    /\ made = Extract(a, scratch.groups[a], scratch.reading, job.llm, IsCorrection(a),
                      AnswerTo(reply))
    /\ scratch' = [scratch EXCEPT !.groups[a] = made.group]
    /\ Took(a, "succeeded", <<Handoff(a, Assembly, "data")>>, signals)
    /\ pc' = Successor[a]

LEMMA ExtractionTook ==
  ASSUME Shapes
  PROVE  /\ \A a \in Extractors : ExtractGroup(a) =>
              \E signals : wf.signals \subseteq signals /\ Extracted(a, signals)
         /\ Assemble => \E signals :
              /\ Took(Assembly, "succeeded", <<Handoff(Assembly, QA, "data")>>, signals)
              /\ wf.signals \subseteq signals /\ pc' = QA
              /\ scratch'.groups = scratch.groups /\ scratch'.reading = scratch.reading
<1>1. ASSUME NEW a \in Extractors, ExtractGroup(a)
      PROVE  \E signals : wf.signals \subseteq signals /\ Extracted(a, signals)
    <2> DEFINE handoffs == <<Handoff(a, Assembly, "data")>>
    <2>1. PICK made, reply :
            /\ reply \in Replies[a]
            /\ made = Extract(a, scratch.groups[a], scratch.reading, job.llm,
                              IsCorrection(a), AnswerTo(reply))
            /\ scratch' = [scratch EXCEPT !.groups[a] = made.group]
            /\ Recorded(Result(a, "succeeded", handoffs), wf.signals \cup
                 (IF made.error = None THEN {} ELSE {ProviderSignal(made.error)}))
            /\ pc' = RouteAfter(Result(a, "succeeded", handoffs))
        BY <1>1 DEF ExtractGroup
    <2> DEFINE signals == wf.signals \cup
                 (IF made.error = None THEN {} ELSE {ProviderSignal(made.error)})
    <2>2. pc = a /\ a \in Agents
        BY <1>1, Names DEF ExtractGroup, Await
    <2>3. pc' = Successor[a]
        <3>1. /\ Result(a, "succeeded", handoffs).agent = a
              /\ ~Terminal(Result(a, "succeeded", handoffs))
            BY DEF Result, Terminal
        <3>2. a \notin BusinessAgents /\ a # Privacy
            BY Names, Order
        <3>3. QED  BY <2>1, <3>1, <3>2 DEF RouteAfter
    <2> HIDE DEF handoffs
    <2>4. wf.signals \subseteq signals
        OBVIOUS
    <2> HIDE DEF signals
    <2>5. Took(a, "succeeded", handoffs, signals)
        BY <2>1, <2>2, Taking DEF signals
    <2>6. QED  BY <2>1, <2>3, <2>4, <2>5 DEF Extracted, handoffs
<1>2. ASSUME Assemble
      PROVE  \E signals :
              /\ Took(Assembly, "succeeded", <<Handoff(Assembly, QA, "data")>>, signals)
              /\ wf.signals \subseteq signals /\ pc' = QA
              /\ scratch'.groups = scratch.groups /\ scratch'.reading = scratch.reading
    <2> DEFINE handoffs == <<Handoff(Assembly, QA, "data")>>
               signals == wf.signals \cup (IF job.scenario = "happy_path" THEN {}
                                           ELSE {CorrectionSignal(Totals)})
    <2>1. /\ pc = Assembly /\ Assembly \in Agents
          /\ scratch' = [scratch EXCEPT !.draft = scratch.groups]
          /\ Recorded(Result(Assembly, "succeeded", handoffs), signals)
        BY <1>2, Names DEF Assemble, Await
    <2>2. pc' = QA
        BY <1>2, ExtractionSteps DEF Ran
    <2>3. scratch'.groups = scratch.groups /\ scratch'.reading = scratch.reading
        BY <2>1 DEF Shapes
    <2>4. wf.signals \subseteq signals
        OBVIOUS
    <2> HIDE DEF handoffs, signals
    <2>5. Took(Assembly, "succeeded", handoffs, signals)
        BY <2>1, Taking
    <2>6. QED  BY <2>2, <2>3, <2>4, <2>5 DEF handoffs
<1>3. QED  BY <1>1, <1>2

\* The three ways validation ends; only the first while a correction is signalled.
Asked(signals) ==
  /\ \E handoffs : Took(QA, "retry_requested", handoffs, signals)
  /\ pc' \in Waiting
  /\ HasHandoffTo(latest', JobTarget)
  /\ \A h \in Range(latest'.handoffs) : h.target = JobTarget

TurnedDown(signals) ==
  /\ Took(QA, "review_required", <<>>, signals)
  /\ pc' = "done"
  /\ Corrections(signals) = {}

Passed(signals) ==
  /\ Took(QA, "succeeded", <<Handoff(QA, Classifier, "control")>>, signals)
  /\ pc' = IF job.driver \in {"adapter", "fallback"} THEN "done" ELSE Classifier
  /\ signals = {}

LEMMA ValidationTook ==
  ASSUME AgentInv, Validate
  PROVE  \E signals : /\ wf.signals \subseteq signals /\ scratch' = scratch
                      /\ Asked(signals) \/ TurnedDown(signals) \/ Passed(signals)
<1> DEFINE signals == wf.signals \cup QASignals(scratch.draft, PartyRegions)
           outcome == QAOutcome(signals)
           asked == {Handoff(QA, s.target, "correction") : s \in Corrections(signals)}
           handoffs == CASE outcome = "retry_requested" -> SetToSeq(asked)
                         [] outcome = "succeeded" -> <<Handoff(QA, Classifier, "control")>>
                         [] OTHER -> <<>>
<1>1. /\ pc = QA /\ scratch' = scratch
      /\ Recorded(Result(QA, outcome, handoffs), signals)
      /\ pc' = RouteAfterQA(outcome)
    BY DEF Validate, Await
<1>2. Shapes /\ SignalsKnown /\ SignalInjected /\ QA \in Agents
    BY Names DEF AgentInv
<1>3. Known(signals)
    BY <1>2, NewAreKnown DEF SignalsKnown, Known
<1>4. job.scenario # "happy_path" => CorrectionSignal(Totals) \in signals
    BY <1>1, <1>2, Order DEF SignalInjected
<1>5. wf.signals \subseteq signals
    OBVIOUS
<1> HIDE DEF signals
<1>6. Took(QA, outcome, handoffs, signals)
    <2> HIDE DEF outcome, handoffs
    <2>1. QED  BY <1>1, <1>2, Taking
<1>7. CASE Corrections(signals) # {}
    <2>1. outcome = "retry_requested"
        BY <1>7 DEF QAOutcome
    <2>2. \A s \in Corrections(signals) : s.target = JobTarget /\ JobTarget # None
        BY <1>3 DEF Known, Corrections
    <2>3. asked = {Handoff(QA, JobTarget, "correction")}
        <3>1. \A h \in asked : h = Handoff(QA, JobTarget, "correction")
            BY <2>2
        <3>2. asked # {}
            BY <1>7
        <3> HIDE DEF asked
        <3>3. QED  BY <3>1, <3>2
    <2>4. Range(handoffs) = {Handoff(QA, JobTarget, "correction")}
        BY <2>1, <2>3, SequenceOfOne
    <2>5. latest' = Result(QA, outcome, handoffs)
        BY <1>6 DEF Took
    <2>6. latest'.handoffs = handoffs
        BY <2>5 DEF Result
    <2>7. pc' \in Waiting
        <3>1. JobTarget \in Extractors
            BY <1>2, <1>7, <2>2, JobTargets
        <3>2. job.driver = "custom" => job.scenario # "happy_path"
            BY <1>2, <3>1, JobTargets
        <3>3. QED  BY <1>1, <2>1, <3>2 DEF RouteAfterQA, Waiting
    <2> HIDE DEF handoffs, asked, outcome
    <2>8. HasHandoffTo(latest', JobTarget)
        BY <2>4, <2>6, HandoffTarget DEF HasHandoffTo
    <2>9. \A h \in Range(latest'.handoffs) : h.target = JobTarget
        BY <2>4, <2>6, HandoffTarget
    <2>10. QED  BY <1>1, <1>5, <1>6, <2>1, <2>7, <2>8, <2>9 DEF Asked
<1>8. CASE Corrections(signals) = {} /\ Reviews(signals) # {}
    <2>1. outcome = "review_required" /\ handoffs = <<>>
        BY <1>8 DEF QAOutcome
    <2>2. pc' = "done"
        BY <1>1, <2>1 DEF RouteAfterQA
    <2> HIDE DEF handoffs, asked, outcome
    <2>3. QED  BY <1>1, <1>5, <1>6, <1>8, <2>1, <2>2 DEF TurnedDown
<1>9. CASE Corrections(signals) = {} /\ Reviews(signals) = {}
    <2>1. outcome = "succeeded" /\ handoffs = <<Handoff(QA, Classifier, "control")>>
        BY <1>9 DEF QAOutcome
    <2>2. signals = {}
        BY <1>3, <1>9 DEF Known, Corrections, Reviews
    <2>3. job.scenario = "happy_path"
        BY <1>4, <2>2
    <2>4. pc' = IF job.driver \in {"adapter", "fallback"} THEN "done" ELSE Classifier
        BY <1>1, <2>1, <2>3 DEF RouteAfterQA
    <2> HIDE DEF handoffs, asked, outcome
    <2>5. QED  BY <1>1, <1>5, <1>6, <2>1, <2>2, <2>4 DEF Passed
<1>10. QED  BY <1>7, <1>8, <1>9

LEMMA BusinessTook ==
  ASSUME Shapes
  PROVE  /\ Classify => /\ \E handoffs : Took(Classifier, "succeeded", handoffs, wf.signals)
                        /\ pc' = Matching /\ scratch'.reading = scratch.reading
         /\ Match => /\ \E handoffs : Took(Matching, "succeeded", handoffs, wf.signals)
                     /\ pc' = Review /\ scratch'.reading = scratch.reading
         /\ Coordinate =>
              /\ \/ /\ \E handoffs : Took(Review, "succeeded", handoffs, wf.signals)
                    /\ pc' = Insight
                 \/ /\ \E handoffs : Took(Review, "review_required", handoffs, wf.signals)
                    /\ pc' = "complete"
              /\ scratch'.reading = scratch.reading
         /\ ProduceInsights =>
              /\ \E handoffs : Took(Insight, "succeeded", handoffs, wf.signals)
              /\ pc' = "complete" /\ scratch'.reading = scratch.reading
<1>0. /\ BusinessAgents \subseteq Agents
      /\ BusinessAgents = {Classifier, Matching, Review, Insight}
      /\ Privacy \notin BusinessAgents
    BY Names, Order
<1>1. \A a \in BusinessAgents : \A b, type :
        RouteAfter(Result(a, "succeeded", <<Handoff(a, b, type)>>)) = Successor[a]
    <2> TAKE a \in BusinessAgents
    <2> TAKE b, type
    <2> DEFINE handoffs == <<Handoff(a, b, type)>>
    <2>1. /\ Result(a, "succeeded", handoffs).agent = a
          /\ Result(a, "succeeded", handoffs).handoffs = handoffs
          /\ ~Terminal(Result(a, "succeeded", handoffs))
          /\ handoffs # <<>>
        BY DEF Result, Terminal
    <2> HIDE DEF handoffs
    <2>2. QED  BY <1>0, <2>1 DEF RouteAfter, handoffs
<1>2. /\ Successor[Classifier] = Matching /\ Successor[Matching] = Review
      /\ Successor[Review] = Insight
    BY Names, Order
    DEF Successor, Intake, Layout, Privacy, Metadata, Table, Totals, Assembly,
                        QA, Classifier, Matching, Review, Insight
<1>3. Classify => /\ \E handoffs : Took(Classifier, "succeeded", handoffs, wf.signals)
                  /\ pc' = Matching /\ scratch'.reading = scratch.reading
    <2> SUFFICES ASSUME Classify
                 PROVE  /\ \E handoffs : Took(Classifier, "succeeded", handoffs, wf.signals)
                        /\ pc' = Matching /\ scratch'.reading = scratch.reading
        OBVIOUS
    <2>1. /\ Recorded(Result(Classifier, "succeeded",
                             <<Handoff(Classifier, Matching, "data")>>), wf.signals)
          /\ pc' = RouteAfter(Result(Classifier, "succeeded",
                                     <<Handoff(Classifier, Matching, "data")>>))
          /\ pc = Classifier
          /\ \E made : scratch' = [scratch EXCEPT !.classified = made]
        BY DEF Classify, Await
    <2>2. scratch'.reading = scratch.reading
        BY <2>1 DEF Shapes
    <2>3. QED  BY <1>0, <1>1, <1>2, <2>1, <2>2, Taking
<1>4. Match => /\ \E handoffs : Took(Matching, "succeeded", handoffs, wf.signals)
               /\ pc' = Review /\ scratch'.reading = scratch.reading
    <2> SUFFICES ASSUME Match
                 PROVE  /\ \E handoffs : Took(Matching, "succeeded", handoffs, wf.signals)
                        /\ pc' = Review /\ scratch'.reading = scratch.reading
        OBVIOUS
    <2>1. /\ Recorded(Result(Matching, "succeeded", <<Handoff(Matching, Review, "data")>>),
                      wf.signals)
          /\ pc' = RouteAfter(Result(Matching, "succeeded",
                                     <<Handoff(Matching, Review, "data")>>))
          /\ pc = Matching
          /\ \E made : scratch' = [scratch EXCEPT !.match = made]
        BY DEF Match, Await
    <2>2. scratch'.reading = scratch.reading
        BY <2>1 DEF Shapes
    <2>3. QED  BY <1>0, <1>1, <1>2, <2>1, <2>2, Taking
<1>5. ASSUME Coordinate
      PROVE  /\ \/ /\ \E handoffs : Took(Review, "succeeded", handoffs, wf.signals)
                   /\ pc' = Insight
                \/ /\ \E handoffs : Took(Review, "review_required", handoffs, wf.signals)
                   /\ pc' = "complete"
             /\ scratch'.reading = scratch.reading
    <2> DEFINE done == Result(Review, "succeeded", <<Handoff(Review, Insight, "control")>>)
               held == Result(Review, "review_required", <<>>)
    <2>1. /\ pc = Review /\ scratch' = [scratch EXCEPT !.review = ReviewReasons # {}]
          /\ \/ Recorded(done, wf.signals) /\ pc' = RouteAfter(done)
             \/ Recorded(held, wf.signals) /\ pc' = RouteAfter(held)
        BY <1>5 DEF Coordinate, Await
    <2>2. scratch'.reading = scratch.reading
        BY <2>1 DEF Shapes
    <2>3. RouteAfter(done) = Insight /\ RouteAfter(held) = "complete"
        <3>1. held.agent = Review /\ held.handoffs = <<>> /\ Terminal(held)
            BY DEF Result, Terminal
        <3>2. QED  BY <1>0, <1>1, <1>2, <3>1 DEF RouteAfter
    <2>4. QED  BY <1>0, <2>1, <2>2, <2>3, Taking
<1>6. ASSUME ProduceInsights
      PROVE  /\ \E handoffs : Took(Insight, "succeeded", handoffs, wf.signals)
             /\ pc' = "complete" /\ scratch'.reading = scratch.reading
    <2>1. /\ pc = Insight /\ scratch' = [scratch EXCEPT !.insights = TRUE]
          /\ Recorded(Result(Insight, "succeeded", <<>>), wf.signals)
        BY <1>6 DEF ProduceInsights, Await
    <2>2. pc' = "complete"
        BY <1>6, BusinessSteps DEF Ran
    <2>3. scratch'.reading = scratch.reading
        BY <2>1 DEF Shapes
    <2>4. QED  BY <1>0, <2>1, <2>2, <2>3, Taking
<1>7. QED  BY <1>3, <1>4, <1>5, <1>6

-----------------------------------------------------------------------------
(* OutcomeInv is inductive.                                                  *)

LEMMA PercentsInRange == \A a \in Agents : StagePercent[a] \in 0 .. 100
BY Percents, Names

\* What holds after any agent's step: percentages and signals only grow.
LEMMA AgentKeeps ==
  ASSUME OutcomeInv, NEW a \in Agents, NEW status, NEW handoffs, NEW signals,
         Took(a, status, handoffs, signals), wf.signals \subseteq signals,
         pc' \in PreparationAgents => a \in PreparationAgents
  PROVE  /\ TargetSignalled' /\ progress'.percent \in 0 .. 100
         /\ job' = job /\ JobTarget' = JobTarget /\ run'.retryCount = run.retryCount
<1>1. job' = job /\ JobTarget' = JobTarget /\ run'.retryCount = run.retryCount
    BY DEF Took, JobTarget
<1>2. TargetSignalled'
    <2>1. wf'.signals = signals /\ pc = a
        BY DEF Took
    <2>2. QED  BY <1>1, <2>1 DEF OutcomeInv, TargetSignalled
<1>3. progress'.percent \in 0 .. 100
    BY PercentsInRange DEF Took
<1>4. QED  BY <1>1, <1>2, <1>3

\* What holds after a step that goes on to an agent of a later stage.
LEMMA OnwardKeeps ==
  ASSUME OutcomeInv, NEW a \in Agents, NEW handoffs, NEW signals,
         Took(a, "succeeded", handoffs, signals), wf.signals \subseteq signals,
         pc' \in Agents, StagePercent[a] <= StagePercent[pc'],
         pc' \in PreparationAgents => a \in PreparationAgents
  PROVE  /\ StatusOfControl' /\ TargetSignalled' /\ ProgressBound' /\ FinalOutcome'
         /\ job' = job /\ JobTarget' = JobTarget /\ run'.retryCount = run.retryCount
<1>1. /\ TargetSignalled' /\ progress'.percent \in 0 .. 100
      /\ job' = job /\ JobTarget' = JobTarget /\ run'.retryCount = run.retryCount
    BY AgentKeeps
<1>2. /\ pc \notin {"complete", "done", "raised"} /\ pc' \notin {"complete", "done", "raised"}
      /\ pc = a
    BY ControlStates DEF Took
<1>3. /\ wf'.status = wf.status
      /\ wf'.status = IF run'.retryCount = 0 THEN "running" ELSE "retrying"
    BY <1>1, <1>2 DEF Took, OutcomeInv, StatusOfControl
<1>4. StatusOfControl'
    BY <1>2, <1>3 DEF StatusOfControl
<1>5. FinalOutcome'
    BY <1>2 DEF FinalOutcome
<1>6. progress'.percent = StagePercent[a]
    BY <1>3 DEF Took, TerminalStatuses
<1>7. ProgressBound'
    BY <1>1, <1>6 DEF ProgressBound
<1>8. QED  BY <1>1, <1>4, <1>5, <1>7

LEMMA PreparationOutcome ==
  ASSUME AgentInv, OutcomeInv, AcceptDocument \/ AnalyzeLayout \/ FailLayout \/ ApplyPolicy
  PROVE  OutcomeInv'
<1>1. /\ Shapes /\ Intake \in Agents /\ Layout \in Agents /\ Privacy \in Agents
      /\ Metadata \in Agents /\ PreparationAgents = {Intake, Layout, Privacy}
      /\ Extractors = {Metadata, Table, Totals} /\ DOMAIN results = Agents
    BY Names DEF AgentInv, Shapes
<1>2. \A a, x, handoffs : Result(a, x, handoffs).handoffs = handoffs
    BY DEF Result
<1>3. \A a, b, type : \E h \in Range(<<Handoff(a, b, type)>>) : h.target = b
    BY HandoffTarget DEF Range
<1>4. CASE AcceptDocument
    <2>1. /\ Took(Intake, "succeeded", <<Handoff(Intake, Layout, "control")>>, wf.signals)
          /\ pc' = Layout /\ scratch' = scratch
        BY <1>1, <1>4, PreparationTook
    <2>2. /\ StatusOfControl' /\ TargetSignalled' /\ ProgressBound' /\ FinalOutcome'
          /\ job' = job /\ JobTarget' = JobTarget /\ run'.retryCount = run.retryCount
        BY <1>1, <2>1, Percents, OnwardKeeps
    <2>3. pc = Intake /\ results'[Intake].handoffs = <<Handoff(Intake, Layout, "control")>>
        BY <1>1, <1>2, <2>1 DEF Took
    <2>4. ReadingTaken'
        BY <2>1, <2>2, <2>3, Order DEF OutcomeInv, ReadingTaken, Waiting, Layout
    <2>5. run'.retryCount = 0
        BY <1>1, <2>2, <2>3 DEF OutcomeInv, TargetSignalled
    <2>6. GroupsMade'
        BY <2>1, <2>5, Order, <1>1
        DEF GroupsMade, After, Waiting, Layout, Metadata, Table, Totals, Assembly, QA
    <2>7. HandoffsInPlace'
        BY <1>1, <1>3, <2>1, <2>3, Order
        DEF HandoffsInPlace, HasHandoffTo, Waiting, Layout, Metadata, Table, Totals,
            Assembly, QA, Classifier, Privacy
    <2>8. CorrectionsForTarget'
        BY <1>1, <2>1, Order
        DEF CorrectionsForTarget, Waiting, Layout, Metadata, Table, Totals
    <2>9. DriverPlace'
        BY <1>1, <2>1, ControlStates DEF DriverPlace
    <2>10. QED  BY <2>2, <2>4, <2>6, <2>7, <2>8, <2>9 DEF OutcomeInv
<1>5. CASE AnalyzeLayout
    <2>1. /\ Took(Layout, "succeeded", ToPrivacy, wf.signals)
          /\ pc' = Privacy /\ scratch'.reading = Reading(job.document)
        BY <1>1, <1>5, PreparationTook
    <2>2. /\ StatusOfControl' /\ TargetSignalled' /\ ProgressBound' /\ FinalOutcome'
          /\ job' = job /\ JobTarget' = JobTarget /\ run'.retryCount = run.retryCount
        BY <1>1, <2>1, Percents, OnwardKeeps
    <2>3. pc = Layout /\ results'[Layout] = Result(Layout, "succeeded", ToPrivacy)
        BY <1>1, <2>1 DEF Took
    <2>4. ReadingTaken'
        BY <2>1, <2>2, <2>3, Order DEF ReadingTaken
    <2>5. run'.retryCount = 0
        BY <1>1, <2>2, <2>3 DEF OutcomeInv, TargetSignalled
    <2>6. GroupsMade'
        BY <2>1, <2>5, Order, <1>1
        DEF GroupsMade, After, Waiting, Privacy, Metadata, Table, Totals, Assembly, QA
    <2>7. HandoffsInPlace'
        BY <1>1, <2>1, <2>3, Order
        DEF HandoffsInPlace, Waiting, Layout, Metadata, Table, Totals, Assembly, QA,
            Classifier, Privacy
    <2>8. CorrectionsForTarget'
        BY <1>1, <2>1, Order
        DEF CorrectionsForTarget, Waiting, Privacy, Metadata, Table, Totals
    <2>9. DriverPlace'
        BY <1>1, <2>1, ControlStates DEF DriverPlace
    <2>10. QED  BY <2>2, <2>4, <2>6, <2>7, <2>8, <2>9 DEF OutcomeInv
<1>6. CASE FailLayout
    <2>1. /\ Took(Layout, "failed", <<>>, wf.signals)
          /\ pc' = "done" /\ scratch' = scratch
        BY <1>1, <1>6, PreparationTook
    <2>2. pc = Layout /\ wf'.status = "failed" /\ pc' \notin Agents
        BY <2>1, ControlStates DEF Took
    <2>3. /\ TargetSignalled' /\ progress'.percent \in 0 .. 100
          /\ job' = job /\ JobTarget' = JobTarget /\ run'.retryCount = run.retryCount
        BY <1>1, <2>1, <2>2, AgentKeeps
    <2>4. run'.retryCount = 0 /\ scratch'.reading = None
        BY <1>1, <2>1, <2>2, <2>3 DEF OutcomeInv, TargetSignalled, ReadingTaken
    <2>5. FinalOutcome'
        BY <2>1, <2>2, <2>4 DEF FinalOutcome
    <2>6. StatusOfControl' /\ ReadingTaken' /\ ProgressBound' /\ DriverPlace'
        BY <1>1, <2>1, <2>2, <2>3, ControlStates
        DEF StatusOfControl, ReadingTaken, ProgressBound, DriverPlace, Waiting
    <2>7. GroupsMade' /\ HandoffsInPlace' /\ CorrectionsForTarget'
        BY <1>1, <2>1, <2>2, <2>4, Names
        DEF GroupsMade, After, HandoffsInPlace, CorrectionsForTarget, Waiting
    <2>8. QED  BY <2>3, <2>5, <2>6, <2>7 DEF OutcomeInv
<1>7. CASE ApplyPolicy
    <2>1. /\ Took(Privacy, "succeeded", ToExtractors, wf.signals)
          /\ pc' = IF job.driver = "prepare" THEN "done" ELSE Metadata
          /\ scratch' = scratch
        BY <1>1, <1>7, PreparationTook
    <2>2. /\ pc = Privacy /\ results'[Privacy] = Result(Privacy, "succeeded", ToExtractors)
          /\ results'[Layout] = results[Layout]
          /\ latest'.handoffs = ToExtractors
        BY <1>1, <1>2, <2>1, Order DEF Took
    <2>3. pc' \notin PreparationAgents
        BY <1>1, <2>1, Order, ControlStates
    <2>4. /\ TargetSignalled' /\ progress'.percent \in 0 .. 100
          /\ job' = job /\ JobTarget' = JobTarget /\ run'.retryCount = run.retryCount
        BY <1>1, <2>1, <2>3, AgentKeeps
    <2>5. run'.retryCount = 0 /\ scratch'.reading = Reading(job.document)
          /\ results[Layout] = Result(Layout, "succeeded", ToPrivacy)
          /\ wf.status = "running"
        BY <1>1, <2>1, <2>2, <2>4, Order, ControlStates
        DEF OutcomeInv, TargetSignalled, ReadingTaken, HandoffsInPlace, StatusOfControl
    <2>6. ReadingTaken'
        BY <1>1, <2>1, <2>3, <2>4, <2>5 DEF ReadingTaken
    <2>7. GroupsMade'
        BY <1>1, <2>1, <2>5, Order
        DEF GroupsMade, After, Waiting, Metadata, Table, Totals, Assembly, QA
    <2>8. HandoffsInPlace'
        BY <1>1, <2>1, <2>2, <2>5, Order
        DEF HandoffsInPlace, Waiting, Layout, Metadata, Table, Totals, Assembly, QA,
            Classifier, Privacy
    <2>9. CorrectionsForTarget'
        <3>1. \A h \in Range(latest'.handoffs) : h.type # "correction"
            BY <2>2 DEF ToExtractors, Range, Handoff
        <3>2. QED  BY <2>1, <2>5, <3>1, Order DEF CorrectionsForTarget, Waiting
    <2>10. CASE job.driver = "prepare"
        <3>1. pc' = "done" /\ wf'.status = "running" /\ Privacy \in wf'.completed
              /\ pc' \notin Agents
            BY <2>1, <2>5, <2>10, ControlStates DEF Took
        <3>2. scratch'.reading # None
            BY <1>1, <2>5, NoneAssumption DEF Shapes, Jobs
        <3>3. FinalOutcome'
            BY <2>4, <2>5, <2>10, <3>1, <3>2 DEF FinalOutcome
        <3>4. StatusOfControl' /\ ProgressBound' /\ DriverPlace'
            BY <2>4, <2>10, <3>1, ControlStates
            DEF StatusOfControl, ProgressBound, DriverPlace
        <3>5. QED  BY <2>4, <2>6, <2>7, <2>8, <2>9, <3>3, <3>4 DEF OutcomeInv
    <2>11. CASE job.driver # "prepare"
        <3>1. /\ StatusOfControl' /\ ProgressBound' /\ FinalOutcome'
            BY <1>1, <2>1, <2>3, <2>11, Percents, OnwardKeeps
        <3>2. DriverPlace'
            BY <1>1, <2>1, <2>4, <2>11, Order, ControlStates DEF DriverPlace
        <3>3. QED  BY <2>4, <2>6, <2>7, <2>8, <2>9, <3>1, <3>2 DEF OutcomeInv
    <2>12. QED  BY <2>10, <2>11
<1>8. QED  BY <1>4, <1>5, <1>6, <1>7

\* An extractor leaves a group, and the one it found unless it is corrected or the
\* group is low.
LEMMA MadeGroup ==
  ASSUME NEW a \in Extractors, NEW document \in Documents, NEW existing, NEW llm,
         NEW correction \in BOOLEAN, NEW reply \in Replies[a], NEW made,
         made = Extract(a, existing, Reading(document), llm, correction, AnswerTo(reply))
  PROVE  /\ made.group # None
         /\ ~correction /\ existing # None /\ existing.confidence # "low" =>
              made.group = existing
<1> DEFINE ocr == Reading(document)
           fb == Fallback(a, ocr)
           strategy == Strategy(a, existing, fb, llm, correction)
<1>1. /\ FromFallback(a, fb, None).group # None
      /\ FromModel(a, AnswerTo(reply), fb, ocr).group # None
    BY NoneAssumption
<1>2. Populated(existing, correction) => strategy = "provider_fast_path"
    BY DEF Strategy
<1>3. strategy = "provider_fast_path" => Populated(existing, correction)
    BY DEF Strategy
<1>4. made = CASE strategy = "provider_fast_path" -> [group |-> existing, error |-> None]
               [] strategy = "llm_fallback" -> FromModel(a, AnswerTo(reply), fb, ocr)
               [] OTHER -> FromFallback(a, fb, None)
    BY DEF Extract
<1> HIDE DEF strategy, fb, ocr
<1>5. CASE strategy = "provider_fast_path"
    BY <1>3, <1>4, <1>5 DEF Populated
<1>6. CASE strategy # "provider_fast_path"
    <2>1. made \in {FromModel(a, AnswerTo(reply), fb, ocr), FromFallback(a, fb, None)}
        BY <1>4, <1>6
    <2>2. ~Populated(existing, correction)
        BY <1>2, <1>6
    <2>3. QED  BY <1>1, <2>1, <2>2 DEF Populated
<1>7. QED  BY <1>5, <1>6

\* What the extractor's step leaves of the groups.
LEMMA GroupAfter ==
  ASSUME AgentInv, OutcomeInv, NEW a \in Extractors, NEW signals, Extracted(a, signals)
  PROVE  /\ scratch'.groups[a] # None
         /\ ~IsCorrection(a) /\ scratch.groups[a] # None
              /\ scratch.groups[a].confidence # "low" => scratch'.groups[a] = scratch.groups[a]
         /\ \A b \in Extractors \ {a} : scratch'.groups[b] = scratch.groups[b]
         /\ scratch'.reading = scratch.reading /\ scratch.reading = Reading(job.document)
<1>1. Shapes /\ job.document \in Documents
    BY DEF AgentInv, Shapes, Jobs
<1>2. PICK made, reply :
        /\ reply \in Replies[a]
        /\ made = Extract(a, scratch.groups[a], scratch.reading, job.llm, IsCorrection(a),
                          AnswerTo(reply))
        /\ scratch' = [scratch EXCEPT !.groups[a] = made.group]
        /\ pc = a
    BY DEF Extracted, Took
<1>3. scratch.reading = Reading(job.document)
    BY <1>2, Names, Order DEF OutcomeInv, ReadingTaken
<1>4. scratch'.groups = [scratch.groups EXCEPT ![a] = made.group]
      /\ scratch'.reading = scratch.reading
    BY <1>1, <1>2 DEF Shapes
<1>5. /\ scratch'.groups[a] = made.group
      /\ \A b \in Extractors \ {a} : scratch'.groups[b] = scratch.groups[b]
    BY <1>1, <1>4 DEF Shapes
<1> DEFINE correction == IsCorrection(a)
<1>6. correction \in BOOLEAN
    BY DEF IsCorrection
<1>7. /\ reply \in Replies[a]
      /\ made = Extract(a, scratch.groups[a], Reading(job.document), job.llm, correction,
                        AnswerTo(reply))
    BY <1>2, <1>3
<1> HIDE DEF correction
<1>8. /\ made.group # None
      /\ ~correction /\ scratch.groups[a] # None /\ scratch.groups[a].confidence # "low" =>
           made.group = scratch.groups[a]
    BY <1>1, <1>6, <1>7, MadeGroup
<1>9. QED  BY <1>3, <1>4, <1>5, <1>8 DEF correction

LEMMA ExtractionOutcome ==
  ASSUME AgentInv, OutcomeInv, NEW a \in Extractors, ExtractGroup(a)
  PROVE  OutcomeInv'
<1>1. /\ Shapes /\ Extractors = {Metadata, Table, Totals} /\ Extractors \subseteq Agents
      /\ Assembly \in Agents /\ DOMAIN results = Agents
    BY Names DEF AgentInv, Shapes
<1>2. PICK signals : wf.signals \subseteq signals /\ Extracted(a, signals)
    BY <1>1, ExtractionTook
<1>3. /\ Took(a, "succeeded", <<Handoff(a, Assembly, "data")>>, signals)
      /\ pc' = Successor[a] /\ pc = a
    BY <1>2 DEF Extracted, Took
<1>4. \/ a = Metadata /\ pc' = Table
      \/ a = Table /\ pc' = Totals
      \/ a = Totals /\ pc' = Assembly
    BY <1>1, <1>3, Order
<1>5. /\ StatusOfControl' /\ TargetSignalled' /\ ProgressBound' /\ FinalOutcome'
      /\ job' = job /\ JobTarget' = JobTarget /\ run'.retryCount = run.retryCount
    <2>1. /\ StagePercent[a] <= StagePercent[pc'] /\ pc' \in Agents
          /\ pc' \notin PreparationAgents
        BY <1>1, <1>4, Percents, Order
    <2>2. QED  BY <1>1, <1>2, <1>3, <2>1, OnwardKeeps
<1>6. /\ scratch'.groups[a] # None
      /\ \A b \in Extractors \ {a} : scratch'.groups[b] = scratch.groups[b]
      /\ scratch'.reading = Reading(job.document)
    BY <1>2, GroupAfter
<1>7. ReadingTaken'
    BY <1>1, <1>4, <1>5, <1>6, Order, Names DEF ReadingTaken
<1>8. GroupsMade'
    <2>1. ASSUME NEW b \in Extractors, pc' \in After(b) \/ run'.retryCount > 0
          PROVE  scratch'.groups[b] # None
        <3>1. CASE b = a
            BY <1>6, <3>1
        <3>2. CASE b # a
            <4>1. pc \in After(b) \/ run.retryCount > 0
                BY <1>1, <1>3, <1>4, <1>5, <2>1, <3>2, Order
                DEF After, Waiting, Metadata, Table,
                   Totals, Assembly, QA
            <4>2. scratch.groups[b] # None
                BY <4>1 DEF OutcomeInv, GroupsMade
            <4>3. QED  BY <1>6, <3>2, <4>2
        <3>3. QED  BY <3>1, <3>2
    <2>2. QED  BY <2>1 DEF GroupsMade, After
<1>9. HandoffsInPlace'
    <2>1. results'[Layout] = results[Layout] /\ results'[Privacy] = results[Privacy]
        BY <1>1, <1>3, Names, Order DEF Took
    <2>2. /\ results[Layout] = Result(Layout, "succeeded", ToPrivacy)
          /\ results[Privacy] = Result(Privacy, "succeeded", ToExtractors)
        BY <1>1, <1>3 DEF OutcomeInv, HandoffsInPlace
    <2>3. pc' \notin {Layout, QA, Classifier} \cup Waiting
        BY <1>4, Names, Order
    <2>4. QED  BY <2>1, <2>2, <2>3 DEF HandoffsInPlace
<1>10. CorrectionsForTarget'
    <2>1. latest'.handoffs = <<Handoff(a, Assembly, "data")>>
        BY <1>3 DEF Took, Result
    <2>2. \A h \in Range(latest'.handoffs) : h.type # "correction"
        BY <2>1 DEF Range, Handoff
    <2>3. pc' \notin Waiting
        BY <1>1, <1>4, Order
    <2>4. ASSUME pc' \in Extractors, run'.retryCount > 0
          PROVE  JobTarget' \in {Metadata, Table}
        <3>1. a \in {Metadata, Table}
            BY <1>1, <1>4, <2>4, Order
        <3>2. QED
            BY <1>1, <1>3, <1>5, <2>4, <3>1 DEF OutcomeInv, CorrectionsForTarget
    <2>5. QED  BY <2>2, <2>3, <2>4 DEF CorrectionsForTarget
<1>11. DriverPlace'
    <2>1. job.driver # "prepare"
        BY <1>1, <1>3, Order DEF OutcomeInv, DriverPlace
    <2>2. pc' \notin Business
        BY <1>1, <1>4, ControlStates
    <2>3. QED  BY <1>5, <2>1, <2>2 DEF DriverPlace
<1>12. QED  BY <1>5, <1>7, <1>8, <1>9, <1>10, <1>11 DEF OutcomeInv

LEMMA AssemblyOutcome ==
  ASSUME AgentInv, OutcomeInv, Assemble
  PROVE  OutcomeInv'
<1>1. /\ Shapes /\ Assembly \in Agents /\ QA \in Agents /\ DOMAIN results = Agents
      /\ Extractors = {Metadata, Table, Totals}
    BY Names DEF AgentInv, Shapes
<1>2. PICK signals :
        /\ Took(Assembly, "succeeded", <<Handoff(Assembly, QA, "data")>>, signals)
        /\ wf.signals \subseteq signals /\ pc' = QA
        /\ scratch'.groups = scratch.groups /\ scratch'.reading = scratch.reading
    BY <1>1, ExtractionTook
<1>3. pc = Assembly
    BY <1>2 DEF Took
<1>4. /\ StatusOfControl' /\ TargetSignalled' /\ ProgressBound' /\ FinalOutcome'
      /\ job' = job /\ JobTarget' = JobTarget /\ run'.retryCount = run.retryCount
    BY <1>1, <1>2, Percents, Order, OnwardKeeps
<1>5. ReadingTaken' /\ GroupsMade'
    <2>1. scratch.reading = Reading(job.document)
        BY <1>1, <1>3, Names, Order DEF OutcomeInv, ReadingTaken
    <2>2. \A b \in Extractors : scratch.groups[b] # None
        BY <1>3 DEF OutcomeInv, GroupsMade, After
    <2>3. pc' \notin {Intake, Layout}
        BY <1>2, Names, Order
    <2>4. QED  BY <1>2, <1>4, <2>1, <2>2, <2>3 DEF ReadingTaken, GroupsMade
<1>6. HandoffsInPlace'
    <2>1. results'[Layout] = results[Layout] /\ results'[Privacy] = results[Privacy]
        BY <1>1, <1>2, Names, Order DEF Took
    <2>2. /\ results[Layout] = Result(Layout, "succeeded", ToPrivacy)
          /\ results[Privacy] = Result(Privacy, "succeeded", ToExtractors)
        BY <1>3 DEF OutcomeInv, HandoffsInPlace
    <2>3. HasHandoffTo(results'[Assembly], QA)
        <3>1. results'[Assembly].handoffs = <<Handoff(Assembly, QA, "data")>>
            BY <1>1, <1>2 DEF Took, Result
        <3>2. QED  BY <3>1, HandoffTarget DEF HasHandoffTo, Range
    <2>4. pc' \notin {Layout, Classifier}
        BY <1>2, Names, Order
    <2>5. QED  BY <2>1, <2>2, <2>3, <2>4 DEF HandoffsInPlace
<1>7. CorrectionsForTarget' /\ DriverPlace'
    <2>1. pc' \notin Extractors \cup Waiting \cup Business
        BY <1>1, <1>2, Order, ControlStates
    <2>2. job.driver # "prepare"
        BY <1>3, Order DEF OutcomeInv, DriverPlace
    <2>3. QED  BY <1>4, <2>1, <2>2 DEF CorrectionsForTarget, DriverPlace
<1>8. QED  BY <1>4, <1>5, <1>6, <1>7 DEF OutcomeInv

\* Where something is read of the document, something was read.
LEMMA ReadingIsSome ==
  ASSUME AgentInv, OutcomeInv,
         pc \in (Agents \ {Intake, Layout}) \cup Waiting \cup {"complete"}
  PROVE  scratch.reading # None /\ scratch.reading = Reading(job.document)
<1>1. job.document \in Documents
    BY DEF AgentInv, Shapes, Jobs
<1>2. QED  BY <1>1, NoneAssumption DEF OutcomeInv, ReadingTaken

\* A workflow that was asked to correct keeps a signal for it.
LEMMA RetriedIsSignalled ==
  ASSUME AgentInv, OutcomeInv, run.retryCount > 0
  PROVE  /\ CorrectionSignal(JobTarget) \in wf.signals
         /\ \A signals : wf.signals \subseteq signals => Corrections(signals) # {}
<1>1. JobTarget # None
    BY DEF AgentInv, RetriesOfTarget
<1>2. CorrectionSignal(JobTarget).retryable /\ CorrectionSignal(JobTarget).target = JobTarget
    BY DEF CorrectionSignal
<1>3. CorrectionSignal(JobTarget) \in wf.signals
    BY DEF OutcomeInv, TargetSignalled
<1>4. QED  BY <1>1, <1>2, <1>3 DEF Corrections

LEMMA RetryCountIsNat == ASSUME AgentInv PROVE run.retryCount \in Nat
BY DEF AgentInv, Shapes

LEMMA ValidationOutcome ==
  ASSUME AgentInv, OutcomeInv, Validate
  PROVE  OutcomeInv'
<1>1. /\ Shapes /\ QA \in Agents /\ Classifier \in Agents /\ DOMAIN results = Agents
      /\ Extractors = {Metadata, Table, Totals} /\ job.driver \in Drivers
      /\ run.retryCount \in Nat
    BY Names DEF AgentInv, Shapes, Jobs
<1>2. PICK signals : /\ wf.signals \subseteq signals /\ scratch' = scratch
                     /\ Asked(signals) \/ TurnedDown(signals) \/ Passed(signals)
    BY ValidationTook
<1>3. PICK status, handoffs : Took(QA, status, handoffs, signals)
    BY <1>2 DEF Asked, TurnedDown, Passed
<1>4. pc = QA
    BY <1>3 DEF Took
<1>5. pc' \in Waiting \cup {"done", Classifier}
    BY <1>2 DEF Asked, TurnedDown, Passed
<1>6. pc' \notin PreparationAgents
    BY <1>5, Order, ControlStates, Names DEF Waiting
<1>7. /\ TargetSignalled' /\ progress'.percent \in 0 .. 100
      /\ job' = job /\ JobTarget' = JobTarget /\ run'.retryCount = run.retryCount
    BY <1>1, <1>2, <1>3, <1>6, AgentKeeps
<1>8. scratch.reading # None /\ scratch.reading = Reading(job.document)
    BY <1>1, <1>4, Names, Order, ReadingIsSome
<1>9. ReadingTaken' /\ GroupsMade'
    <2>1. \A b \in Extractors : scratch.groups[b] # None
        BY <1>4 DEF OutcomeInv, GroupsMade, After
    <2>2. pc' \notin {Intake, Layout}
        BY <1>6, Names
    <2>3. QED  BY <1>2, <1>7, <1>8, <2>1, <2>2 DEF ReadingTaken, GroupsMade
<1>10. /\ results'[Layout] = Result(Layout, "succeeded", ToPrivacy)
       /\ results'[Privacy] = Result(Privacy, "succeeded", ToExtractors)
       /\ HasHandoffTo(results'[Assembly], QA)
    <2>1. QA \notin {Layout, Privacy, Assembly}
        BY Names, Order
    <2>2. /\ results'[Layout] = results[Layout] /\ results'[Privacy] = results[Privacy]
          /\ results'[Assembly] = results[Assembly]
        BY <1>1, <1>3, <2>1, Names DEF Took
    <2>3. QED  BY <1>4, <2>2 DEF OutcomeInv, HandoffsInPlace
<1>11. job.driver # "prepare"
    BY <1>4, Order DEF OutcomeInv, DriverPlace
<1>12. wf.status = IF run.retryCount = 0 THEN "running" ELSE "retrying"
    BY <1>1, <1>4, ControlStates DEF OutcomeInv, StatusOfControl
<1>13. CASE Asked(signals)
    <2>1. /\ pc' \in Waiting
          /\ pc' \notin Agents \cup Business \cup {"complete", "done", "raised"}
          /\ pc' \notin Extractors
        BY <1>13, Names, ControlStates DEF Asked, Waiting, Business
    <2>2. wf'.status = wf.status
        BY <1>13 DEF Asked, Took
    <2>3. StatusOfControl' /\ ProgressBound' /\ FinalOutcome' /\ DriverPlace'
        <3>1. StatusOfControl'
            BY <1>7, <1>12, <2>1, <2>2 DEF StatusOfControl
        <3>2. ProgressBound' /\ DriverPlace'
            BY <1>7, <1>11, <2>1 DEF ProgressBound, DriverPlace
        <3>3. FinalOutcome'
            BY <2>1 DEF FinalOutcome
        <3>4. QED  BY <3>1, <3>2, <3>3
    <2>4. HandoffsInPlace'
        <3>1. pc' \notin {Layout, Classifier}
            BY <2>1, Names
        <3>2. QED  BY <1>10, <3>1 DEF HandoffsInPlace
    <2>5. CorrectionsForTarget'
        <3>1. HasHandoffTo(latest', JobTarget')
            BY <1>7, <1>13 DEF Asked
        <3>2. HasHandoffTo(latest, JobTarget)'
            BY <3>1 DEF HasHandoffTo
        <3>3. \A h \in Range(latest'.handoffs) : h.target = JobTarget'
            BY <1>7, <1>13 DEF Asked
        <3>4. QED  BY <2>1, <3>2, <3>3 DEF CorrectionsForTarget
    <2>6. QED  BY <1>7, <1>9, <2>3, <2>4, <2>5 DEF OutcomeInv
<1>14. CASE ~Asked(signals) /\ pc' = "done"
    <2>1. run.retryCount = 0
        BY <1>1, <1>2, <1>14, RetriedIsSignalled DEF TurnedDown, Passed, Corrections
    <2>2. pc' \notin Agents \cup Business \cup Waiting \cup {"complete", "raised"}
        BY <1>14, Names, ControlStates DEF Waiting
    <2>3. \/ wf'.status = "review_required"
          \/ /\ wf'.status = "running" /\ QA \in wf'.completed
             /\ job.driver \in {"adapter", "fallback"}
        BY <1>1, <1>2, <1>12, <1>14, <2>1, Order DEF TurnedDown, Passed, Took
    <2>4. FinalOutcome'
        BY <1>2, <1>7, <1>8, <1>14, <2>1, <2>3 DEF FinalOutcome
    <2>5. StatusOfControl' /\ ProgressBound' /\ DriverPlace'
        BY <1>7, <1>11, <1>14, <2>2 DEF StatusOfControl, ProgressBound, DriverPlace
    <2>6. HandoffsInPlace' /\ CorrectionsForTarget'
        BY <1>1, <2>2, Names DEF HandoffsInPlace, CorrectionsForTarget
    <2>7. QED  BY <1>7, <1>9, <2>4, <2>5, <2>6 DEF OutcomeInv
<1>15. CASE ~Asked(signals) /\ pc' # "done"
    <2>1. Passed(signals) /\ pc' = Classifier
        BY <1>2, <1>15 DEF TurnedDown, Passed
    <2>2. /\ Took(QA, "succeeded", <<Handoff(QA, Classifier, "control")>>, signals)
          /\ job.driver \in {"custom", "graph"}
        BY <1>1, <1>11, <2>1, <1>15 DEF Passed, Drivers
    <2>3. StatusOfControl' /\ ProgressBound' /\ FinalOutcome'
        <3>1. StagePercent[QA] <= StagePercent[pc'] /\ pc' \in Agents
            BY <1>1, <2>1, Percents
        <3>2. QED  BY <1>1, <1>2, <1>6, <2>2, <3>1, OnwardKeeps
    <2>4. HandoffsInPlace'
        <3>1. results'[QA].handoffs = <<Handoff(QA, Classifier, "control")>>
            BY <1>1, <2>2 DEF Took, Result
        <3>2. HasHandoffTo(results'[QA], Classifier)
            BY <3>1, HandoffTarget DEF HasHandoffTo, Range
        <3>3. QED  BY <1>10, <2>1, <3>2, Names, Order DEF HandoffsInPlace
    <2>5. CorrectionsForTarget'
        BY <1>1, <2>1, Order DEF CorrectionsForTarget
    <2>6. DriverPlace'
        BY <1>1, <1>7, <1>11, <2>2 DEF Took, DriverPlace
    <2>7. QED  BY <1>7, <1>9, <2>3, <2>4, <2>5, <2>6 DEF OutcomeInv
<1>16. QED  BY <1>13, <1>14, <1>15

\* No draft reaches the business agents after a correction.
LEMMA BusinessUnretried ==
  ASSUME AgentInv, OutcomeInv, pc \in Business
  PROVE  run.retryCount = 0
BY RetryCountIsNat DEF AgentInv, OutcomeInv, ValidatedBeforeBusiness, TargetSignalled

LEMMA BusinessOutcome ==
  ASSUME AgentInv, OutcomeInv, Classify \/ Match \/ Coordinate \/ ProduceInsights
  PROVE  OutcomeInv'
<1>1. /\ Shapes /\ BusinessAgents = {Classifier, Matching, Review, Insight}
      /\ BusinessAgents \subseteq Agents
    BY Names DEF AgentInv
<1>2. PICK a, b, status, handoffs :
        /\ a \in BusinessAgents /\ Took(a, status, handoffs, wf.signals)
        /\ pc' = b /\ scratch'.reading = scratch.reading
        /\ \/ /\ b \in {Matching, Review, Insight} /\ StagePercent[a] <= StagePercent[b]
              /\ status = "succeeded"
           \/ b = "complete" /\ status \in {"succeeded", "review_required"}
    <2>1. CASE Classify
        BY <1>1, <2>1, BusinessTook, Percents
    <2>2. CASE Match
        BY <1>1, <2>2, BusinessTook, Percents
    <2>3. CASE Coordinate
        BY <1>1, <2>3, BusinessTook, Percents
    <2>4. CASE ProduceInsights
        BY <1>1, <2>4, BusinessTook, Percents
    <2>5. QED  BY <2>1, <2>2, <2>3, <2>4
<1>3. pc = a /\ a \in Agents /\ pc \in Business /\ b \in Business
    BY <1>1, <1>2 DEF Took, Business
<1>4. run.retryCount = 0
    BY <1>3, BusinessUnretried
<1>5. b \notin PreparationAgents \cup Extractors \cup Waiting
               \cup {Assembly, QA, Classifier, "done", "raised"}
    BY <1>1, <1>2, Order, ControlStates DEF Waiting, Business
<1>6. /\ TargetSignalled' /\ progress'.percent \in 0 .. 100
      /\ job' = job /\ JobTarget' = JobTarget /\ run'.retryCount = run.retryCount
    BY <1>2, <1>3, <1>5, AgentKeeps
<1>7. ReadingTaken'
    <2>1. scratch.reading = Reading(job.document)
        BY <1>1, <1>2, <1>3, Order, Names, ReadingIsSome
    <2>2. b \notin {Intake, Layout}
        BY <1>5, Names
    <2>3. QED  BY <1>2, <1>6, <2>1, <2>2 DEF ReadingTaken
<1>8. GroupsMade' /\ HandoffsInPlace' /\ CorrectionsForTarget'
    <2>1. GroupsMade'
        BY <1>2, <1>4, <1>5, <1>6, Names DEF GroupsMade, After
    <2>2. HandoffsInPlace' /\ CorrectionsForTarget'
        BY <1>2, <1>5, Names DEF HandoffsInPlace, CorrectionsForTarget
    <2>3. QED  BY <2>1, <2>2
<1>9. DriverPlace'
    <2>1. job.driver \in {"custom", "graph"} /\ QA \in wf.completed
        BY <1>3 DEF OutcomeInv, DriverPlace
    <2>2. wf.completed \subseteq wf'.completed
        BY <1>2 DEF Took
    <2>3. QED  BY <1>6, <2>1, <2>2 DEF DriverPlace
<1>10. StatusOfControl' /\ ProgressBound' /\ FinalOutcome'
    <2>1. CASE b \in {Matching, Review, Insight}
        <3>1. pc' \in Agents /\ status = "succeeded" /\ StagePercent[a] <= StagePercent[pc']
              /\ pc' \notin PreparationAgents
            BY <1>1, <1>2, <1>5, <2>1, ControlStates
        <3>2. QED  BY <1>2, <1>3, <3>1, OnwardKeeps
    <2>2. CASE b = "complete"
        <3>1. pc' \notin Agents
            BY <1>2, <2>2, ControlStates
        <3>2. wf.status = "running"
            BY <1>3, <1>4, ControlStates DEF OutcomeInv, StatusOfControl
        <3>3. wf'.status \in {"running", "review_required"}
            BY <1>2, <2>2, <3>2, Order DEF Took
        <3>4. QED
            BY <1>2, <1>6, <2>2, <3>1, <3>3
            DEF StatusOfControl, ProgressBound, FinalOutcome
    <2>3. QED  BY <1>2, <2>1, <2>2
<1>11. QED  BY <1>6, <1>7, <1>8, <1>9, <1>10 DEF OutcomeInv

LEMMA RetryOutcome ==
  ASSUME AgentInv, AgentInv', OutcomeInv, RetryGate \/ RequestRetries
  PROVE  OutcomeInv'
<1>1. /\ Shapes /\ CorrectionAtHand /\ SignalInjected /\ Shapes'
      /\ Extractors = {Metadata, Table, Totals} /\ Extractors \subseteq Agents /\ QA \in Agents
      /\ run.retryCount \in Nat /\ job.scenario \in Scenarios
    BY Names DEF AgentInv, Shapes, Jobs
<1>2. /\ Counted /\ UNCHANGED <<job, scratch, results, latest>>
      /\ pc \in Waiting /\ JobTarget' = JobTarget
      /\ ~RetryAllowed(JobTarget) => pc' = "done"
    BY <1>1, RetrySteps DEF Waiting, JobTarget
<1>3. /\ JobTarget \in Extractors /\ JobTarget # None
      /\ latest.handoffs[1].target = JobTarget
    BY <1>1, <1>2, JobTargets DEF CorrectionAtHand, Waiting
<1>4. /\ pc' \in {JobTarget, QA, "done"}
      /\ pc' = "done" /\ RetryAllowed(JobTarget) => job.scenario = "failed_validation"
      /\ \E error, row, state : StatusUpdated(state, row, error)
    <2>1. CASE RetryGate
        BY <1>3, <2>1, Names, ControlStates DEF RetryGate, RetryRequested
    <2>2. CASE RequestRetries
        <3>1. job.scenario # "happy_path"
            BY <1>1, <2>2 DEF RequestRetries, CorrectionAtHand
        <3>2. QED
            BY <1>1, <1>3, <2>2, <3>1, ControlStates
            DEF RequestRetries, RetryRequested, Scenarios
    <2>3. QED  BY <2>1, <2>2
<1>5. progress' = Snapshot(wf')
    BY <1>4 DEF StatusUpdated
<1>6. run'.retryCount > 0
    BY <1>1, <1>2 DEF Counted
<1>7. pc' \notin PreparationAgents \cup Waiting \cup Business
                 \cup {Layout, Classifier, "complete", "raised"}
    <2> DEFINE Elsewhere == PreparationAgents \cup Waiting \cup Business
                              \cup {Layout, Classifier, "complete", "raised"}
    <2>1. JobTarget \notin Elsewhere
        BY <1>1, <1>3, Names, Order, ControlStates
    <2>2. QA \notin Elsewhere
        BY Names, Order, ControlStates
    <2>3. "done" \notin Elsewhere
        BY Names, ControlStates DEF Waiting
    <2>4. QED  BY <1>4, <2>1, <2>2, <2>3
<1>8. StatusOfControl'
    <2>1. pc' # "done" => wf'.status = "retrying"
        BY <1>2 DEF Counted
    <2>2. QED  BY <1>6, <1>7, <2>1 DEF StatusOfControl
<1>9. TargetSignalled'
    <2>1. CorrectionSignal(JobTarget) \in wf.signals
        <3>1. CASE job.scenario # "happy_path"
            BY <1>1, <1>2, <3>1, Names, ControlStates, Order
            DEF SignalInjected, JobTarget, Waiting
        <3>2. CASE job.scenario = "happy_path"
            BY <1>3, <3>2 DEF JobTarget, OutcomeInv, TargetSignalled
        <3>3. QED  BY <3>1, <3>2
    <2>2. QED  BY <1>2, <1>7, <2>1 DEF Counted, TargetSignalled
<1>10. scratch.reading # None /\ scratch.reading = Reading(job.document)
    BY <1>2, ReadingIsSome
<1>11. ReadingTaken' /\ GroupsMade'
    <2>1. \A b \in Extractors : scratch.groups[b] # None
        BY <1>2 DEF OutcomeInv, GroupsMade, After
    <2>2. pc' \notin {Intake, Layout}
        BY <1>7, Names
    <2>3. QED  BY <1>2, <1>10, <2>1, <2>2 DEF ReadingTaken, GroupsMade
<1>12. HandoffsInPlace'
    <2>1. /\ results[Layout] = Result(Layout, "succeeded", ToPrivacy)
          /\ results[Privacy] = Result(Privacy, "succeeded", ToExtractors)
          /\ HasHandoffTo(results[Assembly], QA)
        BY <1>2 DEF OutcomeInv, HandoffsInPlace
    <2>2. QED  BY <1>2, <1>7, <2>1 DEF HandoffsInPlace
<1>13. CorrectionsForTarget'
    <2>1. /\ \A h \in Range(latest.handoffs) : h.type = "correction" => h.target = JobTarget
          /\ HasHandoffTo(latest, JobTarget)
        BY <1>2 DEF OutcomeInv, CorrectionsForTarget
    <2>2. latest' = latest /\ HasHandoffTo(latest', JobTarget')
        BY <1>2, <2>1
    <2>3. HasHandoffTo(latest, JobTarget)'
        BY <2>2 DEF HasHandoffTo
    <2>4. pc' \in Extractors => pc' = JobTarget'
        BY <1>1, <1>2, <1>4, Order, ControlStates
    <2>5. QED  BY <1>2, <1>7, <2>1, <2>3, <2>4 DEF CorrectionsForTarget
<1>14. DriverPlace'
    <2>1. job.driver # "prepare"
        BY <1>2, Names, ControlStates, Order DEF OutcomeInv, DriverPlace, Waiting
    <2>2. QED  BY <1>2, <1>7, <2>1 DEF DriverPlace
<1>15. ProgressBound'
    <2>1. wf'.stage \in Stages
        BY <1>1 DEF Shapes
    <2>2. Snapshot(wf').percent \in 0 .. 100
        BY <2>1, PercentsInRange DEF Snapshot, Stages
    <2>3. QED  BY <1>5, <1>6, <2>2 DEF ProgressBound
<1>16. FinalOutcome'
    <2>1. wf'.status = IF RetryAllowed(JobTarget) THEN "retrying" ELSE "dead_lettered"
        BY <1>2 DEF Counted
    <2>2. QED  BY <1>2, <1>4, <1>6, <1>7, <1>10, <2>1 DEF FinalOutcome
<1>17. QED  BY <1>8, <1>9, <1>11, <1>12, <1>13, <1>14, <1>15, <1>16 DEF OutcomeInv

LEMMA CompleteOutcome ==
  ASSUME AgentInv, OutcomeInv, Complete
  PROVE  OutcomeInv'
<1> DEFINE state == [wf EXCEPT !.status = "completed", !.stage = "completed",
                              !.agent = Insight]
<1>1. /\ Shapes /\ pc = "complete" /\ pc' = "done"
      /\ UNCHANGED <<job, scratch, results, latest>>
      /\ StatusUpdated(state, run, None)
    BY DEF AgentInv, Complete
<1>2. /\ wf'.status = "completed" /\ wf'.completed = wf.completed /\ wf'.signals = wf.signals
      /\ run'.retryCount = run.retryCount /\ progress'.percent = 100
      /\ JobTarget' = JobTarget
    BY <1>1 DEF StatusUpdated, Shapes, Snapshot, TerminalStatuses, JobTarget
<1>3. pc \in Business /\ run.retryCount = 0
    <2>1. pc \in Business
        BY <1>1 DEF Business
    <2>2. QED  BY <2>1, BusinessUnretried
<1>4. job.driver \in {"custom", "graph"} /\ QA \in wf.completed
    BY <1>3 DEF OutcomeInv, DriverPlace
<1>5. scratch.reading # None /\ scratch.reading = Reading(job.document)
    BY <1>1, ReadingIsSome
<1>6. pc' \notin Agents \cup Business \cup Waiting \cup {"complete", "raised"}
    BY <1>1, Names, ControlStates DEF Waiting
<1>7. FinalOutcome'
    BY <1>1, <1>2, <1>3, <1>4, <1>5 DEF FinalOutcome
<1>8. StatusOfControl' /\ ProgressBound' /\ DriverPlace' /\ ReadingTaken'
    BY <1>1, <1>2, <1>4, <1>6, Names
    DEF StatusOfControl, ProgressBound, DriverPlace, ReadingTaken
<1>9. TargetSignalled'
    BY <1>1, <1>2, <1>6, Names DEF OutcomeInv, TargetSignalled
<1>10. GroupsMade' /\ HandoffsInPlace' /\ CorrectionsForTarget'
    BY <1>1, <1>2, <1>3, <1>6, Names
    DEF GroupsMade, After, HandoffsInPlace, CorrectionsForTarget
<1>11. QED  BY <1>7, <1>8, <1>9, <1>10 DEF OutcomeInv

\* A lookup succeeds if the result it falls back on is addressed to the agent.
LEMMA LookupSucceeds ==
  ASSUME NEW a, HandoffSource(a) # None => HasHandoffTo(results[HandoffSource(a)], a)
  PROVE  ~HandoffMissing(a)
BY DEF HandoffMissing, SourceResult

\* Only the fallback driver loses a handoff, after a correction of metadata or the table.
LEMMA LostHandoff ==
  ASSUME AgentInv, OutcomeInv, LoseHandoff
  PROVE  job.driver = "fallback" /\ job.injected \in {Metadata, Table}
<1>1. /\ Shapes /\ RetriesOfTarget /\ pc \in Agents /\ HandoffMissing(pc)
      /\ Extractors = {Metadata, Table, Totals}
    BY Names DEF AgentInv, LoseHandoff
<1>2. /\ HandoffSource(Layout) = Intake /\ HandoffSource(Privacy) = Layout
      /\ HandoffSource(QA) = Assembly /\ HandoffSource(Classifier) = QA
      /\ \A a \in {Intake, Assembly, Matching, Review, Insight} : HandoffSource(a) = None
      /\ \A a \in Extractors : HandoffSource(a) =
           IF job.driver = "fallback" /\ wf.retries # [e \in Extractors |-> 0]
           THEN Layout ELSE Privacy
    BY <1>1
    DEF HandoffSource, Intake, Layout, Privacy, Metadata, Table, Totals, Assembly, QA,
                Classifier, Matching, Review, Insight
<1>3. CASE pc \in {Intake, Assembly, Matching, Review, Insight}
    BY <1>1, <1>2, <1>3, LookupSucceeds
<1>4. CASE pc = Layout
    BY <1>1, <1>2, <1>4, LookupSucceeds DEF OutcomeInv, HandoffsInPlace
<1>5. CASE pc = Privacy
    <2>1. results[Layout] = Result(Layout, "succeeded", ToPrivacy)
        BY <1>5 DEF OutcomeInv, HandoffsInPlace
    <2>2. HasHandoffTo(results[Layout], Privacy)
        BY <2>1, HandoffTarget DEF HasHandoffTo, Range, Result, ToPrivacy
    <2>3. QED  BY <1>1, <1>2, <1>5, <2>2, LookupSucceeds
<1>6. CASE pc = QA
    BY <1>1, <1>2, <1>6, LookupSucceeds DEF OutcomeInv, HandoffsInPlace
<1>7. CASE pc = Classifier
    BY <1>1, <1>2, <1>7, LookupSucceeds DEF OutcomeInv, HandoffsInPlace
<1>8. CASE pc \in Extractors
    <2>1. HasHandoffTo(results[Privacy], pc)
        <3>1. results[Privacy].handoffs = ToExtractors
            BY <1>8 DEF OutcomeInv, HandoffsInPlace, Result
        <3>2. \A a \in Extractors : \E h \in Range(ToExtractors) : h.target = a
            <4>1. /\ ToExtractors[1].target = Metadata /\ ToExtractors[2].target = Table
                  /\ ToExtractors[3].target = Totals /\ DOMAIN ToExtractors = 1 .. 3
                BY HandoffTarget DEF ToExtractors
            <4>2. QED  BY <1>1, <4>1 DEF Range
        <3>3. QED  BY <1>8, <3>1, <3>2 DEF HasHandoffTo
    <2>2. job.driver = "fallback" /\ wf.retries # [e \in Extractors |-> 0]
        BY <1>1, <1>2, <1>8, <2>1, LookupSucceeds
    <2>3. run.retryCount > 0
        <3>1. wf.retries \in [Extractors -> Nat] /\ run.retryCount \in Nat
            BY <1>1 DEF Shapes, Retries
        <3>2. PICK a \in Extractors : wf.retries[a] # 0
            BY <2>2, <3>1
        <3>3. a = JobTarget /\ JobTarget # None
            BY <1>1, <3>2, JobTargets DEF RetriesOfTarget
        <3>4. QED  BY <1>1, <3>1, <3>2, <3>3 DEF RetriesOfTarget
    <2>4. ~HasHandoffTo(latest, pc)
        <3>1. HandoffSource(pc) # None
            BY <1>2, <1>8, AgentAssumption, Names
        <3>2. QED  BY <1>1, <2>2, <3>1 DEF HandoffMissing, SourceResult
    <2>5. JobTarget \in {Metadata, Table}
        BY <1>8, <2>3, <2>4 DEF OutcomeInv, CorrectionsForTarget
    <2>6. job.scenario = "happy_path"
        BY <1>1, <2>2 DEF Shapes, Startable
    <2>7. QED  BY <2>2, <2>5, <2>6 DEF JobTarget
<1>9. QED  BY <1>1, <1>3, <1>4, <1>5, <1>6, <1>7, <1>8, Names

LEMMA RaiseOutcome ==
  ASSUME AgentInv, OutcomeInv, LoseHandoff
  PROVE  OutcomeInv'
<1>1. /\ pc \in Agents /\ pc' = "raised"
      /\ UNCHANGED <<job, wf, run, scratch, results, latest, progress>>
      /\ job.driver = "fallback" /\ job.injected \in {Metadata, Table}
    BY LostHandoff DEF LoseHandoff
<1>2. /\ pc' \notin Agents \cup Business \cup Waiting \cup {"complete", "done"}
      /\ pc \notin {"complete", "done"}
    BY <1>1, Names, ControlStates DEF Waiting
<1>3. StatusOfControl'
    BY <1>1, <1>2 DEF OutcomeInv, StatusOfControl
<1>4. TargetSignalled' /\ ReadingTaken' /\ GroupsMade' /\ ProgressBound'
    BY <1>1, <1>2, Names
    DEF OutcomeInv, TargetSignalled, JobTarget, ReadingTaken, GroupsMade, After,
        ProgressBound
<1>5. HandoffsInPlace' /\ CorrectionsForTarget' /\ DriverPlace'
    BY <1>1, <1>2, Names DEF HandoffsInPlace, CorrectionsForTarget, DriverPlace
<1>6. FinalOutcome'
    BY <1>1, <1>2 DEF FinalOutcome
<1>7. QED  BY <1>3, <1>4, <1>5, <1>6 DEF OutcomeInv

LEMMA OutcomeStep == AgentInv /\ AgentInv' /\ OutcomeInv /\ [Next]_vars => OutcomeInv'
<1>1. ASSUME OutcomeInv, UNCHANGED vars PROVE OutcomeInv'
    <2>1. /\ StatusOfControl' /\ TargetSignalled' /\ ReadingTaken' /\ GroupsMade'
          /\ DriverPlace' /\ ProgressBound'
        BY <1>1
        DEF vars, OutcomeInv, StatusOfControl, TargetSignalled, JobTarget, ReadingTaken,
           GroupsMade, DriverPlace, ProgressBound
    <2>2. HandoffsInPlace' /\ CorrectionsForTarget'
        BY <1>1
        DEF vars, OutcomeInv, HandoffsInPlace, HasHandoffTo, CorrectionsForTarget, JobTarget
    <2>3. FinalOutcome'
        BY <1>1 DEF vars, OutcomeInv, FinalOutcome
    <2>4. QED  BY <2>1, <2>2, <2>3 DEF OutcomeInv
<1>2. QED
    BY <1>1, PreparationOutcome, ExtractionOutcome, AssemblyOutcome, ValidationOutcome,
       BusinessOutcome, RetryOutcome, CompleteOutcome, RaiseOutcome DEF Next

LEMMA OutcomeInit == Init => OutcomeInv
<1> SUFFICES ASSUME Init PROVE OutcomeInv
    OBVIOUS
<1>1. /\ job \in Jobs /\ Startable(job) /\ pc = Intake
      /\ wf.status = "running" /\ run.retryCount = 0
      /\ wf.signals = IF job.injected = None THEN {} ELSE {CorrectionSignal(job.injected)}
      /\ scratch.reading = None /\ wf.stage = "ingested"
      /\ progress = Snapshot(wf)
    BY DEF Init, EmptyScratchpad
<1>2. pc \in PreparationAgents /\ pc \in Agents
    BY <1>1, Names
<1>3. pc \notin Extractors \cup Waiting \cup Business
                \cup {Layout, Privacy, Assembly, QA, Classifier, "complete", "done", "raised"}
    BY <1>1, <1>2, Names, Order, ControlStates DEF Waiting
<1>4. progress.percent = 0
    BY <1>1 DEF Snapshot, TerminalStatuses
<1>5. StatusOfControl /\ FinalOutcome
    BY <1>1, <1>3 DEF StatusOfControl, FinalOutcome
<1>6. TargetSignalled
    BY <1>1 DEF TargetSignalled, JobTarget, Startable
<1>7. ReadingTaken /\ GroupsMade
    BY <1>1, <1>3, Names DEF ReadingTaken, GroupsMade, After
<1>8. HandoffsInPlace /\ CorrectionsForTarget
    BY <1>1, <1>3, Names DEF HandoffsInPlace, CorrectionsForTarget
<1>9. DriverPlace /\ ProgressBound
    BY <1>1, <1>2, <1>3, <1>4, Percents DEF DriverPlace, ProgressBound
<1>10. QED  BY <1>5, <1>6, <1>7, <1>8, <1>9 DEF OutcomeInv

LEMMA OutcomeHolds == Spec => []OutcomeInv
BY OutcomeInit, OutcomeStep, AgentInvHolds, PTL DEF Spec

-----------------------------------------------------------------------------
\* What a driver returns tells what became of the document: failed means nothing was
\* read, completed that a validated draft went to the business agents without any
\* correction, retrying that the runner's scenario left it there; and only the fallback
\* driver ever loses a handoff, after a correction of metadata or the table.
THEOREM OutcomeTold == Spec => []FinalOutcome
<1>1. OutcomeInv => FinalOutcome
    BY DEF OutcomeInv
<1>2. QED  BY <1>1, OutcomeHolds, PTL

\* Each agent's step, with what it took.
LEMMA AgentsTake ==
  ASSUME AgentInv,
         \/ AcceptDocument \/ AnalyzeLayout \/ FailLayout \/ ApplyPolicy \/ Assemble
         \/ (\E a \in Extractors : ExtractGroup(a))
         \/ Validate \/ Classify \/ Match \/ Coordinate \/ ProduceInsights
  PROVE  \E a \in Agents : \E status, handoffs, signals :
            Took(a, status, handoffs, signals)
<1>1. Shapes
    BY DEF AgentInv
<1>2. QED
    BY <1>1, Names, PreparationTook, ExtractionTook, ValidationTook, BusinessTook
    DEF Extracted, Asked, TurnedDown, Passed

\* A client that polls the progress of a document sees it fall only after a correction.
THEOREM ProgressIsMonotonic == Spec => ProgressNeverFalls
<1>1. AgentInv /\ OutcomeInv /\ [Next]_vars =>
        [run'.retryCount = 0 => progress'.percent >= progress.percent]_vars
    <2> SUFFICES ASSUME AgentInv, OutcomeInv, [Next]_vars, run'.retryCount = 0
                 PROVE  progress'.percent >= progress.percent \/ UNCHANGED vars
        OBVIOUS
    <2>1. progress.percent \in 0 .. 100
        BY DEF OutcomeInv, ProgressBound
    <2>2. ASSUME NEW a \in Agents, NEW status, NEW handoffs, NEW signals,
                 Took(a, status, handoffs, signals)
          PROVE  progress'.percent >= progress.percent
        <3>1. pc = a /\ run.retryCount = 0 /\ progress'.percent \in {100, StagePercent[a]}
            BY <2>2 DEF Took
        <3>2. progress.percent <= StagePercent[a]
            BY <3>1 DEF OutcomeInv, ProgressBound
        <3>3. QED  BY <2>1, <3>1, <3>2, PercentsInRange
    <2>3. CASE RetryGate \/ RequestRetries
        <3>1. run'.retryCount = run.retryCount + 1 /\ run.retryCount \in Nat
            BY <2>3, RetrySteps DEF AgentInv, Counted, Shapes
        <3>2. QED  BY <3>1
    <2>4. CASE Complete
        <3>1. progress'.percent = 100
            BY <2>4
            DEF Complete, StatusUpdated, Snapshot, TerminalStatuses, AgentInv, Shapes
        <3>2. QED  BY <2>1, <3>1
    <2>5. CASE LoseHandoff
        BY <2>1, <2>5 DEF LoseHandoff
    <2>6. QED  BY <2>2, <2>3, <2>4, <2>5, AgentsTake DEF Next
<1>2. QED
    BY <1>1, AgentInvHolds, OutcomeHolds, PTL DEF Spec, ProgressNeverFalls

\* The extractor that takes a handoff for a correction is the one of this job.
LEMMA CorrectionIsForTarget ==
  ASSUME AgentInv, OutcomeInv, NEW a \in Extractors, pc = a, IsCorrection(a)
  PROVE  a = JobTarget
<1>1. HandoffSource(a) \in {Layout, Privacy} /\ None \notin {Layout, Privacy}
    <2>1. a \notin {Layout, Privacy, QA, Classifier}
        BY Names, Order
    <2>2. HandoffSource(a) \in {Layout, Privacy}
        BY <2>1 DEF HandoffSource
    <2>3. QED  BY <2>2, AgentAssumption, Names
<1>2. SourceResult(a) \in {latest, results[Layout], results[Privacy]}
    BY <1>1 DEF SourceResult
<1>3. /\ results[Layout] = Result(Layout, "succeeded", ToPrivacy)
      /\ results[Privacy] = Result(Privacy, "succeeded", ToExtractors)
    BY DEF OutcomeInv, HandoffsInPlace
<1>4. /\ \A h \in Range(results[Layout].handoffs) : h.type # "correction"
      /\ \A h \in Range(results[Privacy].handoffs) : h.type # "correction"
    BY <1>3 DEF Result, Range, ToPrivacy, ToExtractors, Handoff
<1>5. \A h \in Range(latest.handoffs) : h.type = "correction" => h.target = JobTarget
    BY DEF OutcomeInv, CorrectionsForTarget
<1>6. PICK h \in Range(SourceResult(a).handoffs) : h.target = a /\ h.type = "correction"
    BY DEF IsCorrection
<1>7. QED  BY <1>2, <1>4, <1>5, <1>6

\* Once a correction was asked for, an extractor changes a group only if the signal
\* names it or its own reading was of low confidence.
THEOREM CorrectionsAreTargeted == Spec => CorrectionTargeted
<1> DEFINE Targeted == \A a \in Extractors :
             /\ run.retryCount > 0
             /\ scratch'.groups[a] # scratch.groups[a]
             => \/ CorrectionSignal(a) \in wf.signals
                \/ scratch.groups[a].confidence = "low"
<1>1. AgentInv /\ OutcomeInv /\ [Next]_vars => [Targeted]_vars
    <2> SUFFICES ASSUME AgentInv, OutcomeInv, Next, NEW a \in Extractors,
                        run.retryCount > 0, scratch'.groups[a] # scratch.groups[a]
                 PROVE  \/ CorrectionSignal(a) \in wf.signals
                        \/ scratch.groups[a].confidence = "low"
        OBVIOUS
    <2>1. Shapes /\ CorrectionSignal(JobTarget) \in wf.signals
        BY RetriedIsSignalled DEF AgentInv
    <2>2. ~AnalyzeLayout
        BY Names DEF AnalyzeLayout, Await, OutcomeInv, TargetSignalled
    <2>3. \E b \in Extractors : ExtractGroup(b)
        <3>1. AcceptDocument \/ FailLayout \/ ApplyPolicy => scratch' = scratch
            BY <2>1, PreparationTook
        <3>2. Assemble => scratch'.groups = scratch.groups
            BY <2>1, ExtractionTook
        <3>3. Validate => scratch' = scratch
            BY ValidationTook
        <3>4. Classify \/ Match \/ Coordinate \/ ProduceInsights =>
                scratch'.groups = scratch.groups
            BY <2>1, BusinessSteps DEF DraftKept
        <3>5. RetryGate \/ RequestRetries \/ Complete \/ LoseHandoff => scratch' = scratch
            BY DEF RetryGate, RequestRetries, Complete, LoseHandoff
        <3>6. QED  BY <2>2, <3>1, <3>2, <3>3, <3>4, <3>5 DEF Next
    <2>4. PICK b, signals : b \in Extractors /\ Extracted(b, signals)
        BY <2>1, <2>3, ExtractionTook
    <2>5. a = b
        BY <2>4, GroupAfter
    <2>6. scratch.groups[a] # None
        BY DEF OutcomeInv, GroupsMade
    <2>7. IsCorrection(a) \/ scratch.groups[a].confidence = "low"
        BY <2>4, <2>5, <2>6, GroupAfter
    <2>8. pc = a
        BY <2>4, <2>5 DEF Extracted, Took
    <2>9. QED  BY <2>1, <2>7, <2>8, CorrectionIsForTarget
<1>2. QED
    BY <1>1, AgentInvHolds, OutcomeHolds, PTL DEF Spec, CorrectionTargeted

-----------------------------------------------------------------------------
(* The proposed category.                                                    *)

\* A total and transitive relation on 1 .. 8 has a best element in every set.
LEMMA BestOfEight ==
  ASSUME NEW R,
         \A i, j \in 1 .. 8 : i # j => <<i, j>> \in R \/ <<j, i>> \in R,
         \A i, j, k \in 1 .. 8 : <<i, j>> \in R /\ <<j, k>> \in R => <<i, k>> \in R
  PROVE  \A S \in SUBSET (1 .. 8) : S # {} => \E i \in S : \A j \in S \ {i} : <<i, j>> \in R
<1> DEFINE Upto(n) == \A S \in SUBSET (1 .. n) :
             S # {} => \E i \in S : \A j \in S \ {i} : <<i, j>> \in R
<1>1. ASSUME NEW n \in 0 .. 7, Upto(n) PROVE Upto(n + 1)
    <2> SUFFICES ASSUME NEW S \in SUBSET (1 .. n + 1), S # {}
                 PROVE  \E i \in S : \A j \in S \ {i} : <<i, j>> \in R
        OBVIOUS
    <2> DEFINE rest == S \ {n + 1}
    <2>1. rest \in SUBSET (1 .. n) /\ S \subseteq 1 .. 8
        OBVIOUS
    <2>2. CASE rest = {}
        <3>1. S = {n + 1}
            BY <2>2
        <3>2. QED  BY <3>1
    <2>3. CASE rest # {}
        <3>1. PICK i \in rest : \A j \in rest \ {i} : <<i, j>> \in R
            BY <1>1, <2>1, <2>3
        <3>2. CASE n + 1 \notin S \/ <<i, n + 1>> \in R
            <4>1. \A j \in S \ {i} : <<i, j>> \in R
                BY <3>1, <3>2
            <4>2. QED  BY <4>1
        <3>3. CASE n + 1 \in S /\ <<i, n + 1>> \notin R
            <4>1. i \in 1 .. 8 /\ n + 1 \in 1 .. 8 /\ i # n + 1
                BY <2>1, <3>1
            <4>2. <<n + 1, i>> \in R
                BY <3>3, <4>1
            <4>3. \A j \in S \ {n + 1} : <<n + 1, j>> \in R
                BY <2>1, <3>1, <4>1, <4>2
            <4>4. QED  BY <3>3, <4>3
        <3>4. QED  BY <3>2, <3>3
    <2>4. QED  BY <2>2, <2>3
<1>2. Upto(0)
    <2>1. 1 .. 0 = {}
        OBVIOUS
    <2>2. QED  BY <2>1
<1> HIDE DEF Upto
<1>3. Upto(1) /\ Upto(2) /\ Upto(3) /\ Upto(4)
    <2>1. Upto(0 + 1) => Upto(1)
        OBVIOUS
    <2>2. Upto(1)
        BY <1>1, <1>2
    <2>3. Upto(2)
        BY <1>1, <2>2
    <2>4. Upto(3)
        BY <1>1, <2>3
    <2>5. Upto(4)
        BY <1>1, <2>4
    <2>6. QED  BY <2>2, <2>3, <2>4, <2>5
<1>4. Upto(8)
    <2>1. Upto(5)
        BY <1>1, <1>3
    <2>2. Upto(6)
        BY <1>1, <2>1
    <2>3. Upto(7)
        BY <1>1, <2>2
    <2>4. QED  BY <1>1, <2>3
<1>5. QED  BY <1>4 DEF Upto

LEMMA NineAreFinite ==
  \A a, b, c, d, e, f, g, h, i : IsFiniteSet({a, b, c, d, e, f, g, h, i})
<1> TAKE a, b, c, d, e, f, g, h, i
<1>1. IsFiniteSet({a}) /\ IsFiniteSet({b}) /\ IsFiniteSet({c}) /\ IsFiniteSet({d})
      /\ IsFiniteSet({e}) /\ IsFiniteSet({f}) /\ IsFiniteSet({g}) /\ IsFiniteSet({h})
      /\ IsFiniteSet({i})
    BY FS_Singleton
<1>2. IsFiniteSet({a} \cup {b} \cup {c})
    BY <1>1, FS_Union
<1>3. IsFiniteSet({d} \cup {e} \cup {f})
    BY <1>1, FS_Union
<1>4. IsFiniteSet({g} \cup {h} \cup {i})
    BY <1>1, FS_Union
<1>5. IsFiniteSet(({a} \cup {b} \cup {c}) \cup ({d} \cup {e} \cup {f})
                  \cup ({g} \cup {h} \cup {i}))
    <2>1. IsFiniteSet(({a} \cup {b} \cup {c}) \cup ({d} \cup {e} \cup {f}))
        BY <1>2, <1>3, FS_Union
    <2>2. QED  BY <1>4, <2>1, FS_Union
<1>6. ({a} \cup {b} \cup {c}) \cup ({d} \cup {e} \cup {f}) \cup ({g} \cup {h} \cup {i})
        = {a, b, c, d, e, f, g, h, i}
    OBVIOUS
<1>7. QED  BY <1>5, <1>6

\* The keywords of each rule are few.
LEMMA KeywordsFinite == \A i \in 1 .. 8 : IsFiniteSet(DefaultRules[i].keywords)
<1>1. IsFiniteSet(DefaultRules[1].keywords)
    <2> DEFINE few == {"consulting", "advisory", "retainer", "professional service",
                       "professional service", "professional service",
                       "professional service", "professional service",
                       "professional service"}
    <2>1. IsFiniteSet(few)
        BY NineAreFinite
    <2>2. DefaultRules[1].keywords \subseteq few
        BY DEF DefaultRules, Rule
    <2>3. QED  BY <2>1, <2>2, FS_Subset
<1>2. IsFiniteSet(DefaultRules[2].keywords)
    <2> DEFINE few == {"invoice", "inv-", "ach credit", "wire credit",
                       "payment received", "payment received", "payment received",
                       "payment received", "payment received"}
    <2>1. IsFiniteSet(few)
        BY NineAreFinite
    <2>2. DefaultRules[2].keywords \subseteq few
        BY DEF DefaultRules, Rule
    <2>3. QED  BY <2>1, <2>2, FS_Subset
<1>3. IsFiniteSet(DefaultRules[3].keywords)
    <2> DEFINE few == {"cloud hosting", "hosting", "software", "saas",
                       "subscription", "aws", "vercel", "openai", "github"}
    <2>1. IsFiniteSet(few)
        BY NineAreFinite
    <2>2. DefaultRules[3].keywords \subseteq few
        BY DEF DefaultRules, Rule
    <2>3. QED  BY <2>1, <2>2, FS_Subset
<1>4. IsFiniteSet(DefaultRules[4].keywords)
    <2> DEFINE few == {"google ads", "meta ads", "facebook ads", "advertising",
                       "marketing", "campaign", "campaign", "campaign", "campaign"}
    <2>1. IsFiniteSet(few)
        BY NineAreFinite
    <2>2. DefaultRules[4].keywords \subseteq few
        BY DEF DefaultRules, Rule
    <2>3. QED  BY <2>1, <2>2, FS_Subset
<1>5. IsFiniteSet(DefaultRules[5].keywords)
    <2> DEFINE few == {"office rent", "rent", "lease", "coworking", "coworking",
                       "coworking", "coworking", "coworking", "coworking"}
    <2>1. IsFiniteSet(few)
        BY NineAreFinite
    <2>2. DefaultRules[5].keywords \subseteq few
        BY DEF DefaultRules, Rule
    <2>3. QED  BY <2>1, <2>2, FS_Subset
<1>6. IsFiniteSet(DefaultRules[6].keywords)
    <2> DEFINE few == {"electricity", "water", "utility", "utilities", "internet",
                       "internet", "internet", "internet", "internet"}
    <2>1. IsFiniteSet(few)
        BY NineAreFinite
    <2>2. DefaultRules[6].keywords \subseteq few
        BY DEF DefaultRules, Rule
    <2>3. QED  BY <2>1, <2>2, FS_Subset
<1>7. IsFiniteSet(DefaultRules[7].keywords)
    <2> DEFINE few == {"bank fee", "service charge", "monthly fee", "wire fee",
                       "wire fee", "wire fee", "wire fee", "wire fee", "wire fee"}
    <2>1. IsFiniteSet(few)
        BY NineAreFinite
    <2>2. DefaultRules[7].keywords \subseteq few
        BY DEF DefaultRules, Rule
    <2>3. QED  BY <2>1, <2>2, FS_Subset
<1>8. IsFiniteSet(DefaultRules[8].keywords)
    <2> DEFINE few == {"payroll", "salary", "wages", "contractor payroll",
                       "contractor payroll", "contractor payroll",
                       "contractor payroll", "contractor payroll",
                       "contractor payroll"}
    <2>1. IsFiniteSet(few)
        BY NineAreFinite
    <2>2. DefaultRules[8].keywords \subseteq few
        BY DEF DefaultRules, Rule
    <2>3. QED  BY <2>1, <2>2, FS_Subset
<1>9. QED  BY <1>1, <1>2, <1>3, <1>4, <1>5, <1>6, <1>7, <1>8

LEMMA RevenueRules ==
  \A i \in 1 .. 8 : DefaultRules[i].type = "revenue" =>
    DefaultRules[i].code \in {"professional_services", "sales_revenue"}
<1>1. /\ DefaultRules[1].code = "professional_services"
      /\ DefaultRules[2].code = "sales_revenue"
      /\ DefaultRules[3].type = "expense" /\ DefaultRules[4].type = "expense"
      /\ DefaultRules[5].type = "expense" /\ DefaultRules[6].type = "expense"
      /\ DefaultRules[7].type = "expense" /\ DefaultRules[8].type = "expense"
    BY DEF DefaultRules, Rule
<1>2. QED  BY <1>1

\* The eight rules: whole scores, and codes whose type is plain.
LEMMA RulesKnown ==
  /\ DOMAIN DefaultRules = 1 .. 8
  /\ \A i \in 1 .. 8 :
       /\ DefaultRules[i].base \in Nat /\ DefaultRules[i].perKeyword \in Nat
       /\ DefaultRules[i].type \in {"revenue", "expense"}
       /\ DefaultRules[i].confidence \in {"medium", "high"}
       /\ DefaultRules[i].type = "expense" =>
            /\ DefaultRules[i].code \in DOMAIN Taxonomy =>
                 Taxonomy[DefaultRules[i].code] # "revenue"
            /\ \A j \in 1 .. 8 : DefaultRules[j].code = DefaultRules[i].code =>
                 DefaultRules[j].type # "revenue"
<1>1. DOMAIN DefaultRules = 1 .. 8
    BY DEF DefaultRules
<1>2. /\ DefaultRules[1].code = "professional_services" /\ DefaultRules[1].type = "revenue"
      /\ DefaultRules[2].code = "sales_revenue" /\ DefaultRules[2].type = "revenue"
      /\ DefaultRules[3].code = "software_subscription" /\ DefaultRules[3].type = "expense"
      /\ DefaultRules[4].code = "advertising_expense" /\ DefaultRules[4].type = "expense"
      /\ DefaultRules[5].code = "rent_expense" /\ DefaultRules[5].type = "expense"
      /\ DefaultRules[6].code = "utilities_expense" /\ DefaultRules[6].type = "expense"
      /\ DefaultRules[7].code = "bank_fees" /\ DefaultRules[7].type = "expense"
      /\ DefaultRules[8].code = "payroll_expense" /\ DefaultRules[8].type = "expense"
    BY DEF DefaultRules, Rule
<1>3. /\ DefaultRules[1].base = 8 /\ DefaultRules[2].base = 6 /\ DefaultRules[3].base = 8
      /\ DefaultRules[4].base = 8 /\ DefaultRules[5].base = 6 /\ DefaultRules[6].base = 6
      /\ DefaultRules[7].base = 6 /\ DefaultRules[8].base = 6
    BY DEF DefaultRules, Rule
<1>4. /\ DefaultRules[1].perKeyword = 14 /\ DefaultRules[2].perKeyword = 12
      /\ DefaultRules[3].perKeyword = 14 /\ DefaultRules[4].perKeyword = 14
      /\ DefaultRules[5].perKeyword = 12 /\ DefaultRules[6].perKeyword = 12
      /\ DefaultRules[7].perKeyword = 12 /\ DefaultRules[8].perKeyword = 12
    BY DEF DefaultRules, Rule
<1>5. /\ DefaultRules[1].confidence = "high" /\ DefaultRules[2].confidence = "medium"
      /\ DefaultRules[3].confidence = "high" /\ DefaultRules[4].confidence = "high"
      /\ DefaultRules[5].confidence = "medium" /\ DefaultRules[6].confidence = "medium"
      /\ DefaultRules[7].confidence = "medium" /\ DefaultRules[8].confidence = "medium"
    BY DEF DefaultRules, Rule
<1>6. /\ Taxonomy["professional_services"] = "revenue" /\ Taxonomy["sales_revenue"] = "revenue"
      /\ Taxonomy["software_subscription"] = "expense" /\ Taxonomy["rent_expense"] = "expense"
      /\ Taxonomy["utilities_expense"] = "expense"
      /\ {"advertising_expense", "bank_fees", "payroll_expense"} \cap DOMAIN Taxonomy = {}
    BY DEF Taxonomy
<1>7. \A i \in 1 .. 8 : DefaultRules[i].type = "expense" =>
        /\ DefaultRules[i].code \in DOMAIN Taxonomy =>
             Taxonomy[DefaultRules[i].code] # "revenue"
        /\ \A j \in 1 .. 8 : DefaultRules[j].code = DefaultRules[i].code =>
             DefaultRules[j].type # "revenue"
    BY <1>2, <1>6
<1>8. QED  BY <1>1, <1>2, <1>3, <1>4, <1>5, <1>7

\* The lexicographic order of three numbers.
Exceeds(a, b, c, x, y, z) ==
  \/ a > x
  \/ a = x /\ b > y
  \/ a = x /\ b = y /\ c > z

LEMMA OutranksExceeds ==
  ASSUME NEW r, NEW s, NEW input
  PROVE  Outranks(r, s, input) <=>
           Exceeds(RuleScore(r, input), ConfidenceRank(r.confidence),
                   Cardinality(Matched(r, input)),
                   RuleScore(s, input), ConfidenceRank(s.confidence),
                   Cardinality(Matched(s, input)))
<1> DEFINE rs == RuleScore(r, input)   ss == RuleScore(s, input)
           rc == ConfidenceRank(r.confidence)   sc == ConfidenceRank(s.confidence)
           rm == Cardinality(Matched(r, input))   sm == Cardinality(Matched(s, input))
<1>1. Outranks(r, s, input) <=>
        \E k \in 1 .. 3 : /\ <<rs, rc, rm>>[k] > <<ss, sc, sm>>[k]
                          /\ \A l \in 1 .. k - 1 : <<rs, rc, rm>>[l] = <<ss, sc, sm>>[l]
    BY DEF Outranks
<1> HIDE DEF rs, ss, rc, sc, rm, sm
<1>2. (\E k \in 1 .. 3 : /\ <<rs, rc, rm>>[k] > <<ss, sc, sm>>[k]
                         /\ \A l \in 1 .. k - 1 : <<rs, rc, rm>>[l] = <<ss, sc, sm>>[l])
        <=> Exceeds(rs, rc, rm, ss, sc, sm)
    <2>1. /\ 1 .. 3 = {1, 2, 3} /\ 1 .. 1 - 1 = {} /\ 1 .. 2 - 1 = {1} /\ 1 .. 3 - 1 = {1, 2}
        OBVIOUS
    <2>2. QED  BY <2>1 DEF Exceeds
<1>3. QED  BY <1>1, <1>2 DEF rs, ss, rc, sc, rm, sm

LEMMA KeysAreNumbers ==
  ASSUME NEW i \in 1 .. 8, NEW input
  PROVE  /\ RuleScore(DefaultRules[i], input) \in Int
         /\ ConfidenceRank(DefaultRules[i].confidence) \in Int
         /\ Cardinality(Matched(DefaultRules[i], input)) \in Int
<1>1. Matched(DefaultRules[i], input) \subseteq DefaultRules[i].keywords
    BY DEF Matched
<1>2. Cardinality(Matched(DefaultRules[i], input)) \in Nat
    <2>1. IsFiniteSet(Matched(DefaultRules[i], input))
        BY <1>1, KeywordsFinite, FS_Subset
    <2>2. QED  BY <2>1, FS_CardinalityType
<1>3. RuleScore(DefaultRules[i], input) \in Int
    <2> DEFINE n == Cardinality(Matched(DefaultRules[i], input))
               agree == IF DirectionAgrees(DefaultRules[i], input) THEN 5 ELSE 0
    <2>1. RuleScore(DefaultRules[i], input)
            = DefaultRules[i].base + DefaultRules[i].perKeyword * n + agree
        BY DEF RuleScore
    <2>2. DefaultRules[i].base \in Nat /\ DefaultRules[i].perKeyword \in Nat
        BY RulesKnown
    <2>3. n \in Nat /\ agree \in Nat
        BY <1>2
    <2> HIDE DEF n, agree
    <2>4. QED  BY <2>1, <2>2, <2>3
<1>4. ConfidenceRank(DefaultRules[i].confidence) \in Int
    BY RulesKnown DEF ConfidenceRank
<1>5. QED  BY <1>2, <1>3, <1>4

\* Of the rules that apply there is always one that max() chooses.
LEMMA BestRule ==
  ASSUME NEW hits \in SUBSET (1 .. 8), hits # {}, NEW input
  PROVE  \E i \in hits : \A j \in hits \ {i} :
           \/ Outranks(DefaultRules[i], DefaultRules[j], input)
           \/ i < j /\ ~Outranks(DefaultRules[j], DefaultRules[i], input)
<1> DEFINE score == [i \in 1 .. 8 |-> RuleScore(DefaultRules[i], input)]
           rank == [i \in 1 .. 8 |-> ConfidenceRank(DefaultRules[i].confidence)]
           words == [i \in 1 .. 8 |-> Cardinality(Matched(DefaultRules[i], input))]
           Beats(i, j) == \/ Exceeds(score[i], rank[i], words[i], score[j], rank[j], words[j])
                          \/ i < j /\ ~Exceeds(score[j], rank[j], words[j],
                                               score[i], rank[i], words[i])
           R == {p \in (1 .. 8) \X (1 .. 8) : Beats(p[1], p[2])}
<1>1. /\ score \in [1 .. 8 -> Int] /\ rank \in [1 .. 8 -> Int] /\ words \in [1 .. 8 -> Int]
    BY KeysAreNumbers
<1>2. \A i, j \in 1 .. 8 :
        /\ Outranks(DefaultRules[i], DefaultRules[j], input) <=>
             Exceeds(score[i], rank[i], words[i], score[j], rank[j], words[j])
    BY OutranksExceeds
<1> HIDE DEF score, rank, words
<1>3. \A i, j \in 1 .. 8 : <<i, j>> \in R <=> Beats(i, j)
    OBVIOUS
<1>4. \A i, j \in 1 .. 8 : i # j => Beats(i, j) \/ Beats(j, i)
    BY <1>1 DEF Exceeds
<1>5. \A i, j, k \in 1 .. 8 : Beats(i, j) /\ Beats(j, k) => Beats(i, k)
    BY <1>1 DEF Exceeds
<1> HIDE DEF R
<1>6. \E i \in hits : \A j \in hits \ {i} : <<i, j>> \in R
    <2>1. /\ \A i, j \in 1 .. 8 : i # j => <<i, j>> \in R \/ <<j, i>> \in R
          /\ \A i, j, k \in 1 .. 8 : <<i, j>> \in R /\ <<j, k>> \in R => <<i, k>> \in R
        BY <1>3, <1>4, <1>5
    <2>2. \A S \in SUBSET (1 .. 8) : S # {} => \E i \in S : \A j \in S \ {i} : <<i, j>> \in R
        <3> HIDE DEF Beats
        <3>1. QED  BY ONLY <2>1, BestOfEight
    <2>3. QED  BY <2>2
<1>7. PICK i \in hits : \A j \in hits \ {i} : Beats(i, j)
    <2> HIDE DEF Beats
    <2>1. QED  BY <1>3, <1>6
<1>8. QED  BY <1>2, <1>7

\* Direction and category of a classification agree.
Directed(made) ==
  made.direction = "income" <=>
    \/ made.code \in DOMAIN Taxonomy /\ Taxonomy[made.code] = "revenue"
    \/ \E i \in DOMAIN DefaultRules : /\ DefaultRules[i].code = made.code
                                     /\ DefaultRules[i].type = "revenue"

LEMMA RulesDirected ==
  ASSUME NEW input
  PROVE  Directed(ClassifyByRules(input))
<1> DEFINE hits == {i \in DOMAIN DefaultRules : Applies(DefaultRules[i], input)}
           Best(i) == \A j \in hits \ {i} :
                        \/ Outranks(DefaultRules[i], DefaultRules[j], input)
                        \/ i < j /\ ~Outranks(DefaultRules[j], DefaultRules[i], input)
           best == CHOOSE i \in hits : Best(i)
<1>1. hits \in SUBSET (1 .. 8)
    BY RulesKnown
<1>2. hits # {} => best \in hits
    <2>1. hits # {} => \E i \in hits : Best(i)
        <3> HIDE DEF hits
        <3>1. QED  BY <1>1, BestRule
    <2> HIDE DEF Best, hits
    <2>2. QED  BY <2>1
<1>3. ClassifyByRules(input) =
        IF hits = {} THEN FallbackClassification(input)
        ELSE [code |-> DefaultRules[best].code, type |-> DefaultRules[best].type,
              direction |-> DirectionOf(DefaultRules[best].type),
              confidence |-> DefaultRules[best].confidence]
    BY DEF ClassifyByRules
<1> HIDE DEF hits, best
<1>4. CASE hits = {}
    <2> DEFINE type == FallbackType(input)
    <2>1. type \in {"revenue", "expense", "other"}
        BY DEF FallbackType
    <2>2. ClassifyByRules(input) = FallbackClassification(input)
        BY <1>3, <1>4
    <2> HIDE DEF type
    <2>3. /\ FallbackClassification(input).direction = DirectionOf(type)
          /\ FallbackClassification(input).code =
               CASE type = "revenue" -> "uncategorized_revenue"
                 [] type = "expense" -> "uncategorized_expense"
                 [] OTHER            -> "uncategorized_other"
        BY DEF FallbackClassification, type
    <2>4. /\ Taxonomy["uncategorized_revenue"] = "revenue"
          /\ Taxonomy["uncategorized_expense"] = "expense"
          /\ Taxonomy["uncategorized_other"] = "other"
          /\ {"uncategorized_revenue", "uncategorized_expense", "uncategorized_other"}
               \subseteq DOMAIN Taxonomy
        BY DEF Taxonomy
    <2>5. \A i \in DOMAIN DefaultRules : DefaultRules[i].type = "revenue" =>
            DefaultRules[i].code \notin {"uncategorized_expense", "uncategorized_other"}
        BY RevenueRules, RulesKnown
    <2>6. QED  BY <2>1, <2>2, <2>3, <2>4, <2>5 DEF Directed, DirectionOf
<1>5. CASE hits # {}
    <2>1. best \in 1 .. 8 /\ DOMAIN DefaultRules = 1 .. 8
        BY <1>1, <1>2, <1>5, RulesKnown
    <2>2. /\ ClassifyByRules(input).code = DefaultRules[best].code
          /\ ClassifyByRules(input).direction = DirectionOf(DefaultRules[best].type)
        BY <1>3, <1>5
    <2>3. CASE DefaultRules[best].type = "revenue"
        BY <2>1, <2>2, <2>3 DEF Directed, DirectionOf
    <2>4. CASE DefaultRules[best].type = "expense"
        BY <2>1, <2>2, <2>4, RulesKnown DEF Directed, DirectionOf
    <2>5. QED  BY <2>1, <2>3, <2>4, RulesKnown
<1>6. QED  BY <1>4, <1>5

\* The model is heard only where the rules are uncertain, and only within the taxonomy.
LEMMA ProposalSupported ==
  ASSUME NEW input, NEW answer, NEW made, made = ClassifyWithFallback(input, answer)
  PROVE  /\ ClassifyByRules(input).confidence \in {"medium", "high"} =>
              made = ClassifyByRules(input)
         /\ made = ClassifyByRules(input) \/ made.code \in DOMAIN Taxonomy
         /\ Directed(made)
<1> DEFINE ruled == ClassifyByRules(input)
<1>1. Directed(ruled)
    BY RulesDirected
<1>2. made = IF Uncertain(ruled) /\ answer # None THEN FromPayload(answer, ruled) ELSE ruled
    BY DEF ClassifyWithFallback
<1> HIDE DEF ruled
<1>3. CASE made = ruled
    BY <1>1, <1>3 DEF ruled
<1>4. CASE made # ruled
    <2>1. Uncertain(ruled) /\ made = FromPayload(answer, ruled)
        BY <1>2, <1>4
    <2>2. /\ answer.code \in DOMAIN Taxonomy /\ made.code = answer.code
          /\ made.direction = DirectionOf(Taxonomy[answer.code])
        BY <1>4, <2>1 DEF FromPayload
    <2>3. \A code \in DOMAIN Taxonomy :
            /\ Taxonomy[code] \in {"revenue", "expense", "other"}
            /\ Taxonomy[code] # "revenue" =>
                 code \notin {"professional_services", "sales_revenue"}
        BY DEF Taxonomy
    <2>4. Directed(made)
        BY <2>2, <2>3, RevenueRules, RulesKnown DEF Directed, DirectionOf
    <2>5. ruled.confidence \notin {"medium", "high"}
        BY <2>1 DEF Uncertain
    <2>6. QED  BY <2>2, <2>4, <2>5 DEF ruled
<1>5. QED  BY <1>3, <1>4

-----------------------------------------------------------------------------
\* Only a draft that was validated is classified, and it stays what it was.
ClassifiedInv ==
  /\ scratch.classified # None => pc \in Business \cup {"done", "raised"}
  /\ ClassificationSupported

LEMMA SupportedIs ==
  ClassificationSupported <=> \/ scratch.classified = None
    \/ /\ ClassifyByRules(InvoiceInput(scratch.draft)).confidence \in {"medium", "high"} =>
            scratch.classified = ClassifyByRules(InvoiceInput(scratch.draft))
       /\ \/ scratch.classified = ClassifyByRules(InvoiceInput(scratch.draft))
          \/ scratch.classified.code \in DOMAIN Taxonomy
       /\ Directed(scratch.classified)
BY DEF ClassificationSupported, Directed

LEMMA SupportedAfter ==
  ClassificationSupported' <=> \/ scratch'.classified = None
    \/ /\ ClassifyByRules(InvoiceInput(scratch'.draft)).confidence \in {"medium", "high"} =>
            scratch'.classified = ClassifyByRules(InvoiceInput(scratch'.draft))
       /\ \/ scratch'.classified = ClassifyByRules(InvoiceInput(scratch'.draft))
          \/ scratch'.classified.code \in DOMAIN Taxonomy
       /\ Directed(scratch'.classified)
BY DEF ClassificationSupported, Directed

LEMMA ClassifiedStep == AgentInv /\ ClassifiedInv /\ [Next]_vars => ClassifiedInv'
<1> SUFFICES ASSUME AgentInv, ClassifiedInv, [Next]_vars PROVE ClassifiedInv'
    OBVIOUS
<1>1. Shapes /\ ClassificationSupported
    BY DEF AgentInv, ClassifiedInv
<1>2. ASSUME scratch'.classified = scratch.classified,
             pc \notin Business \cup {"done", "raised"}
      PROVE  ClassifiedInv'
    <2>1. scratch'.classified = None
        BY <1>2 DEF ClassifiedInv
    <2>2. QED  BY <2>1, SupportedAfter DEF ClassifiedInv
<1>3. ASSUME scratch'.classified = scratch.classified, scratch'.draft = scratch.draft,
             pc' \in Business \cup {"done", "raised"}
      PROVE  ClassifiedInv'
    BY <1>1, <1>3, SupportedIs, SupportedAfter DEF ClassifiedInv
<1>4. CASE UNCHANGED vars
    BY <1>1, <1>4, SupportedIs, SupportedAfter DEF vars, ClassifiedInv
<1>5. CASE \/ AcceptDocument \/ AnalyzeLayout \/ FailLayout \/ ApplyPolicy \/ Assemble
           \/ Validate \/ RetryGate \/ RequestRetries \/ \E a \in Extractors : ExtractGroup(a)
    <2>1. pc \in PreparationAgents \cup Extractors
                 \cup {Assembly, QA, "retry_gate", "request_retries"}
        BY <1>5, Names DEF AcceptDocument, AnalyzeLayout, FailLayout, ApplyPolicy, Assemble,
           Validate, RetryGate, RequestRetries, ExtractGroup, Await
    <2>2. pc \notin Business \cup {"done", "raised"}
        BY <2>1, Names, ControlStates
    <2>3. scratch'.classified = scratch.classified
        BY <1>1, <1>5 DEF Shapes, AcceptDocument, AnalyzeLayout, FailLayout, ApplyPolicy,
           Assemble, Validate, RetryGate, RequestRetries, ExtractGroup
    <2>4. QED  BY <1>2, <2>2, <2>3
<1>6. CASE Classify
    <2>1. PICK answer \in Categories :
            scratch' = [scratch EXCEPT !.classified =
                          ClassifyWithFallback(InvoiceInput(scratch.groups), answer)]
        BY <1>6 DEF Classify
    <2>2. /\ scratch'.classified = ClassifyWithFallback(InvoiceInput(scratch.groups), answer)
          /\ scratch'.draft = scratch.draft
        BY <1>1, <2>1 DEF Shapes
    <2>3. scratch.draft = scratch.groups /\ pc' \in Business
        <3>1. pc \in Business
            BY <1>6, Names DEF Classify, Await, Business
        <3>2. QED
            BY <1>1, <1>6, <3>1, BusinessSteps, Names
            DEF AgentInv, ValidatedBeforeBusiness, Ran, Business
    <2>4. scratch'.classified = ClassifyWithFallback(InvoiceInput(scratch'.draft), answer)
        BY <2>2, <2>3
    <2>5. QED  BY <2>3, <2>4, ProposalSupported, SupportedAfter DEF ClassifiedInv
<1>7. CASE Match \/ Coordinate \/ ProduceInsights
    <2>1. scratch'.classified = scratch.classified /\ scratch'.draft = scratch.draft
        BY <1>1, <1>7 DEF Shapes, Match, Coordinate, ProduceInsights
    <2>2. pc' \in Business
        BY <1>1, <1>7, BusinessSteps, Names DEF Ran, Business
    <2>3. QED  BY <1>3, <2>1, <2>2
<1>8. CASE Complete \/ LoseHandoff
    BY <1>3, <1>8 DEF Complete, LoseHandoff
<1>9. QED  BY <1>4, <1>5, <1>6, <1>7, <1>8 DEF Next

\* The category proposed is that of the validated draft: the rules' finding where they
\* are sure, otherwise one of the taxonomy's, with the direction of that category.
THEOREM CategorySupported == Spec => []ClassificationSupported
<1>1. Init => ClassifiedInv
    BY SupportedIs DEF Init, EmptyScratchpad, ClassifiedInv
<1>2. ClassifiedInv => ClassificationSupported
    BY DEF ClassifiedInv
<1>3. QED
    BY <1>1, <1>2, ClassifiedStep, AgentInvHolds, PTL DEF Spec
=============================================================================
