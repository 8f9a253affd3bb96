--------------------------- MODULE AgentWorkflow ---------------------------
(***************************************************************************)
(* The controlled agent workflow over one document: the agents of           *)
(* workflows/document_preparation.py, invoice_extraction.py and             *)
(* downstream_agents.py, the bookkeeping of workflows/runtime.py and        *)
(* progress.py, and the ways the code drives them:                          *)
(*                                                                          *)
(*   custom    WorkflowReplayRunner's own sequence (workflows/replay.py)     *)
(*   graph     the same runner through the LangGraph adapter                *)
(*   adapter   the adapter called by itself (workflows/graph_debug.py)       *)
(*   fallback  the adapter where LangGraph is not installed                 *)
(*   prepare   the adapter's run_document_preparation                       *)
(*                                                                          *)
(* job says what is run and never changes; wf is the WorkflowState, run the *)
(* WorkflowRun row, scratch the scratchpad.  Agents are awaited one after    *)
(* the other, so each of them is one action: it runs, its step and its       *)
(* handoffs are recorded, and the driver routes.                            *)
(***************************************************************************)
EXTENDS InvoiceValidation, Reconciliation, PrebuiltInvoice, Classification, ModelAnswers

CONSTANTS Documents,     \* what OCR can read: [page, text, totals, items, metadata, prebuilt]
          Replies,       \* per extractor, what a model may reply (see ModelAnswers)
          Categories,    \* the model's answers to the classification prompt, or None
          Ledgers,       \* sets of the tenant's transactions
          Budgets,       \* values of max_retries
          Llms,          \* names of the configured model
          Today          \* a day number

VARIABLES job, pc, wf, run, scratch, results, latest, progress

vars == <<job, pc, wf, run, scratch, results, latest, progress>>

Intake == "document_intake"
Layout == "document_layout_analyzer"
Privacy == "privacy_policy_gate"
Assembly == "invoice_assembly"
QA == "qa_validator"
Classifier == "classification_agent"
Matching == "reconciliation_agent"
Review == "review_coordinator"
Insight == "business_insight_agent"

PreparationAgents == {Intake, Layout, Privacy}
BusinessAgents == {Classifier, Matching, Review, Insight}
Agents == PreparationAgents \cup Extractors \cup {Assembly, QA} \cup BusinessAgents

ASSUME AgentAssumption == Budgets \subseteq Nat /\ None \notin Agents

Drivers == {"custom", "graph", "adapter", "fallback", "prepare"}
Scenarios == {"happy_path", "failed_validation", "retry_exhaustion"}
Statuses == {"running", "retrying", "review_required", "completed", "failed",
             "dead_lettered"}
ResultStatuses == {"succeeded", "failed", "review_required", "retry_requested"}
HandoffTypes == {"control", "data", "correction"}

\* Mutant of StagePercent: the privacy gate keeps the place it has in the enum,
\* before the layout analysis that the drivers now run first.
StagePercentByEnum == [a \in Agents |->
  CASE a = Intake   -> 8  [] a = Layout -> 25 [] a = Privacy -> 16
    [] a = Metadata -> 44 [] a = Table  -> 54 [] a = Totals  -> 64
    [] a = Assembly -> 70 [] a = QA     -> 78 [] a = Classifier -> 85
    [] a = Matching -> 92 [] a = Review -> 96 [] OTHER -> 99]

\* The percentage of an agent's stage: _AGENT_STAGE and _STAGE_PROGRESS.
StagePercent == [a \in Agents |->
  CASE a = Intake   -> 8  [] a = Layout -> 25 [] a = Privacy -> 32
    [] a = Metadata -> 44 [] a = Table  -> 54 [] a = Totals  -> 64
    [] a = Assembly -> 70 [] a = QA     -> 78 [] a = Classifier -> 85
    [] a = Matching -> 92 [] a = Review -> 96 [] OTHER -> 99]

\* The stage is named by the agent it belongs to, or "ingested", "completed", "failed".
Stages == Agents \cup {"ingested", "completed", "failed"}

TerminalStatuses == {"review_required", "completed", "failed", "dead_lettered"}

\* build_workflow_progress: the snapshot handed to the observer.
Snapshot(state) ==
  [status |-> state.status, terminal |-> state.status \in TerminalStatuses,
   percent |-> IF \/ state.status \in TerminalStatuses
                  \/ state.stage \in {"completed", "failed"} THEN 100
               ELSE IF state.stage = "ingested" THEN 0 ELSE StagePercent[state.stage]]

-----------------------------------------------------------------------------
(* Results and handoffs.                                                     *)

Handoff(source, target, type) == [source |-> source, target |-> target, type |-> type]

Result(agent, status, handoffs) ==
  [agent |-> agent, status |-> status, handoffs |-> handoffs]

Terminal(result) == result.status \in {"failed", "review_required"}

HasHandoffTo(result, target) == \E h \in Range(result.handoffs) : h.target = target

\* The agent whose result holds the handoff a driver looks up before it runs a; the
\* fallback's correction segments name the layout analyzer for every extractor.
HandoffSource(a) ==
  CASE a = Layout         -> Intake
    [] a = Privacy        -> Layout
    [] a \in Extractors   -> IF job.driver = "fallback" /\ wf.retries # [e \in Extractors |-> 0]
                             THEN Layout ELSE Privacy
    [] a = QA             -> Assembly
    [] a = Classifier -> QA
    [] OTHER              -> None

\* _run_agent_node prefers the latest result when it is addressed to the agent.
SourceResult(a) ==
  IF HandoffSource(a) = None THEN None
  ELSE IF job.driver # "custom" /\ HasHandoffTo(latest, a) THEN latest
  ELSE results[HandoffSource(a)]

\* _handoff_to raises ValueError when the result holds no handoff for the agent.
HandoffMissing(a) ==
  /\ SourceResult(a) # None
  /\ ~HasHandoffTo(SourceResult(a), a)

\* Mutant of IsCorrection: any correction counts, whoever it is addressed to.
IsCorrectionOfAny(a) == wf.retries # [e \in Extractors |-> 0]

\* Extractors look at the signal only a correction handoff carries.
IsCorrection(a) ==
  \E h \in Range(SourceResult(a).handoffs) : h.target = a /\ h.type = "correction"

-----------------------------------------------------------------------------
(* The runtime service.                                                      *)

\* record_agent_step: the stage is the agent's, a failure or a review becomes the
\* status of the workflow; nothing else resets that status.
StepRecorded(state, result) ==
  [state EXCEPT
     !.agent = result.agent,
     !.stage = IF result.status = "failed" THEN "failed" ELSE result.agent,
     !.completed = IF result.status = "succeeded" THEN @ \cup {result.agent} ELSE @,
     !.status = IF Terminal(result) THEN result.status ELSE @]

\* record_handoff, for each envelope in turn: the last one stays.
HandoffsRecorded(state, handoffs) ==
  IF handoffs = <<>> THEN state
  ELSE [state EXCEPT !.handoff = Last(handoffs), !.stage = Last(handoffs).target,
                     !.agent = Last(handoffs).target]

\* Mutant of RunRecorded: a review leaves the row as it is.
RunRecordedIfFailed(row, state, result) ==
  [row EXCEPT !.status = IF result.status = "failed" THEN state.status ELSE @,
              !.agent = state.agent,
              !.error = IF result.status = "failed" THEN result.agent ELSE @]

RunRecorded(row, state, result) ==
  [row EXCEPT !.status = state.status, !.agent = state.agent,
              !.error = IF result.status = "failed" THEN result.agent ELSE @]

\* _run_agent: what every agent's action does with its result.
Recorded(result, signals) ==
  LET stepped == StepRecorded([wf EXCEPT !.signals = signals], result)
      handed == HandoffsRecorded(stepped, result.handoffs)
  IN  /\ wf' = handed
      /\ run' = RunRecorded(run, handed, result)
      /\ results' = [results EXCEPT ![result.agent] = result]
      /\ latest' = result
      /\ progress' = Snapshot(stepped)
      /\ UNCHANGED job

\* update_workflow_status; the errors of the row are those of the call.
StatusUpdated(state, row, error) ==
  /\ wf' = state
  /\ run' = [row EXCEPT !.status = state.status, !.agent = state.agent, !.error = error]
  /\ progress' = Snapshot(state)

\* Mutant of RetryAllowed: one retry too many.
RetryAllowedOnceMore(target) == wf.retries[target] <= job.maxRetries

\* request_retry: the agent's counter against the budget.
RetryAllowed(target) == wf.retries[target] < job.maxRetries

RetryRequested(target) ==
  LET counted == [wf EXCEPT !.retries[target] = @ + 1]
  IN  StatusUpdated(
        IF RetryAllowed(target)
        THEN [counted EXCEPT !.status = "retrying", !.agent = target]
        ELSE [counted EXCEPT !.status = "dead_lettered", !.stage = "failed"],
        [run EXCEPT !.retryCount = @ + 1],
        IF RetryAllowed(target) THEN None ELSE "RETRY_EXHAUSTED")

-----------------------------------------------------------------------------
(* Initial states.                                                           *)

EmptyScratchpad ==
  [reading |-> None, regions |-> <<>>, groups |-> [a \in Extractors |-> None],
   draft |-> None, classified |-> None, match |-> None, review |-> None,
   insights |-> FALSE]

\* A correction signal is in the state from the start only when the adapter's
\* caller puts it there; the runner's two failure scenarios inject theirs.
Jobs == [driver : Drivers, scenario : Scenarios, injected : Extractors \cup {None},
         document : Documents, llm : Llms, local : BOOLEAN, maxRetries : Budgets]

Startable(j) ==
  /\ j.scenario # "happy_path" => j.driver = "custom"
  /\ j.injected # None => j.driver \in {"adapter", "fallback"}

\* start_workflow and resume_workflow.
Init ==
  /\ job \in {j \in Jobs : Startable(j)}
  /\ pc = Intake
  /\ wf = [status |-> "running", stage |-> "ingested", agent |-> None, completed |-> {},
           retries |-> [a \in Extractors |-> 0], handoff |-> None,
           signals |-> IF job.injected = None THEN {}
                       ELSE {CorrectionSignal(job.injected)}]
  /\ run = [status |-> "running", agent |-> None, retryCount |-> 0, error |-> None]
  /\ scratch = EmptyScratchpad
  /\ results = [a \in Agents |-> None]
  /\ latest = None
  /\ progress = Snapshot(wf)

-----------------------------------------------------------------------------
(* Routing.                                                                  *)

\* Mutant of Successor: the assembled draft goes straight to the business agents.
SuccessorUnvalidated == [a \in Agents |->
  CASE a = Intake   -> Layout [] a = Layout -> Privacy  [] a = Privacy  -> Metadata
    [] a = Metadata -> Table  [] a = Table  -> Totals   [] a = Totals   -> Assembly
    [] a = Assembly -> Classifier [] a = Classifier -> Matching
    [] a = Matching -> Review [] a = Review -> Insight  [] OTHER        -> "complete"]

\* The fixed order of every driver up to validation.
Successor == [a \in Agents |->
  CASE a = Intake   -> Layout [] a = Layout -> Privacy  [] a = Privacy  -> Metadata
    [] a = Metadata -> Table  [] a = Table  -> Totals   [] a = Totals   -> Assembly
    [] a = Assembly -> QA     [] a = Classifier -> Matching
    [] a = Matching -> Review [] a = Review -> Insight  [] OTHER        -> "complete"]

\* Up to validation a terminal result stops the driver; among the business agents
\* it, or a result without a handoff, only ends _run_successful_downstream, and
\* the runner goes on to mark the workflow completed.
RouteAfter(result) ==
  IF job.driver = "prepare" /\ result.agent = Privacy THEN "done"
  ELSE IF result.agent \notin BusinessAgents /\ Terminal(result) THEN "done"
  ELSE IF /\ result.agent \in BusinessAgents
          /\ Terminal(result) \/ result.handoffs = <<>> THEN "complete"
  ELSE Successor[result.agent]

\* Mutant of RouteAfterQA: a review does not stop the runner.
RouteAfterQAUnlessFailed(status) ==
  IF status = "failed" THEN "done"
  ELSE IF status = "retry_requested" /\ job.driver # "custom" THEN "retry_gate"
  ELSE IF job.scenario # "happy_path" THEN "request_retries"
  ELSE IF job.driver \in {"adapter", "fallback"} THEN "done"
  ELSE Classifier

\* After QA: _route_after_qa, and what the runner does with its result.
RouteAfterQA(status) ==
  IF status \in {"failed", "review_required"} THEN "done"
  ELSE IF status = "retry_requested" /\ job.driver # "custom" THEN "retry_gate"
  ELSE IF job.scenario # "happy_path" THEN "request_retries"
  ELSE IF job.driver \in {"adapter", "fallback"} THEN "done"
  ELSE Classifier

Await(a) == pc = a /\ ~HandoffMissing(a)

-----------------------------------------------------------------------------
(* The agents.                                                               *)

AcceptDocument ==
  LET result == Result(Intake, "succeeded", <<Handoff(Intake, Layout, "control")>>)
  IN  /\ Await(Intake)
      /\ Recorded(result, wf.signals)
      /\ pc' = RouteAfter(result)
      /\ UNCHANGED scratch

Layouts == [document \in Documents |-> Regions(document.page)]

Reading(document) ==
  [text |-> document.text, regions |-> DOMAIN Layouts[document],
   totals |-> document.totals, items |-> document.items, metadata |-> document.metadata]

\* None is no reading and no group that an extractor makes of one.
ASSUME NoneAssumption == \A document \in Documents :
  LET ocr == Reading(document)
  IN  /\ ocr # None
      /\ \A a \in Extractors :
           /\ FromFallback(a, Fallback(a, ocr), None).group # None
           /\ \A reply \in Replies[a] :
                FromModel(a, AnswerTo(reply), Fallback(a, ocr), ocr).group # None

\* run_ocr_provider_if_available: the reading, its regions and the groups the
\* provider has already extracted.
AnalyzeLayout ==
  LET result == Result(Layout, "succeeded", <<Handoff(Layout, Privacy, "control")>>)
  IN  /\ Await(Layout)
      /\ scratch' = [scratch EXCEPT
                       !.reading = Reading(job.document),
                       !.regions = Layouts[job.document],
                       !.groups = PrebuiltGroups(@, job.document.prebuilt)]
      /\ Recorded(result, wf.signals)
      /\ pc' = RouteAfter(result)

\* ERR_OCR_INPUT_MISSING and ERR_OCR_PROVIDER_FAILED.
FailLayout ==
  LET result == Result(Layout, "failed", <<>>)
  IN  /\ Await(Layout)
      /\ Recorded(result, wf.signals)
      /\ pc' = RouteAfter(result)
      /\ UNCHANGED scratch

\* The gate allows everything and addresses the three extractors.
ApplyPolicy ==
  LET to(a) == Handoff(Privacy, a, "control")
      result == Result(Privacy, "succeeded", <<to(Metadata), to(Table), to(Totals)>>)
  IN  /\ Await(Privacy)
      /\ Recorded(result, wf.signals)
      /\ pc' = RouteAfter(result)
      /\ UNCHANGED scratch

\* An extractor always succeeds; what went wrong with the model's answer is left
\* to QA as a blocking signal.
ExtractGroup(a) ==
  /\ Await(a)
  /\ \E reply \in Replies[a] :
     \E made \in {Extract(a, scratch.groups[a], scratch.reading, job.llm,
                         IsCorrection(a), AnswerTo(reply))} :
       LET result == Result(a, "succeeded", <<Handoff(a, Assembly, "data")>>)
       IN  /\ scratch' = [scratch EXCEPT !.groups[a] = made.group]
           /\ Recorded(result, wf.signals \cup
                (IF made.error = None THEN {} ELSE {ProviderSignal(made.error)}))
           /\ pc' = RouteAfter(result)

\* The runner's failure scenarios add their signal between assembly and QA.
Assemble ==
  LET result == Result(Assembly, "succeeded", <<Handoff(Assembly, QA, "data")>>)
  IN  /\ Await(Assembly)
      /\ scratch' = [scratch EXCEPT !.draft = scratch.groups]
      /\ Recorded(result, wf.signals \cup
           (IF job.scenario = "happy_path" THEN {} ELSE {CorrectionSignal(Totals)}))
      /\ pc' = RouteAfter(result)

PartyRegions == [bill_to |-> PartiesIn(scratch.regions, "bill_to"),
                 supplier |-> PartiesIn(scratch.regions, "supplier")]

\* QA adds the signals of this draft to those of every earlier one.
Validate ==
  LET signals == wf.signals \cup QASignals(scratch.draft, PartyRegions)
      outcome == QAOutcome(signals)
      handoffs == CASE outcome = "retry_requested" ->
                         SetToSeq({Handoff(QA, s.target, "correction") :
                                     s \in Corrections(signals)})
                    [] outcome = "succeeded" -> <<Handoff(QA, Classifier, "control")>>
                    [] OTHER                 -> <<>>
  IN  /\ Await(QA)
      /\ Recorded(Result(QA, outcome, handoffs), signals)
      /\ pc' = RouteAfterQA(outcome)
      /\ UNCHANGED scratch

\* Rules first, then the model for what they leave open: always a proposal.
Classify ==
  LET result == Result(Classifier, "succeeded", <<Handoff(Classifier, Matching, "data")>>)
  IN  /\ Await(Classifier)
      /\ \E answer \in Categories :
           scratch' = [scratch EXCEPT !.classified =
                         ClassifyWithFallback(InvoiceInput(scratch.groups), answer)]
      /\ Recorded(result, wf.signals)
      /\ pc' = RouteAfter(result)

\* The transactions are read in a session of their own, whatever they are by then.
Match ==
  /\ Await(Matching)
  /\ \E ledger \in Ledgers :
       LET invoice == MatchInput(scratch.groups)
           txs == ScoredTransactions(invoice, ledger, job.local, Today)
           result == Result(Matching, "succeeded", <<Handoff(Matching, Review, "data")>>)
       IN  /\ scratch' = [scratch EXCEPT !.match = Reconcile(invoice, txs)]
           /\ Recorded(result, wf.signals)
           /\ pc' = RouteAfter(result)

\* blocking_review_reasons.
ReviewReasons ==
  {s.code : s \in {s \in wf.signals : s.severity \in {"error", "blocking"}}}
  \cup (IF scratch.match = None THEN {} ELSE {scratch.match.reason} \ {None})

Coordinate ==
  LET result == IF ReviewReasons = {}
                THEN Result(Review, "succeeded", <<Handoff(Review, Insight, "control")>>)
                ELSE Result(Review, "review_required", <<>>)
  IN  /\ Await(Review)
      /\ scratch' = [scratch EXCEPT !.review = ReviewReasons # {}]
      /\ Recorded(result, wf.signals)
      /\ pc' = RouteAfter(result)

ProduceInsights ==
  LET result == Result(Insight, "succeeded", <<>>)
  IN  /\ Await(Insight)
      /\ scratch' = [scratch EXCEPT !.insights = TRUE]
      /\ Recorded(result, wf.signals)
      /\ pc' = RouteAfter(result)

-----------------------------------------------------------------------------
(* What the drivers do between agents.                                       *)

\* _retry_gate_node takes the first correction QA asked for.
RetryGate ==
  LET target == latest.handoffs[1].target
  IN  /\ pc = "retry_gate"
      /\ RetryRequested(target)
      /\ pc' = IF RetryAllowed(target) THEN target ELSE "done"
      /\ UNCHANGED <<job, scratch, results, latest>>

\* _request_retries_for_correction_handoffs; only the exhaustion scenario goes on,
\* and it repeats QA alone.
RequestRetries ==
  LET target == latest.handoffs[1].target
  IN  /\ pc = "request_retries"
      /\ RetryRequested(target)
      /\ pc' = IF job.scenario = "retry_exhaustion" /\ RetryAllowed(target)
               THEN QA ELSE "done"
      /\ UNCHANGED <<job, scratch, results, latest>>

\* The runner's last statement, whatever the business agents returned.
Complete ==
  /\ pc = "complete"
  /\ StatusUpdated([wf EXCEPT !.status = "completed", !.stage = "completed",
                              !.agent = Insight], run, None)
  /\ pc' = "done"
  /\ UNCHANGED <<job, scratch, results, latest>>

\* The ValueError of a lookup that finds nothing leaves the driver.
LoseHandoff ==
  /\ pc \in Agents /\ HandoffMissing(pc)
  /\ pc' = "raised"
  /\ UNCHANGED <<job, wf, run, scratch, results, latest, progress>>

Next == \/ AcceptDocument \/ AnalyzeLayout \/ FailLayout \/ ApplyPolicy
        \/ (\E a \in Extractors : ExtractGroup(a))
        \/ Assemble \/ Validate \/ Classify \/ Match \/ Coordinate \/ ProduceInsights
        \/ RetryGate \/ RequestRetries \/ Complete \/ LoseHandoff

Spec == Init /\ [][Next]_vars

\* The driver is one coroutine: it is resumed until it returns.
FairSpec == Spec /\ WF_vars(Next)

-----------------------------------------------------------------------------
(* Properties.                                                               *)

Retries == [Extractors -> Nat]

\* The control state keeps its shape: statuses, stages, counters and signals.
AgentTypeOK ==
  /\ job \in Jobs /\ Startable(job)
  /\ pc \in Agents \cup {"retry_gate", "request_retries", "complete", "done", "raised"}
  /\ wf.status \in Statuses /\ wf.stage \in Stages
  /\ wf.agent \in Agents \cup {None}
  /\ wf.completed \subseteq Agents
  /\ wf.retries \in Retries
  /\ \A s \in wf.signals : s.retryable <=> s.target # None
  /\ run.status = wf.status /\ run.agent = wf.agent /\ run.retryCount \in Nat
  /\ DOMAIN scratch.groups = Extractors
  /\ \A a \in Agents : results[a] # None => results[a].agent = a

Business == BusinessAgents \cup {"complete"}

\* Whatever was extracted, merged, corrected or taken from the provider, the business
\* agents work on the very groups that QA validated, and on none with an open signal.
ValidatedBeforeBusiness == pc \in Business =>
  /\ scratch.draft = scratch.groups
  /\ QASignals(scratch.draft, PartyRegions) = {}
  /\ wf.signals = {}

\* The proposed category belongs to the draft that was validated: a rule that its
\* words satisfy is never overruled by the model, the model only chooses from the
\* taxonomy, and the direction is that of the category, whoever chose it.
ClassificationSupported == scratch.classified # None =>
  LET made == scratch.classified
      ruled == ClassifyByRules(InvoiceInput(scratch.draft))
  IN  /\ ruled.confidence \in {"medium", "high"} => made = ruled
      /\ made = ruled \/ made.code \in DOMAIN Taxonomy
      /\ made.direction = "income" <=>
           \/ made.code \in DOMAIN Taxonomy /\ Taxonomy[made.code] = "revenue"
           \/ \E i \in DOMAIN DefaultRules : /\ DefaultRules[i].code = made.code
                                            /\ DefaultRules[i].type = "revenue"

\* The row counts every retry, and a workflow is dead-lettered exactly when the
\* retries of the corrected extractor exceed the budget.
RetryBudget ==
  /\ run.retryCount = wf.retries[Metadata] + wf.retries[Table] + wf.retries[Totals]
  /\ run.retryCount <= job.maxRetries + 1
  /\ wf.status = "dead_lettered" <=> run.retryCount > job.maxRetries

\* "should not retry full invoice extraction when one bounded region is responsible":
\* a correction re-extracts its target, and another group only when that is low.
CorrectionTargeted == [][\A a \in Extractors :
  /\ run.retryCount > 0
  /\ scratch'.groups[a] # scratch.groups[a]
  => \/ CorrectionSignal(a) \in wf.signals
     \/ scratch.groups[a].confidence = "low"]_vars

\* Where a driver ends: the status tells what became of the document.  The adapter
\* leaves a validated document running; a signal that was injected is never
\* withdrawn, so a workflow that was asked to correct is never completed.
FinalOutcome ==
  /\ pc = "done" =>
       /\ wf.status = "failed" <=> scratch.reading = None
       /\ wf.status \in {"retrying", "dead_lettered"} <=> run.retryCount > 0
       /\ wf.status = "completed" =>
            job.driver \in {"custom", "graph"} /\ QA \in wf.completed
       /\ wf.status = "running" =>
            CASE job.driver \in {"adapter", "fallback"} -> QA \in wf.completed
              [] OTHER -> job.driver = "prepare" /\ Privacy \in wf.completed
       /\ wf.status = "retrying" => job.scenario = "failed_validation"
  \* Only the fallback driver loses a handoff: correcting metadata or the table.
  /\ pc = "raised" =>
       job.driver = "fallback" /\ job.injected \in {Metadata, Table}

\* A client's progress bar goes back only for a correction.
ProgressNeverFalls ==
  [][run'.retryCount = 0 => progress'.percent >= progress.percent]_vars

\* "Route clean records to insights or stop for human review": a decision for review
\* is what the workflow ends with.
ReviewDecisionKept == pc = "done" /\ scratch.review = TRUE => wf.status = "review_required"

Phase == CASE pc \in PreparationAgents                     -> "prepare"
           [] pc \in Extractors \cup {Assembly}            -> "extract"
           [] pc = QA                                      -> "validate"
           [] pc \in {"retry_gate", "request_retries"}     -> "correct"
           [] pc \in Business                              -> "business"
           [] OTHER                                        -> "ended"

Pipeline == INSTANCE AgentPipeline
              WITH phase <- Phase, spent <- run.retryCount, limit <- job.maxRetries

\* All drivers implement the pipeline; in particular each comes to an end, and the
\* correction loop cannot go on for ever.
PipelineSpec == Pipeline!PipelineSpec
=============================================================================
