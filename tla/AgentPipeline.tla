--------------------------- MODULE AgentPipeline ---------------------------
(***************************************************************************)
(* What the controlled agent workflow promises, whichever driver runs it: a  *)
(* document is prepared, extracted and validated; only a validated draft     *)
(* reaches the business agents; a correction is tried as often as the budget *)
(* allows and the document is given up on exactly when it is spent.          *)
(***************************************************************************)
EXTENDS Naturals

VARIABLES phase,     \* where the document is
          spent,     \* retries requested so far
          limit      \* the budget

Phases == {"prepare", "extract", "validate", "correct", "business", "ended"}

PipelineInit == phase = "prepare" /\ spent = 0 /\ limit \in Nat

Move(from, to) == phase = from /\ phase' = to /\ UNCHANGED <<spent, limit>>

\* Preparation leads to extraction, or ends when the document cannot be read.
Prepared == Move("prepare", "extract") \/ Move("prepare", "ended")

\* Extraction leads to validation, or the driver loses its way.
Extracted == Move("extract", "validate") \/ Move("extract", "ended")

\* Validation approves, asks for a correction, or hands over to a person.
Judged == \E to \in {"business", "correct", "ended"} : Move("validate", to)

\* Within the budget a correction goes back to an extractor, or to validation;
\* the caller may also leave the next attempt to a later run.
Corrected == /\ phase = "correct"
             /\ spent < limit
             /\ spent' = spent + 1
             /\ phase' \in {"extract", "validate", "ended"}
             /\ UNCHANGED limit

GivenUp == /\ phase = "correct"
           /\ spent = limit
           /\ spent' = spent + 1
           /\ phase' = "ended"
           /\ UNCHANGED limit

Finished == Move("business", "ended")

PipelineNext == \/ Prepared \/ Extracted \/ Judged \/ Corrected
                \/ GivenUp \/ Finished

PipelineSafety == PipelineInit /\ [][PipelineNext]_<<phase, spent, limit>>

\* Every document comes to an end.
PipelineSpec == PipelineSafety /\ <>(phase = "ended")
=============================================================================
