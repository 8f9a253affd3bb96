---------------------------- MODULE JobLifecycle ----------------------------
(***************************************************************************)
(* What the workflow queue promises about one submitted document,          *)
(* whatever queue, worker or dispatcher carries the job: it waits, is      *)
(* worked on, may be put back any number of times, and ends either         *)
(* materialized (its business output was committed, once) or abandoned.    *)
(* Output is committed only by work in progress, and an abandoned job is   *)
(* never worked on again.  Nothing here speaks of leases, attempts,        *)
(* events or messages: WorkflowJobs shows that its tables implement this.  *)
(***************************************************************************)
EXTENDS Naturals

CONSTANT Jobs

VARIABLES phase,    \* where each job stands
          effects   \* how many times each job's business output was committed

lifecycleVars == <<phase, effects>>

Phases == {"absent", "waiting", "working", "materialized", "abandoned"}

Init ==
    /\ phase = [j \in Jobs |-> "absent"]
    /\ effects = [j \in Jobs |-> 0]

Move(j, from, to) ==
    /\ phase[j] \in from
    /\ phase' = [phase EXCEPT ![j] = to]

Submit(j) == Move(j, {"absent"}, "waiting") /\ UNCHANGED effects

Start(j) == Move(j, {"waiting"}, "working") /\ UNCHANGED effects

PutBack(j) == Move(j, {"working"}, "waiting") /\ UNCHANGED effects

Materialize(j) ==
    /\ Move(j, {"working"}, "materialized")
    /\ effects' = [effects EXCEPT ![j] = @ + 1]

Abandon(j) == Move(j, {"waiting", "working"}, "abandoned") /\ UNCHANGED effects

Next == \E j \in Jobs :
    Submit(j) \/ Start(j) \/ PutBack(j) \/ Materialize(j) \/ Abandon(j)

Spec == Init /\ [][Next]_lifecycleVars
=============================================================================
