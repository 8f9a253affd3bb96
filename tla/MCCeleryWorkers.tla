-------------------------- MODULE MCCeleryWorkers --------------------------
(* Host assignments and fault sets for the TLC runs of CeleryWorkers.       *)
EXTENDS CeleryWorkers, TLC

CONSTANTS p1, p2, h1, h2

OneHost == [w \in {p1, p2} |-> h1]
TwoHosts == (p1 :> h1) @@ (p2 :> h2)

NoFaults == {}
AllFaults == {"claim_error", "beat_error", "mark_error", "retry_error", "child_crash",
              "container_crash", "redelivery", "loss", "dispatch_crash", "requeue"}
=============================================================================
