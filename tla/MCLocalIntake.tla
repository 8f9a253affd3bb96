--------------------------- MODULE MCLocalIntake ---------------------------
(* Files with the two workflows, and one without a workflow.               *)
EXTENDS LocalIntake

File(content, type) == [content |-> content, type |-> type]

MCFiles == {File("invoice.pdf", "invoice"), File("statement.csv", "bank_statement"),
            File("letter.pdf", "other")}

AllFaults == {"storage_error", "dispatch_error", "claim_error", "beat_error",
              "mark_error", "requeue", "restart"}
=============================================================================
