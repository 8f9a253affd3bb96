--------------------------- MODULE MCReviewTasks ---------------------------
(* Instances of ReviewTasks for TLC.                                       *)
EXTENDS ReviewTasks, TLC

\* The slots are interchangeable: nothing names one.
Symmetry == Permutations(Reviewers)
=============================================================================
