CONSTANTS
    Reviewers = {r1, r2}
    r1 = r1
    r2 = r2
    MaxDocuments = 1
    MaxImports = 1
    MaxDecisions = 2
SPECIFICATION Spec
INVARIANT PreviousIsSuperseded
SYMMETRY Symmetry
CHECK_DEADLOCK FALSE
