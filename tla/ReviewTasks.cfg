CONSTANTS
    Reviewers = {r1, r2}
    r1 = r1
    r2 = r2
    MaxDocuments = 1
    MaxImports = 1
    MaxDecisions = 3
SPECIFICATION Spec
INVARIANTS ReviewTypeOK OpenTargetsUndecided DecidedOnce VersionsLinear StatusExplained FollowUpsAudited
SYMMETRY Symmetry
CHECK_DEADLOCK FALSE
