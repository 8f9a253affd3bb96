CONSTANTS
    Calls = {c1, c2}
    Requests <- MCRequests
    Limit <- MCLimit
    Deployments <- MCDeployments
    MaxAttempts = 2
    MaxPolls = 1
    MaxResends = 1
    MaxTime = 3
SPECIFICATION FairSpec
INVARIANTS ProviderTypeOK BudgetHeld AttemptsArePaid CloudSanctioned
PROPERTY CallEnds
CHECK_DEADLOCK FALSE
