CONSTANTS
    Calls = {c1}
    Requests <- MCRequests
    Limit <- MCLimit
    Deployments <- MCDeployments
    MaxAttempts = 2
    MaxPolls = 0
    MaxResends = 1
    MaxTime = 3
SPECIFICATION Spec
INVARIANT SendsArePaid
CHECK_DEADLOCK FALSE
