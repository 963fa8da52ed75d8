SPECIFICATION Spec
CONSTANTS
    Deployments = {1, 2, 3, 4, 5, 6}
    Members = {1, 2}
    TargetOf <- Alternating
    DeployOrder <- TwoFirst
    DeployOrdered = TRUE
    Jobs = {1, 2}
    Singles = {}
    MaxPushes = 1
    Faults = {}
CHECK_DEADLOCK FALSE
INVARIANTS
    RollbackRestoresCommits
