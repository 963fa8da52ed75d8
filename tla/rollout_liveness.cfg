SPECIFICATION FairSpec
CONSTANTS
    Deployments = {1, 2, 3, 4, 5, 6, 7}
    Members = {1, 2}
    TargetOf <- Alternating
    DeployOrder <- TwoFirst
    DeployOrdered = TRUE
    Jobs = {1, 2}
    Singles = {7}
    MaxPushes = 0
    Faults = {"build", "panic"}
CHECK_DEADLOCK FALSE
PROPERTIES
    RolloutEnds
