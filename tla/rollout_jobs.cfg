SPECIFICATION Spec
CONSTANTS
    Deployments = {1, 2, 3, 4, 5, 6}
    Members = {1, 2}
    TargetOf <- Alternating
    DeployOrder <- TwoFirst
    DeployOrdered = TRUE
    Jobs = {1, 2}
    Singles = {5}
    MaxPushes = 1
    Faults = {"build", "panic", "db", "crash"}
CHECK_DEADLOCK FALSE
INVARIANTS
    OneRolloutAtATime
    HealthBarrier
    SucceededReleaseIsComplete
    AutoRollbackIsWhole
    LatestReleaseIsLive
