SPECIFICATION Spec
CONSTANTS
    Deployments = {1, 2, 3}
    Targets = {"web"}
    TargetOf <- OneTarget
    Rollouts = {2}
    MaxBuilds = 1
    Mode = "host-port"
    Faults = {"build", "panic", "crash", "db"}
CHECK_DEADLOCK FALSE
PROPERTIES
    NeverUnserved
    ReconcileRestoresRoute
