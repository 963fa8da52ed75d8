SPECIFICATION Spec
CONSTANTS
    Deployments = {1, 2, 3}
    Targets = {"web"}
    TargetOf <- OneTarget
    Rollouts = {}
    MaxBuilds = 1
    Mode = "docker"
    Faults = {}
CHECK_DEADLOCK FALSE
PROPERTIES
    NeverUnserved
