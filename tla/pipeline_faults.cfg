SPECIFICATION Spec
CONSTANTS
    Deployments = {1, 2, 3}
    Targets = {"web"}
    TargetOf <- OneTarget
    Rollouts = {3}
    MaxBuilds = 1
    Mode = "docker"
    Faults = {"build", "domain", "docker", "panic", "timeout", "shutdown", "crash"}
CHECK_DEADLOCK FALSE
INVARIANTS
    SomeContainerSurvives
    CanonicalNameUnique
    AtMostOneLive
PROPERTIES
    LedgerSpec
