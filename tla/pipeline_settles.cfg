SPECIFICATION FairSpec
CONSTANTS
    Deployments = {1, 2, 3, 4}
    Targets = {"web", "api"}
    TargetOf <- TwoTargets
    Rollouts = {2}
    MaxBuilds = 1
    Mode = "docker"
    Faults = {"build", "domain"}
CHECK_DEADLOCK FALSE
INVARIANTS
    LiveMeansSwapped
    NoStrayContainers
PROPERTIES
    FailureKeepsPriorServing
    EveryDeploySettles
