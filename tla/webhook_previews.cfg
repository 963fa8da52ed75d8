SPECIFICATION Spec
CONSTANTS
    Branches = {"main", "feature"}
    Main = "main"
    AutoProduction = TRUE
    MaxDeliveries = 2
    Handlers = {11, 12, 21}
    DeliveryOf <- TenthOf
    Deployments = {1, 2, 3}
    Faults = {"db", "host", "build", "crash"}
    MaxFailures = 1
CHECK_DEADLOCK FALSE
INVARIANTS
    OneDeploymentPerDelivery
    ClaimsAccounted
    LatestShips
PROPERTIES
    TeardownLeavesNothing
