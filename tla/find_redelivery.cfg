SPECIFICATION Spec
CONSTANTS
    Branches = {"main", "feature"}
    Main = "main"
    AutoProduction = FALSE
    MaxDeliveries = 2
    Handlers = {11, 12, 21}
    DeliveryOf <- TenthOf
    Deployments = {1, 2}
    Faults = {}
    MaxFailures = 1
CHECK_DEADLOCK FALSE
PROPERTIES
    RedeliveryIsHarmless
