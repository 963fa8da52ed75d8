SPECIFICATION Spec
CONSTANTS
    Table <- Tools
    Offered <- OneOfEach
    Ids = {"p1", "p2"}
    Names = {"shop", "blog"}
    Selectors = {"p1", "shop", "nothing"}
    Built = {"p1"}
    InRepo = TRUE
    MaxAttempts = 2
    MaxChanges = 1
    MaxReleases = 2
    Files = {1, 2}
    Optional = {2}
    Foreign = {"a"}
    MaxRuns = 2
    MaxEdits = 2
    Attempts = 2
INVARIANTS
    AppliedAtMostOnce
    EffectsWereConfirmed
    EffectsAreAudited
    OwnReleaseReported
    OtherServersKept
    SuccessMeansServed
PROPERTY
    CallEnds
CHECK_DEADLOCK FALSE
