SPECIFICATION Spec
CONSTANTS
    Tabs = {"t1", "t2"}
    Slots = {1, 2}
    MaxTokens = 3
    Rows <- Kinds
    Projects = {"p", "q"}
    Saves = {1, 2}
    MaxVersion = 2
    MaxFailures = 1
    Repos = {"one", "many"}
    Branches = {"main", "dev"}
    DefaultBranch = "main"
    Contents <- Inspections
    MaxInspections = 2
    MaxEdits = 2
    LogMembers = {"web"}
    LogBranches = {"dev"}
    LogLimit = 2
    MaxLogTabs = 2
    MaxStreams = 2
    MaxLines = 3
INVARIANTS
    TypeOK
    
    
    OneSessionPerLogin
    TypedKept
    LinesOfTarget
PROPERTIES
    
    RequestsEnd
CHECK_DEADLOCK FALSE
