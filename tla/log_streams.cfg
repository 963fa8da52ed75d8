SPECIFICATION Spec
CONSTANTS
    Topics = {"d1", "d2", "domain"}
    Viewers = {"page", "call", "visit"}
    MaxBuffered = 1
    Headroom = 1
    Deployments = {"d1", "d2"}
    First = {"d1", "none"}
    Scanners = {"stderr"}
    Main = "main"
    Pages = {"page"}
    Tails = {"call"}
    ImageLines <- Output
    PageCap = 9
    MaxLines = 1
    LogFaults = {"drop", "refuse", "history"}
    Domains = {"domain"}
    Visits = {"visit"}
    MaxSessions = 2
    SocketFaults = {"drop", "refuse"}
CHECK_DEADLOCK FALSE
INVARIANTS
    TypeOK
    
    
    
PROPERTY FollowingEnds
