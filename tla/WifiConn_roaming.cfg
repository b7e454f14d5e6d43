SPECIFICATION FairSpec
CONSTANTS
    Callers = {c1}
    Nets = {a, b}
    NoNet = none
    QueueLen = 24
    WaitLen = 5
    RetryLimit = 2
    RoamLimit = 2
    DhcpLimit = 1
    RetryWord = 8
    DhcpWord = 4
    Calls = {"connect", "post", "disconnect", "scan", "auto"}
    Env = {"drop", "roam"}
    MaxCalls = 2
    MaxEvents = 1
CHECK_DEADLOCK FALSE
INVARIANTS TimersMatchState DhcpTimerOwned DisconnectAnswered
PROPERTY AttemptResolves
