SPECIFICATION Spec
CONSTANTS
    Callers = {c1}
    Nets = {a, b}
    NoNet = none
    QueueLen = 24
    WaitLen = 5
    RetryLimit = 2
    RoamLimit = 2
    DhcpLimit = 1
    RetryWord = 8
    DhcpWord = 4
    Calls = {"connect", "post", "disconnect", "scan", "auto"}
    Env = {"drop", "roam"}
    MaxCalls = 2
    MaxEvents = 2
CHECK_DEADLOCK FALSE
INVARIANT SuccessMeansJoined
