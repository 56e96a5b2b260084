CONSTANTS
    c1 = c1
    c2 = c2
    k1 = k1
    Callers = {c1, c2}
    Controllers = {k1}
    Ops <- TimersAndFds
    Fds = {1}
    EventFd = 9
    UserFd = 8
    Capacity = 2
    MaxEventsOnce = 2
    MaxOps = 3
    MaxStarts = 2
    MaxStops = 1
SPECIFICATION FairSpec
INVARIANTS
    TypeOK
    NoLostWakeup
    ElapsedIsReported
    StartsOneThread
PROPERTIES
    PostedIsRun
    StartTimerReturnsSoon
    StopEnds
CHECK_DEADLOCK FALSE
