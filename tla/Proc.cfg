CONSTANTS
    Slots = {1, 2}
    Boot = {1}
    Restart = {2}
    Fds = {1, 2, 3, 4}
    EventFd = 9
    MaxEventsOnce = 2
    Limits <- FewOfEach
SPECIFICATION FairSpec
INVARIANTS
    TypeOK
    WatchesMatchRecords
    ChildrenAreTracked
    CrashHandledOnce
    LiveReaderKeepsBit
PROPERTIES
    BootProcessComesBack
CHECK_DEADLOCK FALSE
