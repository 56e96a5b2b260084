CONSTANTS
    Slots = {1, 2}
    Boot = {1}
    Restart = {}
    Fds = {1, 2, 3}
    EventFd = 9
    MaxEventsOnce = 2
    Limits <- TwoStarts
SPECIFICATION Spec
INVARIANTS
    OnlyDeadAreReported
CHECK_DEADLOCK FALSE
