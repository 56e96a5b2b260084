CONSTANTS
    p1 = p1
    p2 = p2
    Procs = {p1, p2}
    Readers = {p1, p2}
    Senders = {p1, p2}
    Kinds = {"leave"}
    MaxSends = 0
    MaxTries = 1
SPECIFICATION FairSpec
PROPERTIES
    StopReturns
CHECK_DEADLOCK FALSE
