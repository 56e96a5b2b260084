CONSTANTS
    p1 = p1
    p2 = p2
    Procs = {p1, p2}
    Readers = {p1}
    Senders = {p1, p2}
    Kinds = {"force"}
    MaxSends = 1
    MaxTries = 2
SPECIFICATION Spec
INVARIANTS
    SenderInMappedSegment
CHECK_DEADLOCK FALSE
