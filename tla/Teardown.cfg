CONSTANTS
    p1 = p1
    p2 = p2
    Procs = {p1, p2}
    Readers = {p1, p2}
    Senders = {p1}
    Kinds = {"leave", "force"}
    MaxSends = 1
    MaxTries = 2
SPECIFICATION FairSpec
INVARIANTS
    TypeOK
    ReceiverInMappedSegment
    SleeperHasToken
PROPERTIES
    DeletedIsUnmapped
CHECK_DEADLOCK FALSE
