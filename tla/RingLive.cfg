CONSTANTS
    s1 = s1
    s2 = s2
    Senders = {s1, s2}
    ReaderSlots = {0, 1}
    Registered = {0, 1}
    SlotCount = 3
    MaxSlice = 2
    Needs = {1}
    SeqSpan = 64
    MaxTail = 3
    Timely = TRUE
    FlagValues <- NoFlags
    Limit <- Crash1
SPECIFICATION FairSpec
INVARIANTS
    WindowBound
PROPERTIES
    RecvReturns
    EveryClaimIsConsumed
    ImplementsOrderedChannel
