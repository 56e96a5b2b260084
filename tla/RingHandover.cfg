CONSTANTS
    s1 = s1
    s2 = s2
    Senders = {s1, s2}
    ReaderSlots = {0}
    Registered = {0}
    SlotCount = 3
    MaxSlice = 2
    Needs = {1}
    SeqSpan = 64
    MaxTail = 5
    Timely = TRUE
    FlagValues <- NoFlags
    Limit <- Alloc1
SYMMETRY Symmetric
SPECIFICATION HandoverSpec
INVARIANTS
    ReadsOnlyCommitted
CHECK_DEADLOCK FALSE
