CONSTANTS
    s1 = s1
    s2 = s2
    Senders = {s1, s2}
    ReaderSlots = {0}
    Registered = {0}
    SlotCount = 3
    MaxSlice = 2
    Needs = {2}
    SeqSpan = 64
    MaxTail = 4
    Timely = TRUE
    FlagValues <- AllFlags
    Limit <- Readers1
SYMMETRY Symmetric
SPECIFICATION Spec
INVARIANTS
    TypeOK
    ReadsOnlyCommitted
    WritersDisjoint
    SleepersLagIsExplained
PROPERTIES
    ImplementsOrderedChannel
CHECK_DEADLOCK FALSE
