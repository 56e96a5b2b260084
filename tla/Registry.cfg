CONSTANTS
    p1 = p1
    p2 = p2
    Procs = {p1, p2}
    Indices = {0, 1}
    UserRestarts = FALSE
    Limit <- AllOfAll
SPECIFICATION FairSpec
INVARIANTS
    TypeOK
    RegistryMatchesMask
    OpenMeansMember
PROPERTIES
    DeletedIsUnmapped
    ReceiverIsServed
CHECK_DEADLOCK FALSE
