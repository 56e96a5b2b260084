CONSTANTS
    d = d
    b = b
    x = x
    Daemon = d
    Procs = {b, x}
    Boot = {b}
    Order <- Listed
    MaxDeaths = 3
    MaxFails = 1
SPECIFICATION FairSpec
INVARIANTS
    TypeOK
    OpenedIsReady
    BootFindsInboxes
PROPERTIES
    StartupCompletes
CHECK_DEADLOCK FALSE
