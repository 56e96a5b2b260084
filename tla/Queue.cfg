CONSTANTS
    p1 = p1
    p2 = p2
    c1 = c1
    Producers = {p1, p2}
    Consumers = {c1}
    Capacity = 2
    MaxPush = 5
SPECIFICATION FairSpec
INVARIANTS
    TypeOK
    NodeExclusive
PROPERTIES
    ImplementsTaskQueue
    EveryItemIsPopped
