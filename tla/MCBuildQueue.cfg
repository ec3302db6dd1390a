SPECIFICATION BothSpec
CONSTANTS
    Change = {c1, c2}
    NoChange = none
    Subscriber = subscriber
    NoChannel = noChannel
    Integrations = 2
    BufferSize = 1
    Batch = 2
    MaxReceive = 3
    MaxFaults = 2
    Of <- MCOf
    User = {u}
    Client = {k1}
    Kinds = {"workspace", "diffs", "review"}
    View = {v1}
    Writer = {w1}
    None = noValue
    QueueCap = 1
    ChanCap = 1
    MaxWrites = 2
    MaxConnects = 2
    MaxFaults2 = 0
CHECK_DEADLOCK FALSE
INVARIANTS EnqueuedIsKept
PROPERTIES EnqueuedIsBuilt BusesMoveOn LeftIsForgotten
