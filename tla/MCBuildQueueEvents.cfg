SPECIFICATION BothSpec
CONSTANTS
    Change = {c1}
    NoChange = none
    Subscriber = subscriber
    NoChannel = noChannel
    Integrations = 1
    BufferSize = 1
    Batch = 1
    MaxReceive = 1
    MaxFaults = 0
    User = {u}
    Client = {k1}
    Of <- MCOf
    Kinds = {"workspace", "diffs", "review"}
    View = {v1, v2}
    Writer = {w1, w2}
    None = noValue
    QueueCap = 1
    ChanCap = 1
    MaxWrites = 3
    MaxConnects = 1
    MaxFaults2 = 1
SYMMETRY Symmetry
CHECK_DEADLOCK FALSE
INVARIANTS ShownIsCurrent
