SPECIFICATION Spec
CONSTANTS
    f1 = f1
    f2 = f2
    x = x
    y = y
    File = {f1, f2}
    Content = {x, y}
    FirstTree <- MCFirstTree
    Absent = absent
    Marked = marked
    None = none
    MaxTrunk = 2
    MaxEdits = 2
    MaxDeaths = 1
CHECK_DEADLOCK FALSE
INVARIANTS DraftIsOwnEdits NothingGone
PROPERTIES RebaseEnds
