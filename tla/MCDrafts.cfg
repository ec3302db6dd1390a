SPECIFICATION BothSpec
CONSTANTS
    Workspace = {w1, w2, w3}
    View = {v1, v2}
    Edit = {e1}
    Request = {r1}
    Worker = worker
    none = none
    MaxRequests = 3
    MaxFailures = 1
    Workspace2 = {o, s}
    Original = o
    Request2 = {v1, v2}
    Collector = {c1}
    Edit2 = {1, 2}
    MaxSnapshots = 2
    MaxRequests2 = 4
    MaxPasses = 1
    MaxFailures2 = 1
SYMMETRY Symmetry
CHECK_DEADLOCK FALSE
INVARIANTS LinkedIsCheckedOut UsedIsKept LiveOnTrunk MarksAreTrue
PROPERTIES OverwritesOnlyRacedEdits
