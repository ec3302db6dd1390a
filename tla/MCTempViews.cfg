SPECIFICATION BothSpec
CONSTANTS
    Process = {p1, p2}
    View = {v1, v2, v3}
    Workspace = {w1}
    Trunk = trunk
    none = none
    MinPool = 1
    MaxJobs = 2
    MaxForeign = 1
    MaxFailures = 1
    Thread = {v1, v2, v3}
    Trunk2 = trunk2
    View2 = {v}
    Branch = {b1, b2}
    Offered = {"openWorkspace", "diffsFromView", "snapshotOnView", "syncOnTrunk", "syncResolve", "landChange", "deleteSnapshot", "viewFs", "pullRemote", "receivePack", "welcomeMessage"}
SYMMETRY Symmetry
CHECK_DEADLOCK FALSE
INVARIANTS UsedByItsJob PoolBounded FindsOwnEdits LocksExclude InExpectedState NoCircularWait
