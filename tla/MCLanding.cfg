SPECIFICATION BothSpec
CONSTANTS
    Workspace = {w1, w2}
    Request = {r1, r2}
    none = none
    MaxCommits = 2
    MaxRequests = 3
    MaxFailures = 1
    PR = {w1, w2}
    NoPR = noPR
    Worker = {r1, r2}
    Request2 = {q1}
    MaxWorkspaces = 3
    MaxHead = 2
    MaxActs = 2
    MaxRequests2 = 1
SYMMETRY Symmetry
CHECK_DEADLOCK FALSE
INVARIANTS LandedIsOnTrunk CachedHeadIsOnTrunk ChangesMirrorCommits CachesRight
           ArchivedWhenMerged OneDraft QuietAgrees TrunkCatchesUp
PROPERTIES TrunkOnlyGrows
