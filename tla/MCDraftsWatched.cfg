SPECIFICATION WatchedSpec
CONSTANTS
    Workspace = {w1, w2, w3}
    View = {v1}
    Edit = {e1}
    Request = {r1}
    Worker = worker
    none = none
    MaxRequests = 3
    MaxFailures = 0
CHECK_DEADLOCK FALSE
PROPERTIES EditsReachASnapshot ImplementsDraftStore
