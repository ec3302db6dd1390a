SPECIFICATION Spec
CONSTANTS
    Workspace = {w1, w2}
    View = {v1, v2}
    Edit = {e1}
    Request = {r1}
    Worker = worker
    none = none
    MaxRequests = 2
    MaxFailures = 0
CHECK_DEADLOCK FALSE
PROPERTIES MoveKeepsContents
