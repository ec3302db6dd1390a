SPECIFICATION Spec
CONSTANTS
    User = {owner, a}
    Owner = owner
    Request = {r1, r2}
    None = none
    Mentions = {{}, {a}}
    MaxRequests = 3
    MaxLands = 2
    MaxFailures = 1
SYMMETRY Symmetry
CHECK_DEADLOCK FALSE
INVARIANTS LandingTakesAll ShownIsLast ConcernedAreTold
PROPERTIES NothingTakenBack
