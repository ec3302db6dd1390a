SPECIFICATION Spec
CONSTANTS
    Actor = {a1, a2}
    Title = {i1, i2}
    MaxEdits = 2
    MaxBuilds = 2
    MaxTriggers = 2
    MaxFaults = 1
SYMMETRY Symmetry
CHECK_DEADLOCK FALSE
INVARIANTS LandedWasBuilt OutcomeShown
