SPECIFICATION FairSpec
CONSTANTS
    Thread = {t1, t2}
    Trunk = trunk
    View = {v}
    Branch = {b1, b2}
    Offered = {"repairView", "diffsFromView"}
CHECK_DEADLOCK FALSE
PROPERTY RestoredAfterwards
