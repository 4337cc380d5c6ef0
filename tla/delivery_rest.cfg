SPECIFICATION Spec
CONSTANTS
    GD = {1, 2}
    NonGD = {3, 4}
    NoMsg = NoMsg
    Key <- LastAlone
    Batches <- TwoBatches
    Expirable = {1}
    Tools = {t1, t2}
    EndpointType = "rest"
    MaxFaults <- AllFaults
CHECK_DEADLOCK FALSE
SYMMETRY ToolSymmetry
INVARIANTS
    TypeOK
    GDNotLost
    NonGDNotLost
    ListsSorted
    TaskAlive
