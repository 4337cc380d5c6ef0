SPECIFICATION Spec
CONSTANTS
    GD = {1, 2}
    NonGD = {3, 4, 5}
    NoMsg = NoMsg
    Key <- LastAlone
    Batches <- ThreeBatches
    Expirable = {}
    Tools = {t1}
    EndpointType = "wsx"
    MaxFaults <- AllFaults
CHECK_DEADLOCK FALSE
PROPERTIES
    ImplementsGDQueue
INVARIANTS
    NonGDNotLost
