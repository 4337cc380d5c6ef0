SPECIFICATION FairSpec
CONSTANTS
    GD = {1}
    NonGD = {}
    NoMsg = NoMsg
    Key <- SameKeys
    Batches <- Singles
    Expirable = {}
    Tools = {t1, t2}
    EndpointType = "rest"
    MaxFaults <- StopOnly
CHECK_DEADLOCK FALSE
PROPERTIES
    StoredDelivered
