SPECIFICATION FairSpec
CONSTANTS
    GD = {1, 2}
    NonGD = {3, 4}
    NoMsg = NoMsg
    Key <- OddsEqual
    Batches <- Singles
    Expirable = {2}
    Tools = {t1}
    EndpointType = "rest"
    MaxFaults <- TransientFaults
CHECK_DEADLOCK FALSE
PROPERTIES
    NotifiedDelivered
