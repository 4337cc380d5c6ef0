CONSTANTS
    A = A
    B = B
    A1 = A1
    B1 = B1
    B2 = B2
    r = r
    w = w
    Servers = {A, B}
    Procs = {A1, B1, B2}
    ServerOf <- MCServerOf
    BasePid <- MCBasePid
    First = {A1, B1}
    RESTKeys = {r}
    WSXKeys = {}
    Nobody = Nobody
    Gone = Gone
    NoPid = NoPid
    MaxSubscriptions = 1
    MaxMigrations = 1
    MaxOvertaken = 1
    MaxCrashes = 0
    MaxTroubles = 1
SPECIFICATION FairSpec
CHECK_DEADLOCK FALSE
PROPERTY LookupEnds
