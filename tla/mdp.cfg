CONSTANTS
    s1 = s1
    s2 = s2
    r1 = r1
    r2 = r2
    r3 = r3
    r4 = r4
    c1 = c1
    c2 = c2
    DictOrder <- MCDictOrder
    Requests = {r1, r2, r3, r4}
    For <- MCFor
    Connections = {c1, c2}
    Serves <- MCServes
    PoolInitial = 1
    PoolMult = 1
    PoolMax = 2
    Nobody = Nobody
    MaxFaults = 2
SYMMETRY Symmetry
SPECIFICATION Spec
CHECK_DEADLOCK FALSE
INVARIANTS
    TypeOK
    PoolKept
    PickedUp
    HandledOnce
