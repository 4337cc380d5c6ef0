SPECIFICATION Spec
CONSTANTS
    SubKeys = {k1, k2}
    m1 = m1
    m2 = m2
    m3 = m3
    Msgs = {m1, m2, m3}
    Batches <- SomeBatches
    NoKey = NoKey
    MaxDepth = 2
    Expiring = {m1, m2, m3}
    Unsubscribing = {k1, k2}
CHECK_DEADLOCK FALSE
SYMMETRY SubKeySymmetry
INVARIANTS
    TypeOK
    UnexpiredKept
    DepthBounded
PROPERTIES
    ImplementsQueues
    NothingLeaks
