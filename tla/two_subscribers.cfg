CONSTANTS
    p1 = p1
    p2 = p2
    s1 = s1
    s2 = s2
    m1 = m1
    m2 = m2
    m3 = m3
    Procs = {p1, p2}
    Subs = {s1, s2}
    Msgs = {m1, m2, m3}
    Batches <- MCBatches
    Nobody = Nobody
    MaxDepth = 2
    CheckFreq = 1
    BatchSize = 1
    Expiring = {m1}
    Parked = {}
    MaxOvertaken = 0
SPECIFICATION Spec
CHECK_DEADLOCK FALSE
INVARIANT EachSubscriberServed
