CONSTANTS
    a = a
    b = b
    once = once
    twice = twice
    Ids = {once, twice}
    Names = {a, b}
    OneTime = {once}
    MaxRepeats <- MCMaxRepeats
    Nothing = Nothing
    MaxVersions = 2
    MaxEvents = 1
SYMMETRY Symmetry
SPECIFICATION Spec
CHECK_DEADLOCK FALSE
INVARIANTS
    TypeOK
    Current
    OneGreenlet
    RunsBounded
