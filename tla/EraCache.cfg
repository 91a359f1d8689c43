SPECIFICATION Spec
CONSTANTS
    Ids = {i1, i2}
    Callers = {c1, c2}
    None = None
    TTL = 3
    Retry = 2
    MaxEntries = 1
    MaxClock = 4
    MaxStamp = 2
SYMMETRY Symmetry
INVARIANTS TypeOK VerdictOfThisRow
PROPERTY ProbeFloor
