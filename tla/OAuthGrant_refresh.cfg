SPECIFICATION ConnectedSpec
CONSTANTS
    Callers = {c1, c2}
    Admins = {a1}
    Remote = {}
    Urls = {uA}
    NoProc = NoProc
    Life = 2
    Window = 1
    HoldOff = 1
    MaxTime = 2
    MaxSerial = 3
    MaxStamp = 1
    MaxRestarts = 1
INVARIANTS TypeOK NoDoubleSpend
SYMMETRY Symmetry
CHECK_DEADLOCK FALSE
