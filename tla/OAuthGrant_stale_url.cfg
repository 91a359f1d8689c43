SPECIFICATION ConnectedSpec
CONSTANTS
    Callers = {c1}
    Admins = {a1}
    Remote = {}
    Urls = {uA, uB}
    NoProc = NoProc
    Life = 2
    Window = 1
    HoldOff = 1
    MaxTime = 1
    MaxSerial = 2
    MaxStamp = 2
    MaxRestarts = 0
INVARIANT PresentedWhereMinted
CHECK_DEADLOCK FALSE
