SPECIFICATION ConnectedSpec
CONSTANTS
    Callers = {c1}
    Admins = {a1, a2}
    Remote = {}
    Urls = {uA, uB}
    NoProc = NoProc
    Life = 2
    Window = 1
    HoldOff = 1
    MaxTime = 0
    MaxSerial = 1
    MaxStamp = 2
    MaxRestarts = 0
PROPERTY PatchLeavesUnnamedUrl
CHECK_DEADLOCK FALSE
