SPECIFICATION ConnectedSpec
CONSTANTS
    Callers = {c1}
    Admins = {a1, a2}
    Remote = {a2}
    Urls = {uA, uB}
    NoProc = NoProc
    Life = 1
    Window = 1
    HoldOff = 0
    MaxTime = 0
    MaxSerial = 2
    MaxStamp = 2
    MaxRestarts = 0
INVARIANT EndedGrantStaysEnded
PROPERTIES ConnectBindsToUrl DisconnectHitsItsGrant
SYMMETRY Symmetry
CHECK_DEADLOCK FALSE
