SPECIFICATION LiveSpec
CONSTANTS
    Urls = {u1, u2}
    Grouped = TRUE
    MaxStamp = 3
    MaxSeal = 2
INVARIANTS TypeOK BaselineNeverDrifts
PROPERTIES RenameKeepsStream WrongStreamEnds
CHECK_DEADLOCK FALSE
