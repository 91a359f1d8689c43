SPECIFICATION LiveSpec
CONSTANTS
    Rows = {r1, r2, r3}
    Closers = {k1, k2}
    NoRow = NoRow
    Cap = 1
INVARIANTS NoSendOnClosed Accounted
PROPERTIES KeepsPromise CloseReturns RecordReturns RowSettles
CHECK_DEADLOCK FALSE
