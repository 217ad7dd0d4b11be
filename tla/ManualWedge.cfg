SPECIFICATION OperatedSpec
CONSTANTS
    None = None
    s1 = s1
    p = p
    q = q
    e1 = e1
    o1 = o1
    t1 = t1
    t2 = t2
    Subjects <- OneRow
    Payloads <- OneCall
    Engines <- OneLoop
    Drives <- DrivesAll
    Operators <- OneOperator
    Runs <- AnyCommand
    TxIds <- OneTx
    MaxNonce = 1
    Custodies <- SafeOnly
PROPERTIES ExecutionIsRecordable
CHECK_DEADLOCK FALSE
