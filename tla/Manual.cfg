SPECIFICATION FairSpec
CONSTANTS
    None = None
    s1 = s1
    p = p
    q = q
    e1 = e1
    o1 = o1
    t1 = t1
    t2 = t2
    Subjects <- OneRow
    Payloads <- TwoCalls
    Engines <- OneLoop
    Drives <- DrivesAll
    Operators <- OneOperator
    Runs <- AnyCommand
    TxIds <- TwoTxs
    MaxNonce = 1
    Custodies <- BothCustodies
INVARIANTS
    ReservationRemembered
    ConfirmedMeansExecuted
    SuccessIsNotFailed
PROPERTIES
    ImplementsLifecycle
    ReportIsSettled
CHECK_DEADLOCK FALSE
