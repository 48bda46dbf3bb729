SPECIFICATION Spec
CONSTANTS
    Conns = {c1}
    Up = 3
    Down = 2
    SendMax = 2
    MaxPending = 1
    TxBuf = 1
    RxBuf = 1
    AppQueue = 1
    MaxRecvChunks = 1
INVARIANTS TypeOK UploadIntact DownloadIntact NoEarlyFin AnswerMatchesTable
PROPERTIES ResetLeavesFirst ConnectAnswered OrphanRemoved
CHECK_DEADLOCK FALSE
