SPECIFICATION Spec
CONSTANTS
    Conns = {c1}
    Up = 1
    Down = 2
    SendMax = 1
    MaxPending = 1
    TxBuf = 1
    RxBuf = 2
    AppQueue = 1
    MaxRecvChunks = 2
INVARIANTS DownloadWhole
CHECK_DEADLOCK FALSE
