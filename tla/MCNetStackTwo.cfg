SPECIFICATION OpenSpec
CONSTANTS
    Conns = {c1, c2}
    Up = 2
    Down = 0
    SendMax = 2
    MaxPending = 1
    TxBuf = 1
    RxBuf = 1
    AppQueue = 1
    MaxRecvChunks = 2
INVARIANTS DeferredOnlyWhenFull
PROPERTIES DeferredDrains
CHECK_DEADLOCK FALSE
