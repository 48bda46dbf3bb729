SPECIFICATION CoreSpec
CONSTANTS
    Users = {"update", "aether", "geo"}
    Polled = {}
    Requests = {r1, r2}
    Pids = {p1, p2}
    NoPid = NoPid
    Empty = Empty
    Killed = {"request", "worker"}
    First = First
    NoRelease = NoRelease
    MaxVersion = 3
INVARIANTS TypeOK CoreTypeOK Exclusive ActiveWhole
PROPERTIES FailureHarmless NeverOlder ServiceKept
SYMMETRY Symmetry
CHECK_DEADLOCK FALSE
