SPECIFICATION Spec
CONSTANTS
    Users = {"update", "aether"}
    Polled = {"update", "aether"}
    Requests = {r1}
    Pids = {p1, p2}
    NoPid = NoPid
    Empty = Empty
    Killed = {"request", "work"}
PROPERTIES LockReclaimed
CHECK_DEADLOCK FALSE
