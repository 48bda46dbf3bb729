SPECIFICATION Spec
CONSTANTS
    Users = {"update"}
    Polled = {"update"}
    Requests = {r1}
    Pids = {p1, p2, p3}
    NoPid = NoPid
    Empty = Empty
    Killed = {}
INVARIANTS Exclusive
CHECK_DEADLOCK FALSE
