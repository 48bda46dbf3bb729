SPECIFICATION Spec
CONSTANTS
    Plans = {"tproxy"}
    Ports = {"tproxy", "socks", "dns"}
    Checks = 3
    Failures = {}
INVARIANTS RedirectTakenOut
