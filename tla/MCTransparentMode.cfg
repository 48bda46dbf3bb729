SPECIFICATION CalmSpec
CONSTANTS
    Plans = {"off", "refused", "socks", "tproxy"}
    Ports = {"tproxy", "dns"}
    Checks = 2
    Failures = {"sing-box", "flash", "counters", "rules"}
INVARIANTS TypeOK DnsGivenBack
PROPERTIES BlipsForgiven ComesOn GoesOut
