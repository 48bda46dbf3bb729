SPECIFICATION HSpec
CONSTANTS
    a = a
    b = b
    a443 = a443
    a500 = a500
    b443 = b443
    c443 = c443
    c = c
    Peers = {a443, a500, b443, c443}
    Ips = {a, b, c}
    IpOf <- MCIpOf
    NoPeer = NoPeer
    Named = {NoPeer, a443}
    Assigned = b443
    Carriers = {"masque-h3", "masque-h2"}
    Strikes = 3
    Rest = 3
    StayedUp = 2
    MaxCount = 4
    RecentCap = 2
INVARIANTS TypeOK RestRespected RingSound ForcedStays GatewayLeft
PROPERTIES KeepsPolicy NotHeldForGood
