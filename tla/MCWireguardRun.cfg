SPECIFICATION Spec
CONSTANTS
    NoPeer = NoPeer
    Peers = {a, b, c, d}
    Named = {NoPeer, a}
    MaxFails = 2
    Cooldown = 4
    StayedUp = 2
    MaxCount = 4
INVARIANTS TypeOK
PROPERTIES KeepsPolicy ExclusionLapses NotHeldForGood
