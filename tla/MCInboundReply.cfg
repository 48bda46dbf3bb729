SPECIFICATION Spec
CONSTANTS
    c1 = c1
    c2 = c2
    Clients <- MCClients
    Asks <- MCAsks
    MaxClients = 1
    MaxSent <- Two
    MaxAnswer <- Two
    Linger = 1
INVARIANT OneReply
