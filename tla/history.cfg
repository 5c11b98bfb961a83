SPECIFICATION ServerSpec
CONSTANTS
    s1 = s1
    s2 = s2
    Sessions = {s1, s2}
    Rank <- UserAndModerator
    Limits = {0, 1, 2}
    PinLimits = {1}
    MaxSaid = 4
    None = None
    Sockets = {"s1", "s2", "s3"}
    Peer <- TwoPeers
    MaxPerIp = 2
    Budget = 2
    MaxClients = 2
    MaxUnauth = 2
    MaxIpClients = 1
    Tokens = {"k"}
INVARIANTS
    CheckedIsNamed
    RepliesStay
    SlotsAreCounted
