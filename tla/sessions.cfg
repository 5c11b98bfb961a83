SPECIFICATION Spec
CONSTANTS
    c1 = c1
    c2 = c2
    u1 = u1
    u2 = u2
    Conns = {c1, c2}
    Users = {u1, u2}
    Watchdog = Watchdog
    None = None
    Rank <- OwnerAndUser
    Ip <- OneIp
    VoiceChat = TRUE
    KeepaliveEvery = 2
SYMMETRY ConnSymmetry
INVARIANTS
    TornDownOnce
PROPERTIES
    OrderlyLives
