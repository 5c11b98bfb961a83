SPECIFICATION FairSpec
CONSTANTS
    c1 = c1
    c2 = c2
    u1 = u1
    u2 = u2
    Conns = {c1, c2}
    Users = {u1}
    Watchdog = Watchdog
    None = None
    Rank <- Plain
    Ip <- OneIp
    VoiceChat = FALSE
    KeepaliveEvery = 1
PROPERTIES
    TeardownFinishes
    UnservedIsReaped
