SPECIFICATION FairSpec
CONSTANTS
    s1 = s1
    s2 = s2
    u1 = u1
    u2 = u2
    u3 = u3
    h1 = h1
    h2 = h2
    n1 = n1
    Sessions = {s1}
    Uids = {u1, u2}
    Contents = {h1, h2}
    Names = {n1}
    MaxUploads = 1
    MaxRecords = 1
    None = None
CHECK_DEADLOCK FALSE
INVARIANTS
    
    Tidy
PROPERTIES
    RemovalEndsTransfers
