SPECIFICATION FairSpec
CONSTANTS
    v1 = v1
    k1 = k1
    None = None
    Viewers = {v1}
    Client <- OneSession
    VideoBound = 2
    Period = 3
INVARIANTS ShedIsHeard
PROPERTIES AttachedIsServed
