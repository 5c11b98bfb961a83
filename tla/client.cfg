SPECIFICATION Spec
CONSTANTS
    Addresses = {"a", "b"}
    Tries = 2
    MaxAttempt = 3
    EventBound = 2
    h1 = h1
    Hashes = {h1}
    MaxFetches = 1
    PaneLines = 2
    MaxTokens = 2
    Clips = {"c1", "c2"}
    MaxFrames = 2
    MaxPlays = 2
    MaxRecords = 2
INVARIANTS
    CredentialsStayHome
    ReturnIsWanted
    
    SlotsComeBack
    ClipsFollowTheUser
 
CHECK_DEADLOCK FALSE
