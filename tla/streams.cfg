SPECIFICATION StreamsSpec
CONSTANTS
    s1 = s1
    Sessions = {s1}
    Rank <- Speaker
    Limits = {2}
    PinLimits = {0}
    MaxSaid = 3
    None = None
    PageSize = 1
    PaneLimit = 3
    ChannelBound = 1
    WindowBound = 1
    MaxSwitches = 1
INVARIANTS
    ReplayInOrder
    NoGap
    
    KeyframeIsComing
CHECK_DEADLOCK FALSE
