SPECIFICATION InterfaceSpec
CONSTANTS
    Layout <- TwoGroups
    Toggles = {"open"}
    Top = 1
    MaxFlight = 2
    Default = ""
    Devices = {"", "d"}
    MaxCalls = 2
    MaxPicks = 2
    MaxPlugs = 1
    MaxAsked = 1
    MaxTold = 2
    Chars = {"a", "/", "nl"}
    MaxLen = 2
    MaxSent = 2
    Table <- ThreeCommands
    Vocabulary <- TwoColors
    Names <- TwoNames
    Letters <- FewWords
    MaxWords = 3
    Files = {"doc", "clip"}
    Made = {"clip"}
    Downloads = {"d1", "d2"}
    Chunks = 3
    MaxAsks = 3
    MaxEpoch = 2
INVARIANTS
    LockedIsPending
    ShownIsConfigured
    
    OfferFits
    
    ApprovalFindsFile
PROPERTIES
    LineComesBack
CHECK_DEADLOCK FALSE
