SPECIFICATION FairSpec
CONSTANTS
    MaxStrays = 1
    MaxOffers = 3
    MaxSent = 4
    MaxTyped = 6
    MaxDials = 2
CHECK_DEADLOCK FALSE
INVARIANTS Agreed SeqAccepted
PROPERTIES NothingPassedOver RemovalIsNoticed
