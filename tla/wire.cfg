SPECIFICATION Spec
CONSTANTS
    Bits = 8
    ShiftUp = 1
    ShiftDown = 2
    SubcellRounds = 2
    Delta = 9
    RoundKeys = 4
    Shapes <- MCShapes
    Blocks <- MCBlocks
    Edges = {0, 129, 255}
    Amounts = {0, 1, 255}
    Area = 3
    MaxChunk = 7
    MaxFed = 11
    CellBytes = 2
    Lengths = {0, 3, 7}
    MaxFrames = 2
    MaxFaults = 2
    Clients = {"a", "b"}
    Speakers = {"a"}
    Channels = {"x", "y"}
    First = "x"
    MaxCalls = 1
    MaxSent <- SentBound
    MaxGot <- GotBound
INVARIANTS
    LayersAreRight
    WhatIsSealedOpens
    OpenedIsSealed
    PlayedOnce
    CallIsPursued
PROPERTIES
    KeepsPromise
CHECK_DEADLOCK FALSE
