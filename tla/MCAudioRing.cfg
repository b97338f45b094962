SPECIFICATION RingSpec
CONSTANTS
    NumBufs = 3
INVARIANTS
    NeverFillsWhatPlays
    EnoughBuffers
    AtMostOneLost
PROPERTIES
    WaitsEnd
