SPECIFICATION Spec
CONSTANTS
    Size = 3
    Bytes = {b1, b2}
    NoByte = none
    MaxMessage = 3
INVARIANTS
    CountInBounds
PROPERTIES
    FifoUntilMet
    
    CallsEnd
