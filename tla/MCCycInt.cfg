SPECIFICATION Spec
CONSTANTS
    MaxInterrupts = 3
    IntMax = 6
    CpuToInternal = 2
    MfpToInternal = 3
    InstrCycles <- MCInstrCycles
    Times <- MCTimes
    Adjustments <- MCAdjustments
    Adjustable <- MCAdjustable
    Removable <- MCRemovable
    MaxClock = 6
INVARIANTS
    ActiveIsEarliest
    
PROPERTIES
    
    ImplementsEventQueue
