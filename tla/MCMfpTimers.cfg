SPECIFICATION Spec
CONSTANTS
    Timers <- TimerA
    Registers <- RegisterA
    Controls <- ControlsA
    MFPDiv <- MCMFPDiv
    Counts = 4
    CpuToInternal = 2
    MfpToInternal = 3
    InstrCycles <- MCInstrCycles
    AccessCycles = 1
    Never = 40
    MaxClock = 24

    
    
PROPERTIES
    ExpiresInPhase
