SPECIFICATION Spec
CONSTANTS
    MFP_INT_MAX = 1
    Banks <- MCBanks
    IrqDelay = 1
    IackCycles = 1
    InstrCycles <- MCInstrCycles
    Never = 9
    MaxClock = 4
INVARIANTS
    PendingIsEnabled
    SignalIsARequest
    IrqTimeIsPast
PROPERTIES
    NestingIncreases
