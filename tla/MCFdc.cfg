SPECIFICATION FairSpec
CONSTANTS
    d0 = d0
    Drives = {d0}
    NoDrive = NoDrive
    Commands <- AllOperations
    Values = {1}
    RegMax = 2
    MaxTrack = 1
    DiskTracks = 1
    Sectors = 1
    SpinUpPulses = 1
    AddressPulses = 1
    MotorOffPulses = 1
    SectorBytes = 1
    IdBytes = 1
    TrackBytes = 1
    Protections = {TRUE, FALSE}
    AcsiEmuOn = TRUE
    MaxPulses = 1
INVARIANTS   PulsesOfSpinningDisk
PROPERTIES EndRequestsInterrupt RequestsAreKept ReplaceableHasNotActed CommandsEnd
