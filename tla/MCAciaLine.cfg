SPECIFICATION LineSpec
CONSTANTS
    SciBits = 2
    Controls <- MCControls
    CpuBytes <- MCCpuBytes
    KeyBytes <- MCKeyBytes
    MaxOut = 1
    MidiControls <- MCMidiControls
INVARIANTS
    RequestIsLow
