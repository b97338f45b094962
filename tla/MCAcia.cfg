SPECIFICATION Spec
CONSTANTS
    SciBits = 2
    Controls <- MCControls
    CpuBytes <- MCCpuBytes
    KeyBytes <- MCKeyBytes
    MaxOut = 1
INVARIANTS
    TypeOK
    IrqFollowsCauses
PROPERTIES
    OverrunIsTold
    CommandsCarried
    KeysCarried
    BytesAreTaken
