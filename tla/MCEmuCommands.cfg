SPECIFICATION Spec
CONSTANTS
    Producers <- MCProducers
    Emu = "emu"
    MaxCommands = 2
INVARIANTS
    MutualExclusion
PROPERTIES
    ImplementsCommandQueue
    RunsInOrder
    
