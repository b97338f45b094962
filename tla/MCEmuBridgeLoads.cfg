SPECIFICATION Spec
CONSTANTS
    Requests <- AllButExit
    MaxQueue = 1
    MaxLoading = 2
INVARIANTS
    TypeOK
    NegativeIsClamped
