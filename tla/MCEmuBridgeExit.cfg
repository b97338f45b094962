SPECIFICATION Spec
CONSTANTS
    Requests <- JustExit
    MaxQueue = 1
    MaxLoading = 1
PROPERTIES
    ExitQuits
