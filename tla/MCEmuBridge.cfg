SPECIFICATION Spec
CONSTANTS
    Requests <- SavesAndLoads
    MaxQueue = 1
    MaxLoading = 1
PROPERTIES
    CommandsRun
    
