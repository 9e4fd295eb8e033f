CONSTANTS
    SessionIds = {s1}
    MaxTransports = 2
    MaxArrived = 2
    MaxCommands = 2
    MaxPending = 2
    Overlapping = FALSE
    CarrierCapacity = 2
    WritingCallers = 2
    MaxLoad = 5
SPECIFICATION MCSpec
INVARIANTS
    OpenIsRegistered
    DeliveredInOrder
    SiblingsLearnOfFailure
    
PROPERTY DriversMakeProgress
CHECK_DEADLOCK FALSE
