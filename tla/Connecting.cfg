CONSTANTS
    Platform = "unix"
    SessionIds = {1, 2, 3}
SPECIFICATION MCSpec
INVARIANTS
    
    RoutesKeepThePolicy
    NothingIsLeftOpen
PROPERTIES
    KeepsPromise
    
    OpensConclude
CHECK_DEADLOCK FALSE
