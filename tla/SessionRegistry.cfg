CONSTANTS
    Connections = {1, 2}
    MaxSessionId = 2
    Operations = {}
    MaxToken = 2
    MaxTime = 0
    ResumeWindow = 0
SPECIFICATION Spec
INVARIANTS
    TokensAreSessionBound
    ActiveOnLiveConnection
PROPERTY TeardownIsOwn
CHECK_DEADLOCK FALSE
