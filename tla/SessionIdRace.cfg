CONSTANTS
    Connections = {1, 2}
    MaxSessionId = 2
    Operations = {}
    MaxToken = 1
    MaxTime = 0
    ResumeWindow = 0
SPECIFICATION Spec
INVARIANT AcceptedSessionsAreDistinct
CHECK_DEADLOCK FALSE
