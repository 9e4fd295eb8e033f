CONSTANTS
    SessionIds = {s1, s2}
    MaxTransports = 2
    MaxArrived = 2
    MaxCommands = 2
    MaxPending = 1
    Overlapping = FALSE
SPECIFICATION Spec
INVARIANT LatePacketKeepsConnection
CHECK_DEADLOCK FALSE
