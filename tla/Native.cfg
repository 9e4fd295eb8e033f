SPECIFICATION MCSpec
CONSTANTS
    Threads = {t1, t2}
    Values = {v1, v2}
    MaxGen = 2
    MaxMade = 3
    Shutdowns = 2
    Opens <- TcpOpens
    Configs = {}
    Sizes <- NoPackets
    BatchBytes = {2}
    BatchFrames = {1}
SYMMETRY Symmetry
INVARIANTS
    HandlesNameTheirResource
    CarriersKeepTheirWord
    LeasesFollowTheirOwner
    ClientEventsNameTheirSubmit
    
 
CHECK_DEADLOCK FALSE
