CONSTANTS
    Operations = {o1, o2}
    MaxFrame = 3
    Instants = {1, 2}
    MaxTime = 1
    MaxWire = 2
    ClientLimit = 2
    ServerLimit = 1
    None = None
    Parts = {"deadlines", "crossing", "messages", "answers", "pressure", "closing"}
SPECIFICATION MCSpec
SYMMETRY Symmetry
INVARIANTS
    DeadlineReachesOperation
    SubmissionsAreTaken
    BothEndsAgree
CHECK_DEADLOCK FALSE
