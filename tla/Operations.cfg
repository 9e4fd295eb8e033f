SPECIFICATION MCSpec
CONSTANTS
    SessionIds = {s1, s2}
    OperationIds = {o1, o2, o3}
    GroupIds = {g1}
    Priorities = {}
    Instants = {}
    ControlSequences = {}
    None = None
SYMMETRY Symmetry
INVARIANTS
    ParentForest
    WorklistCollectsSubtree
PROPERTIES
    LateCallsChangeNothing
    
CHECK_DEADLOCK FALSE
