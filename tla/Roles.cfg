CONSTANTS
    Operations = {o1, o2}
    MaxFrame = 3
    Instants = {1, 2}
    MaxTime = 1
    MaxWire = 2
    ClientLimit = 2
    ServerLimit = 1
    None = None
    Parts = {"clientIndexes", "clientMessages", "serverIndexes", "serverMessages", "concluding"}
SPECIFICATION FairSpec
INVARIANTS
    RolesStayConsistent
    
    AnswersAreDue
PROPERTIES
    RefusalsChangeNothing
    SubmissionsConclude
CHECK_DEADLOCK FALSE
