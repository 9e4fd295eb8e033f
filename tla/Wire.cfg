SPECIFICATION MCSpec
CONSTANTS
    Records <- AllRecords
    MaxEdits = 2
    Tails <- TailStrings
INVARIANTS
    
    
    SubmitsReadBack
CHECK_DEADLOCK FALSE
