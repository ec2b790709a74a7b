SPECIFICATION FairSpec
CONSTANT MaxCalls = 3
INVARIANTS
    TypeOK
    NeverStranded
    DialogShowsLoss
PROPERTIES
    Recovers
CHECK_DEADLOCK FALSE
