SPECIFICATION Spec
CONSTANTS
    Crates <- AllCrates
    Half = 8
    OverflowChecks = FALSE
    Depths = {30}
    Samples = {0, 1, 2}
INVARIANTS
    TypeOK
    ResultIsExact
    MeaningPreserved
    Chained
    HandlersInOrder
    ResumeAnswersItsRaise
CHECK_DEADLOCK FALSE
