SPECIFICATION FairSSpec
CONSTANTS
    b1 = b1  b2 = b2  b3 = b3  b4 = b4
    x = x  y = y
    Blocks <- MCBlocks
    Locals <- MCLocals
    Programs <- MCPrograms
INVARIANTS
    STypeOK
    VerdictIsExact
    FixpointReached
    AcceptedIsSafe
    AnalysisCoversRun
PROPERTY
    Terminates
CHECK_DEADLOCK FALSE
