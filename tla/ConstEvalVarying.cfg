SPECIFICATION Spec
CONSTANTS
    Crates <- VaryingCrates
    Half = 8
    OverflowChecks = TRUE
    Depths = {30}
    Samples = {0, 1, 2}
INVARIANT
    EveryResultIsExact
CHECK_DEADLOCK FALSE
