SPECIFICATION Spec
CONSTANTS
    Crates <- EffectCrates
    Half = 8
    OverflowChecks = TRUE
    Depths = {30}
    Samples = {0, 1, 2}
INVARIANT
    HandlersAreScoped
CHECK_DEADLOCK FALSE
