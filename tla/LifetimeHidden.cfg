SPECIFICATION SSpec
CONSTANTS
    b1 = b1  b2 = b2  b3 = b3  b4 = b4
    x = x  y = y
    Blocks <- MCBlocks
    Locals <- MCLocals
    Programs <- HiddenFuns
INVARIANT
    NoUseAfterMove
CHECK_DEADLOCK FALSE
