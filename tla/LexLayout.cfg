SPECIFICATION Spec
CONSTANTS
    IndentWidth = 4
    Sources <- MCSources
INVARIANTS
    TypeOK
    Balanced
    LayoutFaithful
    StatementsEnd
CHECK_DEADLOCK FALSE
