SPECIFICATION Spec
CONSTANTS
    Heads <- MCHeads
    Opaque = {"adt"}
    Levels = {0, 1}
    Pools <- MCPools
    Shapes <- MCShapes
    Questions <- MCQuestions
    Ground <- MCGround
    MaxNodes = 7
    MaxGoals = 2
INVARIANTS TypeOK Acyclic Unified MostGeneral
CHECK_DEADLOCK FALSE
