SPECIFICATION MSpec
CONSTANTS
    Decls <- MCDecls
    Shape <- MCShape
    Inhabitants <- MCInhabitants
    Pats <- MCPats
    Size <- MCSize
    MatchExprs <- MCMatches
    IsPatterns <- MCIsPatterns
INVARIANTS
    UnreachableIsDead
    PassedIsLive
    OkIsExhaustive
    ArmIsFirst
    AcceptedMatchRuns
    IsDecides
    VariablesAreBound
CHECK_DEADLOCK FALSE
