SPECIFICATION MSpec
CONSTANTS
    Decls <- MCDecls
    Shape <- MCShape
    Inhabitants <- MCInhabitants
    Pats <- MCPats
    Size <- MCSize
    MatchExprs <- AliasMatches
    IsPatterns = {}
INVARIANT
    EveryEndIsReachable
CHECK_DEADLOCK FALSE
