SPECIFICATION Spec
CONSTANTS
    Programs <- ProgramsDef
    Plain <- PlainDef
INVARIANTS
    PlainIsKept
    BlocksAreClosed
    AcceptedIsNotStuck
    ResultHasItsType
PROPERTY KeepsItsPromise
