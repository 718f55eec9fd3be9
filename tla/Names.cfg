CONSTANT Crates <- MCCrates
SPECIFICATION Spec
INVARIANTS
    NamesTypeOK
    LoweredAsMeant
    RejectedIsUndefined
    PlainIsLowered
