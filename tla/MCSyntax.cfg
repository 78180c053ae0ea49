SPECIFICATION Spec
CONSTANTS
    Programs <- MCPrograms
    Names <- MCNames
    Indices <- MCIndices
    SymbolOf <- MCSymbolOf
INVARIANTS
    TypeOK
    OwnedOnce
    ReleasedOnce
    TreeAsAsked
    PrintedReadsBack
CHECK_DEADLOCK FALSE
