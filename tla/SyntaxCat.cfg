SPECIFICATION Spec
CONSTANTS
    Programs <- TakingPrograms
    Names <- MCNames
    Indices <- MCIndices
    SymbolOf <- MCSymbolOf
PROPERTY CatReturnsTheList
CHECK_DEADLOCK FALSE
