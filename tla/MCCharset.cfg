SPECIFICATION Spec
CONSTANTS
    left = left
    right = right
    other = other
    Address <- MCAddress
    WordCount = 2
    WordBits = 2
    Predicates <- MCPredicates
SYMMETRY AddressSymmetry
INVARIANTS
    TypeOK
    Computes
