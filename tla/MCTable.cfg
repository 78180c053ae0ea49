SPECIFICATION Spec
CONSTANTS
    Key = {"dog", "cat", "rat"}
    Address = {1, 2, 3, 4}
    Null = Null
    Capacities = {1, 2}
    Hash <- MCHash
INVARIANTS TypeOK Intact
PROPERTY ImplementsMultimap
CHECK_DEADLOCK FALSE
