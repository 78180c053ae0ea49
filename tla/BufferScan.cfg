SPECIFICATION ScanSpec
CONSTANTS
    Junk = Junk
    Byte = {b0, b1}
    Digit = {b0}
    Max = 3
    MaxChunk = 2
    MaxEnd = 4
INVARIANT ScanStopsAtMatch
CHECK_DEADLOCK FALSE
