SPECIFICATION TextSpec
CONSTANTS
    Nul = Nul
    Junk = Junk
    Byte = {d0, d1, Nul}
    Digit = {d0, d1}
    Max = 3
    MaxChunk = 4
    MaxEnd = 6
INVARIANT EncodeStaysInStorage
