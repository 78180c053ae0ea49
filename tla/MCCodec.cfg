SPECIFICATION Spec
CONSTANTS
    Byte <- MCByte
    Calls <- MCCalls
INVARIANTS DecodesUtf8 EncodesNumber DecodesNumber
CHECK_DEADLOCK FALSE
