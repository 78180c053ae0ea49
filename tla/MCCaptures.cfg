SPECIFICATION CaptureSpec
CONSTANTS
    Invalid = {"="}
    Longer = 3
    Node <- MCNode
    Root <- MCRoot
    Grammars <- MCGrammars
    Inputs <- MCInputs
    StackSizes = {400, 4096}
    PtrSize = 8
    AndSize = 1
    ChoiceSize = 16
    AllocSizes = {20, 90, 4096}
    NodeSize = 16
    CellSize = 16
    ByteBits = 8
    WordBits = 4
    Digit <- MCDigit
    NoTag = NoTag
INVARIANTS CaptureTypeOK NothingFreed SyntaxIsWellFormed AgreesWithTree
VIEW WithoutGrammar
CHECK_DEADLOCK FALSE
