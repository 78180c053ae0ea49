SPECIFICATION FairSpec
CONSTANTS
    a = a
    b = b
    x = x
    Invalid <- MCInvalid
    Node <- MCNode
    Root <- MCRoot
    Grammars <- MCGrammars
    Inputs <- MCInputs
    Results <- MCResults
    Turns <- MCTurns
    StackSizes = {16, 50, 2048}
    PtrSize = 8
    AndSize = 1
    ChoiceSize = 16
INVARIANTS TypeOK StackDiscipline SavedOrdered LostStaysLost AgreesWithReference
PROPERTIES CallerUntouched Termination
CHECK_DEADLOCK FALSE
