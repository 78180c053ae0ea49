SPECIFICATION ProgramSpec
CONSTANTS
    MaxLength = 2
    Sources <- MCSources
    Built <- MCBuilt
    Nodes <- MCNodes
    Predicates <- MCPredicates
    Within <- MCWithin
    Described <- MCDescribed
    Members <- MCMembers
INVARIANTS
    UsesWhatIsHeld ReleasedOnce SuccessIsOfTheWholeGrammar StatusTellsOutput
    OutputIsOfTheSource TypeOK SetsReleased NumbersInScope InScope MeansTheGrammar
CONSTRAINT OneOrder
