SPECIFICATION StreamSpec
CONSTANTS
    InputCapacity = 12
    HeaderLimit = 4
    MaxExtra = 1
    Alphabet <- MCAlphabet
    BodyLines <- MCBodyLines
INVARIANTS AgreesWithGrammar IncompleteLeavesRoom
PROPERTY VerdictIsStable
CHECK_DEADLOCK FALSE
