SPECIFICATION Spec
CONSTANTS
    Inputs <- MCInputs
    QueenSizes = {1, 2, 3, 4, 5}
    Side = 4
    Block = 2
    Boards <- MCBoards
INVARIANTS ResultsAreRight SearchSkipsNothing
PROPERTIES EveryCallReturns
CHECK_DEADLOCK FALSE
