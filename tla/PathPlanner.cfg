SPECIFICATION Spec
CONSTANTS
    Rows <- MCRows
    Cols <- MCCols
    Margin <- MCMargin
    Maps <- MCMaps
    Problems <- MCProblems
    PairLimit <- MCPairLimit
    MaxMoves <- MCMaxMoves
    MaxBumps <- MCMaxBumps
INVARIANTS
    TypeOK
    RouteIsClear
    PlanAvoidsMarks
    FailsOnlyAfterDrop
PROPERTIES
    MarkKeepsMap
    SearchEnds
CHECK_DEADLOCK FALSE
