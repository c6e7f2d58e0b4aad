SPECIFICATION DriversSpec
CONSTANTS
    Width <- MCWidth
    Height <- MCHeight
    Turn <- MCTurn
    Angles <- MCAngles
    Worlds <- MCWorlds
    Docks <- MCDocks
    MaxBumps <- MCMaxBumps
    Goals <- MCGoals
    Connections <- MCConnections
    Messages <- MCMessages
    MAX_CLIENTS = 2
    Quiet = 1
    MaxInbox = 1
INVARIANTS
    PoseTrue
    MovetoArrives
    GoacKnowsPlace
    GoacTurns
    DeadMan
    TableSound
PROPERTIES
    TurnsTowardsGoal
    CommandsEnd
    ForwardEnds
    DeadClientBlocks
CHECK_DEADLOCK FALSE
