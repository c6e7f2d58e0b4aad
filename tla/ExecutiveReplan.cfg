CONSTANTS
    g1 = g1
    charge = charge
    c1 = c1
    c2 = c2
    Goals <- MCGoals
    InitGoals <- MCInitGoals
    ChargeGoal = charge
    Cells <- MCCells
    Home = c1
    StartCells <- MCAtHome
    Declared <- MCDeclared
    MaxPlanLen = 1
SPECIFICATION Spec
CHECK_DEADLOCK FALSE
PROPERTY ReplanReachesPlanner
