SPECIFICATION ActionsSpec
CONSTANTS
    Timer <- MCTimer
    DriveTime <- MCDriveTime
    MaxRounds <- MCMaxRounds
    Position <- MCPosition
    StartAt <- MCStartAt
    MaxShots <- MCMaxShots
    MaxActions <- MCMaxActions
INVARIANTS
    NoDriveLeft
    ClaimedOnlyAfterDrive
    FirstTryUncut
    FactsExclusive
    PointsAsRecorded
    AnswerTells
    PicturesKept
PROPERTIES
    GoalKept
    DockEnds
    CameraEnds
CHECK_DEADLOCK FALSE
