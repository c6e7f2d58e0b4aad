\* The executive and the telecommand thread edit the problem.
SPECIFICATION Spec
CONSTANTS
    Editors = {exec, tc}
    tc = tc
    exec = exec
    Cells = {c1, c2}
    c1 = c1
    c2 = c2
    Home = c1
    Pictures = {p1}
    p1 = p1
    MaxGoals = 1
    MaxScratch = 1
    NoFile = NoFile
    Blank <- MCBlank
    Contents <- Texts
    Start <- Template
    Requests <- MCTwoEdits
    Apply <- Edit
    Finds <- Reports
    Issued <- AsPlanned
    Overlay <- WrittenOver
PROPERTY
    SuccessIsTrue
CHECK_DEADLOCK FALSE
