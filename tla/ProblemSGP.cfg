\* The layout of problemTemplated.pddl, edited as get_plan edits it.
SPECIFICATION Spec
CONSTANTS
    Editors = {exec}
    exec = exec
    Cells = {c1, c2}
    c1 = c1
    c2 = c2
    Home = c1
    Pictures = {p1}
    p1 = p1
    MaxGoals = 1
    MaxScratch = 1
    NoFile = NoFile
    Blank <- MCBlank
    Contents <- MCTextsSGP
    Start <- MCTemplateSGP
    Requests <- MCPlanEdits
    Apply <- Edit
    Finds <- Reports
    Issued <- MCShort
    Overlay <- WrittenOver
PROPERTY
    MarksKept
CHECK_DEADLOCK FALSE
