\* One thread edits the problem; every edit of the mission, in any order.
SPECIFICATION Spec
CONSTANTS
    Editors = {exec}
    exec = exec
    Cells = {c1, c2}
    c1 = c1
    c2 = c2
    Home = c1
    Pictures = {p1}
    p1 = p1
    MaxGoals = 1
    MaxScratch = 1
    NoFile = NoFile
    Blank <- MCBlank
    Contents <- Texts
    Start <- Template
    Requests <- Edits
    Apply <- Edit
    Finds <- Reports
    Issued <- AsPlanned
    Overlay <- WrittenOver
INVARIANTS
    WholeTextKept
PROPERTIES
    EditsAsMeant
    EditsAreAtomic
