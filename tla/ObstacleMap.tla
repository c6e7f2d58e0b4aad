----------------------------- MODULE ObstacleMap -----------------------------
(***************************************************************************)
(* The cost map, a text file that two programs share: PDDLAdapter marks in *)
(* it the cells where a bump says there is an obstacle, at an offset of    *)
(* the file, and the path planner reads it, row by row.                    *)
(*                                                                         *)
(* The file is its cells, of one figure each, and the ends of its lines;   *)
(* its last line is row 0 of the map.  A cell cX_Y is X columns to the     *)
(* right and Y rows ahead of the corner.                                   *)
(***************************************************************************)
EXTENDS Integers, FiniteSetsExt

CONSTANTS Rows, Cols \* of the map

ASSUME MapAssumption == Rows \in Nat \ {0} /\ Cols \in Nat \ {0}

Cell == [X : 0..Cols - 1, Y : 0..Rows - 1]

(* Tokens of the file: a cell that can be crossed, one that cannot, and    *)
(* the end of a line.                                                      *)
Tokens == {"0", "9", "end"}
Places == 0..Rows * (Cols + 1) - 1
File == [Places -> Tokens]

LineEnd(r) == (Cols + 1) * r + Cols

(* The lines that read_map takes for the start of a row: the first, and    *)
(* those behind a line that has its end.  It never looks at what follows   *)
(* the last cell of the file.                                              *)
RowStarts(file) == {g \in 0..Rows - 1 : g = 0 \/ file[LineEnd(g - 1)] = "end"}
RowsRead(file) == Cardinality(RowStarts(file))

-----------------------------------------------------------------------------
(* read_map turns the rows over: row y is that of the start with y starts  *)
(* behind it.  Lines without an end are one row, of which the planner      *)
(* looks at the cells of the first; the rows ahead of it come nearer, and  *)
(* what is ahead of the last row is outside the map.                       *)
LineOf(file, y) ==
    CHOOSE g \in RowStarts(file) : Cardinality({h \in RowStarts(file) : h > g}) = y

Unread(file) == {p \in Cell : p.Y >= RowsRead(file)}
Walls(file) == {p \in Cell \ Unread(file) : file[(Cols + 1) * LineOf(file, p.Y) + p.X] = "9"}
ReadObstacles(file) == Walls(file) \cup Unread(file)

(* Every row has as many columns as the first: when another is shorter,    *)
(* read_map writes behind its end.                                         *)
RowLines(file, g) == Min({h \in RowStarts(file) : h > g} \cup {Rows}) - g
Overrun(file) == \E g \in RowStarts(file) : RowLines(file, g) < RowLines(file, 0)

(* The map file of a set of obstacles. *)
FileOf(obs) ==
    [i \in Places |->
        IF i % (Cols + 1) = Cols THEN "end"
        ELSE IF [X |-> i % (Cols + 1), Y |-> Rows - 1 - i \div (Cols + 1)] \in obs
             THEN "9" ELSE "0"]

-----------------------------------------------------------------------------
(* add_obstacle measures the file, which has size places: columnas is the  *)
(* length of the first line that fgets reads (its buffer of 200 characters *)
(* is long enough here), filas how often the file has it.                  *)
columnas(file) == (Cols + 1) * Min({r \in 1..Rows : file[LineEnd(r - 1)] = "end"} \cup {Rows})
filas(file, size) == size \div columnas(file)

(* Where it writes the cell of row objx and column objy.                   *)
offsetUnturned(c, f, objx, objy) == c * objx + objy
offsetNoEnd(c, f, objx, objy) == (c - 1) * (f - objx - 1) + objy
offset(c, f, objx, objy) == c * (f - objx - 1) + objy

(* fputc: before the file fseek fails, and the first cell is spoiled;      *)
(* behind its end the file grows, by what read_map never reads.            *)
WriteMark(file, at) ==
    IF at < 0 THEN [file EXCEPT ![0] = "9"]
    ELSE IF at \in Places THEN [file EXCEPT ![at] = "9"]
    ELSE file

Grown(size, ats) == Max({size} \cup {at + 1 : at \in ats})

-----------------------------------------------------------------------------
(* The robot's orientation, in degrees to the left, is one of eight        *)
(* sectors; Dir is the cell next to the robot in the middle of each.       *)
Sector(angleRobot) == ((2 * angleRobot + 45) \div 90) % 8
Dir(s) == [x |-> <<1, 1, 0, -1, -1, -1, 0, 1>>[(s % 8) + 1],
           y |-> <<0, -1, -1, -1, 0, 1, 1, 1>>[(s % 8) + 1]]
Here == [x |-> 0, y |-> 0]

(* The cells a bump marks.  bumper adds 1 (right), 2 (centre), 4 (left).   *)
(* Two tables of the code are odd: the left corner of the second sector    *)
(* and, in the sixth, the values with no case, which mark the robot's cell. *)
Marks(s, bumper) ==
    LET side == IF s % 2 = 0 THEN 2 ELSE 1
    IN  CASE bumper = 1 -> {Dir(s + 8 - side)}
          [] bumper = 3 -> {Dir(s + 7), Dir(s)}
          [] bumper = 4 -> {Dir(s + side)}
          [] bumper = 6 -> {Dir(s + 1), IF s = 1 THEN Dir(3) ELSE Dir(s)}
          [] bumper \in {2, 7} -> {Dir(s)}
          [] OTHER -> IF s = 5 THEN {Here} ELSE {Dir(s)}

(* add_obstacle from the cell c. *)
MarkedCells(c, angleRobot, bumper) ==
    {[X |-> c.X + d.y, Y |-> c.Y + d.x] : d \in Marks(Sector(angleRobot), bumper)}

Offsets(file, size, cells) ==
    {offset(columnas(file), filas(file, size), p.Y, p.X) : p \in cells}

(* One mark or two. *)
AddObstacle(file, ats) ==
    LET a == CHOOSE at \in ats : TRUE
        b == CHOOSE at \in ats : ats \subseteq {a, at}
    IN  WriteMark(WriteMark(file, a), b)
=============================================================================
