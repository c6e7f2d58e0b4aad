----------------------------- MODULE PathPlanner -----------------------------
(***************************************************************************)
(* The planner UP2TA (upta/main.cpp) between the problem, the map and the  *)
(* task planner, and the robot that follows its routes: distances between  *)
(* the coordinates of the problem, a task plan whose moves become routes,  *)
(* and after a bump a mark in the map and a new plan.                      *)
(*                                                                         *)
(* The task planner is not part of the repository: it makes some sequence  *)
(* of moves whose distances it was given, or fails.                        *)
(***************************************************************************)
EXTENDS PathSearch

CONSTANTS
    Maps,     \* sets of obstacles the map starts with
    Problems, \* coordinates of the problem [before, after] that of the robot
    PairLimit, \* distance two goals must be within to be searched
    MaxMoves, \* bound: moves of a task plan
    MaxBumps  \* bound: bumps

ASSUME PlannerAssumption ==
    /\ Maps \subseteq SUBSET Cell
    /\ Problems \subseteq [before : Seq(Cell), after : Seq(Cell)]
    /\ PairLimit \in Nat /\ MaxMoves \in Nat /\ MaxBumps \in Nat

VARIABLES
    file,     \* the map
    size,     \* of the file; read_map reads the places there were at first
    problem,  \* coordinates it has
    phase,    \* "ask", "pairs", "pair", "moves", "move", "drive", "failed"
    metas,    \* the coordinates, in the order of the problem
    pair,     \* i and j of the loops over metas; the ends of a move
    retried,  \* the search goes without margin
    distancias,
    moves,    \* moves that were expanded
    plan,     \* segments of the plan that are to be driven
    robot,    \* cell the robot is in
    bumps,
    marked    \* cells marked by bumps

plannerVars == <<problem, phase, metas, pair, retried, distancias, moves, plan>>
robotVars == <<robot, bumps, marked>>
mapVars == <<file, size>>
vars == <<searchVars, mapVars, plannerVars, robotVars>>

NO_ALCANZABLE == -2

Init ==
    /\ \E m \in Maps : file = FileOf(m)
    /\ size = Rows * (Cols + 1)
    /\ problem \in Problems
    /\ robot \in Cell \ ReadObstacles(file)
    /\ bumps = 0 /\ marked = {}
    /\ phase = "ask" /\ metas = <<>> /\ pair = <<1, 2>> /\ retried = FALSE
    /\ distancias = <<>> /\ moves = 0 /\ plan = <<>>
    /\ obstacles = {} /\ S = NoMargin /\ node = [p \in Cell |-> NoNode]
    /\ open = <<>> /\ closed = {} /\ path = <<>>
    /\ start = robot /\ goal = robot
    /\ result = "none" /\ dropped = FALSE

TypeOK ==
    /\ file \in File /\ size \in Nat
    /\ phase \in {"ask", "pairs", "pair", "moves", "move", "drive", "failed"}
    /\ obstacles \subseteq Cell /\ S \in [Cell -> Nat]
    /\ ToSet(open) \cup closed \cup ToSet(path) \subseteq Cell
    /\ IsInjective(open)
    /\ \A k \in 1..Len(open) - 1 : node[open[k]].F <= node[open[k + 1]].F
    /\ result \in {"searching", "found", "none", "hangs"}
    /\ \A k \in DOMAIN plan : plan[k].from \in Cell /\ plan[k].to \in Cell
    /\ robot \in Cell /\ bumps \in 0..MaxBumps

-----------------------------------------------------------------------------
(* obtener_coordenadas reads each coordinate once, comments included. *)
Unique(s) ==
    LET read[k \in 0..Len(s)] ==
          IF k = 0 THEN <<>>
          ELSE IF s[k] \in ToSet(read[k - 1]) THEN read[k - 1] ELSE Append(read[k - 1], s[k])
    IN  read[Len(s)]

(* A map with a row shorter than the first kills the planner, or it goes on. *)
ReadMap ==
    /\ phase = "ask"
    /\ obstacles' = ReadObstacles(file)
    /\ S' = safety_margin(Walls(file), [p \in Cell |-> 1])
    /\ metas' = Unique(problem.before \o <<robot>> \o problem.after)
    /\ distancias' = [p \in (DOMAIN metas') \X (DOMAIN metas') |->
                        IF p[1] = p[2] THEN NO_ALCANZABLE ELSE -1]
    /\ phase' \in IF Overrun(file) THEN {"pairs", "failed"} ELSE {"pairs"}
    /\ pair' = <<1, 2>> /\ retried' = FALSE
    /\ moves' = 0 /\ plan' = <<>>
    /\ node' = [p \in Cell |-> NoNode]
    /\ Clear /\ result' = "none" /\ dropped' = FALSE
    /\ UNCHANGED <<start, goal, mapVars, problem, robotVars>>

NextPair == IF pair[2] < Len(metas) THEN <<pair[1], pair[2] + 1>>
            ELSE <<pair[1] + 1, pair[1] + 2>>

(* The distance of a pair: searched from the first coordinate to every     *)
(* other, and between the others unless one is an obstacle or they are far *)
(* apart.                                                                  *)
Searched(i, j) ==
    \/ i = 1
    \/ /\ {metas[i], metas[j]} \cap obstacles = {}
       /\ get_dist(metas[i], metas[j]) < PairLimit

SearchPair ==
    /\ phase = "pairs"
    /\ pair[2] <= Len(metas)
    /\ Searched(pair[1], pair[2])
    /\ metas[pair[1]] \notin Unread(file)
    /\ BeginSearch(node, closed, metas[pair[1]], metas[pair[2]])
    /\ phase' = "pair"
    /\ UNCHANGED <<obstacles, S, mapVars, problem, metas, pair, retried, distancias, moves,
                   plan, robotVars>>

(* From outside the map there is no successor: both searches end at once,  *)
(* and it is the first coordinate that they start from.                    *)
SearchOutside ==
    /\ phase = "pairs"
    /\ pair[2] <= Len(metas)
    /\ Searched(pair[1], pair[2])
    /\ metas[pair[1]] \in Unread(file)
    /\ phase' = "failed"
    /\ UNCHANGED <<searchVars, mapVars, problem, metas, pair, retried, distancias, moves, plan,
                   robotVars>>

SetDistance(d) ==
    distancias' = [distancias EXCEPT ![<<pair[1], pair[2]>>] = d, ![<<pair[2], pair[1]>>] = d]

SkipPair ==
    /\ phase = "pairs"
    /\ pair[2] <= Len(metas)
    /\ ~Searched(pair[1], pair[2])
    /\ SetDistance(NO_ALCANZABLE)
    /\ pair' = NextPair
    /\ UNCHANGED <<searchVars, mapVars, problem, phase, metas, retried, moves, plan, robotVars>>

(* A search that fails is made again without the margin. *)
Retry ==
    /\ phase \in {"pair", "move"}
    /\ result = "none" /\ ~retried
    /\ retried' = TRUE
    /\ S' = NoMargin
    /\ BeginSearch(reset_data(node), {}, start, goal)
    /\ UNCHANGED <<obstacles, mapVars, problem, phase, metas, pair, distancias, moves, plan,
                   robotVars>>

(* The margin is put back over factors of 0. *)
MarginBack ==
    /\ S' = IF retried THEN safety_margin(Walls(file), S) ELSE S
    /\ retried' = FALSE

ClearSearch == Clear /\ node' = reset_data(node)

EndPair ==
    /\ phase = "pair"
    /\ result = "found" \/ (result = "none" /\ retried)
    /\ SetDistance(IF result = "none" THEN NO_ALCANZABLE
                   ELSE IF retried THEN (3 * get_route_dist) \div 2 ELSE get_route_dist)
    /\ phase' = IF result = "none" /\ pair[1] = 1 THEN "failed" ELSE "pairs"
    /\ pair' = NextPair
    /\ MarginBack
    /\ ClearSearch
    /\ result' = "none"
    /\ UNCHANGED <<obstacles, start, goal, dropped, mapVars, problem, metas, moves, plan,
                   robotVars>>

-----------------------------------------------------------------------------
(* The distances go to the problem, except those to the first coordinate.  *)
Inserted(i, j) == j > 1 /\ distancias[<<i, j>>] > 0

(* The task planner runs and leaves a plan that can be read, or does not.  *)
lanzar_taskplanner == {"moves", "failed"}

TaskPlan ==
    /\ phase = "pairs"
    /\ pair[2] > Len(metas)
    /\ phase' \in lanzar_taskplanner
    /\ pair' = LET i == CHOOSE k \in DOMAIN metas : metas[k] = robot IN <<i, i>>
    /\ UNCHANGED <<searchVars, mapVars, problem, metas, retried, distancias, moves, plan,
                   robotVars>>

(* A move of the task plan, after those there were. *)
ExpandMove ==
    /\ phase = "moves"
    /\ moves < MaxMoves
    /\ \E j \in DOMAIN metas :
        /\ Inserted(pair[2], j)
        /\ pair' = <<pair[2], j>>
        /\ BeginSearch(node, closed, metas[pair[2]], metas[j])
    /\ moves' = moves + 1
    /\ phase' = "move"
    /\ UNCHANGED <<obstacles, S, mapVars, problem, metas, retried, distancias, plan, robotVars>>

(* Without a route the data of the search stay as they are. *)
EndMove ==
    /\ phase = "move"
    /\ result = "found" \/ (result = "none" /\ retried)
    /\ phase' = "moves"
    /\ MarginBack
    /\ IF result = "found"
       THEN /\ plan' = plan \o [k \in 1..Len(path) - 1 |->
                          [from |-> Reverse(path)[k], to |-> Reverse(path)[k + 1]]]
            /\ ClearSearch
       ELSE UNCHANGED <<plan, open, closed, path, node>>
    /\ result' = "none"
    /\ UNCHANGED <<obstacles, start, goal, dropped, mapVars, problem, metas, pair, distancias, moves,
                   robotVars>>

EndPlan ==
    /\ phase = "moves"
    /\ phase' = "drive"
    /\ UNCHANGED <<searchVars, mapVars, problem, metas, pair, retried, distancias, moves, plan,
                   robotVars>>

-----------------------------------------------------------------------------
(* The robot drives the segments, one moveto each. *)
Drive ==
    /\ phase = "drive"
    /\ plan # <<>>
    /\ robot' = Head(plan).to
    /\ plan' = Tail(plan)
    /\ UNCHANGED <<searchVars, mapVars, problem, phase, metas, pair, retried, distancias, moves,
                   bumps, marked>>

(* The middle of the sector the way from p to q lies in: X grows to the    *)
(* right, Y ahead, and 29/70 is close to the tangent of 22.5 degrees.      *)
Heading(p, q) ==
    LET dx == Abs(q.X - p.X)
        dy == Abs(q.Y - p.Y)
        turn == IF 70 * dx < 29 * dy THEN 0 ELSE IF 70 * dy < 29 * dx THEN 90 ELSE 45
        ahead == IF q.Y >= p.Y THEN turn ELSE 180 - turn
    IN  IF q.X <= p.X THEN ahead ELSE 360 - ahead

(* A bump on the way: the cells it stands for are marked, and replanning   *)
(* starts from where the robot is.                                         *)
Bump ==
    /\ phase = "drive"
    /\ plan # <<>>
    /\ bumps < MaxBumps
    /\ LET to == Head(plan).to IN
       \E cell \in SegmentCells(robot, to) \ {to}, bumper \in 0..7 :
         LET cells == MarkedCells(cell, Heading(robot, to), bumper)
             ats == Offsets(file, size, cells)
         IN
         /\ robot' = cell
         /\ file' = AddObstacle(file, ats)
         /\ size' = Grown(size, ats)
         /\ marked' = marked \cup (cells \cap Cell)
    /\ bumps' = bumps + 1
    /\ phase' = "ask"
    /\ plan' = <<>>
    /\ UNCHANGED <<searchVars, problem, metas, pair, retried, distancias, moves>>

Searching == Search /\ UNCHANGED <<mapVars, plannerVars, robotVars>>

Planner == ReadMap \/ SearchPair \/ SearchOutside \/ SkipPair \/ Searching \/ Retry \/ EndPair
           \/ TaskPlan \/ ExpandMove \/ EndMove \/ EndPlan

Next == Planner \/ Drive \/ Bump

Spec == Init /\ [][Next]_vars

-----------------------------------------------------------------------------
(* Cells a segment takes the robot into. *)
Entered(p, q) == IF Adjacent(p, q) THEN {q} ELSE SegmentCells(p, q) \cup {q}

(* A route that is found leads from the start to the goal, by nodes that   *)
(* are next to each other or see each other, none of them an obstacle but  *)
(* the start: what update_vertex does to parents while they are in use     *)
(* never breaks the chain that search walks back (GSIsearch.cpp, search).  *)
RouteIsClear ==
    result = "found" =>
        /\ path[1] = goal /\ path[Len(path)] = start
        /\ \A k \in 1..Len(path) - 1 : Entered(path[k + 1], path[k]) \cap obstacles = {}

(* The lines of a map are as long, and as many, for add_obstacle as they   *)
(* are: no mark overwrote the end of the first, or added one.              *)
Measured == columnas(file) = Cols + 1 /\ filas(file, size) = Rows

(* Cells of the rows that no line without an end is behind or in.          *)
InPlace(f) == {p \in Cell : Rows - 1 - p.Y .. Rows - 1 \subseteq RowStarts(f)}

(* A cell that a bump has marked is not entered by any plan made later:    *)
(* the offset in the file, the order of the rows and the two names of the  *)
(* axes agree between PDDLAdapter and the planner.  Where a mark took the  *)
(* end of a line, so that read_map joins rows and moves those ahead of     *)
(* them, it is still so of the rows behind; once a mark changed what       *)
(* add_obstacle measures, nothing is said of any mark.                     *)
PlanAvoidsMarks ==
    Measured =>
        \A k \in DOMAIN plan :
            Entered(plan[k].from, plan[k].to) \cap marked \cap InPlace(file) = {}

(* A search of cleared data misses a goal that can be reached only after   *)
(* it dropped an open node with the same F as the one it took.  The data   *)
(* is cleared for a pair of objectives and for the second search of a      *)
(* move; the first search of a move may find nodes that a move without a   *)
(* route left closed (main clears them when there is one), and may miss    *)
(* the goal for them.                                                      *)
FailsOnlyAfterDrop ==
    /\ phase = "pair" \/ (phase = "move" /\ retried)
    /\ result = "none" /\ ~dropped
    => Separated(start, goal)

(* A mark made inside the map changes nothing else of it; only at the      *)
(* sides of the map can it join two lines of the file or change what       *)
(* add_obstacle measures, and every marked cell is read as an obstacle in  *)
(* the rows that are still read where they are.                            *)
Bumped == phase = "drive" /\ phase' = "ask"
MarkKeepsMap ==
    [][Bumped /\ Measured =>
        /\ robot'.X \in 1..Cols - 2 => Measured' /\ InPlace(file) \subseteq InPlace(file')
        /\ robot'.X \in 1..Cols - 2 /\ robot'.Y \in 1..Rows - 2 /\ InPlace(file) = Cell =>
              ReadObstacles(file') = ReadObstacles(file) \cup marked'
        /\ Measured' => marked' \cap InPlace(file') \subseteq ReadObstacles(file')]_vars

(* Every round of a search closes a cell that was not closed, so it ends;  *)
(* and the walk back along the parents meets the start (GSIsearch.cpp:76   *)
(* names an endless loop there).                                           *)
Round == phase \in {"pair", "move"} /\ phase' = phase /\ result = "searching" /\ open # <<>>
SearchEnds == [][Round => closed' # closed /\ result' # "hangs"]_vars
=============================================================================
