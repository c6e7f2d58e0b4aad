------------------------------ MODULE Locomotion ------------------------------
(***************************************************************************)
(* The robot's motion: the commands of the locomotion client               *)
(* (TurtlecomAdapter) as Planner.ple uses them, the calls they make to the *)
(* functional-layer server, and the robot the server drives through ROS.   *)
(*                                                                         *)
(* The server answers one call at a time.  A movement settles (it reads    *)
(* the odometry for 0.5 s), runs its loop, and closes with another 0.5 s   *)
(* of reading; the bumper is listened to from beginning to end.  What is   *)
(* told apart of a place is its cell and of an orientation its degrees: a  *)
(* robot moves along its sector of 45 degrees, cell by cell.               *)
(***************************************************************************)
EXTENDS Integers, Sequences, SequencesExt

CONSTANTS
    Width, Height,  \* cells of the world; what surrounds them is a wall
    Turn,           \* degrees between two turns of the rotation loop
    Angles,         \* angles that plans ask to rotate
    Worlds,         \* the sets of cells no robot enters
    Docks,          \* the places the docking drive may leave the robot in
    MaxBumps        \* bound: bumps that no cell of the world explains

ASSUME LocomotionAssumption ==
    /\ Width \in Nat \ {0} /\ Height \in Nat \ {0}
    /\ Turn \in 1..45 /\ 45 % Turn = 0
    /\ Angles \subseteq {d \in -180..180 : d % Turn = 0}
    /\ Worlds \subseteq SUBSET [x : 0..Width - 1, y : 0..Height - 1]
    /\ Docks \subseteq [cell : [x : 0..Width - 1, y : 0..Height - 1],
                        o : {d \in 0..359 : d % Turn = 0}]
    /\ \A w \in Worlds, p \in Docks : p.cell \notin w
    /\ MaxBumps \in Nat

Cell == [x : 0..Width - 1, y : 0..Height - 1]
Orientation == {d \in 0..359 : d % Turn = 0}

VARIABLES
    step,        \* where Planner.ple stands
    nStr,        \* the command in progress, or the last one
    calls,       \* its calls that the server has still to answer
    late,        \* the first of them has been given up, and it goes on
    object_dest, \* where it goes
    cpos,        \* the cell that it returned
    pose,        \* posx, posy and head of the client
    server,      \* what the server does
    call,        \* the movement it does
    left,        \* cells that are left to go, or the angle to reach
    flag_parada, \* a bump was heard
    odom,        \* posicion_actual and orientacion_actual of the server
    robot,       \* where the robot really is
    contact,     \* its bumper is pressed
    obstacles,   \* the cells of the world no robot enters
    bumps,       \* bumps that no cell explained
    carried,     \* the docking drive moved the robot after the last answer
    excused      \* the command started in a wrong place or with the flag up,
                 \* has nothing to do, and so fails, or has met a bump

clientVars  == <<nStr, calls, late, object_dest, cpos, pose>>
serverVars  == <<server, call, left, flag_parada, odom>>
robotVars   == <<robot, contact, obstacles, bumps>>
ghostVars   == <<carried, excused>>
vars == <<step, clientVars, serverVars, robotVars, ghostVars>>

Place == [cell : Cell, o : Orientation]
NoCall == [op |-> "none", angle |-> 0, vel |-> 0, cells |-> 0]

(* atan of a difference of coordinates along one of the eight directions:  *)
(* x grows ahead and y to the right, angles to the left.                   *)
Sign(n) == IF n > 0 THEN 1 ELSE IF n < 0 THEN -1 ELSE 0
Delta(o) ==
    LET s == ((2 * o + 45) \div 90) % 8
    IN  [x |-> <<1, 1, 0, -1, -1, -1, 0, 1>>[s + 1],
         y |-> <<0, -1, -1, -1, 0, 1, 1, 1>>[s + 1]]
Ahead(c, o, v) == [x |-> c.x + v * Delta(o).x, y |-> c.y + v * Delta(o).y]
Free(c) == c \in Cell \ obstacles
Straight(d) == d.x = 0 \/ d.y = 0 \/ d.x = d.y \/ d.x = -d.y
Abs(n) == IF n < 0 THEN -n ELSE n
Larger(m, n) == IF m > n THEN m ELSE n

TypeOK ==
    /\ step \in {"start", "loop", "moveto", "blocked", "bumper", "acted", "crashed"}
    /\ nStr \in {"none", "checkPosition", "checkAngle", "bumpersensor", "moveto",
                 "rotate", "moveBack", "moveBackxMeters", "readBateryLevel"}
    /\ Len(calls) <= 2
    /\ late \in BOOLEAN
    /\ object_dest \in Cell
    /\ cpos \in Cell
    /\ pose \in [cell : Cell, o : {d \in -179..180 : d % Turn = 0}]
    /\ server \in {"idle", "check", "bumpers", "battery", "charging", "settle", "moving",
                   "closing", "done"}
    /\ left \in Nat
    /\ flag_parada \in 0..1
    /\ odom \in Place /\ robot \in Place
    /\ robot.cell \notin obstacles
    /\ contact \in BOOLEAN
    /\ bumps \in 0..MaxBumps
    /\ carried \in BOOLEAN /\ excused \in BOOLEAN

(* start() sets the pose to zero; the robot is in its dock. *)
Origin == [x |-> 0, y |-> 0]
NoClient ==
    /\ nStr' = "none" /\ calls' = <<>> /\ late' = FALSE
    /\ object_dest' = Origin /\ cpos' = Origin
    /\ pose' = [cell |-> Origin, o |-> 0]

Standing ==
    /\ step = "start"
    /\ nStr = "none" /\ calls = <<>> /\ late = FALSE
    /\ object_dest = Origin /\ cpos = Origin
    /\ pose = [cell |-> Origin, o |-> 0]
    /\ server = "idle" /\ call = NoCall /\ left = 0 /\ flag_parada = 0
    /\ odom = [cell |-> Origin, o |-> 0]
    /\ obstacles \in Worlds
    /\ robot \in Docks
    /\ contact = FALSE /\ bumps = 0
    /\ carried = TRUE

Init == Standing /\ excused = FALSE

-----------------------------------------------------------------------------
(* Calls to the server, as executeCommand makes them. *)
Check == [NoCall EXCEPT !.op = "check"]
Bumpers == [NoCall EXCEPT !.op = "bumpers"]
Battery == [NoCall EXCEPT !.op = "battery"]
Rotate(a) == [NoCall EXCEPT !.op = "rotate", !.angle = a]
Forward(v, n) == [NoCall EXCEPT !.op = "forward", !.vel = v, !.cells = n]

Ready(s) == step = s /\ calls = <<>> /\ server = "idle"

Command(name, cs) ==
    /\ nStr' = name
    /\ calls' = cs
    /\ excused' = (carried \/ flag_parada = 1 \/ cs = <<>>)
    /\ UNCHANGED <<late, pose, serverVars, robotVars, carried>>

(* The heading from one cell to another: acos of the part along x, with    *)
(* the sign of the part along y.                                           *)
newheadUnsigned(d) ==
    IF d.x = 0 THEN 90 ELSE IF d.y = 0 THEN (IF d.x > 0 THEN 0 ELSE 180)
    ELSE IF d.x > 0 THEN 45 ELSE 135

newhead(d) ==
    LET acos == IF d.x > 0 THEN 45 ELSE 135
    IN  CASE d.x # 0 /\ d.y < 0 -> acos
          [] d.x # 0 /\ d.y > 0 -> -acos
          [] d.x = 0 -> IF d.y > 0 THEN -90 ELSE 90
          [] OTHER -> IF d.x > 0 THEN 0 ELSE 180

angrot(a) == IF a < -180 THEN a + 360 ELSE IF a > 180 THEN a - 360 ELSE a

(* moveto: a rotation if the heading changes, then the way to the cell. *)
Moveto(dest) ==
    LET d == [x |-> dest.x - pose.cell.x, y |-> dest.y - pose.cell.y]
        turn == newhead(d) - pose.o
        cells == Larger(Abs(d.x), Abs(d.y))
    IN  /\ Straight(d)
        /\ object_dest' = dest
        /\ Command("moveto", (IF turn # 0 THEN <<Rotate(angrot(turn))>> ELSE <<>>)
                             \o (IF cells # 0 THEN <<Forward(1, cells)>> ELSE <<>>))
        /\ UNCHANGED cpos

(* GetTurtlestate. *)
GetTurtlePosition ==
    /\ Ready("start")
    /\ Command("checkPosition", <<Check>>)
    /\ step' = "loop"
    /\ UNCHANGED <<object_dest, cpos>>

MoveTo ==
    /\ Ready("loop")
    /\ \E dest \in Cell : Moveto(dest)
    /\ step' = "moveto"

(* Commands other than moveto and moveBackxMeters ask for the position     *)
(* first: the condition "checkPosition" || "checkAngle" is always true.    *)
RotateTo ==
    /\ Ready("loop")
    /\ \E a \in Angles : Command("rotate", <<Check, Rotate(a)>>)
    /\ step' = "acted"
    /\ UNCHANGED <<object_dest, cpos>>

(* undock.ple: one cell back. *)
MoveBack ==
    /\ Ready("loop")
    /\ Command("moveBack", <<Check, Forward(-1, 1)>>)
    /\ step' = "acted"
    /\ UNCHANGED <<object_dest, cpos>>

(* The docking drive takes the robot somewhere; autodocking returns no pose. *)
Docking ==
    /\ Ready("loop")
    /\ robot' \in Docks
    /\ carried' = TRUE
    /\ contact' = FALSE
    /\ step' = "acted"
    /\ UNCHANGED <<clientVars, serverVars, obstacles, bumps, excused>>

(* CheckOk: a move that ended elsewhere is followed by checkAngle, by      *)
(* bumpersensor (then putObstacle) and by moveBackxMeters.                 *)
CheckOk ==
    /\ Ready("moveto")
    /\ cpos = object_dest
    /\ step' = "acted"
    /\ object_dest' = Origin
    /\ UNCHANGED <<nStr, calls, late, cpos, pose, serverVars, robotVars, ghostVars>>

GetOrientation ==
    /\ Ready("moveto")
    /\ cpos # object_dest
    /\ Command("checkAngle", <<Check>>)
    /\ step' = "blocked"
    /\ UNCHANGED <<object_dest, cpos>>

GetBumper ==
    /\ Ready("blocked")
    /\ Command("bumpersensor", <<Bumpers>>)
    /\ step' = "bumper"
    /\ UNCHANGED <<object_dest, cpos>>

(* 25 cm, or 12 on a diagonal: it may leave the cell, or not. *)
moveBackxmeters == 0..1

MoveBackTurtle ==
    /\ Ready("bumper")
    /\ \E n \in moveBackxmeters : Command("moveBackxMeters", <<Forward(-1, n)>>)
    /\ step' = "acted"
    /\ object_dest' = Origin
    /\ UNCHANGED cpos

(* The level is not used. *)
ReadBateryLevel ==
    /\ Ready("acted")
    /\ Command("readBateryLevel", <<Battery>>)
    /\ step' = "loop"
    /\ UNCHANGED <<object_dest, cpos>>

-----------------------------------------------------------------------------
(* The server.  A call is taken when no other is in progress. *)
TakeCall ==
    /\ step # "crashed"
    /\ server = "idle" /\ calls # <<>>
    /\ call' = Head(calls)
    /\ server' = CASE Head(calls).op = "check" -> "check"
                   [] Head(calls).op \in {"bumpers", "battery", "charging"} -> Head(calls).op
                   [] OTHER -> "settle"
    /\ UNCHANGED <<step, clientVars, left, flag_parada, odom, robotVars, ghostVars>>

checkposition ==
    /\ server = "check"
    /\ odom' = robot
    /\ server' = "done"
    /\ UNCHANGED <<step, clientVars, call, left, flag_parada, robotVars, ghostVars>>

checkbumpersemsorstate ==
    /\ server = "bumpers"
    /\ server' = "done"
    /\ UNCHANGED <<step, clientVars, call, left, flag_parada, odom, robotVars, ghostVars>>

readbaterylevel ==
    /\ server = "battery"
    /\ server' = "done"
    /\ UNCHANGED <<step, clientVars, call, left, flag_parada, odom, robotVars, ghostVars>>

angulo_deseado(a, o) ==
    LET d == a + o IN IF d > 360 THEN d - 360 ELSE IF d < 0 THEN 360 + d ELSE d

errorUnwrapped(d, o) == d - o

(* The error of the angle, adjusted when the turn passes by the origin. *)
error(d, o) ==
    IF d <= 40 /\ o >= 300 THEN d - o + 360
    ELSE IF d >= 300 /\ o <= 40 THEN d - o - 360
    ELSE d - o

(* Before a movement the server waits for the odometry. *)
Settle(op, goal) ==
    /\ server = "settle" /\ call.op = op
    /\ odom' = robot
    /\ left' = goal
    /\ server' = "moving"
    /\ UNCHANGED <<step, clientVars, call, flag_parada, robotVars, ghostVars>>

SettleRotation == Settle("rotate", angulo_deseado(call.angle, robot.o))
SettleForward == Settle("forward", call.cells)

Moving(op) == server = "moving" /\ call.op = op

(* Within 80 degrees the control is proportional to the error; further off *)
(* the robot turns the way it was asked to.                                *)
TurnsLeft ==
    LET e == error(left, odom.o)
    IN  IF Abs(e) <= 80 THEN e >= 0 ELSE call.angle >= 0

TurnStep ==
    /\ Moving("rotate")
    /\ flag_parada = 0
    /\ error(left, odom.o) # 0
    /\ robot' = [robot EXCEPT !.o = (@ + (IF TurnsLeft THEN Turn ELSE 360 - Turn)) % 360]
    /\ odom' = robot'
    /\ contact' \in {contact, FALSE}
    /\ UNCHANGED <<step, clientVars, server, call, left, flag_parada, obstacles,
                   bumps, ghostVars>>

(* A cell forward, or backwards; the way is measured by the odometry. *)
Drive ==
    /\ Moving("forward")
    /\ flag_parada = 0
    /\ left > 0
    /\ Free(Ahead(robot.cell, robot.o, call.vel))
    /\ robot' = [robot EXCEPT !.cell = Ahead(@, robot.o, call.vel)]
    /\ odom' = robot'
    /\ left' = left - 1
    /\ contact' = FALSE
    /\ UNCHANGED <<step, clientVars, server, call, flag_parada, obstacles, bumps,
                   ghostVars>>

ReachGoal ==
    /\ server = "moving"
    /\ \/ call.op = "rotate" /\ error(left, odom.o) = 0
       \/ call.op = "forward" /\ left = 0
    /\ server' = "closing"
    /\ flag_parada' = 0
    /\ UNCHANGED <<step, clientVars, call, left, odom, robotVars, ghostVars>>

LowerFlag ==
    /\ server = "moving" /\ flag_parada = 1
    /\ flag_parada' = 0
    /\ UNCHANGED <<step, clientVars, server, call, left, odom, robotVars, ghostVars>>

(* The flag stops a movement, but backwards it is only lowered. *)
StopByBump ==
    /\ server = "moving"
    /\ flag_parada = 1
    /\ flag_parada' = 0
    /\ server' = IF call.vel < 0 THEN "moving" ELSE "closing"
    /\ UNCHANGED <<step, clientVars, call, left, odom, robotVars, ghostVars>>

Close(op) ==
    /\ server = "closing" /\ call.op = op
    /\ odom' = robot
    /\ server' = "done"
    /\ UNCHANGED <<step, clientVars, call, left, flag_parada, robotVars, ghostVars>>

CloseRotation == Close("rotate")
CloseForward == Close("forward")

-----------------------------------------------------------------------------
(* The client takes the answer of a call; the last one of a command gives  *)
(* its pose and the cell it returns.  The answer of a call that was given  *)
(* up is not the one it waits for, and is dropped.                         *)
TakeCell ==
    /\ pose' = [pose EXCEPT !.cell = odom.cell]
    /\ cpos' = odom.cell
    /\ carried' = FALSE

TakePose ==
    /\ pose' = [cell |-> odom.cell, o |-> IF odom.o > 180 THEN odom.o - 360 ELSE odom.o]
    /\ cpos' = IF nStr \in {"rotate", "checkAngle"} THEN cpos ELSE odom.cell
    /\ carried' = FALSE

TakeNoPose == UNCHANGED <<pose, cpos, carried>>

GivesPose == nStr \notin {"bumpersensor", "readBateryLevel"}

Answer ==
    /\ step # "crashed"
    /\ server = "done"
    /\ server' = "idle"
    /\ calls' = Tail(calls) /\ late' = FALSE
    /\ IF Len(calls) = 1 /\ GivesPose THEN TakePose ELSE TakeNoPose
    /\ nStr' = IF Len(calls) = 1 THEN "none" ELSE nStr
    /\ call' = NoCall /\ left' = 0
    /\ UNCHANGED <<step, object_dest, flag_parada, odom, robotVars, excused>>

TimeOutWaiting == step # "crashed" /\ server = "settle"

(* A call is given up after 120 s; the server does not know, and takes the *)
(* next call when it has done this one.                                    *)
TimeOutBusy == step # "crashed" /\ server \notin {"idle", "done"}

(* Only the null answer to the last call of a command is surely followed.  *)
(* That of a rotation inside a moveto is reported and replaced by the one  *)
(* to the way; that of a position asked for first is followed when OGATE   *)
(* is to be told.                                                          *)
GiveUp ==
    /\ TimeOutBusy
    /\ Len(calls) > 1 /\ ~late
    /\ late' = TRUE
    /\ UNCHANGED <<step, nStr, calls, object_dest, cpos, pose, serverVars, robotVars,
                   ghostVars>>

(* A null answer is followed, and the executive dies. *)
Die ==
    /\ TimeOutBusy
    /\ Len(calls) = 1 \/ late \/ nStr # "moveto"
    /\ step' = "crashed"
    /\ NoClient
    /\ UNCHANGED <<serverVars, robotVars, ghostVars>>

TimeOut == GiveUp \/ Die

(* A movement listens to the bumper from its first wait to its last.  An   *)
(* event is sent when the bumper is pressed, not while it stays so.        *)
Listening == server \in {"settle", "moving", "closing"}

Hit ==
    /\ Listening
    /\ ~contact
    /\ flag_parada' = 1
    /\ excused' = TRUE
    /\ UNCHANGED <<step, clientVars, server, call, left, odom, robot, obstacles, carried>>

BumpAhead ==
    /\ Moving("forward")
    /\ left > 0 /\ call.vel > 0
    /\ ~Free(Ahead(robot.cell, robot.o, 1))
    /\ contact' = TRUE
    /\ bumps' = bumps
    /\ Hit

BumpInPassing ==
    /\ bumps < MaxBumps
    /\ bumps' = bumps + 1
    /\ contact' \in BOOLEAN
    /\ Hit

Planner == GetTurtlePosition \/ MoveTo \/ RotateTo \/ MoveBack \/ CheckOk
           \/ GetOrientation \/ GetBumper \/ MoveBackTurtle \/ ReadBateryLevel
Client == TakeCall \/ Answer
Server ==
    \/ checkposition \/ checkbumpersemsorstate \/ readbaterylevel
    \/ SettleRotation \/ TurnStep \/ CloseRotation
    \/ SettleForward \/ Drive \/ CloseForward
    \/ ReachGoal \/ StopByBump
World == BumpAhead \/ BumpInPassing \/ Docking

Next == Planner \/ Client \/ Server \/ TimeOut \/ World

(* Calls are made, served and answered or given up; a robot that meets an  *)
(* obstacle feels it.                                                      *)
Spec ==
    /\ Init /\ [][Next]_vars
    /\ WF_vars(Client) /\ WF_vars(Server) /\ WF_vars(TimeOut) /\ WF_vars(BumpAhead)

-----------------------------------------------------------------------------
ToHead(o) == IF o > 180 THEN o - 360 ELSE o
Between == calls = <<>> /\ server = "idle"

(* Between commands the client knows where the robot is and where it looks *)
(* unless the docking drive has moved it, so relative motions add up       *)
(* whatever was cut short (posx, posy and head in TurtlecomAdapter).       *)
PoseTrue ==
    Between /\ ~carried => pose = [cell |-> robot.cell, o |-> ToHead(robot.o)]

(* A moveto that starts with a true pose and the flag down, and meets no   *)
(* bump, ends at the cell it was given and says so: headings, signs of the *)
(* axes, relative angle and distance agree between client and server.      *)
MovetoArrives ==
    Between /\ step = "moveto" /\ ~excused =>
        robot.cell = object_dest /\ cpos = object_dest

(* No turn of the rotation loop goes away from its goal, on either side of *)
(* the origin: of half a turn or less, what is left, the way asked,        *)
(* decreases at each turn.                                                 *)
Rest(o) == IF call.angle >= 0 THEN (left - o) % 360 ELSE (o - left) % 360
TurnsTowardsGoal ==
    [][TurnStep /\ Abs(call.angle) <= 180 => Rest(robot'.o) < Rest(robot.o)]_vars

(* Every command is answered or kills the executive. *)
CommandsEnd == calls # <<>> ~> calls = <<>> \/ step = "crashed"

(* A movement forward that starts free of contact ends by itself, at its   *)
(* goal or at an obstacle, even when nobody waits for it any more.         *)
ForwardEnds ==
    server = "moving" /\ call.vel = 1 /\ ~contact ~> server # "moving"

=============================================================================
