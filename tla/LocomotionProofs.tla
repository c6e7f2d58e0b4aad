--------------------------- MODULE LocomotionProofs ---------------------------
(***************************************************************************)
(* Client, functional-layer server and robot in any world, with any angles *)
(* and docks, any divisor of 45 degrees as the turn of one loop and any    *)
(* number of bumps.                                                        *)
(*                                                                         *)
(* What the client knows of the pose needs nothing of the numbers: the     *)
(* server reads the odometry after every movement, answers with it and     *)
(* moves for a call only.  The types, the turns and the end of a moveto do *)
(* need them: TypeInv keeps every angle a multiple of Turn, RestInv says   *)
(* what is left of a movement in each phase of the server, and Arrives     *)
(* adds up turn and way from the command to the cell that it named.        *)
(***************************************************************************)
EXTENDS Locomotion, TLAPS

(* Degrees that the rotation loop can stop at. *)
LEMMA TurnDivides == Turn \in {1, 3, 5, 9, 15, 45}
  <1>1. Turn \in 1..45 /\ 45 % Turn = 0
    BY LocomotionAssumption
  <1>2. Turn \in 1..15 \/ Turn \in 16..30 \/ Turn \in 31..45
    BY <1>1
  <1> QED
    BY <1>1, <1>2

Degrees == {d \in Int : d % Turn = 0}

LEMMA DegreesClosed ==
    ASSUME NEW o \in Degrees, NEW p \in Degrees
    PROVE  /\ o + p \in Degrees /\ o - p \in Degrees /\ -o \in Degrees
           /\ o + 360 \in Degrees /\ o - 360 \in Degrees /\ 360 - o \in Degrees
           /\ o % 360 \in Degrees /\ Turn \in Degrees
           /\ {0, 360, 45, 90, 135, 180, -45, -90, -135} \subseteq Degrees
  BY TurnDivides DEF Degrees

Heads == {d \in -179..180 : d % Turn = 0}
Signed == {d \in Degrees : -359 <= d /\ d <= 359}

LEMMA HeadsAre ==
    /\ \A o \in Heads : o \in Degrees /\ -179 <= o /\ o <= 180
    /\ \A o \in Degrees : -179 <= o /\ o <= 180 => o \in Heads
    /\ \A o \in Orientation : o \in Degrees /\ 0 <= o /\ o <= 359
    /\ \A o \in Degrees : 0 <= o /\ o <= 359 => o \in Orientation
  BY DEF Heads, Degrees, Orientation

(* A turn relative to a heading is brought back to half a turn. *)
LEMMA AngrotSigned ==
    ASSUME NEW h \in Degrees, -135 <= h, h <= 180, NEW o \in Heads
    PROVE  angrot(h - o) \in Signed /\ -180 <= angrot(h - o) /\ angrot(h - o) <= 180
  <1>1. o \in Degrees /\ -179 <= o /\ o <= 180
    BY HeadsAre
  <1>2. h - o \in Degrees /\ h - o + 360 \in Degrees /\ h - o - 360 \in Degrees
    BY <1>1, TurnDivides DEF Degrees
  <1> QED
    BY <1>1, <1>2 DEF angrot, Signed, Degrees

(* The angle a rotation goes to. *)
LEMMA GoalTyped ==
    ASSUME NEW a \in Signed, NEW o \in Orientation
    PROVE  /\ angulo_deseado(a, o) \in Degrees
           /\ 0 <= angulo_deseado(a, o) /\ angulo_deseado(a, o) <= 360
  <1>1. o \in Degrees /\ 0 <= o /\ o <= 359 /\ a \in Degrees
    BY HeadsAre DEF Signed
  <1>2. a + o \in Degrees /\ a + o - 360 \in Degrees /\ 360 + (a + o) \in Degrees
    BY <1>1, DegreesClosed DEF Degrees
  <1> QED
    BY <1>1, <1>2 DEF angulo_deseado, Signed, Degrees

LEMMA TurnTyped ==
    ASSUME NEW o \in Orientation, NEW b \in BOOLEAN
    PROVE  (o + (IF b THEN Turn ELSE 360 - Turn)) % 360 \in Orientation
  <1>1. o \in Degrees /\ 0 <= o /\ o <= 359
    BY HeadsAre
  <1> DEFINE turned == (o + (IF b THEN Turn ELSE 360 - Turn)) % 360
  <1>2. turned \in Degrees /\ 0 <= turned /\ turned <= 359
    BY <1>1, TurnDivides DEF Degrees
  <1> QED
    BY <1>2, HeadsAre

LEMMA HeadTyped ==
    ASSUME NEW o \in Orientation
    PROVE  (IF o > 180 THEN o - 360 ELSE o) \in Heads
  <1>1. o \in Degrees /\ 0 <= o /\ o <= 359
    BY HeadsAre
  <1>2. o - 360 \in Degrees
    BY <1>1, TurnDivides DEF Degrees
  <1> QED
    BY <1>1, <1>2, HeadsAre DEF Degrees

(* A call as the clients make it. *)
CallType ==
    [op : {"none", "check", "bumpers", "battery", "charging", "rotate", "forward"},
     angle : Signed,
     vel : {-1, 0, 1},
     cells : Nat]

ClientTyped ==
    /\ nStr \in {"none", "checkPosition", "checkAngle", "bumpersensor", "moveto",
                 "rotate", "moveBack", "moveBackxMeters", "readBateryLevel"}
    /\ calls \in Seq(CallType) /\ Len(calls) <= 2
    /\ object_dest \in Cell /\ cpos \in Cell
    /\ pose \in [cell : Cell, o : Heads]
ServerTyped ==
    /\ server \in {"idle", "check", "bumpers", "battery", "charging", "settle", "moving",
                   "closing", "done"}
    /\ call \in CallType
    /\ left \in Nat
    /\ flag_parada \in 0..1
    /\ odom \in Place
RobotTyped ==
    /\ robot \in Place
    /\ obstacles \in Worlds /\ robot.cell \notin obstacles
    /\ contact \in BOOLEAN
    /\ bumps \in 0..MaxBumps
TypeInv ==
    /\ step \in {"start", "loop", "moveto", "blocked", "bumper", "acted", "crashed"}
    /\ ClientTyped /\ ServerTyped /\ RobotTyped
    /\ late \in BOOLEAN /\ carried \in BOOLEAN /\ excused \in BOOLEAN

LEMMA Typed == TypeInv => TypeOK
  <1> SUFFICES ASSUME TypeInv PROVE TypeOK
    OBVIOUS
  <1>1. contact \in BOOLEAN /\ late \in BOOLEAN /\ carried \in BOOLEAN /\ excused \in BOOLEAN
    BY DEF TypeInv, RobotTyped
  <1> QED
    BY <1>1 DEF TypeInv, ClientTyped, ServerTyped, RobotTyped, TypeOK, Heads

LEMMA NoCallTyped == NoCall \in CallType /\ Origin \in Cell /\ 0 \in Orientation /\ 0 \in Heads
  BY LocomotionAssumption, TurnDivides
     DEF NoCall, CallType, Degrees, Larger, Cell, Origin, Orientation, Signed, Heads

LEMMA InitTypeInv == Standing /\ excused \in BOOLEAN => TypeInv
  <1> SUFFICES ASSUME Standing, excused \in BOOLEAN PROVE TypeInv
    OBVIOUS
  <1>1. robot \in Place /\ robot.cell \notin obstacles
    BY LocomotionAssumption DEF Standing, Place, Cell, Orientation
  <1>2. <<>> \in Seq(CallType) /\ Len(<<>>) = 0
    OBVIOUS
  <1>3. 0 \in 0..MaxBumps
    BY LocomotionAssumption
  <1>4. contact \in BOOLEAN /\ carried \in BOOLEAN /\ late \in BOOLEAN
    BY DEF Standing
  <1>5. ClientTyped
    BY <1>2, NoCallTyped DEF Standing, ClientTyped
  <1>6. ServerTyped
    BY <1>3, NoCallTyped DEF Standing, ServerTyped, Place
  <1>7. RobotTyped
    BY <1>1, <1>3, <1>4 DEF Standing, RobotTyped
  <1> QED
    BY <1>4, <1>5, <1>6, <1>7 DEF Standing, TypeInv

(* What a command may ask for: up to two calls. *)
Asked(cs) == cs \in Seq(CallType) /\ Len(cs) <= 2

(* A command leaves the calls it makes. *)
LEMMA CommandTyped ==
    ASSUME TypeInv, NEW name, NEW cs, Command(name, cs),
           name \in {"checkPosition", "checkAngle", "bumpersensor", "moveto",
                     "rotate", "moveBack", "moveBackxMeters", "readBateryLevel"},
           Asked(cs),
           step' \in {"start", "loop", "moveto", "blocked", "bumper", "acted"},
           object_dest' \in Cell, UNCHANGED cpos
    PROVE  TypeInv'
  <1>1. excused' \in BOOLEAN
    BY DEF Command
  <1>2. ClientTyped'
    BY DEF TypeInv, ClientTyped, Command, Asked
  <1>3. ServerTyped' /\ RobotTyped' /\ carried' \in BOOLEAN /\ late' \in BOOLEAN
    BY DEF TypeInv, ServerTyped, RobotTyped, Command, serverVars, robotVars
  <1> QED
    BY <1>1, <1>2, <1>3 DEF TypeInv

LEMMA CallsTyped ==
    /\ Check \in CallType /\ Bumpers \in CallType /\ Battery \in CallType
    /\ \A a \in Signed : Rotate(a) \in CallType
    /\ \A v \in {-1, 0, 1}, n \in Nat : Forward(v, n) \in CallType
  BY NoCallTyped DEF Check, Bumpers, Battery, Rotate, Forward, NoCall, CallType

LEMMA OneOrTwo ==
    ASSUME NEW a \in CallType, NEW b \in CallType
    PROVE  /\ <<a>> \in Seq(CallType) /\ Len(<<a>>) = 1
           /\ <<a, b>> \in Seq(CallType) /\ Len(<<a, b>>) = 2
           /\ <<>> \in Seq(CallType) /\ Len(<<>>) = 0
  OBVIOUS

LEMMA CommandsAsk ==
    /\ Asked(<<Check>>) /\ Asked(<<Bumpers>>) /\ Asked(<<Battery>>)
    /\ \A a \in Signed : Asked(<<Check, Rotate(a)>>)
    /\ Asked(<<Check, Forward(-1, 1)>>)
    /\ \A n \in {0, 1} : Asked(<<Forward(-1, n)>>)
  BY CallsTyped, OneOrTwo DEF Asked

LEMMA MovetoTyped ==
    ASSUME TypeInv, NEW dest \in Cell, Moveto(dest), step' = "moveto"
    PROVE  TypeInv'
  <1> DEFINE d == [x |-> dest.x - pose.cell.x, y |-> dest.y - pose.cell.y]
             turn == newhead(d) - pose.o
             cells == Larger(Abs(d.x), Abs(d.y))
             first == IF turn # 0 THEN <<Rotate(angrot(turn))>> ELSE <<>>
             second == IF cells # 0 THEN <<Forward(1, cells)>> ELSE <<>>
  <1>0. pose.cell \in Cell /\ pose.o \in Heads
    BY DEF TypeInv, ClientTyped
  <1>1. /\ d.x \in Int /\ d.y \in Int
        /\ Abs(d.x) \in 0..Width - 1 /\ Abs(d.y) \in 0..Height - 1
    <2>1. /\ pose.cell.x \in 0..Width - 1 /\ pose.cell.y \in 0..Height - 1
          /\ dest.x \in 0..Width - 1 /\ dest.y \in 0..Height - 1
      BY <1>0 DEF Cell
    <2> QED
      BY <2>1, LocomotionAssumption DEF Abs
  <1>2. cells \in Nat
    BY <1>1, LocomotionAssumption DEF Larger
  <1>3. newhead(d) \in Degrees /\ -135 <= newhead(d) /\ newhead(d) <= 180
    BY <1>1, TurnDivides DEF newhead, Degrees
  <1>6. angrot(turn) \in Signed
    <2> HIDE DEF d
    <2> QED
      BY <1>0, <1>3, AngrotSigned
  <1>7. first \in Seq(CallType) /\ Len(first) <= 1
    BY <1>6, CallsTyped, OneOrTwo, NoCallTyped
  <1>8. second \in Seq(CallType) /\ Len(second) <= 1
    BY <1>2, CallsTyped, OneOrTwo, NoCallTyped
  <1> HIDE DEF first, second
  <1>9. Asked(first \o second)
    BY <1>7, <1>8 DEF Asked
  <1>10. Command("moveto", first \o second) /\ object_dest' = dest /\ UNCHANGED cpos
    BY DEF Moveto, first, second
  <1> QED
    BY <1>9, <1>10, CommandTyped

LEMMA PlannerTyped == TypeInv /\ Planner => TypeInv'
  <1> SUFFICES ASSUME TypeInv, Planner PROVE TypeInv'
    OBVIOUS
  <1> USE CommandsAsk, NoCallTyped
  <1>0. object_dest \in Cell
    BY DEF TypeInv, ClientTyped
  <1>1. CASE GetTurtlePosition
    BY <1>0, <1>1, CommandTyped DEF GetTurtlePosition
  <1>2. CASE MoveTo
    BY <1>2, MovetoTyped DEF MoveTo
  <1>3. CASE RotateTo
    <2>1. PICK a \in Angles : Command("rotate", <<Check, Rotate(a)>>)
      BY <1>3 DEF RotateTo
    <2>2. a \in Signed
      <3>1. ASSUME NEW n \in -180..180, n % Turn = 0 PROVE n \in Signed
        BY <3>1 DEF Signed, Degrees
      <3> QED
        BY <3>1, LocomotionAssumption
    <2> QED
      BY <1>0, <1>3, <2>1, <2>2, CommandTyped DEF RotateTo
  <1>4. CASE MoveBack
    BY <1>0, <1>4, CommandTyped DEF MoveBack
  <1>5. CASE CheckOk
    BY <1>5 DEF CheckOk, TypeInv, ClientTyped, ServerTyped, RobotTyped, serverVars, robotVars,
                ghostVars
  <1>6. CASE GetOrientation
    BY <1>0, <1>6, CommandTyped DEF GetOrientation
  <1>7. CASE GetBumper
    BY <1>0, <1>7, CommandTyped DEF GetBumper
  <1>8. CASE MoveBackTurtle
    BY <1>0, <1>8, CommandTyped DEF MoveBackTurtle, moveBackxmeters
  <1>9. CASE ReadBateryLevel
    BY <1>0, <1>9, CommandTyped DEF ReadBateryLevel
  <1> QED
    BY <1>1, <1>2, <1>3, <1>4, <1>5, <1>6, <1>7, <1>8, <1>9 DEF Planner

LEMMA TakeCallTyped == TypeInv /\ TakeCall => TypeInv'
  <1> SUFFICES ASSUME TypeInv, TakeCall PROVE TypeInv'
    OBVIOUS
  <1>1. Head(calls) \in CallType
    BY DEF TypeInv, ClientTyped, TakeCall
  <1>2. server' \in {"check", "bumpers", "battery", "charging", "settle"}
    BY DEF TakeCall
  <1>3. ServerTyped'
    BY <1>1, <1>2 DEF TypeInv, ServerTyped, TakeCall
  <1> QED
    BY <1>3 DEF TypeInv, ClientTyped, RobotTyped, TakeCall, clientVars, robotVars, ghostVars

(* What is left of the calls after an answer. *)
LEMMA RestTyped ==
    ASSUME NEW s \in Seq(CallType), s # <<>>, Len(s) <= 2
    PROVE  Tail(s) \in Seq(CallType) /\ Len(Tail(s)) <= 2
  OBVIOUS

LEMMA AnswerTyped == TypeInv /\ Answer /\ calls # <<>> => TypeInv'
  <1> SUFFICES ASSUME TypeInv, Answer, calls # <<>> PROVE TypeInv'
    OBVIOUS
  <1>1. calls' \in Seq(CallType) /\ Len(calls') <= 2
    BY RestTyped DEF TypeInv, ClientTyped, Answer
  <1>2. odom.cell \in Cell /\ odom.o \in Orientation
    BY DEF TypeInv, ServerTyped, Place
  <1>3. pose' \in [cell : Cell, o : Heads] /\ cpos' \in Cell /\ carried' \in BOOLEAN
    <2>1. CASE TakePose
      BY <1>2, <2>1, HeadTyped, ZenonT(60) DEF TakePose, TypeInv, ClientTyped
    <2>2. CASE TakeNoPose
      BY <2>2 DEF TakeNoPose, TypeInv, ClientTyped
    <2> QED
      BY <2>1, <2>2 DEF Answer
  <1>4. ClientTyped'
    BY <1>1, <1>3 DEF TypeInv, ClientTyped, Answer
  <1>6. ServerTyped' /\ RobotTyped'
    BY NoCallTyped DEF TypeInv, ServerTyped, RobotTyped, Answer, robotVars
  <1> QED
    BY <1>3, <1>4, <1>6 DEF TypeInv, Answer

LEMMA ServerTypedStep == TypeInv /\ Server => TypeInv'
  <1> SUFFICES ASSUME TypeInv, Server PROVE TypeInv'
    OBVIOUS
  <1>0. /\ robot \in Place /\ robot.cell \in Cell /\ robot.o \in Orientation
        /\ obstacles \in Worlds /\ robot.cell \notin obstacles
        /\ left \in Nat /\ call \in CallType
    BY DEF TypeInv, RobotTyped, ServerTyped, Place
  <1>1. /\ UNCHANGED <<step, nStr, calls, object_dest, cpos, pose, call, obstacles, bumps,
                       carried, excused>>
    BY DEF Server, checkposition, checkbumpersemsorstate, readbaterylevel, SettleRotation,
       SettleForward, Settle, TurnStep, CloseRotation, CloseForward, Close, Drive, ReachGoal,
       StopByBump, clientVars, robotVars, ghostVars
  <1>11. late' = late
    BY DEF Server, checkposition, checkbumpersemsorstate, readbaterylevel, SettleRotation,
       SettleForward, Settle, TurnStep, CloseRotation, CloseForward, Close, Drive, ReachGoal,
       StopByBump, clientVars
  <1>2. server' \in {"settle", "moving", "closing", "done"}
    BY DEF Server, checkposition, checkbumpersemsorstate, readbaterylevel, SettleRotation,
       SettleForward, Settle, Moving, TurnStep, CloseRotation, CloseForward, Close, Drive,
       ReachGoal, StopByBump
  <1>3. robot' \in Place /\ robot'.cell \notin obstacles
    <2>1. CASE TurnStep
      <3>1. robot' = [robot EXCEPT !.o =
                        (@ + (IF TurnsLeft THEN Turn ELSE 360 - Turn)) % 360]
        BY <2>1 DEF TurnStep
      <3>2. PICK b \in BOOLEAN :
               robot' = [robot EXCEPT !.o = (@ + (IF b THEN Turn ELSE 360 - Turn)) % 360]
        BY <3>1
      <3>3. (robot.o + (IF b THEN Turn ELSE 360 - Turn)) % 360 \in Orientation
        BY <1>0, TurnTyped
      <3> QED
        BY <1>0, <3>2, <3>3 DEF Place
    <2>2. CASE Drive
      BY <1>0, <2>2 DEF Drive, Free, Place
    <2>3. CASE ~TurnStep /\ ~Drive
      BY <1>0, <2>3 DEF Server, checkposition, checkbumpersemsorstate, readbaterylevel,
         SettleRotation, SettleForward, Settle, CloseRotation, CloseForward, Close, ReachGoal,
         StopByBump, robotVars
    <2> QED
      BY <2>1, <2>2, <2>3
  <1>4. odom' \in Place
    BY <1>0, <1>3 DEF TypeInv, ServerTyped, Server, checkposition, checkbumpersemsorstate,
       readbaterylevel, SettleRotation, SettleForward, Settle, TurnStep, CloseRotation,
       CloseForward, Close, Drive, ReachGoal, StopByBump
  <1>5. left' \in Nat
    <2>1. CASE SettleRotation
      <3>1. left' = angulo_deseado(call.angle, robot.o)
        BY <2>1 DEF SettleRotation, Settle
      <3>2. call.angle \in Signed
        BY <1>0 DEF CallType
      <3> QED
        BY <1>0, <3>1, <3>2, GoalTyped DEF Degrees
    <2>2. CASE SettleForward
      BY <1>0, <2>2 DEF SettleForward, Settle, CallType
    <2>3. CASE Drive
      BY <1>0, <2>3 DEF Drive
    <2>4. CASE ~SettleRotation /\ ~SettleForward /\ ~Drive
      BY <1>0, <2>4 DEF Server, checkposition, checkbumpersemsorstate, readbaterylevel,
         TurnStep, CloseRotation, CloseForward, Close, ReachGoal, StopByBump
    <2> QED
      BY <2>1, <2>2, <2>3, <2>4
  <1>6. flag_parada' \in 0..1
    <2>1. CASE ReachGoal \/ StopByBump
      BY <2>1 DEF ReachGoal, StopByBump
    <2>2. CASE ~(ReachGoal \/ StopByBump)
      BY <2>2 DEF TypeInv, ServerTyped, Server, checkposition, checkbumpersemsorstate,
         readbaterylevel, SettleRotation, SettleForward, Settle, TurnStep, CloseRotation,
         CloseForward, Close, Drive
    <2> QED
      BY <2>1, <2>2
  <1>7. contact' \in BOOLEAN
    BY DEF TypeInv, RobotTyped, Server, checkposition, checkbumpersemsorstate,
       readbaterylevel, SettleRotation, SettleForward, Settle, TurnStep, CloseRotation,
       CloseForward, Close, Drive, ReachGoal, StopByBump, robotVars
  <1>8. ClientTyped'
    BY <1>1 DEF TypeInv, ClientTyped
  <1>9. ServerTyped'
    BY <1>0, <1>1, <1>2, <1>4, <1>5, <1>6 DEF ServerTyped
  <1>10. RobotTyped'
    BY <1>0, <1>1, <1>3, <1>7 DEF TypeInv, RobotTyped
  <1> QED
    BY <1>1, <1>8, <1>9, <1>10, <1>11 DEF TypeInv

LEMMA WorldTyped == TypeInv /\ (BumpAhead \/ BumpInPassing) => TypeInv'
  <1> SUFFICES ASSUME TypeInv, BumpAhead \/ BumpInPassing PROVE TypeInv'
    OBVIOUS
  <1>1. /\ UNCHANGED <<step, clientVars, server, call, left, odom, robot, obstacles, carried>>
        /\ flag_parada' = 1 /\ excused' = TRUE
    BY DEF BumpAhead, BumpInPassing, Hit
  <1>2. bumps' \in 0..MaxBumps
    BY LocomotionAssumption DEF BumpAhead, BumpInPassing, TypeInv, RobotTyped
  <1>3. contact' \in BOOLEAN
    BY DEF BumpAhead, BumpInPassing
  <1>4. ClientTyped' /\ ServerTyped'
    BY <1>1 DEF TypeInv, ClientTyped, ServerTyped, clientVars
  <1>5. RobotTyped'
    BY <1>1, <1>2, <1>3 DEF TypeInv, RobotTyped
  <1>6. excused' \in BOOLEAN /\ carried' \in BOOLEAN /\ late' \in BOOLEAN
    BY <1>1 DEF TypeInv, clientVars
  <1> QED
    BY <1>1, <1>4, <1>5, <1>6 DEF TypeInv

LEMMA TypeStep ==
    TypeInv /\ (server = "done" /\ step # "crashed" => calls # <<>>) /\ [Next]_vars => TypeInv'
  <1> SUFFICES ASSUME TypeInv, server = "done" /\ step # "crashed" => calls # <<>>, [Next]_vars
               PROVE TypeInv'
    OBVIOUS
  <1>1. CASE Die
    <2>1. <<>> \in Seq(CallType) /\ Len(<<>>) = 0
      OBVIOUS
    <2>2. ClientTyped'
      BY <1>1, <2>1, NoCallTyped DEF Die, NoClient, ClientTyped
    <2> QED
      BY <1>1, <2>2 DEF TypeInv, ServerTyped, RobotTyped, Die, NoClient, serverVars, robotVars,
         ghostVars
  <1>5. CASE GiveUp
    BY <1>5 DEF GiveUp, TypeInv, ClientTyped, ServerTyped, RobotTyped, serverVars, robotVars,
       ghostVars
  <1>2. CASE Docking
    <2>1. robot' \in Place /\ \A w \in Worlds : robot'.cell \notin w
      BY <1>2, LocomotionAssumption DEF Docking, Place, Cell, Orientation
    <2>2. ClientTyped' /\ ServerTyped'
      BY <1>2 DEF Docking, TypeInv, ClientTyped, ServerTyped, clientVars, serverVars
    <2>3. RobotTyped'
      BY <1>2, <2>1 DEF Docking, TypeInv, RobotTyped
    <2>4. /\ late' \in BOOLEAN /\ carried' \in BOOLEAN /\ excused' \in BOOLEAN
          /\ step' = "acted"
      BY <1>2 DEF Docking, TypeInv, clientVars
    <2> QED
      BY <2>2, <2>3, <2>4 DEF TypeInv
  <1>3. CASE UNCHANGED vars
    BY <1>3 DEF TypeInv, ClientTyped, ServerTyped, RobotTyped, vars, clientVars, serverVars,
       robotVars, ghostVars
  <1>4. CASE Answer
    BY <1>4, AnswerTyped DEF Answer
  <1> QED
    BY <1>1, <1>2, <1>3, <1>4, <1>5, PlannerTyped, TakeCallTyped, ServerTypedStep, WorldTyped
       DEF Next, Client, TimeOut, World
-----------------------------------------------------------------------------
(* The calls whose answer holds no pose, and the commands that make them.  *)
NoPoseCall == {"bumpers", "battery", "charging"}
NoPoseCommand == {"bumpersensor", "readBateryLevel"}

(* Up to two calls, all of which are answered with a pose. *)
Posing(s) ==
    \/ s = <<>>
    \/ s = <<s[1]>> /\ s[1].op \notin NoPoseCall
    \/ s = <<s[1], s[2]>> /\ s[1].op \notin NoPoseCall /\ s[2].op \notin NoPoseCall

(* The calls fit the command, and the server does the first of them. *)
CallsInv ==
    /\ nStr \in NoPoseCommand => calls = <<Bumpers>> \/ calls = <<Battery>>
    /\ nStr \notin NoPoseCommand => Posing(calls)
    /\ server # "idle" /\ step # "crashed" => calls # <<>> /\ call = Head(calls)
    /\ step = "crashed" => server # "idle" /\ nStr = "none"

(* Who drives the robot reads the odometry before the answer. *)
OdomInv ==
    /\ server \in NoPoseCall <=> call.op \in NoPoseCall /\ server \notin {"idle", "done"}
    /\ server = "done" /\ call.op \notin NoPoseCall => odom = robot

(* A call without a pose leaves the robot where it is. *)
PoseIs == pose = [cell |-> robot.cell, o |-> ToHead(robot.o)]
PoseInv ==
    step # "crashed" /\ ~carried /\ (Between \/ nStr \in NoPoseCommand) => PoseIs

LInv == CallsInv /\ OdomInv /\ PoseInv

-----------------------------------------------------------------------------
(* Of one call and of two. *)
LEMMA OneCall ==
    ASSUME NEW c
    PROVE  Len(<<c>>) = 1 /\ Head(<<c>>) = c /\ Tail(<<c>>) = <<>>
  <1> DEFINE S == {c}
  <1>1. <<c>> \in Seq(S) /\ Len(<<c>>) = 1 /\ Head(<<c>>) = c
    OBVIOUS
  <1>2. Tail(<<c>>) \in Seq(S) /\ Len(Tail(<<c>>)) = 0
    BY <1>1
  <1> QED
    BY <1>1, <1>2

LEMMA TwoCalls ==
    ASSUME NEW c, NEW d
    PROVE  Len(<<c, d>>) = 2 /\ Tail(<<c, d>>) = <<d>>
  <1> DEFINE S == {c, d}
  <1>1. <<c, d>> \in Seq(S) /\ Len(<<c, d>>) = 2
    OBVIOUS
  <1>2. Tail(<<c, d>>) \in Seq(S) /\ Len(Tail(<<c, d>>)) = 1 /\ Tail(<<c, d>>)[1] = d
    BY <1>1
  <1> QED
    BY <1>1, <1>2

LEMMA InitLInv == Init => LInv
  BY DEF Init, Standing, LInv, CallsInv, OdomInv, PoseInv, Posing, NoPoseCommand, NoPoseCall, NoCall

(* A command starts between two others, and keeps what the client knows.   *)
LEMMA CommandStarts ==
    ASSUME LInv, NEW s, NEW name, NEW cs, Ready(s), Command(name, cs), s # "crashed",
           step' # "crashed",
           \/ name \notin NoPoseCommand /\ Posing(cs)
           \/ name \in NoPoseCommand /\ (cs = <<Bumpers>> \/ cs = <<Battery>>)
    PROVE  LInv'
  <1>1. /\ Between /\ step # "crashed"
        /\ nStr' = name /\ calls' = cs
        /\ UNCHANGED <<pose, server, call, odom, robot, carried>>
    BY DEF Ready, Between, Command, serverVars, robotVars
  <1>2. CallsInv'
    BY <1>1 DEF CallsInv, Ready, Posing, Bumpers, Battery
  <1>3. OdomInv'
    BY <1>1 DEF LInv, OdomInv
  <1>4. PoseInv'
    BY <1>1 DEF LInv, PoseInv, PoseIs
  <1> QED
    BY <1>2, <1>3, <1>4 DEF LInv

LEMMA Joined ==
    ASSUME NEW c, NEW d
    PROVE  /\ <<c>> \o <<d>> = <<c, d>>
           /\ <<c>> \o <<>> = <<c>>
           /\ <<>> \o <<d>> = <<d>>
           /\ <<>> \o <<>> = <<>>
  <1> DEFINE S == {c, d}
  <1>1. /\ <<c>> \in Seq(S) /\ <<d>> \in Seq(S) /\ <<>> \in Seq(S) /\ <<c, d>> \in Seq(S)
        /\ <<c>>[1] = c /\ <<d>>[1] = d /\ <<c, d>>[1] = c /\ <<c, d>>[2] = d
        /\ Len(<<c>>) = 1 /\ Len(<<d>>) = 1 /\ Len(<<>>) = 0 /\ Len(<<c, d>>) = 2
    OBVIOUS
  <1>2. <<c>> \o <<d>> = <<c, d>>
    <2>1. ASSUME NEW t \in Seq(S), Len(t) = 2, t[1] = c, t[2] = d PROVE t = <<c, d>>
      BY <2>1
    <2>2. /\ <<c>> \o <<d>> \in Seq(S) /\ Len(<<c>> \o <<d>>) = 2
          /\ (<<c>> \o <<d>>)[1] = c /\ (<<c>> \o <<d>>)[2] = d
      BY <1>1
    <2> QED
      BY <2>1, <2>2
  <1>3. <<c>> \o <<>> = <<c>> /\ <<>> \o <<d>> = <<d>>
    BY <1>1
  <1>4. <<>> \o <<>> = <<>>
    BY <1>1
  <1> QED
    BY <1>2, <1>3, <1>4

LEMMA MovetoPosing ==
    ASSUME NEW turn, NEW cells, NEW go \in BOOLEAN, NEW drive \in BOOLEAN
    PROVE  Posing((IF go THEN <<Rotate(turn)>> ELSE <<>>)
                  \o (IF drive THEN <<Forward(1, cells)>> ELSE <<>>))
  <1>1. Rotate(turn).op = "rotate" /\ Forward(1, cells).op = "forward"
    BY DEF Rotate, Forward, NoCall
  <1>2. /\ <<Rotate(turn)>> \o <<Forward(1, cells)>> = <<Rotate(turn), Forward(1, cells)>>
        /\ <<Rotate(turn)>> \o <<>> = <<Rotate(turn)>>
        /\ <<>> \o <<Forward(1, cells)>> = <<Forward(1, cells)>>
        /\ <<>> \o <<>> = <<>>
    BY Joined
  <1>3. CASE go /\ drive
    BY <1>1, <1>2, <1>3 DEF Posing, NoPoseCall
  <1>4. CASE go /\ ~drive
    BY <1>1, <1>2, <1>4 DEF Posing, NoPoseCall
  <1>5. CASE ~go /\ drive
    BY <1>1, <1>2, <1>5 DEF Posing, NoPoseCall
  <1>6. CASE ~go /\ ~drive
    BY <1>2, <1>6 DEF Posing
  <1> QED
    BY <1>3, <1>4, <1>5, <1>6

LEMMA PlannerStep == LInv /\ Planner => LInv'
  <1> SUFFICES ASSUME LInv, Planner PROVE LInv'
    OBVIOUS
  <1>0. Posing(<<Check>>) /\ \A n : Posing(<<Forward(-1, n)>>)
    BY DEF Posing, Check, Forward, NoCall, NoPoseCall
  <1>1. CASE GetTurtlePosition
    BY <1>0, <1>1, CommandStarts DEF GetTurtlePosition, NoPoseCommand
  <1>2. CASE MoveTo
    <2>1. PICK dest \in Cell : Moveto(dest)
      BY <1>2 DEF MoveTo
    <2>2. PICK cs : Command("moveto", cs) /\ Posing(cs)
      BY <2>1, MovetoPosing DEF Moveto
    <2> QED
      BY <1>2, <2>2, CommandStarts DEF MoveTo, NoPoseCommand
  <1>3. CASE RotateTo
    <2>1. PICK a \in Angles : Command("rotate", <<Check, Rotate(a)>>)
      BY <1>3 DEF RotateTo
    <2>2. Posing(<<Check, Rotate(a)>>)
      BY DEF Posing, Check, Rotate, NoCall, NoPoseCall
    <2> QED
      BY <1>3, <2>1, <2>2, CommandStarts DEF RotateTo, NoPoseCommand
  <1>4. CASE MoveBack
    <2>1. Posing(<<Check, Forward(-1, 1)>>)
      BY DEF Posing, Check, Forward, NoCall, NoPoseCall
    <2> QED
      BY <1>4, <2>1, CommandStarts DEF MoveBack, NoPoseCommand
  <1>5. CASE CheckOk
    <2>1. /\ step # "crashed" /\ step' # "crashed"
          /\ UNCHANGED <<nStr, calls, pose, server, call, odom, robot, carried>>
      BY <1>5 DEF CheckOk, Ready, serverVars, robotVars, ghostVars
    <2> QED
      BY <2>1 DEF LInv, CallsInv, OdomInv, PoseInv, PoseIs, Between
  <1>6. CASE GetOrientation
    BY <1>0, <1>6, CommandStarts DEF GetOrientation, NoPoseCommand
  <1>7. CASE GetBumper
    BY <1>7, CommandStarts DEF GetBumper, NoPoseCommand
  <1>8. CASE MoveBackTurtle
    BY <1>0, <1>8, CommandStarts DEF MoveBackTurtle, NoPoseCommand
  <1>9. CASE ReadBateryLevel
    BY <1>9, CommandStarts DEF ReadBateryLevel, NoPoseCommand
  <1> QED
    BY <1>1, <1>2, <1>3, <1>4, <1>5, <1>6, <1>7, <1>8, <1>9 DEF Planner

LEMMA TakeCallStep == LInv /\ TakeCall => LInv'
  <1> SUFFICES ASSUME LInv, TakeCall PROVE LInv'
    OBVIOUS
  <1>1. /\ step # "crashed" /\ server = "idle" /\ calls # <<>> /\ call' = Head(calls)
        /\ server' = CASE Head(calls).op = "check" -> "check"
                       [] Head(calls).op \in NoPoseCall -> Head(calls).op
                       [] OTHER -> "settle"
        /\ UNCHANGED <<step, nStr, calls, pose, odom, robot, carried>>
    BY DEF TakeCall, NoPoseCall, clientVars, robotVars, ghostVars
  <1>2. /\ server' \notin {"idle", "done"}
        /\ server' \in NoPoseCall <=> Head(calls).op \in NoPoseCall
    BY <1>1 DEF NoPoseCall
  <1>3. CallsInv' /\ OdomInv'
    BY <1>1, <1>2 DEF LInv, CallsInv, OdomInv
  <1>4. PoseInv'
    BY <1>1, <1>2 DEF LInv, PoseInv, PoseIs, Between
  <1> QED
    BY <1>3, <1>4 DEF LInv

LEMMA AnswerStep == LInv /\ Answer => LInv'
  <1> SUFFICES ASSUME LInv, Answer PROVE LInv'
    OBVIOUS
  <1>1. /\ step # "crashed" /\ step' = step /\ server = "done" /\ server' = "idle"
        /\ calls' = Tail(calls) /\ call' = NoCall /\ UNCHANGED <<odom, robot>>
        /\ nStr' = IF Len(calls) = 1 THEN "none" ELSE nStr
        /\ calls # <<>> /\ call = Head(calls)
    BY DEF Answer, LInv, CallsInv, robotVars
  <1>2. OdomInv'
    BY <1>1 DEF OdomInv, NoCall, NoPoseCall
  <1>3. CASE nStr \in NoPoseCommand
    <2>1. Len(calls) = 1 /\ Tail(calls) = <<>>
      BY <1>3, OneCall, Zenon DEF LInv, CallsInv
    <2>2. UNCHANGED <<pose, carried>> /\ nStr' = "none"
      BY <1>1, <1>3, <2>1 DEF Answer, GivesPose, TakeNoPose, NoPoseCommand
    <2>3. CallsInv'
      BY <1>1, <2>1, <2>2 DEF CallsInv, Posing, NoPoseCommand
    <2>4. PoseInv'
      BY <1>1, <1>3, <2>2 DEF LInv, PoseInv, PoseIs
    <2> QED
      BY <1>2, <2>3, <2>4 DEF LInv
  <1>4. CASE nStr \notin NoPoseCommand /\ calls = <<calls[1]>> /\ calls[1].op \notin NoPoseCall
    <2>1. Len(calls) = 1 /\ Tail(calls) = <<>> /\ Head(calls) = calls[1]
      BY <1>4, OneCall, Zenon
    <2>2. odom = robot
      BY <1>1, <1>4, <2>1 DEF LInv, OdomInv
    <2>3. TakePose /\ nStr' = "none"
      BY <1>1, <1>4, <2>1 DEF Answer, GivesPose, NoPoseCommand
    <2>4. PoseInv'
      BY <1>1, <2>2, <2>3 DEF TakePose, PoseInv, PoseIs, ToHead
    <2>5. CallsInv'
      BY <1>1, <2>1, <2>3 DEF CallsInv, Posing, NoPoseCommand
    <2> QED
      BY <1>2, <2>4, <2>5 DEF LInv
  <1>5. CASE /\ nStr \notin NoPoseCommand
             /\ calls = <<calls[1], calls[2]>> /\ calls[2].op \notin NoPoseCall
    <2>1. Len(calls) = 2 /\ Tail(calls) = <<calls[2]>>
      BY <1>5, TwoCalls, Zenon
    <2>2. nStr' = nStr /\ calls' = <<calls[2]>> /\ calls'[1] = calls[2]
      BY <1>1, <2>1
    <2>3. CallsInv'
      BY <1>1, <1>5, <2>2 DEF CallsInv, Posing
    <2>4. PoseInv'
      BY <1>5, <2>2 DEF PoseInv, Between
    <2> QED
      BY <1>2, <2>3, <2>4 DEF LInv
  <1> QED
    BY <1>1, <1>3, <1>4, <1>5 DEF LInv, CallsInv, Posing

(* What the server does between a call and its answer. *)
LEMMA ServerStep == LInv /\ (Server \/ BumpAhead \/ BumpInPassing) => LInv'
  <1> SUFFICES ASSUME LInv, Server \/ BumpAhead \/ BumpInPassing PROVE LInv'
    OBVIOUS
  <1>1. UNCHANGED <<step, nStr, calls, pose, call, carried>>
    BY DEF Server, checkposition, checkbumpersemsorstate, readbaterylevel, SettleRotation,
       SettleForward, Settle, TurnStep, CloseRotation, CloseForward, Close, Drive, ReachGoal,
       StopByBump, BumpAhead, BumpInPassing, Hit, clientVars, robotVars, ghostVars
  <1>2. CASE checkbumpersemsorstate \/ readbaterylevel
    <2>1. server \in NoPoseCall /\ server' = "done" /\ UNCHANGED <<odom, robot>>
      BY <1>2 DEF checkbumpersemsorstate, readbaterylevel, NoPoseCall, robotVars
    <2>2. call.op \in NoPoseCall
      BY <2>1 DEF LInv, OdomInv
    <2> QED
      BY <1>1, <2>1, <2>2 DEF LInv, CallsInv, OdomInv, PoseInv, PoseIs, Between, NoPoseCall
  <1>3. CASE ~(checkbumpersemsorstate \/ readbaterylevel)
    <2>1. /\ server \in {"check", "settle", "moving", "closing"}
          /\ server' \in {"settle", "moving", "closing", "done"}
          /\ server' = "done" => odom' = robot'
      BY <1>3 DEF Server, checkposition, SettleRotation,
         SettleForward, Settle, Moving, TurnStep, CloseRotation, CloseForward, Close, Drive,
         ReachGoal, StopByBump, BumpAhead, BumpInPassing, Hit, Listening, robotVars
    <2>2. /\ server # "idle" /\ server' # "idle"
          /\ server \notin NoPoseCall /\ server' \notin NoPoseCall
          /\ server # "done"
      BY <2>1 DEF NoPoseCall
    <2>3. call.op \notin NoPoseCall
      BY <2>2 DEF LInv, OdomInv
    <2>4. step # "crashed" => nStr \notin NoPoseCommand
      BY <2>2, <2>3 DEF LInv, CallsInv, Bumpers, Battery, NoCall, NoPoseCall
    <2>5. OdomInv'
      BY <1>1, <2>1, <2>2, <2>3 DEF OdomInv
    <2>6. CallsInv' /\ PoseInv'
      BY <1>1, <2>2, <2>4 DEF LInv, CallsInv, PoseInv, Between
    <2> QED
      BY <2>5, <2>6 DEF LInv
  <1> QED
    BY <1>2, <1>3

LEMMA LStep == LInv /\ [Next]_vars => LInv'
  <1>4. ASSUME LInv, GiveUp PROVE LInv'
    BY <1>4 DEF GiveUp, LInv, CallsInv, OdomInv, PoseInv, PoseIs, Between, serverVars, robotVars,
       ghostVars
  <1>1. ASSUME LInv, Die PROVE LInv'
    <2>1. /\ server \notin {"idle", "done"} /\ step' = "crashed" /\ nStr' = "none"
          /\ calls' = <<>> /\ UNCHANGED <<server, call, odom, robot>>
      BY <1>1 DEF Die, TimeOutBusy, NoClient, serverVars, robotVars
    <2> QED
      BY <1>1, <2>1 DEF LInv, CallsInv, OdomInv, PoseInv, Posing, NoPoseCommand
  <1>2. ASSUME LInv, Docking PROVE LInv'
    <2>1. /\ step # "crashed" /\ step' # "crashed" /\ carried' = TRUE /\ server = "idle"
          /\ UNCHANGED <<nStr, calls, server, call>>
      BY <1>2 DEF Docking, Ready, clientVars, serverVars
    <2> QED
      BY <1>2, <2>1 DEF LInv, CallsInv, OdomInv, PoseInv, NoPoseCall
  <1>3. LInv /\ UNCHANGED vars => LInv'
    BY DEF LInv, CallsInv, OdomInv, PoseInv, PoseIs, Between, vars, clientVars, serverVars,
       robotVars, ghostVars
  <1> QED
    BY <1>1, <1>2, <1>3, <1>4, PlannerStep, TakeCallStep, AnswerStep, ServerStep
       DEF Next, Client, TimeOut, World

-----------------------------------------------------------------------------
(* The rotation loop.  While it runs, what is left of the turn is no more  *)
(* than what was asked.                                                    *)
RestInv ==
    server = "moving" /\ call.op = "rotate" =>
        /\ odom = robot
        /\ left \in Degrees /\ left <= 360
        /\ Abs(call.angle) <= 180 => Rest(robot.o) <= Abs(call.angle)

LEMMA OneTurnAtLeast ==
    ASSUME NEW r \in Degrees, r > 0
    PROVE  r >= Turn
  BY TurnDivides DEF Degrees

(* An angle and a goal of the loop, as the code computes them. *)
LEMMA RestAtStart ==
    ASSUME NEW a \in Signed, Abs(a) <= 180, NEW o \in Orientation
    PROVE  (IF a >= 0 THEN (angulo_deseado(a, o) - o) % 360 ELSE (o - angulo_deseado(a, o)) % 360)
           = Abs(a)
  <1>1. o \in Int /\ 0 <= o /\ o <= 359 /\ a \in Int
    BY HeadsAre DEF Degrees, Signed
  <1> QED
    BY <1>1 DEF angulo_deseado, Abs

(* No error is no way left. *)
LEMMA NoError ==
    ASSUME NEW d \in 0..360, NEW o \in 0..359
    PROVE  error(d, o) = 0 <=> d % 360 = o
  <1>1. d % 360 = IF d = 360 THEN 0 ELSE d
    OBVIOUS
  <1>2. error(d, o) = 0 <=> d = o \/ (d = 360 /\ o = 0)
    BY DEF error
  <1> QED
    BY <1>1, <1>2

LEMMA ErrorIsRest ==
    ASSUME NEW d \in 0..360, NEW o \in 0..359
    PROVE  /\ error(d, o) \in -360..360
           /\ error(d, o) % 360 = (d - o) % 360
  BY DEF error

(* Half a turn or less is done the way it was asked. *)
LEMMA WayAsked ==
    ASSUME NEW a \in Int, NEW d \in 0..360, NEW o \in 0..359, Abs(a) <= 180,
           error(d, o) # 0,
           (IF a >= 0 THEN (d - o) % 360 ELSE (o - d) % 360) <= 180
    PROVE  (IF Abs(error(d, o)) <= 80 THEN error(d, o) >= 0 ELSE a >= 0) <=> a >= 0
  BY DEF error, Abs

LEMMA RestDecreases ==
    ASSUME NEW d \in Degrees, 0 <= d, d <= 360, NEW o \in Orientation, error(d, o) # 0
    PROVE  /\ (d - ((o + Turn) % 360)) % 360 < (d - o) % 360
           /\ (((o + (360 - Turn)) % 360) - d) % 360 < (o - d) % 360
  <1>1. o \in Degrees /\ 0 <= o /\ o <= 359 /\ o \in 0..359 /\ d \in 0..360
    BY HeadsAre, SMTT(40) DEF Degrees
  <1>2. d % 360 # o
    BY <1>1, NoError
  <1>3. (d - o) % 360 \in Degrees /\ (o - d) % 360 \in Degrees
    BY <1>1, TurnDivides, SMTT(40) DEF Degrees
  <1>4. (d - o) % 360 > 0 /\ (o - d) % 360 > 0
    <2>1. d # o /\ ~(d = 360 /\ o = 0)
      BY <1>1, <1>2
    <2>2. ASSUME NEW e \in Int, -360 < e, e <= 360, e # 0, e # 360
          PROVE  e % 360 > 0 /\ (-e) % 360 > 0
      <3>1. CASE e > 0
        BY <2>2, <3>1
      <3>2. CASE e < 0
        BY <2>2, <3>2
      <3> QED
        BY <2>2, <3>1, <3>2
    <2>3. d - o \in Int /\ -360 < d - o /\ d - o <= 360 /\ d - o # 0 /\ d - o # 360
          /\ -(d - o) = o - d
      BY <1>1, <2>1
    <2> QED
      BY <2>2, <2>3
  <1>5. (d - o) % 360 >= Turn /\ (o - d) % 360 >= Turn
    BY <1>3, <1>4, OneTurnAtLeast
  <1>6. Turn \in 1..45
    BY LocomotionAssumption
  <1> QED
    BY <1>1, <1>5, <1>6

(* One turn of the loop, of half a turn or less. *)
LEMMA TurnStepRest ==
    ASSUME TypeInv, RestInv, TurnStep, Abs(call.angle) <= 180
    PROVE  Rest(robot'.o) < Rest(robot.o)
  <1>1. /\ robot.o \in Orientation /\ call.angle \in Int /\ odom = robot
        /\ left \in Degrees /\ 0 <= left /\ left <= 360 /\ left \in 0..360
        /\ error(left, robot.o) # 0
    BY DEF TypeInv, RobotTyped, ServerTyped, Place, CallType, Signed, Degrees, RestInv, TurnStep,
       Moving
  <1>2. robot.o \in 0..359
    BY <1>1, HeadsAre, SMTT(40) DEF Degrees
  <1>3. TurnsLeft <=> call.angle >= 0
    <2>1. Rest(robot.o) <= 180
      <3>1. Rest(robot.o) <= Abs(call.angle)
        BY DEF RestInv, TurnStep, Moving
      <3> QED
        BY <1>1, <1>2, <3>1 DEF Rest, Abs
    <2>2. (IF call.angle >= 0 THEN (left - robot.o) % 360 ELSE (robot.o - left) % 360) <= 180
      BY <2>1 DEF Rest
    <2>3. (IF Abs(error(left, robot.o)) <= 80 THEN error(left, robot.o) >= 0 ELSE call.angle >= 0)
          <=> call.angle >= 0
      BY <1>1, <1>2, <2>2, WayAsked, ZenonT(60)
    <2> QED
      BY <1>1, <2>3 DEF TurnsLeft
  <1>4. robot'.o = (robot.o + (IF call.angle >= 0 THEN Turn ELSE 360 - Turn)) % 360
    BY <1>1, <1>3 DEF TurnStep, TypeInv, RobotTyped, Place
  <1> QED
    BY <1>1, <1>4, RestDecreases DEF Rest

LEMMA RestStep == TypeInv /\ RestInv /\ [Next]_vars => RestInv'
  <1> SUFFICES ASSUME TypeInv, RestInv, [Next]_vars,
                      server' = "moving", call'.op = "rotate"
               PROVE  /\ odom' = robot'
                      /\ left' \in Degrees /\ left' <= 360
                      /\ Abs(call'.angle) <= 180 => Rest(robot.o)' <= Abs(call'.angle)
    BY DEF RestInv
  <1>0. robot.o \in Orientation /\ call \in CallType /\ call.angle \in Signed /\ call.angle \in Int
    BY DEF TypeInv, RobotTyped, ServerTyped, Place, CallType, Signed, Degrees
  <1>1. CASE SettleRotation
    <2>1. /\ odom' = robot' /\ robot' = robot /\ call' = call
          /\ left' = angulo_deseado(call.angle, robot.o)
      BY <1>1 DEF SettleRotation, Settle, robotVars
    <2>2. left' \in Degrees /\ left' <= 360
      BY <1>0, <2>1, GoalTyped
    <2>3. Abs(call.angle) <= 180 => Rest(robot.o)' = Abs(call.angle)
      BY <1>0, <2>1, RestAtStart DEF Rest
    <2>4. Abs(call.angle) \in Int
      BY <1>0 DEF Abs
    <2> QED
      BY <2>1, <2>2, <2>3, <2>4
  <1>2. CASE TurnStep
    <2>1. odom' = robot' /\ UNCHANGED <<left, call>> /\ server = "moving" /\ call.op = "rotate"
      BY <1>2 DEF TurnStep, Moving
    <2>2. Abs(call.angle) <= 180 => Rest(robot'.o) < Rest(robot.o) /\ Rest(robot.o) <= Abs(call.angle)
      BY <1>2, <2>1, TurnStepRest DEF RestInv
    <2>3. Rest(robot.o)' = Rest(robot'.o)
      BY <2>1 DEF Rest
    <2>4. /\ robot.o \in Int /\ robot'.o \in Int /\ left \in Int
          /\ Rest(robot.o) \in Int /\ Rest(robot'.o) \in Int /\ Abs(call.angle) \in Int
      <3>1. robot' = [robot EXCEPT !.o = (@ + (IF TurnsLeft THEN Turn ELSE 360 - Turn)) % 360]
        BY <1>2 DEF TurnStep
      <3>2. robot.o \in Int /\ Turn \in Int
        BY <1>0, HeadsAre, LocomotionAssumption DEF Degrees
      <3>3. robot'.o \in Int
        BY <3>1, <3>2 DEF TypeInv, RobotTyped, Place
      <3> QED
        BY <1>0, <3>2, <3>3 DEF Rest, Abs, TypeInv, ServerTyped
    <2> QED
      BY <2>1, <2>2, <2>3, <2>4 DEF RestInv
  <1>3. CASE StopByBump \/ BumpInPassing \/ BumpAhead \/ UNCHANGED vars \/ TimeOut
    <2>1. UNCHANGED <<odom, robot, left, call>> /\ server = "moving"
      BY <1>3 DEF StopByBump, BumpInPassing, BumpAhead, Hit, TimeOut, GiveUp, Die, serverVars,
         robotVars, vars
    <2> QED
      BY <2>1 DEF RestInv, Rest
  <1>4. CASE ~(SettleRotation \/ TurnStep \/ StopByBump \/ BumpInPassing \/ BumpAhead
               \/ TimeOut \/ UNCHANGED vars)
    <2>1. CASE Planner \/ Docking
      BY <2>1 DEF Planner, GetTurtlePosition, MoveTo, Moveto, RotateTo, MoveBack, CheckOk,
         GetOrientation, GetBumper, MoveBackTurtle, ReadBateryLevel, Command, Ready, Docking,
         serverVars
    <2>2. CASE Client
      BY <2>2 DEF Client, TakeCall, Answer
    <2>3. CASE Server
      BY <1>4, <2>3 DEF Server, checkposition, checkbumpersemsorstate, readbaterylevel,
         SettleForward, Settle, CloseRotation, CloseForward, Close, Drive, Moving, ReachGoal
    <2> QED
      BY <1>4, <2>1, <2>2, <2>3 DEF Next, World
  <1> QED
    BY <1>1, <1>2, <1>3, <1>4

-----------------------------------------------------------------------------
(* A way: a rotation from the orientation o to the heading h in the cell   *)
(* p, and a movement of n cells from there.                                *)
Movement == {"idle", "settle", "moving", "closing", "done"}

Turning(p, o, h) ==
    /\ server \in Movement
    /\ robot.cell = p
    /\ server \in {"idle", "settle"} => robot.o = o % 360
    /\ server = "moving" => odom = robot /\ left \in 0..360 /\ left % 360 = h % 360
    /\ server \in {"closing", "done"} => robot.o = h % 360
    /\ server = "done" => odom = robot

Driving(p, h, n) ==
    /\ server \in Movement
    /\ robot.o = h % 360
    /\ server \in {"idle", "settle"} => robot.cell = p
    /\ server = "moving" => left \in 0..n /\ robot.cell = Ahead(p, robot.o, n - left)
    /\ server \in {"closing", "done"} => robot.cell = Ahead(p, robot.o, n)
    /\ server = "done" => odom = robot

LEMMA DeltaUnit ==
    ASSUME NEW o \in Int
    PROVE  Delta(o).x \in {-1, 0, 1} /\ Delta(o).y \in {-1, 0, 1}
  <1>1. ((2 * o + 45) \div 90) % 8 \in 0..7
    OBVIOUS
  <1>2. ASSUME NEW s \in 0..7
        PROVE  /\ <<1, 1, 0, -1, -1, -1, 0, 1>>[s + 1] \in {-1, 0, 1}
               /\ <<0, -1, -1, -1, 0, 1, 1, 1>>[s + 1] \in {-1, 0, 1}
    OBVIOUS
  <1> QED
    BY <1>1, <1>2 DEF Delta

LEMMA DeltaValues ==
    /\ Delta(0) = [x |-> 1, y |-> 0] /\ Delta(45) = [x |-> 1, y |-> -1]
    /\ Delta(90) = [x |-> 0, y |-> -1] /\ Delta(135) = [x |-> -1, y |-> -1]
    /\ Delta(180) = [x |-> -1, y |-> 0] /\ Delta(225) = [x |-> -1, y |-> 1]
    /\ Delta(270) = [x |-> 0, y |-> 1] /\ Delta(315) = [x |-> 1, y |-> 1]
  BY DEF Delta

(* Cells add up along a heading. *)
LEMMA AheadMore ==
    ASSUME NEW c \in [x : Int, y : Int], NEW o \in Int, NEW k \in Int
    PROVE  Ahead(Ahead(c, o, k), o, 1) = Ahead(c, o, k + 1) /\ Ahead(c, o, 0) = c
  <1>1. PICK dx \in {-1, 0, 1} : dx = Delta(o).x
    BY DeltaUnit
  <1>2. PICK dy \in {-1, 0, 1} : dy = Delta(o).y
    BY DeltaUnit
  <1>3. /\ c.x + k * dx + 1 * dx = c.x + (k + 1) * dx /\ c.x + 0 * dx = c.x
        /\ c.y + k * dy + 1 * dy = c.y + (k + 1) * dy /\ c.y + 0 * dy = c.y
    OBVIOUS
  <1> QED
    BY <1>1, <1>2, <1>3 DEF Ahead

(* The heading that moveto computes leads to the cell in as many cells. *)
LEMMA HeadingLeads ==
    ASSUME NEW c \in [x : Int, y : Int], NEW d \in [x : Int, y : Int], Straight(d)
    PROVE  /\ newhead(d) \in {0, 45, 90, 135, 180, -45, -90, -135}
           /\ Ahead(c, newhead(d) % 360, Larger(Abs(d.x), Abs(d.y)))
              = [x |-> c.x + d.x, y |-> c.y + d.y]
  <1> DEFINE h == newhead(d) % 360
             n == Larger(Abs(d.x), Abs(d.y))
  <1>1. newhead(d) \in {0, 45, 90, 135, 180, -45, -90, -135}
    BY DEF newhead
  <1>2. /\ d.x > 0 /\ d.y = 0 => newhead(d) = 0
        /\ d.x > 0 /\ d.y < 0 => newhead(d) = 45
        /\ d.x = 0 /\ d.y <= 0 => newhead(d) = 90
        /\ d.x < 0 /\ d.y < 0 => newhead(d) = 135
        /\ d.x < 0 /\ d.y = 0 => newhead(d) = 180
        /\ d.x < 0 /\ d.y > 0 => newhead(d) + 360 = 225
        /\ d.x = 0 /\ d.y > 0 => newhead(d) + 360 = 270
        /\ d.x > 0 /\ d.y > 0 => newhead(d) + 360 = 315
    BY DEF newhead
  <1>3. d.x = n * Delta(h).x /\ d.y = n * Delta(h).y
    <2>1. CASE d.x > 0 /\ d.y = 0
      BY <1>2, <2>1, DeltaValues DEF Larger, Abs
    <2>2. CASE d.x > 0 /\ d.y < 0
      BY <1>2, <2>2, DeltaValues DEF Larger, Abs, Straight
    <2>3. CASE d.x = 0 /\ d.y <= 0
      BY <1>2, <2>3, DeltaValues DEF Larger, Abs
    <2>4. CASE d.x < 0 /\ d.y < 0
      BY <1>2, <2>4, DeltaValues DEF Larger, Abs, Straight
    <2>5. CASE d.x < 0 /\ d.y = 0
      BY <1>2, <2>5, DeltaValues DEF Larger, Abs
    <2>0. newhead(d) \in Int /\ (newhead(d) < 0 /\ newhead(d) > -360 => h = newhead(d) + 360)
      BY <1>1
    <2>6. CASE d.x < 0 /\ d.y > 0
      <3>1. h = 225 /\ n = d.y /\ d.x = -n
        <4>1. newhead(d) + 360 = 225
          BY <1>2, <2>6
        <4>2. h = 225
          BY <2>0, <4>1
        <4> QED
          BY <2>6, <4>2 DEF Larger, Abs, Straight
      <3> QED
        BY <3>1, DeltaValues
    <2>7. CASE d.x = 0 /\ d.y > 0
      <3>1. h = 270 /\ n = d.y
        <4>1. newhead(d) + 360 = 270
          BY <1>2, <2>7
        <4>2. h = 270
          BY <2>0, <4>1
        <4> QED
          BY <2>7, <4>2 DEF Larger, Abs
      <3> QED
        BY <2>7, <3>1, DeltaValues
    <2>8. CASE d.x > 0 /\ d.y > 0
      <3>1. h = 315 /\ n = d.y /\ d.x = n
        <4>1. newhead(d) + 360 = 315
          BY <1>2, <2>8
        <4>2. h = 315
          BY <2>0, <4>1
        <4> QED
          BY <2>8, <4>2 DEF Larger, Abs, Straight
      <3> QED
        BY <3>1, DeltaValues
    <2> QED
      BY <2>1, <2>2, <2>3, <2>4, <2>5, <2>6, <2>7, <2>8
  <1> QED
    BY <1>1, <1>3 DEF Ahead

LEMMA ErrorGone ==
    \A d, o : d \in 0..360 /\ o \in 0..359 /\ error(d, o) = 0 => d % 360 = o
  BY NoError

(* A rotation without a bump. *)
LEMMA TurningStep ==
    ASSUME TypeInv, NEW p, NEW o \in Int, NEW h \in Int, Turning(p, o, h),
           flag_parada = 0, server = "idle" \/ call.op = "rotate",
           (call.angle + (o % 360)) % 360 = h % 360, Server
    PROVE  Turning(p, o, h)' /\ flag_parada' = 0
  <1>0. /\ robot.o \in Orientation /\ robot.o \in 0..359 /\ robot.cell = p
        /\ call \in CallType /\ call.angle \in Signed /\ call.angle \in Int
        /\ -359 <= call.angle /\ call.angle <= 359
    BY HeadsAre, SMTT(40)
       DEF TypeInv, RobotTyped, ServerTyped, Place, CallType, Signed, Degrees, Turning
  <1>1. CASE SettleRotation
    <2>1. /\ server = "settle" /\ server' = "moving" /\ odom' = robot /\ robot' = robot
          /\ left' = angulo_deseado(call.angle, robot.o) /\ flag_parada' = 0
          /\ robot.o = o % 360
      BY <1>1 DEF SettleRotation, Settle, robotVars, Turning
    <2>2. left' \in 0..360
      <3>1. left' \in Degrees /\ 0 <= left' /\ left' <= 360
        BY <1>0, <2>1, GoalTyped
      <3> QED
        BY <3>1 DEF Degrees
    <2>3. left' % 360 = (call.angle + robot.o) % 360
      BY <1>0, <2>1 DEF angulo_deseado
    <2> QED
      BY <1>0, <2>1, <2>2, <2>3 DEF Turning, Movement
  <1>2. CASE TurnStep
    <2>1. /\ server' = "moving" /\ server = "moving" /\ odom' = robot' /\ robot'.cell = p
          /\ UNCHANGED <<left, flag_parada>>
      BY <1>0, <1>2 DEF TurnStep, Moving, TypeInv, RobotTyped, Place
    <2> QED
      BY <2>1 DEF Turning, Movement
  <1>3. CASE ReachGoal
    <2>1. /\ server = "moving" /\ server' = "closing" /\ UNCHANGED <<left, odom, robot>>
          /\ error(left, odom.o) = 0 /\ flag_parada' = 0
      BY <1>3 DEF ReachGoal, robotVars
    <2>2. robot.o = h % 360
      <3>1. odom = robot /\ left \in 0..360 /\ left % 360 = h % 360
        BY <2>1 DEF Turning
      <3>2. error(left, robot.o) = 0
        BY <2>1, <3>1
      <3>3. left % 360 = robot.o
        <4>1. left \in 0..360 /\ robot.o \in 0..359
          BY <1>0, <3>1
        <4> QED
          BY <3>2, <4>1, ErrorGone
      <3> QED
        BY <3>1, <3>3
    <2> QED
      BY <1>0, <2>1, <2>2 DEF Turning, Movement
  <1>4. CASE CloseRotation
    BY <1>4 DEF CloseRotation, Close, robotVars, Turning, Movement
  <1>5. CASE StopByBump
    BY <1>5 DEF StopByBump
  <1>6. CASE ~(SettleRotation \/ TurnStep \/ ReachGoal \/ CloseRotation \/ StopByBump)
    BY <1>6 DEF Server, checkposition, checkbumpersemsorstate, readbaterylevel, SettleForward,
       Settle, CloseForward, Close, Drive, Moving, Turning, Movement
  <1> QED
    BY <1>1, <1>2, <1>3, <1>4, <1>5, <1>6

(* A movement ahead without a bump. *)
LEMMA DrivingStep ==
    ASSUME TypeInv, NEW p \in [x : Int, y : Int], NEW h \in Int, NEW n \in Nat,
           Driving(p, h, n), flag_parada = 0,
           server = "idle" \/ (call.op = "forward" /\ call.vel = 1 /\ call.cells = n), Server
    PROVE  Driving(p, h, n)' /\ flag_parada' = 0
  <1>0. robot.o = h % 360 /\ robot.o \in Int /\ robot \in Place
    BY DEF Driving, TypeInv, RobotTyped
  <1>1. CASE SettleForward
    <2>1. /\ server = "settle" /\ server' = "moving" /\ robot' = robot /\ left' = n
          /\ flag_parada' = 0 /\ robot.cell = p
      BY <1>1 DEF SettleForward, Settle, robotVars, Driving
    <2>2. robot.cell = Ahead(p, robot.o, n - n)
      BY <1>0, <2>1, AheadMore
    <2> QED
      BY <1>0, <2>1, <2>2 DEF Driving, Movement
  <1>2. CASE Drive
    <2>1. /\ server = "moving" /\ server' = "moving" /\ left > 0 /\ left' = left - 1
          /\ robot' = [robot EXCEPT !.cell = Ahead(@, robot.o, 1)] /\ flag_parada' = 0
      BY <1>2 DEF Drive, Moving
    <2>2. left \in 0..n /\ left' \in 0..n /\ robot.cell = Ahead(p, robot.o, n - left)
      BY <2>1 DEF Driving
    <2>3. robot'.o = robot.o /\ robot'.cell = Ahead(robot.cell, robot.o, 1)
      BY <1>0, <2>1 DEF Place
    <2>4. robot'.cell = Ahead(p, robot.o, (n - left) + 1)
      BY <1>0, <2>2, <2>3, AheadMore
    <2>5. (n - left) + 1 = n - left'
      BY <2>1, <2>2
    <2> QED
      BY <1>0, <2>1, <2>2, <2>3, <2>4, <2>5 DEF Driving, Movement
  <1>3. CASE ReachGoal
    <2>1. /\ server = "moving" /\ server' = "closing" /\ UNCHANGED robot /\ left = 0
          /\ flag_parada' = 0
      BY <1>3 DEF ReachGoal, robotVars
    <2>2. robot.cell = Ahead(p, robot.o, n)
      BY <2>1 DEF Driving
    <2> QED
      BY <1>0, <2>1, <2>2 DEF Driving, Movement
  <1>4. CASE CloseForward
    BY <1>4 DEF CloseForward, Close, robotVars, Driving, Movement
  <1>5. CASE StopByBump
    BY <1>5 DEF StopByBump
  <1>6. CASE ~(SettleForward \/ Drive \/ ReachGoal \/ CloseForward \/ StopByBump)
    BY <1>6 DEF Server, checkposition, checkbumpersemsorstate, readbaterylevel, SettleRotation,
       Settle, CloseRotation, Close, TurnStep, Moving, Driving, Movement
  <1> QED
    BY <1>1, <1>2, <1>3, <1>4, <1>5, <1>6

-----------------------------------------------------------------------------
(* A moveto that starts from a true pose with the flag down, and has met   *)
(* no bump, is turning, or driving, or has come.                           *)
Way == [x |-> object_dest.x - pose.cell.x, y |-> object_dest.y - pose.cell.y]
WayCells == Larger(Abs(Way.x), Abs(Way.y))
FirstTurn == Rotate(angrot(newhead(Way) - pose.o))

Turns ==
    /\ nStr = "moveto" /\ Straight(Way)
    /\ \/ calls = <<FirstTurn, Forward(1, WayCells)>>
       \/ calls = <<FirstTurn>> /\ WayCells = 0
    /\ Turning(pose.cell, pose.o, newhead(Way))
Drives ==
    /\ nStr = "moveto" /\ Straight(Way)
    /\ calls = <<Forward(1, WayCells)>>
    /\ Driving(pose.cell, newhead(Way), WayCells)
Comes ==
    /\ calls = <<>> /\ server = "idle"
    /\ robot.cell = object_dest /\ cpos = object_dest

Arrives ==
    step = "moveto" /\ ~excused => flag_parada = 0 /\ (Turns \/ Drives \/ Comes)

LEMMA WayTyped ==
    ASSUME TypeInv
    PROVE  /\ Way \in [x : Int, y : Int] /\ WayCells \in Nat
           /\ pose.cell \in [x : Int, y : Int] /\ pose.cell \in Cell /\ object_dest \in Cell
           /\ pose.o \in Heads /\ pose.o \in Int /\ robot.o \in Orientation
           /\ pose.cell = [x |-> pose.cell.x, y |-> pose.cell.y]
           /\ object_dest = [x |-> object_dest.x, y |-> object_dest.y]
           /\ object_dest.x \in Int /\ object_dest.y \in Int
  <1>1. /\ pose.cell \in Cell /\ object_dest \in Cell /\ pose.o \in Heads
        /\ robot.o \in Orientation
    BY DEF TypeInv, ClientTyped, RobotTyped, Place
  <1>2. \A c \in Cell : c \in [x : Int, y : Int] /\ c.x \in Int /\ c.y \in Int
                        /\ c = [x |-> c.x, y |-> c.y]
    BY DEF Cell
  <1>3. Way \in [x : Int, y : Int]
    BY <1>1, <1>2 DEF Way
  <1>4. WayCells \in Nat
    BY <1>3 DEF WayCells, Larger, Abs
  <1>5. pose.o \in Int
    BY <1>1, HeadsAre DEF Degrees
  <1> QED
    BY <1>1, <1>2, <1>3, <1>4, <1>5

(* Where the way ends. *)
LEMMA WayEnds ==
    ASSUME TypeInv, Straight(Way)
    PROVE  /\ Ahead(pose.cell, newhead(Way) % 360, WayCells) = object_dest
           /\ newhead(Way) \in {0, 45, 90, 135, 180, -45, -90, -135}
           /\ WayCells = 0 => pose.cell = object_dest
  <1> DEFINE c == pose.cell
             d == Way
  <1>1. /\ Ahead(c, newhead(d) % 360, Larger(Abs(d.x), Abs(d.y)))
           = [x |-> c.x + d.x, y |-> c.y + d.y]
        /\ newhead(d) \in {0, 45, 90, 135, 180, -45, -90, -135}
    BY WayTyped, HeadingLeads
  <1>2. c.x + d.x = object_dest.x /\ c.y + d.y = object_dest.y
    <2>1. /\ pose.cell.x \in Int /\ pose.cell.y \in Int
          /\ object_dest.x \in Int /\ object_dest.y \in Int
      BY WayTyped
    <2> QED
      BY <2>1 DEF Way
  <1>3. Ahead(pose.cell, newhead(Way) % 360, WayCells) = object_dest
    BY <1>1, <1>2, WayTyped DEF WayCells
  <1>4. WayCells = 0 => pose.cell = object_dest
    <2>1. d.x \in Int /\ d.y \in Int
      BY WayTyped
    <2>2. WayCells = 0 => d.x = 0 /\ d.y = 0
      BY <2>1 DEF WayCells, Larger, Abs
    <2>3. /\ pose.cell.x \in Int /\ pose.cell.y \in Int
          /\ object_dest.x \in Int /\ object_dest.y \in Int
      BY WayTyped
    <2>4. WayCells = 0 => pose.cell.x = object_dest.x /\ pose.cell.y = object_dest.y
      BY <2>2, <2>3 DEF Way
    <2> QED
      BY <2>4, WayTyped
  <1> QED
    BY <1>1, <1>3, <1>4

(* The turn asked for ends at the heading, from the orientation the client *)
(* knows.                                                                  *)
LEMMA TurnEnds ==
    ASSUME NEW h \in Int, NEW o \in Int, -179 <= o, o <= 180, -135 <= h, h <= 180
    PROVE  (angrot(h - o) + (o % 360)) % 360 = h % 360
  <1>1. h - o > 180 \/ h - o < -180 \/ (h - o <= 180 /\ h - o >= -180)
    OBVIOUS
  <1>2. (h - o + (o % 360)) % 360 = h % 360
    OBVIOUS
  <1>3. (h - o - 360 + (o % 360)) % 360 = h % 360
    OBVIOUS
  <1>4. (h - o + 360 + (o % 360)) % 360 = h % 360
    OBVIOUS
  <1> QED
    BY <1>1, <1>2, <1>3, <1>4 DEF angrot

LEMMA HeadIsTrue ==
    ASSUME NEW o \in Orientation
    PROVE  o = ToHead(o) % 360
  <1>1. o \in Int /\ 0 <= o /\ o <= 359
    BY HeadsAre DEF Degrees
  <1> QED
    BY <1>1 DEF ToHead

LEMMA ArrivesStarts ==
    ASSUME TypeInv, LInv, MoveTo, TypeInv'
    PROVE  Arrives'
  <1> SUFFICES ASSUME ~excused' PROVE (flag_parada = 0 /\ (Turns \/ Drives \/ Comes))'
    BY DEF Arrives
  <1>1. PICK dest \in Cell : Moveto(dest)
    BY DEF MoveTo
  <1> DEFINE first == IF newhead(Way') - pose.o # 0 THEN <<FirstTurn'>> ELSE <<>>
             second == IF WayCells' # 0 THEN <<Forward(1, WayCells')>> ELSE <<>>
  <1>2. /\ UNCHANGED <<pose, cpos, serverVars, robotVars, carried>>
        /\ object_dest' = dest /\ nStr' = "moveto"
    BY <1>1 DEF Moveto, Command
  <1>3. Way' = [x |-> dest.x - pose.cell.x, y |-> dest.y - pose.cell.y]
    BY <1>2 DEF Way
  <1>4. /\ Straight(Way') /\ calls' = first \o second
        /\ excused' = (carried \/ flag_parada = 1 \/ calls' = <<>>)
    BY <1>1, <1>2, <1>3 DEF Moveto, Command, FirstTurn, WayCells
  <1>5. ~carried /\ flag_parada # 1 /\ calls' # <<>>
    BY <1>4
  <1>6. flag_parada' = 0
    BY <1>2, <1>5 DEF serverVars, TypeInv, ServerTyped
  <1>7. server' = "idle" /\ robot' = robot /\ pose' = pose
    BY <1>2 DEF MoveTo, Ready, serverVars, robotVars
  <1>8. pose.cell = robot.cell /\ robot.o = pose.o % 360
    <2>1. PoseIs
      BY <1>5 DEF LInv, PoseInv, Between, MoveTo, Ready
    <2> QED
      BY <2>1, WayTyped, HeadIsTrue DEF PoseIs
  <1>9. CASE newhead(Way') - pose.o # 0
    <2>1. Turning(pose.cell, pose.o, newhead(Way))'
      BY <1>7, <1>8 DEF Turning, Movement
    <2>2. calls' = <<FirstTurn', Forward(1, WayCells')>> \/ (calls' = <<FirstTurn'>> /\ WayCells' = 0)
      BY <1>4, <1>9, Joined
    <2> QED
      BY <1>2, <1>4, <1>6, <2>1, <2>2 DEF Turns
  <1>10. CASE newhead(Way') - pose.o = 0
    <2>1. WayCells' # 0 /\ calls' = <<Forward(1, WayCells')>>
      BY <1>4, <1>5, <1>10, Joined
    <2>2. Way' \in [x : Int, y : Int] /\ pose.o \in Int
      <3>1. dest.x \in Int /\ dest.y \in Int /\ pose.cell.x \in Int /\ pose.cell.y \in Int
        BY WayTyped DEF Cell
      <3> QED
        BY <1>3, <3>1, WayTyped
    <2>3. newhead(Way') \in Int
      BY <2>2 DEF newhead
    <2>4. newhead(Way') = pose.o
      BY <1>10, <2>2, <2>3
    <2>5. Driving(pose.cell, newhead(Way), WayCells)'
      BY <1>7, <1>8, <2>4 DEF Driving, Movement
    <2> QED
      BY <1>2, <1>4, <1>6, <2>1, <2>5 DEF Drives
  <1> QED
    BY <1>9, <1>10

LEMMA ArrivesCalls ==
    ASSUME TypeInv, LInv, Arrives, step = "moveto", ~excused, Turns \/ Drives
    PROVE  /\ flag_parada = 0
           /\ Turns => server = "idle" \/ (/\ call.op = "rotate"
                                            /\ call.angle = angrot(newhead(Way) - pose.o))
           /\ Drives => server = "idle" \/ (/\ call.op = "forward" /\ call.vel = 1
                                             /\ call.cells = WayCells)
           /\ Head(calls).op \in {"rotate", "forward"}
  <1>1. server # "idle" => call = Head(calls)
    BY DEF LInv, CallsInv
  <1>2. Turns => Head(calls) = FirstTurn
    BY OneCall DEF Turns
  <1>3. Drives => Head(calls) = Forward(1, WayCells)
    BY OneCall DEF Drives
  <1>4. /\ FirstTurn.op = "rotate" /\ FirstTurn.angle = angrot(newhead(Way) - pose.o)
        /\ Forward(1, WayCells).op = "forward" /\ Forward(1, WayCells).vel = 1
        /\ Forward(1, WayCells).cells = WayCells
    BY DEF FirstTurn, Rotate, Forward, NoCall
  <1> QED
    BY <1>1, <1>2, <1>3, <1>4 DEF Arrives

LEMMA ArrivesServed ==
    ASSUME TypeInv, LInv, Arrives, step = "moveto", ~excused, Server
    PROVE  Arrives'
  <1>1. UNCHANGED <<step, nStr, calls, object_dest, cpos, pose, excused>>
    BY DEF Server, checkposition, checkbumpersemsorstate, readbaterylevel, SettleRotation,
       SettleForward, Settle, TurnStep, CloseRotation, CloseForward, Close, Drive, ReachGoal,
       StopByBump, clientVars, robotVars, ghostVars
  <1>2. Way' = Way /\ WayCells' = WayCells /\ FirstTurn' = FirstTurn
    BY <1>1 DEF Way, WayCells, FirstTurn
  <1>3. flag_parada = 0
    BY DEF Arrives
  <1>4. CASE Turns
    <2>1. \/ server = "idle"
          \/ call.op = "rotate" /\ call.angle = angrot(newhead(Way) - pose.o)
      BY <1>4, ArrivesCalls
    <2>2. server # "idle"
      BY DEF Server, checkposition, checkbumpersemsorstate, readbaterylevel, SettleRotation,
       SettleForward, Settle, TurnStep, CloseRotation, CloseForward, Close, Drive, ReachGoal,
       StopByBump, Moving
    <2>3. newhead(Way) \in Int /\ -135 <= newhead(Way) /\ newhead(Way) <= 180
      BY <1>4, WayEnds DEF Turns
    <2>4. pose.o \in Int /\ -179 <= pose.o /\ pose.o <= 180
      BY WayTyped, HeadsAre
    <2>5. PICK p : p = pose.cell
      OBVIOUS
    <2>6. PICK o \in Int : o = pose.o
      BY <2>4
    <2>7. PICK h \in Int : h = newhead(Way)
      BY <2>3
    <2>8. (call.angle + (o % 360)) % 360 = h % 360
      <3>1. (angrot(h - o) + (o % 360)) % 360 = h % 360
        BY <2>3, <2>4, <2>6, <2>7, TurnEnds
      <3> QED
        BY <2>1, <2>2, <2>6, <2>7, <3>1
    <2>9. Turning(p, o, h)' /\ flag_parada' = 0
      <3>1. Turning(p, o, h)
        BY <1>4, <2>5, <2>6, <2>7 DEF Turns
      <3> QED
        BY <1>3, <2>1, <2>6, <2>7, <2>8, <3>1, TurningStep
    <2>10. Turning(pose.cell, pose.o, newhead(Way))'
      BY <1>1, <1>2, <2>5, <2>6, <2>7, <2>9 DEF Turning
    <2> QED
      BY <1>1, <1>2, <1>4, <2>9, <2>10 DEF Turns, Arrives
  <1>5. CASE Drives
    <2>1. \/ server = "idle"
          \/ call.op = "forward" /\ call.vel = 1 /\ call.cells = WayCells
      BY <1>5, ArrivesCalls
    <2>2. PICK p \in [x : Int, y : Int] : p = pose.cell
      BY WayTyped
    <2>3. PICK h \in Int : h = newhead(Way)
      BY <1>5, WayEnds DEF Drives
    <2>4. PICK n \in Nat : n = WayCells
      BY WayTyped
    <2>5. Driving(p, h, n)' /\ flag_parada' = 0
      <3>1. Driving(p, h, n)
        BY <1>5, <2>2, <2>3, <2>4 DEF Drives
      <3> QED
        BY <1>3, <2>1, <2>2, <2>3, <2>4, <3>1, DrivingStep
    <2>6. Driving(pose.cell, newhead(Way), WayCells)'
      BY <1>1, <1>2, <2>2, <2>3, <2>4, <2>5 DEF Driving
    <2> QED
      BY <1>1, <1>2, <1>5, <2>5, <2>6 DEF Drives, Arrives
  <1>6. CASE Comes
    BY <1>6 DEF Comes, Server, checkposition, checkbumpersemsorstate, readbaterylevel,
       SettleRotation, SettleForward, Settle, TurnStep, CloseRotation, CloseForward, Close, Drive,
       ReachGoal, StopByBump, Moving
  <1> QED
    BY <1>4, <1>5, <1>6 DEF Arrives

LEMMA ArrivesTaken ==
    ASSUME TypeInv, LInv, Arrives, step = "moveto", ~excused, TakeCall
    PROVE  Arrives'
  <1>1. /\ server = "idle" /\ server' \in {"check", "bumpers", "battery", "charging", "settle"}
        /\ Head(calls).op \in {"rotate", "forward"} => server' = "settle"
        /\ UNCHANGED <<step, nStr, calls, object_dest, cpos, pose, flag_parada, robot, excused>>
    BY DEF TakeCall, clientVars, robotVars, ghostVars
  <1>2. Way' = Way /\ WayCells' = WayCells /\ FirstTurn' = FirstTurn
    BY <1>1 DEF Way, WayCells, FirstTurn
  <1>3. Turns \/ Drives
    BY DEF Arrives, Comes, TakeCall
  <1>4. server' = "settle"
    BY <1>1, <1>3, ArrivesCalls
  <1>5. Turns => Turns'
    BY <1>1, <1>2, <1>4 DEF Turns, Turning, Movement
  <1>6. Drives => Drives'
    BY <1>1, <1>2, <1>4 DEF Drives, Driving, Movement
  <1> QED
    BY <1>1, <1>3, <1>5, <1>6 DEF Arrives

LEMMA ArrivesAnswered ==
    ASSUME TypeInv, LInv, Arrives, step = "moveto", ~excused, Answer
    PROVE  Arrives'
  <1>1. /\ server = "done" /\ server' = "idle" /\ calls' = Tail(calls)
        /\ UNCHANGED <<step, object_dest, flag_parada, robot, excused>>
        /\ nStr' = IF Len(calls) = 1 THEN "none" ELSE nStr
    BY DEF Answer, robotVars
  <1>2. flag_parada' = 0
    BY <1>1 DEF Arrives
  <1>3. CASE Turns /\ calls = <<FirstTurn, Forward(1, WayCells)>>
    <2>1. Len(calls) = 2 /\ calls' = <<Forward(1, WayCells)>>
      BY <1>1, <1>3, TwoCalls
    <2>2. UNCHANGED <<pose, cpos, nStr>>
      BY <1>1, <2>1 DEF Answer, TakeNoPose
    <2>3. Way' = Way /\ WayCells' = WayCells
      BY <1>1, <2>2 DEF Way, WayCells
    <2>4. Driving(pose.cell, newhead(Way), WayCells)'
      BY <1>1, <1>3, <2>2, <2>3 DEF Turns, Turning, Driving, Movement
    <2>5. Drives'
      BY <1>3, <2>1, <2>2, <2>3, <2>4 DEF Turns, Drives
    <2> QED
      BY <1>2, <2>5 DEF Arrives
  <1>4. CASE (Turns /\ calls = <<FirstTurn>> /\ WayCells = 0) \/ Drives
    <2>1. Len(calls) = 1 /\ calls' = <<>> /\ nStr = "moveto"
      BY <1>1, <1>4, OneCall DEF Turns, Drives
    <2>2. cpos' = odom.cell
      BY <2>1 DEF Answer, GivesPose, TakePose
    <2>3. odom = robot /\ robot.cell = object_dest
      <3>1. CASE Turns /\ WayCells = 0
        BY <1>1, <3>1, WayEnds DEF Turns, Turning
      <3>2. CASE Drives
        BY <1>1, <3>2, WayEnds DEF Drives, Driving
      <3> QED
        BY <1>4, <3>1, <3>2
    <2>4. Comes'
      BY <1>1, <2>1, <2>2, <2>3 DEF Comes
    <2> QED
      BY <1>2, <2>4 DEF Arrives
  <1> QED
    BY <1>1, <1>3, <1>4 DEF Arrives, Turns, Comes

LEMMA ArrivesStep == TypeInv /\ LInv /\ Arrives /\ [Next]_vars /\ TypeInv' => Arrives'
  <1> SUFFICES ASSUME TypeInv, LInv, Arrives, [Next]_vars, TypeInv', step' = "moveto", ~excused'
               PROVE  Arrives'
    BY DEF Arrives
  <1>1. CASE MoveTo
    BY <1>1, ArrivesStarts
  <1>2. CASE Planner /\ ~MoveTo
    BY <1>2 DEF Planner, GetTurtlePosition, RotateTo, MoveBack, CheckOk, GetOrientation, GetBumper,
       MoveBackTurtle, ReadBateryLevel
  <1>3. CASE Client \/ Server
    <2>1. UNCHANGED <<step, excused>>
      BY <1>3 DEF Client, TakeCall, Answer, Server, checkposition, checkbumpersemsorstate,
         readbaterylevel, SettleRotation, SettleForward, Settle, TurnStep, CloseRotation,
         CloseForward, Close, Drive, ReachGoal, StopByBump, ghostVars
    <2>2. step = "moveto" /\ ~excused
      BY <2>1
    <2> QED
      BY <1>3, <2>2, ArrivesTaken, ArrivesAnswered, ArrivesServed DEF Client
  <1>4. CASE Die \/ Docking
    BY <1>4 DEF Die, Docking
  <1>7. CASE GiveUp
    BY <1>7 DEF GiveUp, Arrives, Turns, Drives, Comes, Turning, Driving, Way, WayCells, FirstTurn,
       Ahead, serverVars, robotVars, ghostVars
  <1>5. CASE BumpAhead \/ BumpInPassing
    BY <1>5 DEF BumpAhead, BumpInPassing, Hit
  <1>6. CASE UNCHANGED vars
    BY <1>6 DEF Arrives, Turns, Drives, Comes, Turning, Driving, Way, WayCells, FirstTurn, Ahead,
       vars, clientVars, serverVars, robotVars, ghostVars
  <1> QED
    BY <1>1, <1>2, <1>3, <1>4, <1>5, <1>6, <1>7 DEF Next, TimeOut, World

-----------------------------------------------------------------------------
(* Between two commands TurtlecomAdapter's posx, posy and head are the     *)
(* robot's place and heading, unless the docking drive has moved it since: *)
(* in every world, after every bump and every movement cut short.          *)
THEOREM PoseIsTrue == Spec => []PoseTrue
  <1>1. LInv => PoseTrue
    BY DEF LInv, CallsInv, PoseInv, PoseIs, PoseTrue, Between
  <1> QED
    BY InitLInv, LStep, <1>1, PTL DEF Spec

(* Every variable of the client, the server and the robot keeps its type:  *)
(* the robot never enters an obstacle, never more than two calls are left  *)
(* of a command, and both clients' orientations are turns of the loop.     *)
THEOREM TypeCorrect == Spec => []TypeOK
  <1>1. Init => TypeInv
    BY InitTypeInv DEF Init
  <1>2. LInv => (server = "done" /\ step # "crashed" => calls # <<>>)
    BY DEF LInv, CallsInv
  <1>3. TypeInv /\ LInv /\ [Next]_vars => TypeInv' /\ LInv'
    BY <1>2, TypeStep, LStep
  <1> QED
    BY InitLInv, <1>1, <1>3, Typed, PTL DEF Spec

(* No turn of the rotation loop goes away from its goal: of half a turn or *)
(* less, on either side of the origin, what is left the way asked          *)
(* decreases at each turn (the loop of rotate in the server).              *)
THEOREM TurnsAreTowardsGoal == Spec => TurnsTowardsGoal
  <1>1. Init => TypeInv /\ RestInv
    BY InitTypeInv DEF Init, Standing, RestInv
  <1>2. LInv => (server = "done" /\ step # "crashed" => calls # <<>>)
    BY DEF LInv, CallsInv
  <1>3. TypeInv /\ RestInv /\ LInv /\ [Next]_vars => TypeInv' /\ RestInv' /\ LInv'
    BY <1>2, TypeStep, RestStep, LStep
  <1>4. TypeInv /\ RestInv /\ [Next]_vars =>
          [TurnStep /\ Abs(call.angle) <= 180 => Rest(robot'.o) < Rest(robot.o)]_vars
    BY TurnStepRest
  <1> QED
    BY InitLInv, <1>1, <1>3, <1>4, PTL DEF Spec, TurnsTowardsGoal

(* A moveto that starts with a true pose and the flag down, and meets no   *)
(* bump, ends at the cell it was given and says so: headings, signs of the *)
(* axes, relative angle and distance agree between client and server, in   *)
(* any world.                                                              *)
THEOREM MovetoEndsThere == Spec => []MovetoArrives
  <1>1. Init => TypeInv /\ Arrives
    BY InitTypeInv DEF Init, Standing, Arrives
  <1>2. LInv => (server = "done" /\ step # "crashed" => calls # <<>>)
    BY DEF LInv, CallsInv
  <1>3. TypeInv /\ LInv /\ Arrives /\ [Next]_vars => TypeInv' /\ LInv' /\ Arrives'
    BY <1>2, TypeStep, LStep, ArrivesStep
  <1>4. Arrives => MovetoArrives
    <2>1. <<FirstTurn>> # <<>> /\ <<FirstTurn, Forward(1, WayCells)>> # <<>>
          /\ <<Forward(1, WayCells)>> # <<>>
      OBVIOUS
    <2> QED
      BY <2>1 DEF Arrives, MovetoArrives, Between, Turns, Drives, Comes
  <1> QED
    BY InitLInv, <1>1, <1>3, <1>4, PTL DEF Spec
=============================================================================
