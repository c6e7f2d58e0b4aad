----------------------------- MODULE DriversProofs -----------------------------
(***************************************************************************)
(* Whoever drives the base: the executive, as in LocomotionProofs; the     *)
(* GOAC interface, which adds up the moves that it asks for; an operator,  *)
(* through the table of the teleoperation node.  What holds of the server  *)
(* and the robot holds whoever calls.                                      *)
(***************************************************************************)
EXTENDS Drivers, LocomotionProofs, WellFoundedInduction

(* The move that MoveRobot asks for, from where it believes to be, and as  *)
(* the server counts: y grows to the right.                                *)
Asks == [x |-> coordenadas.x - coordprimas.x, y |-> coordenadas.y - coordprimas.y]
Place0 == [x |-> coordprimas.x, y |-> -coordprimas.y]
AskedHeading == Heading(Asks.x, Asks.y)
AskedCells == Larger(Abs(Asks.x), Abs(Asks.y))

GoacTyped ==
    /\ goac \in {"off", "wait", "init", "moving", "ended", "crashed"}
    /\ linked \in BOOLEAN
    /\ coordenadas \in [x : Int, y : Int, ang : Signed]
    /\ coordprimas \in [x : Int, y : Int, ang : Degrees]
    /\ -539 <= coordprimas.ang /\ coordprimas.ang <= 540
    /\ reply \in {"none", "OK", "FAIL"}
    /\ told \in [x : Int, y : Int]

(* What its commands ask of the server. *)
GoacCalls ==
    /\ step = "start" /\ carried = TRUE /\ goac # "off"
    /\ goac \in {"wait", "ended"} => calls = <<>> /\ server = "idle"
    /\ goac = "init" =>
        /\ calls = <<Battery, Charging>> \/ calls = <<Charging>>
        /\ server \in {"idle", "battery", "charging", "done"}
    /\ goac = "moving" =>
        /\ \/ calls = <<Rotate(coordenadas.ang), Forward(1, AskedCells)>>
           \/ calls = <<Forward(1, AskedCells)>>
        /\ LET h == coordprimas.ang + coordenadas.ang
           IN  h \in Degrees /\ -539 <= h /\ h <= 540
    /\ goac \in {"init", "moving"} /\ server # "idle" => call = Head(calls)
    /\ goac = "crashed" => calls = <<>>

(* Where it believes to be, as long as nothing has gone wrong. *)
GoacBelieves ==
    ~excused =>
        /\ goac # "crashed" => flag_parada = 0
        /\ goac \in {"wait", "init"} =>
            robot.cell = Place0 /\ robot.o = coordprimas.ang % 360
        /\ goac = "moving" =>
            /\ Straight(Asks) /\ ~(Asks.x = 0 /\ Asks.y < 0)
            /\ coordenadas.ang = TurnFrom(AskedHeading, coordprimas.ang)
            /\ \/ /\ calls = <<Rotate(coordenadas.ang), Forward(1, AskedCells)>>
                  /\ Turning(Place0, coordprimas.ang, AskedHeading)
               \/ /\ calls = <<Forward(1, AskedCells)>>
                  /\ Driving(Place0, AskedHeading, AskedCells)

GoacInv == GoacTyped /\ GoacCalls /\ GoacBelieves

-----------------------------------------------------------------------------
(* Headings and turns of the GOAC interface. *)
LEMMA HeadingValues ==
    ASSUME NEW x \in Int, NEW y \in Int
    PROVE  /\ Heading(x, y) \in Degrees /\ -135 <= Heading(x, y) /\ Heading(x, y) <= 180
           /\ Straight([x |-> x, y |-> y]) =>
                /\ x > 0 /\ y = 0 => Heading(x, y) = 0
                /\ x > 0 /\ y > 0 => Heading(x, y) = 45
                /\ x = 0 /\ y # 0 => Heading(x, y) = 90
                /\ x < 0 /\ y > 0 => Heading(x, y) = 135
                /\ x < 0 /\ y = 0 => Heading(x, y) = 180
                /\ x < 0 /\ y < 0 => Heading(x, y) + 360 = 225
                /\ x > 0 /\ y < 0 => Heading(x, y) + 360 = 315
                /\ x = 0 /\ y = 0 => Heading(x, y) = 0
  <1>1. /\ x > 0 /\ y = 0 => Heading(x, y) = 0
        /\ x > 0 /\ y > 0 => Heading(x, y) = 45
        /\ x = 0 /\ y # 0 => Heading(x, y) = 90
        /\ x < 0 /\ y > 0 => Heading(x, y) = 135
        /\ x < 0 /\ y = 0 => Heading(x, y) = 180
        /\ x < 0 /\ y < 0 => Heading(x, y) + 360 = 225
        /\ x > 0 /\ y < 0 => Heading(x, y) + 360 = 315
        /\ x = 0 /\ y = 0 => Heading(x, y) = 0
    BY DEF Heading, compensar_angulo, angulo, cuadrante, Sign, Abs
  <1>2. Heading(x, y) \in {0, 45, 90, 135, 180, -45, -135}
    BY DEF Heading, compensar_angulo, angulo, cuadrante, Sign, Abs
  <1>3. Heading(x, y) \in Degrees
    BY <1>2, TurnDivides DEF Degrees
  <1> QED
    BY <1>1, <1>2, <1>3

LEMMA TurnFromSigned ==
    ASSUME NEW a \in Degrees, -135 <= a, a <= 180,
           NEW h \in Degrees, -539 <= h, h <= 540
    PROVE  /\ TurnFrom(a, h) \in Signed
           /\ h + TurnFrom(a, h) \in Degrees
           /\ -539 <= h + TurnFrom(a, h) /\ h + TurnFrom(a, h) <= 540
           /\ (h + TurnFrom(a, h)) % 360 = a % 360
           /\ (TurnFrom(a, h) + (h % 360)) % 360 = a % 360
  <1> DEFINE t == TurnFrom(a, h)
  <1>1. a \in Int /\ h \in Int
    BY DEF Degrees
  <1>2. \/ t = a - h /\ -180 <= a - h /\ a - h <= 180
        \/ t = a - h - 360 /\ a - h > 180
        \/ t = a - h + 360 /\ a - h < -180
    BY <1>1 DEF TurnFrom
  <1>3. t \in Degrees /\ h + t \in Degrees
    <2>1. /\ a - h \in Degrees /\ a - h - 360 \in Degrees /\ a - h + 360 \in Degrees
          /\ h + (a - h) \in Degrees /\ h + (a - h - 360) \in Degrees
          /\ h + (a - h + 360) \in Degrees
      BY TurnDivides DEF Degrees
    <2> QED
      BY <1>2, <2>1
  <1>4. /\ -359 <= t /\ t <= 359 /\ -539 <= h + t /\ h + t <= 540
    BY <1>1, <1>2
  <1>5. (h + t) % 360 = a % 360
    <2>1. h + t = a \/ h + t = a - 360 \/ h + t = a + 360
      BY <1>1, <1>2
    <2> QED
      BY <1>1, <2>1
  <1>6. (t + (h % 360)) % 360 = a % 360
    <2>1. t \in Int
      BY <1>3 DEF Degrees
    <2>2. (t + (h % 360)) % 360 = (h + t) % 360
      BY <1>1, <2>1
    <2> QED
      BY <1>5, <2>2
  <1> QED
    BY <1>3, <1>4, <1>5, <1>6 DEF Signed

(* The heading asked for leads where the move is to, but straight to the   *)
(* right.                                                                  *)
LEMMA AskedLeads ==
    ASSUME NEW c \in [x : Int, y : Int], NEW x \in Int, NEW y \in Int,
           Straight([x |-> x, y |-> y]), ~(x = 0 /\ y < 0)
    PROVE  Ahead(c, Heading(x, y) % 360, Larger(Abs(x), Abs(y))) = [x |-> c.x + x, y |-> c.y - y]
  <1> DEFINE h == Heading(x, y) % 360
             n == Larger(Abs(x), Abs(y))
  <1>1. Straight([x |-> x, y |-> y]) =>
                /\ x > 0 /\ y = 0 => Heading(x, y) = 0
                /\ x > 0 /\ y > 0 => Heading(x, y) = 45
                /\ x = 0 /\ y # 0 => Heading(x, y) = 90
                /\ x < 0 /\ y > 0 => Heading(x, y) = 135
                /\ x < 0 /\ y = 0 => Heading(x, y) = 180
                /\ x < 0 /\ y < 0 => Heading(x, y) + 360 = 225
                /\ x > 0 /\ y < 0 => Heading(x, y) + 360 = 315
                /\ x = 0 /\ y = 0 => Heading(x, y) = 0
    BY HeadingValues
  <1>2. Heading(x, y) \in Int /\ (Heading(x, y) < 0 /\ Heading(x, y) > -360 => h = Heading(x, y) + 360)
    <2>1. Heading(x, y) \in Int
      BY HeadingValues DEF Degrees
    <2> QED
      BY <2>1
  <1>3. x = 0 \/ y = 0 \/ x = y \/ x = -y
    BY DEF Straight
  <1>4. x = n * Delta(h).x /\ -y = n * Delta(h).y
    <2>1. CASE x > 0 /\ y = 0
      BY <1>1, <2>1, DeltaValues DEF Larger, Abs
    <2>2. CASE x > 0 /\ y > 0
      <3>1. h = 45 /\ n = x /\ n = y
        BY <1>1, <1>3, <2>2 DEF Larger, Abs
      <3> QED
        BY <3>1, DeltaValues
    <2>3. CASE x = 0 /\ y > 0
      <3>1. h = 90 /\ n = y
        BY <1>1, <2>3 DEF Larger, Abs
      <3> QED
        BY <2>3, <3>1, DeltaValues
    <2>4. CASE x < 0 /\ y > 0
      <3>1. h = 135 /\ x = -n /\ n = y
        BY <1>1, <1>3, <2>4 DEF Larger, Abs
      <3> QED
        BY <3>1, DeltaValues
    <2>5. CASE x < 0 /\ y = 0
      BY <1>1, <2>5, DeltaValues DEF Larger, Abs
    <2>6. CASE x < 0 /\ y < 0
      <3>1. h = 225
        BY <1>1, <1>2, <2>6
      <3>2. x = -n /\ -y = n
        BY <1>3, <2>6 DEF Larger, Abs
      <3> QED
        BY <3>1, <3>2, DeltaValues
    <2>7. CASE x > 0 /\ y < 0
      <3>1. h = 315
        BY <1>1, <1>2, <2>7
      <3>2. x = n /\ -y = n
        BY <1>3, <2>7 DEF Larger, Abs
      <3> QED
        BY <3>1, <3>2, DeltaValues
    <2>8. CASE x = 0 /\ y = 0
      <3>1. h = 0 /\ n = 0
        BY <1>1, <2>8 DEF Larger, Abs
      <3> QED
        BY <2>8, <3>1, DeltaValues
    <2> QED
      BY <2>1, <2>2, <2>3, <2>4, <2>5, <2>6, <2>7, <2>8
  <1>5. c.x + n * Delta(h).x = c.x + x /\ c.y + n * Delta(h).y = c.y - y
    <2>1. c.y + (-y) = c.y - y
      OBVIOUS
    <2> QED
      BY <1>4, <2>1
  <1> QED
    BY <1>5 DEF Ahead

-----------------------------------------------------------------------------
(* The commands of the host. *)
LEMMA AsksTyped ==
    ASSUME GoacTyped
    PROVE  /\ Asks.x \in Int /\ Asks.y \in Int /\ AskedCells \in Nat
           /\ Asks = [x |-> Asks.x, y |-> Asks.y]
           /\ Place0 \in [x : Int, y : Int]
           /\ AskedHeading \in Degrees /\ AskedHeading \in Int
           /\ -135 <= AskedHeading /\ AskedHeading <= 180
           /\ coordprimas.ang \in Degrees /\ coordprimas.ang \in Int
           /\ coordenadas.ang \in Signed
  <1>1. /\ coordenadas.x \in Int /\ coordenadas.y \in Int
        /\ coordprimas.x \in Int /\ coordprimas.y \in Int
        /\ coordprimas.ang \in Degrees /\ coordenadas.ang \in Signed
    BY DEF GoacTyped
  <1>2. Asks.x \in Int /\ Asks.y \in Int /\ Asks = [x |-> Asks.x, y |-> Asks.y]
    BY <1>1 DEF Asks
  <1>3. AskedCells \in Nat
    BY <1>2 DEF AskedCells, Larger, Abs
  <1>4. Place0 \in [x : Int, y : Int]
    BY <1>1 DEF Place0
  <1>5. AskedHeading \in Degrees /\ -135 <= AskedHeading /\ AskedHeading <= 180
    BY <1>2, HeadingValues DEF AskedHeading
  <1> QED
    BY <1>1, <1>2, <1>3, <1>4, <1>5 DEF Degrees

LEMMA InitialiseStep ==
    ASSUME TypeInv, RestInv, GoacInv, InitialiseRobot
    PROVE  TypeInv' /\ RestInv' /\ GoacInv'
  <1>1. /\ UNCHANGED <<step, nStr, late, object_dest, cpos, pose, server, call, left, flag_parada,
                       odom, robot, contact, obstacles, bumps, carried, excused>>
        /\ UNCHANGED <<coordenadas, coordprimas, told>> /\ reply' = "none"
        /\ server = "idle" /\ goac = "wait" /\ calls = <<>>
    BY DEF InitialiseRobot, Received, serverVars, robotVars, ghostVars, GoacInv, GoacCalls
  <1>2. \/ goac' = "init" /\ linked' = TRUE /\ calls' = <<Battery, Charging>>
        \/ goac' = "ended" /\ linked' = linked /\ calls' = calls
    BY DEF InitialiseRobot
  <1>3. Charging \in CallType
    BY NoCallTyped DEF Charging, NoCall, CallType
  <1>4. calls' \in Seq(CallType) /\ Len(calls') <= 2
    <2>1. Asked(<<Battery, Charging>>) /\ Asked(<<>>)
      BY <1>3, CallsTyped, OneOrTwo DEF Asked
    <2> QED
      BY <1>1, <1>2, <2>1 DEF Asked
  <1>5. TypeInv'
    BY <1>1, <1>4 DEF TypeInv, ClientTyped, ServerTyped, RobotTyped
  <1>6. RestInv'
    BY <1>1 DEF RestInv
  <1>7. linked' \in BOOLEAN /\ goac' \in {"init", "ended"}
    BY <1>2 DEF GoacInv, GoacTyped
  <1>8. GoacTyped'
    BY <1>1, <1>7 DEF GoacInv, GoacTyped
  <1>9. GoacCalls'
    BY <1>1, <1>2 DEF GoacInv, GoacCalls
  <1>10. GoacBelieves'
    BY <1>1, <1>2 DEF GoacInv, GoacBelieves, Place0
  <1> QED
    BY <1>5, <1>6, <1>8, <1>9, <1>10 DEF GoacInv

LEMMA MoveRobotStep ==
    ASSUME TypeInv, RestInv, GoacInv, MoveRobot
    PROVE  TypeInv' /\ RestInv' /\ GoacInv'
  <1>1. PICK g \in Goals :
          /\ Straight([x |-> g.x - coordprimas.x, y |-> g.y - coordprimas.y])
          /\ coordenadas' = [x |-> g.x, y |-> g.y,
                             ang |-> TurnFrom(Heading(g.x - coordprimas.x, g.y - coordprimas.y),
                                              coordprimas.ang)]
          /\ calls' = <<Rotate(TurnFrom(Heading(g.x - coordprimas.x, g.y - coordprimas.y),
                                        coordprimas.ang)),
                        Forward(1, Larger(Abs(g.x - coordprimas.x), Abs(g.y - coordprimas.y)))>>
          /\ excused' = (excused \/ (g.x - coordprimas.x = 0 /\ g.y - coordprimas.y < 0))
    BY DEF MoveRobot
  <1>2. /\ UNCHANGED <<step, nStr, late, object_dest, cpos, pose, server, call, left, flag_parada,
                       odom, robot, contact, obstacles, bumps, carried>>
        /\ UNCHANGED <<linked, coordprimas, told>> /\ reply' = "none"
        /\ server = "idle" /\ goac = "wait" /\ goac' = "moving"
    BY DEF MoveRobot, Received, serverVars, robotVars
  <1>3. g.x \in Int /\ g.y \in Int /\ coordprimas.x \in Int /\ coordprimas.y \in Int
    BY <1>1, GoacAssumption DEF GoacInv, GoacTyped
  <1>4. Asks' = [x |-> g.x - coordprimas.x, y |-> g.y - coordprimas.y]
    BY <1>1, <1>2 DEF Asks
  <1>5. /\ Straight(Asks') /\ coordenadas'.ang = TurnFrom(AskedHeading', coordprimas.ang)
        /\ calls' = <<Rotate(coordenadas'.ang), Forward(1, AskedCells')>>
        /\ excused' = (excused \/ (Asks'.x = 0 /\ Asks'.y < 0))
        /\ coordenadas' = [x |-> g.x, y |-> g.y, ang |-> coordenadas'.ang]
    BY <1>1, <1>2, <1>4 DEF AskedHeading, AskedCells
  <1>6. AskedHeading' \in Degrees /\ -135 <= AskedHeading' /\ AskedHeading' <= 180
    BY <1>3, <1>4, HeadingValues DEF AskedHeading
  <1>7. AskedCells' \in Nat
    BY <1>3, <1>4 DEF AskedCells, Larger, Abs
  <1>8. coordprimas.ang \in Degrees /\ -539 <= coordprimas.ang /\ coordprimas.ang <= 540
    BY DEF GoacInv, GoacTyped
  <1>9. /\ coordenadas'.ang \in Signed
        /\ coordprimas.ang + coordenadas'.ang \in Degrees
        /\ -539 <= coordprimas.ang + coordenadas'.ang /\ coordprimas.ang + coordenadas'.ang <= 540
    BY <1>5, <1>6, <1>8, TurnFromSigned
  <1>10. calls' \in Seq(CallType) /\ Len(calls') <= 2
    BY <1>5, <1>7, <1>9, CallsTyped, OneOrTwo
  <1>11. excused' \in BOOLEAN
    BY <1>1 DEF TypeInv
  <1>12. TypeInv'
    BY <1>2, <1>10, <1>11 DEF TypeInv, ClientTyped, ServerTyped, RobotTyped
  <1>13. RestInv'
    BY <1>2 DEF RestInv
  <1>14. GoacTyped'
    BY <1>2, <1>3, <1>5, <1>8, <1>9 DEF GoacInv, GoacTyped
  <1>15. GoacCalls'
    BY <1>2, <1>5, <1>9 DEF GoacInv, GoacCalls
  <1>16. GoacBelieves'
    <2> SUFFICES ASSUME ~excused' PROVE (flag_parada = 0 /\ goac = "moving"
            /\ Straight(Asks) /\ ~(Asks.x = 0 /\ Asks.y < 0)
            /\ coordenadas.ang = TurnFrom(AskedHeading, coordprimas.ang)
            /\ calls = <<Rotate(coordenadas.ang), Forward(1, AskedCells)>>
            /\ Turning(Place0, coordprimas.ang, AskedHeading))'
      BY DEF GoacBelieves
    <2>1. ~excused /\ ~(Asks'.x = 0 /\ Asks'.y < 0)
      BY <1>5
    <2>2. flag_parada = 0 /\ robot.cell = Place0 /\ robot.o = coordprimas.ang % 360
      BY <1>2, <2>1 DEF GoacInv, GoacBelieves
    <2>3. Turning(Place0, coordprimas.ang, AskedHeading)'
      BY <1>2, <2>2 DEF Turning, Movement, Place0
    <2> QED
      BY <1>2, <1>5, <2>1, <2>2, <2>3
  <1> QED
    BY <1>12, <1>13, <1>14, <1>15, <1>16 DEF GoacInv

LEMMA GoacCommandsStep ==
    ASSUME TypeInv, RestInv, GoacInv, Commands
    PROVE  TypeInv' /\ RestInv' /\ GoacInv'
  <1>1. CASE MovePTU \/ TakePicOrCommunicate \/ Unlinked \/ End
    <2>1. /\ UNCHANGED vars /\ UNCHANGED <<linked, coordenadas, coordprimas, told>>
          /\ goac = "wait" /\ goac' \in {"wait", "crashed", "ended"}
          /\ reply' \in {"none", "OK", "FAIL"}
      BY <1>1 DEF MovePTU, TakePicOrCommunicate, Unlinked, End, Received, Reply, GoacInv, GoacTyped
    <2>2. TypeInv' /\ RestInv'
      BY <2>1 DEF TypeInv, ClientTyped, ServerTyped, RobotTyped, RestInv, Rest, vars, clientVars,
         serverVars, robotVars, ghostVars
    <2>3. GoacTyped'
      BY <2>1 DEF GoacInv, GoacTyped
    <2>4. GoacCalls'
      BY <2>1 DEF GoacInv, GoacCalls, vars, clientVars, serverVars, robotVars, ghostVars
    <2>5. GoacBelieves'
      BY <2>1 DEF GoacInv, GoacBelieves, Place0, vars, serverVars, robotVars, ghostVars
    <2> QED
      BY <2>2, <2>3, <2>4, <2>5 DEF GoacInv
  <1> QED
    BY <1>1, InitialiseStep, MoveRobotStep DEF Commands

-----------------------------------------------------------------------------
(* The calls of a command. *)
LEMMA GoacCallIs ==
    ASSUME GoacInv, goac = "moving", ~excused
    PROVE  /\ Head(calls).op \in {"rotate", "forward"}
           /\ calls = <<Rotate(coordenadas.ang), Forward(1, AskedCells)>> =>
                server = "idle" \/ (call.op = "rotate" /\ call.angle = coordenadas.ang)
           /\ calls = <<Forward(1, AskedCells)>> =>
                server = "idle" \/ (call.op = "forward" /\ call.vel = 1 /\ call.cells = AskedCells)
  <1>1. server # "idle" => call = Head(calls)
    BY DEF GoacInv, GoacCalls
  <1>2. /\ Head(<<Rotate(coordenadas.ang), Forward(1, AskedCells)>>) = Rotate(coordenadas.ang)
        /\ Head(<<Forward(1, AskedCells)>>) = Forward(1, AskedCells)
    BY OneCall
  <1>3. /\ Rotate(coordenadas.ang).op = "rotate" /\ Rotate(coordenadas.ang).angle = coordenadas.ang
        /\ Forward(1, AskedCells).op = "forward" /\ Forward(1, AskedCells).vel = 1
        /\ Forward(1, AskedCells).cells = AskedCells
    BY DEF Rotate, Forward, NoCall
  <1>4. \/ calls = <<Rotate(coordenadas.ang), Forward(1, AskedCells)>>
        \/ calls = <<Forward(1, AskedCells)>>
    BY DEF GoacInv, GoacCalls
  <1> QED
    BY <1>1, <1>2, <1>3, <1>4

LEMMA GoacTakeCallStep ==
    ASSUME TypeInv, RestInv, GoacInv, GoacTakeCall
    PROVE  TypeInv' /\ RestInv' /\ GoacInv'
  <1>1. /\ server = "idle" /\ calls # <<>> /\ call' = Head(calls)
        /\ server' = CASE Head(calls).op = "check" -> "check"
                       [] Head(calls).op \in {"bumpers", "battery", "charging"} -> Head(calls).op
                       [] OTHER -> "settle"
        /\ UNCHANGED <<step, calls, flag_parada, robot, carried, excused>>
        /\ UNCHANGED goacVars
    BY DEF GoacTakeCall, TakeCall, clientVars, robotVars, ghostVars
  <1>2. TypeInv'
    BY TakeCallTyped DEF GoacTakeCall
  <1>3. RestInv'
    BY RestStep DEF GoacTakeCall, Next, Client
  <1>4. GoacTyped'
    BY <1>1 DEF GoacInv, GoacTyped, goacVars
  <1>5. UNCHANGED <<goac, coordenadas, coordprimas, Asks, Place0, AskedHeading, AskedCells>>
    BY <1>1 DEF goacVars, Asks, Place0, AskedHeading, AskedCells
  <1>6. goac = "init" => server' \in {"battery", "charging"}
    <2>1. /\ Head(<<Battery, Charging>>) = Battery /\ Head(<<Charging>>) = Charging
          /\ Battery.op = "battery" /\ Charging.op = "charging"
      BY OneCall DEF Battery, Charging, NoCall
    <2>2. goac = "init" => Head(calls) = Battery \/ Head(calls) = Charging
      BY <2>1 DEF GoacInv, GoacCalls
    <2>3. Battery.op # "check" /\ Charging.op # "check"
      BY <2>1
    <2> QED
      BY <1>1, <2>1, <2>2, <2>3
  <1>7. goac \notin {"wait", "ended", "crashed"}
    BY <1>1 DEF GoacInv, GoacCalls
  <1>8. GoacCalls'
    BY <1>1, <1>5, <1>6, <1>7 DEF GoacInv, GoacCalls
  <1>9. GoacBelieves'
    <2>1. CASE excused
      BY <1>1, <2>1 DEF GoacBelieves
    <2>2. CASE ~excused /\ goac = "moving"
      <3>1. server' = "settle"
        BY <1>1, <2>2, GoacCallIs
      <3>2. /\ Turning(Place0, coordprimas.ang, AskedHeading) =>
                 Turning(Place0, coordprimas.ang, AskedHeading)'
            /\ Driving(Place0, AskedHeading, AskedCells) => Driving(Place0, AskedHeading, AskedCells)'
        BY <1>1, <1>5, <3>1 DEF Turning, Driving, Movement
      <3> QED
        BY <1>1, <1>5, <2>2, <3>2 DEF GoacInv, GoacBelieves
    <2>3. CASE ~excused /\ goac # "moving"
      BY <1>1, <1>5, <2>3 DEF GoacInv, GoacBelieves
    <2> QED
      BY <2>1, <2>2, <2>3
  <1> QED
    BY <1>2, <1>3, <1>4, <1>8, <1>9 DEF GoacInv

LEMMA GoacAnswerStep ==
    ASSUME TypeInv, RestInv, GoacInv, GoacAnswer
    PROVE  TypeInv' /\ RestInv' /\ GoacInv'
  <1>1. /\ server = "done" /\ server' = "idle" /\ call' = NoCall /\ left' = 0
        /\ calls' = Tail(calls) /\ goac \in {"init", "moving"}
        /\ UNCHANGED <<linked, step, nStr, late, object_dest, cpos, pose, flag_parada, odom,
                       robot, contact, obstacles, bumps, carried, excused>>
    BY DEF GoacAnswer, robotVars, ghostVars
  <1>2. calls # <<>> /\ calls' \in Seq(CallType) /\ Len(calls') <= 2
    <2>1. calls # <<>>
      <3>1. ASSUME NEW c, NEW d PROVE <<c>> # <<>> /\ <<c, d>> # <<>>
        OBVIOUS
      <3> QED
        BY <1>1, <3>1 DEF GoacInv, GoacCalls
    <2> QED
      BY <1>1, <2>1, RestTyped DEF TypeInv, ClientTyped
  <1>3. TypeInv'
    BY <1>1, <1>2, NoCallTyped DEF TypeInv, ClientTyped, ServerTyped, RobotTyped
  <1>4. RestInv'
    BY <1>1 DEF RestInv
  <1>5. CASE Len(calls) > 1
    <2>1. UNCHANGED <<goac, reply, coordenadas, coordprimas, told>>
      BY <1>5 DEF GoacAnswer
    <2>2. UNCHANGED <<Asks, Place0, AskedHeading, AskedCells>>
      BY <2>1 DEF Asks, Place0, AskedHeading, AskedCells
    <2>3. \/ goac = "init" /\ calls' = <<Charging>>
          \/ /\ goac = "moving" /\ calls = <<Rotate(coordenadas.ang), Forward(1, AskedCells)>>
             /\ calls' = <<Forward(1, AskedCells)>>
      <3>1. ASSUME NEW c PROVE ~(Len(<<c>>) > 1)
        BY OneCall
      <3>2. goac = "init" => calls = <<Battery, Charging>>
        BY <1>5, <3>1 DEF GoacInv, GoacCalls
      <3>3. goac = "moving" => calls = <<Rotate(coordenadas.ang), Forward(1, AskedCells)>>
        BY <1>5, <3>1 DEF GoacInv, GoacCalls
      <3> QED
        BY <1>1, <3>2, <3>3, TwoCalls
    <2>4. GoacTyped'
      BY <1>1, <2>1 DEF GoacInv, GoacTyped
    <2>5. GoacCalls'
      BY <1>1, <2>1, <2>2, <2>3 DEF GoacInv, GoacCalls
    <2>6. GoacBelieves'
      <3>1. CASE excused
        BY <1>1, <3>1 DEF GoacBelieves
      <3>2. CASE ~excused /\ goac = "init"
        BY <1>1, <2>1, <2>2, <3>2 DEF GoacInv, GoacBelieves
      <3>3. CASE ~excused /\ goac = "moving"
        <4>1. Turning(Place0, coordprimas.ang, AskedHeading)
          <5>1. <<Rotate(coordenadas.ang), Forward(1, AskedCells)>> # <<Forward(1, AskedCells)>>
            BY OneCall, TwoCalls
          <5> QED
            BY <1>1, <2>3, <3>3, <5>1 DEF GoacInv, GoacBelieves
        <4>2. Driving(Place0, AskedHeading, AskedCells)'
          BY <1>1, <2>2, <4>1 DEF Turning, Driving, Movement
        <4>3. flag_parada = 0 /\ Straight(Asks) /\ ~(Asks.x = 0 /\ Asks.y < 0)
              /\ coordenadas.ang = TurnFrom(AskedHeading, coordprimas.ang)
          BY <3>3 DEF GoacInv, GoacBelieves
        <4> QED
          BY <1>1, <2>1, <2>2, <2>3, <3>3, <4>2, <4>3 DEF GoacBelieves
      <3> QED
        BY <1>1, <3>1, <3>2, <3>3
    <2> QED
      BY <1>3, <1>4, <2>4, <2>5, <2>6 DEF GoacInv
  <1>6. CASE ~(Len(calls) > 1)
    <2>1. /\ goac' = "wait" /\ reply' = "OK" /\ coordenadas' = Zero
          /\ goac = "init" => UNCHANGED <<coordprimas, told>>
          /\ goac = "moving" =>
               /\ coordprimas' = [coordenadas EXCEPT !.ang = coordprimas.ang + @]
               /\ told' = [x |-> Truncated(odom.cell.x), y |-> Truncated(-odom.cell.y)]
      BY <1>1, <1>6 DEF GoacAnswer, Reply
    <2>2. calls' = <<>> /\ (goac = "moving" => calls = <<Forward(1, AskedCells)>>)
      <3>1. calls = <<Charging>> \/ (goac = "moving" /\ calls = <<Forward(1, AskedCells)>>)
        <4>1. ASSUME NEW c, NEW d PROVE Len(<<c, d>>) > 1
          BY TwoCalls
        <4> QED
          BY <1>1, <1>6, <4>1 DEF GoacInv, GoacCalls
      <3>2. goac = "moving" => calls = <<Forward(1, AskedCells)>>
        <4>1. ASSUME NEW c, NEW d PROVE Len(<<c, d>>) > 1
          BY TwoCalls
        <4> QED
          BY <1>6, <4>1 DEF GoacInv, GoacCalls
      <3> QED
        BY <1>1, <3>1, <3>2, OneCall
    <2>3. /\ coordprimas' \in [x : Int, y : Int, ang : Degrees]
          /\ -539 <= coordprimas'.ang /\ coordprimas'.ang <= 540
          /\ goac = "moving" =>
               /\ coordprimas'.x = coordenadas.x /\ coordprimas'.y = coordenadas.y
               /\ coordprimas'.ang = coordprimas.ang + coordenadas.ang
      <3>1. CASE goac = "init"
        BY <2>1, <3>1 DEF GoacInv, GoacTyped
      <3>2. CASE goac = "moving"
        BY <2>1, <3>2 DEF GoacInv, GoacTyped, GoacCalls
      <3> QED
        BY <1>1, <3>1, <3>2
    <2>4. told' \in [x : Int, y : Int]
      <3>1. odom.cell.x \in Int /\ odom.cell.y \in Int
        BY DEF TypeInv, ServerTyped, Place, Cell
      <3>2. Truncated(odom.cell.x) \in Int /\ Truncated(-odom.cell.y) \in Int
        BY <3>1 DEF Truncated
      <3> QED
        BY <1>1, <2>1, <3>2 DEF GoacInv, GoacTyped
    <2>5. coordenadas' \in [x : Int, y : Int, ang : Signed]
      BY <2>1, NoCallTyped DEF Zero, NoCall, CallType
    <2>6. GoacTyped'
      BY <1>1, <2>1, <2>3, <2>4, <2>5 DEF GoacInv, GoacTyped
    <2>7. GoacCalls'
      BY <1>1, <2>1, <2>2 DEF GoacInv, GoacCalls
    <2>8. GoacBelieves'
      <3>1. CASE excused
        BY <1>1, <3>1 DEF GoacBelieves
      <3>2. CASE ~excused /\ goac = "init"
        BY <1>1, <2>1, <3>2 DEF GoacInv, GoacBelieves, Place0
      <3>3. CASE ~excused /\ goac = "moving"
        <4>1. /\ flag_parada = 0 /\ Straight(Asks) /\ ~(Asks.x = 0 /\ Asks.y < 0)
              /\ coordenadas.ang = TurnFrom(AskedHeading, coordprimas.ang)
              /\ Driving(Place0, AskedHeading, AskedCells)
          <5>1. <<Rotate(coordenadas.ang), Forward(1, AskedCells)>> # <<Forward(1, AskedCells)>>
            BY OneCall, TwoCalls
          <5> QED
            BY <2>2, <3>3, <5>1 DEF GoacInv, GoacBelieves
        <4>2. robot.o = AskedHeading % 360 /\ robot.cell = Ahead(Place0, robot.o, AskedCells)
          BY <1>1, <4>1 DEF Driving
        <4>3. Ahead(Place0, AskedHeading % 360, AskedCells)
              = [x |-> Place0.x + Asks.x, y |-> Place0.y - Asks.y]
          BY <4>1, AsksTyped, AskedLeads DEF GoacInv, AskedHeading, AskedCells
        <4>4. Place0.x + Asks.x = coordenadas.x /\ Place0.y - Asks.y = -coordenadas.y
          BY DEF GoacInv, GoacTyped, Place0, Asks
        <4>5. robot.cell = Place0'
          BY <2>3, <3>3, <4>2, <4>3, <4>4 DEF Place0
        <4>6. (coordprimas.ang + coordenadas.ang) % 360 = AskedHeading % 360
          BY <4>1, AsksTyped, TurnFromSigned DEF GoacInv, GoacTyped
        <4> QED
          BY <1>1, <2>1, <2>3, <3>3, <4>1, <4>2, <4>5, <4>6 DEF GoacBelieves
      <3> QED
        BY <1>1, <3>1, <3>2, <3>3
    <2> QED
      BY <1>3, <1>4, <2>6, <2>7, <2>8 DEF GoacInv
  <1> QED
    BY <1>5, <1>6

LEMMA GoacTimeOutStep ==
    ASSUME TypeInv, RestInv, GoacInv, GoacTimeOut
    PROVE  TypeInv' /\ RestInv' /\ GoacInv'
  <1>1. /\ goac \in {"init", "moving"} /\ goac' = "crashed" /\ calls' = <<>>
        /\ UNCHANGED <<linked, coordenadas, coordprimas, told, step, nStr, late, object_dest, cpos,
                       pose, server, call, left, flag_parada, odom, robot, contact, obstacles,
                       bumps, carried, excused>>
        /\ reply' \in {"none", "FAIL"}
    BY DEF GoacTimeOut, serverVars, robotVars, ghostVars
  <1>2. TypeInv'
    BY <1>1, CommandsAsk, OneOrTwo, NoCallTyped DEF TypeInv, ClientTyped, ServerTyped, RobotTyped
  <1>3. RestInv'
    BY <1>1 DEF RestInv, Rest
  <1>4. GoacTyped' /\ GoacCalls' /\ GoacBelieves'
    BY <1>1 DEF GoacInv, GoacTyped, GoacCalls, GoacBelieves
  <1> QED
    BY <1>2, <1>3, <1>4 DEF GoacInv

(* The server does not know who calls. *)
LEMMA GoacServerStep ==
    ASSUME TypeInv, RestInv, GoacInv, GoacServer
    PROVE  TypeInv' /\ RestInv' /\ GoacInv'
  <1>1. /\ UNCHANGED <<step, nStr, calls, object_dest, cpos, pose, call, obstacles, bumps, carried,
                       excused>>
        /\ UNCHANGED goacVars
        /\ server # "idle" /\ server' # "idle"
    BY DEF GoacServer, checkchargin, Server, checkposition, checkbumpersemsorstate,
       readbaterylevel, SettleRotation, SettleForward, Settle, TurnStep, CloseRotation,
       CloseForward, Close, Drive, ReachGoal, StopByBump, Moving, clientVars, robotVars, ghostVars
  <1>2. TypeInv' /\ RestInv'
    <2>1. CASE Server
      BY <2>1, ServerTypedStep, RestStep DEF Next
    <2>2. CASE checkchargin
      BY <2>2 DEF checkchargin, TypeInv, ClientTyped, ServerTyped, RobotTyped, RestInv, clientVars,
         robotVars, ghostVars
    <2> QED
      BY <2>1, <2>2 DEF GoacServer
  <1>3. /\ UNCHANGED <<goac, linked, coordenadas, coordprimas, reply, told>>
        /\ UNCHANGED <<Asks, Place0, AskedHeading, AskedCells>>
    BY <1>1 DEF goacVars, Asks, Place0, AskedHeading, AskedCells
  <1>4. GoacTyped'
    BY <1>3 DEF GoacInv, GoacTyped
  <1>5. goac \notin {"wait", "ended"}
    BY <1>1 DEF GoacInv, GoacCalls
  <1>6. goac = "init" => server' = "done" /\ UNCHANGED robot /\ flag_parada' = flag_parada
    <2>1. goac = "init" => server \in {"idle", "battery", "charging", "done"}
      BY DEF GoacInv, GoacCalls
    <2>2. goac = "init" => readbaterylevel \/ checkchargin
      BY <2>1 DEF GoacServer, Server, checkposition, checkbumpersemsorstate, SettleRotation,
         SettleForward, Settle, TurnStep, CloseRotation, CloseForward, Close, Drive, ReachGoal,
         StopByBump, Moving
    <2> QED
      BY <2>2 DEF readbaterylevel, checkchargin, robotVars
  <1>7. GoacCalls'
    BY <1>1, <1>3, <1>5, <1>6 DEF GoacInv, GoacCalls
  <1>8. GoacBelieves'
    <2>1. CASE excused
      BY <1>1, <2>1 DEF GoacBelieves
    <2>2. CASE ~excused /\ goac = "init"
      BY <1>1, <1>3, <1>6, <2>2 DEF GoacInv, GoacBelieves
    <2>3. CASE ~excused /\ goac = "moving"
      <3>1. /\ flag_parada = 0
            /\ Straight(Asks) /\ ~(Asks.x = 0 /\ Asks.y < 0)
            /\ coordenadas.ang = TurnFrom(AskedHeading, coordprimas.ang)
            /\ \/ /\ calls = <<Rotate(coordenadas.ang), Forward(1, AskedCells)>>
                  /\ Turning(Place0, coordprimas.ang, AskedHeading)
               \/ /\ calls = <<Forward(1, AskedCells)>>
                  /\ Driving(Place0, AskedHeading, AskedCells)
        BY <2>3 DEF GoacInv, GoacBelieves
      <3>2. Server
        BY <3>1 DEF Turning, Driving, Movement, GoacServer, checkchargin
      <3>3. PICK p \in [x : Int, y : Int] : p = Place0
        BY AsksTyped DEF GoacInv
      <3>4. PICK o \in Degrees : o = coordprimas.ang
        BY AsksTyped DEF GoacInv
      <3>5. PICK h \in Degrees : h = AskedHeading
        BY AsksTyped DEF GoacInv
      <3>6. PICK n \in Nat : n = AskedCells
        BY AsksTyped DEF GoacInv
      <3>7. o \in Int /\ h \in Int
        BY <3>4, <3>5 DEF Degrees
      <3>8. CASE /\ calls = <<Rotate(coordenadas.ang), Forward(1, AskedCells)>>
                 /\ Turning(Place0, coordprimas.ang, AskedHeading)
        <4>1. call.op = "rotate" /\ call.angle = coordenadas.ang
          BY <1>1, <2>3, <3>8, GoacCallIs
        <4>2. (TurnFrom(h, o) + (o % 360)) % 360 = h % 360
          <5>1. -135 <= h /\ h <= 180 /\ -539 <= o /\ o <= 540
            BY <3>4, <3>5, AsksTyped DEF GoacInv, GoacTyped
          <5> QED
            BY <3>4, <3>5, <5>1, TurnFromSigned
        <4>3. (call.angle + (o % 360)) % 360 = h % 360
          BY <3>1, <3>4, <3>5, <4>1, <4>2
        <4>4. Turning(p, o, h)
          BY <3>3, <3>4, <3>5, <3>8
        <4>5. Turning(p, o, h)' /\ flag_parada' = 0
          BY <3>1, <3>2, <3>7, <4>1, <4>3, <4>4, TurningStep
        <4>6. Turning(Place0, coordprimas.ang, AskedHeading)'
          BY <1>3, <3>3, <3>4, <3>5, <4>5 DEF Turning
        <4> QED
          BY <1>1, <1>3, <2>3, <3>1, <3>8, <4>5, <4>6 DEF GoacBelieves
      <3>9. CASE calls = <<Forward(1, AskedCells)>> /\ Driving(Place0, AskedHeading, AskedCells)
        <4>1. call.op = "forward" /\ call.vel = 1 /\ call.cells = n
          BY <1>1, <2>3, <3>6, <3>9, GoacCallIs
        <4>2. Driving(p, h, n)
          BY <3>3, <3>5, <3>6, <3>9
        <4>3. Driving(p, h, n)' /\ flag_parada' = 0
          BY <3>1, <3>2, <3>3, <3>6, <3>7, <4>1, <4>2, DrivingStep
        <4>4. Driving(Place0, AskedHeading, AskedCells)'
          BY <1>3, <3>3, <3>5, <3>6, <4>3 DEF Driving
        <4> QED
          BY <1>1, <1>3, <2>3, <3>1, <3>9, <4>3, <4>4 DEF GoacBelieves
      <3> QED
        BY <3>1, <3>8, <3>9
    <2>4. CASE ~excused /\ goac \notin {"init", "moving"}
      BY <1>1, <1>3, <1>5, <2>4 DEF GoacInv, GoacTyped, GoacCalls, GoacBelieves
    <2> QED
      BY <2>1, <2>2, <2>3, <2>4
  <1> QED
    BY <1>2, <1>4, <1>7, <1>8 DEF GoacInv

LEMMA GoacWorldStep ==
    ASSUME TypeInv, RestInv, GoacInv, GoacWorld
    PROVE  TypeInv' /\ RestInv' /\ GoacInv'
  <1>1. /\ UNCHANGED <<step, clientVars, server, call, robot, carried>> /\ excused' = TRUE
        /\ UNCHANGED goacVars
    BY DEF GoacWorld, BumpAhead, BumpInPassing, Hit
  <1>2. TypeInv' /\ RestInv'
    BY WorldTyped, RestStep DEF GoacWorld, Next, World
  <1>3. GoacTyped' /\ GoacCalls' /\ GoacBelieves'
    BY <1>1 DEF GoacInv, GoacTyped, GoacCalls, GoacBelieves, Asks, AskedCells, goacVars,
       clientVars
  <1> QED
    BY <1>2, <1>3 DEF GoacInv

LEMMA GoacStep ==
    ASSUME TypeInv, RestInv, GoacInv, GoacNext
    PROVE  TypeInv' /\ RestInv' /\ GoacInv'
  BY GoacCommandsStep, GoacTakeCallStep, GoacAnswerStep, GoacTimeOutStep, GoacServerStep,
     GoacWorldStep DEF GoacNext

-----------------------------------------------------------------------------
(* A set of numbers has a least one: what stands for induction here. *)
LEMMA LeastNat ==
    ASSUME NEW S \in SUBSET Nat, S # {}
    PROVE  \E m \in S : \A k \in S : m <= k
  <1>1. PICK m \in S : \A k \in S : ~(<<k, m>> \in OpToRel(<, Nat))
    BY WFMin, NatLessThanWellFounded
  <1>2. \A k \in S : k \in Nat /\ m \in Nat /\ ~(k < m)
    BY <1>1 DEF OpToRel
  <1>3. \A k \in S : m <= k
    BY <1>2
  <1> QED
    BY <1>1, <1>3

(* The first client of the table that recv finds something of. *)
LEMMA FirstIs ==
    ASSUME NEW table \in Seq(Connections)
    PROVE  LET i == First(table) IN
           /\ i \in 0..Len(table)
           /\ i = 0 <=> \A k \in 1..Len(table) : ~(HasData(table[k]) \/ Closed(table[k]))
           /\ i > 0 => /\ HasData(table[i]) \/ Closed(table[i])
                       /\ \A k \in 1..Len(table) :
                            HasData(table[k]) \/ Closed(table[k]) => i <= k
  <1> DEFINE I == {k \in 1..Len(table) : HasData(table[k]) \/ Closed(table[k])}
  <1>1. First(table) = IF I # {} THEN Min(I) ELSE 0
    BY DEF First, SelectInSeq
  <1>2. CASE I = {}
    BY <1>1, <1>2
  <1>3. CASE I # {}
    <2>1. PICK m \in I : \A k \in I : m <= k
      <3>1. I \in SUBSET Nat
        OBVIOUS
      <3> HIDE DEF I
      <3> QED
        BY <1>3, <3>1, LeastNat
    <2>2. Min(I) \in I /\ \A k \in I : Min(I) <= k
      BY <2>1 DEF Min
    <2> QED
      BY <1>1, <1>3, <2>2
  <1> QED
    BY <1>2, <1>3

(* The descriptors that cleanKeys keeps of the first i places. *)
IsKept(f, s, n) ==
    f = [i \in 0..n |->
          IF i = 0 THEN <<>>
          ELSE IF s[i] # NoSocket THEN Append(f[i - 1], s[i]) ELSE f[i - 1]]

LEMMA KeptExists ==
    ASSUME NEW s, NEW n \in Nat
    PROVE  \E f : IsKept(f, s, n)
  <1> DEFINE Bad == {m \in Nat : ~\E f : IsKept(f, s, m)}
  <1> SUFFICES ASSUME Bad # {} PROVE FALSE
    OBVIOUS
  <1>1. PICK m \in Bad : \A k \in Bad : m <= k
    BY LeastNat
  <1>2. m # 0
    <2>1. IsKept([i \in 0..0 |-> <<>>], s, 0)
      BY DEF IsKept
    <2> QED
      BY <1>1, <2>1
  <1>3. PICK f : IsKept(f, s, m - 1)
    BY <1>1, <1>2
  <1> DEFINE g == [i \in 0..m |->
                    IF i < m THEN f[i]
                    ELSE IF s[m] # NoSocket THEN Append(f[m - 1], s[m]) ELSE f[m - 1]]
  <1>4. IsKept(g, s, m)
    <2>1. ASSUME NEW i \in 0..m
          PROVE  g[i] = IF i = 0 THEN <<>>
                        ELSE IF s[i] # NoSocket THEN Append(g[i - 1], s[i]) ELSE g[i - 1]
      <3>1. CASE i < m
        <4>1. i \in 0..m - 1 /\ g[i] = f[i] /\ (i # 0 => g[i - 1] = f[i - 1])
          BY <1>1, <2>1, <3>1
        <4>2. f[i] = IF i = 0 THEN <<>>
                     ELSE IF s[i] # NoSocket THEN Append(f[i - 1], s[i]) ELSE f[i - 1]
          BY <1>3, <4>1 DEF IsKept
        <4> QED
          BY <4>1, <4>2
      <3>2. CASE i = m
        <4>1. g[m - 1] = f[m - 1] /\ m - 1 \in 0..m
          BY <1>1, <1>2
        <4> QED
          BY <1>1, <1>2, <3>2, <4>1
      <3> QED
        BY <1>1, <3>1, <3>2
    <2> QED
      BY <2>1 DEF IsKept
  <1> QED
    BY <1>1, <1>4

LEMMA CleanIs ==
    ASSUME Len(clients) \in Nat
    PROVE  \E f : IsKept(f, clients, Len(clients)) /\ cleanKeys = f[Len(clients)]
  <1>1. PICK g : IsKept(g, clients, Len(clients))
    BY KeptExists
  <1>2. cleanKeys = (CHOOSE f : IsKept(f, clients, Len(clients)))[Len(clients)]
    BY DEF cleanKeys, IsKept
  <1> QED
    BY <1>1, <1>2

(* What is kept of the first i places is in their order, and all of them.  *)
KeptOf(t, s, i) ==
    /\ t \in Seq(Connections) /\ Len(t) <= i
    /\ \A a \in 1..Len(t) : \E j \in 1..i : s[j] = t[a]
    /\ \A a, b \in 1..Len(t) : a < b => \E j, k \in 1..i : j < k /\ s[j] = t[a] /\ s[k] = t[b]
    /\ \A j \in 1..i : s[j] # NoSocket => \E a \in 1..Len(t) : t[a] = s[j]

LEMMA KeptEmpty ==
    ASSUME NEW s
    PROVE  KeptOf(<<>>, s, 0)
  BY DEF KeptOf

LEMMA KeptMore ==
    ASSUME NEW s \in Seq(Connections \cup {NoSocket}), NEW i \in 1..Len(s), NEW t,
           KeptOf(t, s, i - 1)
    PROVE  KeptOf(IF s[i] # NoSocket THEN Append(t, s[i]) ELSE t, s, i)
  <1>1. /\ t \in Seq(Connections) /\ Len(t) <= i - 1 /\ Len(t) \in Nat
        /\ \A a \in 1..Len(t) : \E j \in 1..i - 1 : s[j] = t[a]
        /\ \A a, b \in 1..Len(t) :
             a < b => \E j, k \in 1..i - 1 : j < k /\ s[j] = t[a] /\ s[k] = t[b]
        /\ \A j \in 1..i - 1 : s[j] # NoSocket => \E a \in 1..Len(t) : t[a] = s[j]
    <2>1. t \in Seq(Connections)
      BY DEF KeptOf
    <2>2. Len(t) \in Nat
      BY <2>1
    <2> QED
      BY <2>2 DEF KeptOf
  <1>2. CASE s[i] = NoSocket
    <2>1. \A a \in 1..Len(t) : \E j \in 1..i : s[j] = t[a]
      BY <1>1
    <2>2. \A a, b \in 1..Len(t) : a < b => \E j, k \in 1..i : j < k /\ s[j] = t[a] /\ s[k] = t[b]
      BY <1>1
    <2>3. \A j \in 1..i : s[j] # NoSocket => \E a \in 1..Len(t) : t[a] = s[j]
      BY <1>1, <1>2
    <2> QED
      BY <1>1, <1>2, <2>1, <2>2, <2>3 DEF KeptOf
  <1>3. CASE s[i] # NoSocket
    <2> DEFINE u == Append(t, s[i])
               n == Len(t)
    <2>1. s[i] \in Connections
      BY <1>3
    <2>2. /\ u \in Seq(Connections) /\ Len(u) = n + 1 /\ u[n + 1] = s[i]
          /\ \A a \in 1..n : u[a] = t[a]
      BY <1>1, <2>1
    <2> HIDE DEF u
    <2>3. \A a \in 1..n + 1 : \E j \in 1..i : s[j] = u[a]
      <3> SUFFICES ASSUME NEW a \in 1..n + 1 PROVE \E j \in 1..i : s[j] = u[a]
        OBVIOUS
      <3>1. CASE a = n + 1
        BY <2>2, <3>1
      <3>2. CASE a \in 1..n
        BY <1>1, <2>2, <3>2
      <3> QED
        BY <1>1, <3>1, <3>2
    <2>4. \A a, b \in 1..n + 1 : a < b => \E j, k \in 1..i : j < k /\ s[j] = u[a] /\ s[k] = u[b]
      <3> SUFFICES ASSUME NEW a \in 1..n + 1, NEW b \in 1..n + 1, a < b
                   PROVE  \E j, k \in 1..i : j < k /\ s[j] = u[a] /\ s[k] = u[b]
        OBVIOUS
      <3>0. a \in 1..n
        BY <1>1
      <3>1. CASE b = n + 1
        <4>1. PICK j \in 1..i - 1 : s[j] = t[a]
          BY <1>1, <3>0
        <4>2. j \in 1..i /\ i \in 1..i /\ j < i /\ s[j] = u[a] /\ s[i] = u[b]
          BY <2>2, <3>0, <3>1, <4>1
        <4> QED
          BY <4>2
      <3>2. CASE b \in 1..n
        <4>1. PICK j \in 1..i - 1, k \in 1..i - 1 : j < k /\ s[j] = t[a] /\ s[k] = t[b]
          BY <1>1, <3>0, <3>2
        <4>2. j \in 1..i /\ k \in 1..i /\ s[j] = u[a] /\ s[k] = u[b]
          BY <2>2, <3>0, <3>2, <4>1
        <4> QED
          BY <4>1, <4>2
      <3>3. n \in Nat
        BY <1>1
      <3> QED
        BY <3>1, <3>2, <3>3
    <2>5. \A j \in 1..i : s[j] # NoSocket => \E a \in 1..n + 1 : u[a] = s[j]
      <3> SUFFICES ASSUME NEW j \in 1..i, s[j] # NoSocket PROVE \E a \in 1..n + 1 : u[a] = s[j]
        OBVIOUS
      <3>1. CASE j = i
        BY <1>1, <2>2, <3>1
      <3>2. CASE j \in 1..i - 1
        <4>1. PICK a \in 1..n : t[a] = s[j]
          BY <1>1, <3>2
        <4> QED
          BY <1>1, <2>2, <4>1
      <3> QED
        BY <3>1, <3>2
    <2>6. KeptOf(u, s, i)
      BY <1>1, <2>2, <2>3, <2>4, <2>5 DEF KeptOf
    <2> QED
      BY <1>3, <2>6 DEF u
  <1> QED
    BY <1>2, <1>3

LEMMA KeptHolds ==
    ASSUME NEW s \in Seq(Connections \cup {NoSocket}), NEW f, IsKept(f, s, Len(s))
    PROVE  KeptOf(f[Len(s)], s, Len(s))
  <1> DEFINE Bad == {m \in 0..Len(s) : ~KeptOf(f[m], s, m)}
  <1> SUFFICES ASSUME Bad # {} PROVE FALSE
    <2>1. Len(s) \in 0..Len(s)
      OBVIOUS
    <2> QED
      BY <2>1
  <1>0. Bad \in SUBSET Nat
    OBVIOUS
  <1>1. PICK m \in Bad : \A k \in Bad : m <= k
    <2> HIDE DEF Bad
    <2> QED
      BY <1>0, LeastNat
  <1>2. m \in 0..Len(s) /\ ~KeptOf(f[m], s, m)
    BY <1>1
  <1>3. f[m] = IF m = 0 THEN <<>>
               ELSE IF s[m] # NoSocket THEN Append(f[m - 1], s[m]) ELSE f[m - 1]
    BY <1>2 DEF IsKept
  <1>4. m # 0
    BY <1>2, <1>3, KeptEmpty
  <1>5. KeptOf(f[m - 1], s, m - 1)
    BY <1>1, <1>2, <1>4
  <1>6. m \in 1..Len(s)
    BY <1>2, <1>4
  <1>7. f[m] = IF s[m] # NoSocket THEN Append(f[m - 1], s[m]) ELSE f[m - 1]
    BY <1>3, <1>4
  <1> QED
    BY <1>2, <1>5, <1>6, <1>7, KeptMore

(* The table without the numbers that are -1: in the same order. *)
LEMMA CleanKeeps ==
    ASSUME TeleopTypeOK
    PROVE  KeptOf(cleanKeys, clients, Len(clients))
  <1>1. clients \in Seq(Connections \cup {NoSocket}) /\ Len(clients) \in Nat
    BY DEF TeleopTypeOK
  <1>2. PICK f : IsKept(f, clients, Len(clients)) /\ cleanKeys = f[Len(clients)]
    BY <1>1, CleanIs
  <1> QED
    BY <1>1, <1>2, KeptHolds

(* The table and the connections: every connection made and not reset is   *)
(* once in the table or once among those that wait.                        *)
Seen(c) == conn[c] # "new"

TeleopInv ==
    /\ TeleopTypeOK
    /\ \A i, j \in 1..Len(clients) : clients[i] = clients[j] => i = j \/ clients[i] = NoSocket
    /\ \A i, j \in 1..Len(waiting) : waiting[i] = waiting[j] => i = j
    /\ \A c \in Connections : InTable(c) \/ Waits(c) => Seen(c)
    /\ \A c \in Connections : ~(InTable(c) /\ Waits(c))
    /\ \A c \in Connections : conn[c] \in {"open", "shut"} => InTable(c) \/ Waits(c)

(* A table t that the loop makes of the clients: in their order. *)
Shifted(t, n) ==
    /\ t \in Seq(Connections \cup {NoSocket}) /\ Len(t) <= MAX_CLIENTS
    /\ \A a, b \in 1..Len(t) : a < b /\ t[a] # NoSocket /\ t[b] # NoSocket =>
          \E j, k \in 1..Len(clients) : j < k /\ clients[j] = t[a] /\ clients[k] = t[b]
    /\ \A a \in 1..Len(t) : t[a] # NoSocket => InTable(t[a])
    /\ \A c \in Connections : InTable(c) =>
          (\E a \in 1..Len(t) : t[a] = c) \/ (n > 0 /\ Gone(c))

LEMMA CleanTyped ==
    ASSUME TeleopTypeOK
    PROVE  cleanKeys \in Seq(Connections) /\ Len(cleanKeys) <= MAX_CLIENTS
  BY CleanKeeps, TeleopAssumption DEF KeptOf, TeleopTypeOK

LEMMA MarkedShifts ==
    ASSUME TeleopTypeOK, NEW n \in 0..Len(cleanKeys)
    PROVE  Shifted(Marked(cleanKeys, n), n)
  <1> DEFINE s == cleanKeys
             t == Marked(s, n)
  <1>1. /\ s \in Seq(Connections) /\ Len(s) \in Nat /\ Len(s) <= MAX_CLIENTS
        /\ \A a \in 1..Len(s) : \E j \in 1..Len(clients) : clients[j] = s[a]
        /\ \A a, b \in 1..Len(s) :
             a < b => \E j, k \in 1..Len(clients) : j < k /\ clients[j] = s[a] /\ clients[k] = s[b]
        /\ \A j \in 1..Len(clients) : clients[j] # NoSocket => \E a \in 1..Len(s) : s[a] = clients[j]
    <2>1. s \in Seq(Connections) /\ Len(s) <= MAX_CLIENTS
      BY CleanTyped
    <2>2. Len(s) \in Nat
      BY <2>1
    <2>3. KeptOf(s, clients, Len(clients))
      BY CleanKeeps
    <2> HIDE DEF s
    <2> QED
      BY <2>1, <2>2, <2>3 DEF KeptOf
  <1> HIDE DEF s
  <1>2. /\ t \in Seq(Connections \cup {NoSocket}) /\ Len(t) = Len(s)
        /\ \A i \in 1..Len(t) : t[i] = IF i <= n /\ Gone(s[i]) THEN NoSocket ELSE s[i]
    BY <1>1 DEF Marked
  <1> HIDE DEF t
  <1>3. \A a, b \in 1..Len(t) : a < b /\ t[a] # NoSocket /\ t[b] # NoSocket =>
          \E j, k \in 1..Len(clients) : j < k /\ clients[j] = t[a] /\ clients[k] = t[b]
    <2> SUFFICES ASSUME NEW a \in 1..Len(t), NEW b \in 1..Len(t), a < b, t[a] # NoSocket,
                        t[b] # NoSocket
                 PROVE  \E j, k \in 1..Len(clients) :
                          j < k /\ clients[j] = t[a] /\ clients[k] = t[b]
      OBVIOUS
    <2>1. t[a] = s[a] /\ t[b] = s[b] /\ a \in 1..Len(s) /\ b \in 1..Len(s)
      BY <1>2
    <2> QED
      BY <1>1, <2>1
  <1>4. \A a \in 1..Len(t) : t[a] # NoSocket => InTable(t[a])
    <2> SUFFICES ASSUME NEW a \in 1..Len(t), t[a] # NoSocket PROVE InTable(t[a])
      OBVIOUS
    <2>1. t[a] = s[a] /\ a \in 1..Len(s)
      BY <1>2
    <2> QED
      BY <1>1, <2>1 DEF InTable
  <1>5. ASSUME NEW c \in Connections, InTable(c)
        PROVE  (\E a \in 1..Len(t) : t[a] = c) \/ (n > 0 /\ Gone(c))
    <2>1. PICK j \in 1..Len(clients) : clients[j] = c
      BY <1>5 DEF InTable
    <2>2. c # NoSocket
      BY TeleopAssumption DEF NoSocket
    <2>3. PICK a \in 1..Len(s) : s[a] = c
      BY <1>1, <2>1, <2>2
    <2>4. CASE a <= n /\ Gone(c)
      BY <2>3, <2>4
    <2>5. CASE ~(a <= n /\ Gone(c))
      BY <1>2, <2>3, <2>5
    <2> QED
      BY <2>4, <2>5
  <1> QED
    BY <1>1, <1>2, <1>3, <1>4, <1>5 DEF Shifted, t, s

LEMMA ShiftedKeeps ==
    ASSUME TeleopInv, NEW t, NEW n, Shifted(t, n)
    PROVE  /\ \A i, j \in 1..Len(t) : t[i] = t[j] => i = j \/ t[i] = NoSocket
           /\ \A c \in Connections : (\E i \in 1..Len(t) : t[i] = c) => InTable(c)
           /\ \A c \in Connections :
                InTable(c) /\ conn[c] \in {"open", "shut"} => \E i \in 1..Len(t) : t[i] = c
  <1>0. Len(t) \in Nat /\ Len(clients) \in Nat
    BY DEF Shifted, TeleopInv, TeleopTypeOK
  <1>1. ASSUME NEW i \in 1..Len(t), NEW j \in 1..Len(t), i < j, t[i] = t[j], t[i] # NoSocket
        PROVE  FALSE
    <2>1. PICK k \in 1..Len(clients), l \in 1..Len(clients) :
             k < l /\ clients[k] = t[i] /\ clients[l] = t[j]
      BY <1>1 DEF Shifted
    <2>2. clients[k] = clients[l] /\ clients[k] # NoSocket
      BY <1>1, <2>1
    <2>3. k = l
      BY <2>2 DEF TeleopInv
    <2> QED
      BY <1>0, <2>1, <2>3
  <1>2. \A i, j \in 1..Len(t) : t[i] = t[j] => i = j \/ t[i] = NoSocket
    <2> SUFFICES ASSUME NEW i \in 1..Len(t), NEW j \in 1..Len(t), t[i] = t[j], t[i] # NoSocket
                 PROVE  i = j
      OBVIOUS
    <2>1. i < j \/ j < i \/ i = j
      BY <1>0
    <2> QED
      BY <1>1, <2>1
  <1>3. ASSUME NEW c \in Connections, NEW i \in 1..Len(t), t[i] = c PROVE InTable(c)
    <2>1. t[i] # NoSocket
      BY <1>3, TeleopAssumption DEF NoSocket
    <2> QED
      BY <1>3, <2>1 DEF Shifted
  <1>4. ASSUME NEW c \in Connections, InTable(c), conn[c] \in {"open", "shut"}
        PROVE  \E i \in 1..Len(t) : t[i] = c
    <2>1. ~Gone(c)
      BY <1>4 DEF Gone
    <2> QED
      BY <1>4, <2>1 DEF Shifted
  <1> QED
    BY <1>2, <1>3, <1>4

LEMMA TableStep ==
    ASSUME TeleopInv, NEW t, NEW n, Shifted(t, n), clients' = t, UNCHANGED <<conn, waiting>>,
           TeleopTypeOK'
    PROVE  TeleopInv'
  <1>1. \A c \in Connections : InTable(c)' => InTable(c)
    BY ShiftedKeeps DEF InTable
  <1>2. \A c \in Connections : conn[c] \in {"open", "shut"} /\ InTable(c) => InTable(c)'
    BY ShiftedKeeps DEF InTable
  <1>3. \A i, j \in 1..Len(clients') : clients'[i] = clients'[j] => i = j \/ clients'[i] = NoSocket
    BY ShiftedKeeps
  <1>4. \A c : Waits(c)' <=> Waits(c)
    BY DEF Waits
  <1> QED
    BY <1>1, <1>2, <1>3, <1>4 DEF TeleopInv, Seen

LEMMA ExitStep ==
    ASSUME conn' = [c \in Connections |-> "reset"], waiting' = <<>>, clients' = <<>>, TeleopTypeOK'
    PROVE  TeleopInv'
  BY DEF TeleopInv, InTable, Waits, Seen

(* The operators' side. *)
LEMMA OperatorsStep ==
    ASSUME TeleopInv, Operators
    PROVE  TeleopInv'
  <1>0. TeleopTypeOK
    BY DEF TeleopInv
  <1>1. ASSUME NEW c \in Connections, Connect(c) PROVE TeleopInv'
    <2>1. /\ conn[c] = "new" /\ conn' = [conn EXCEPT ![c] = "open"]
          /\ waiting' = Append(waiting, c)
          /\ UNCHANGED <<node, listening, inbox, clients, velocity, age>>
      BY <1>1 DEF Connect
    <2>2. /\ waiting \in Seq(Connections) /\ Len(waiting) \in Nat
          /\ waiting' \in Seq(Connections) /\ Len(waiting') = Len(waiting) + 1
          /\ waiting'[Len(waiting) + 1] = c
          /\ \A i \in 1..Len(waiting) : waiting'[i] = waiting[i]
      BY <1>0, <2>1 DEF TeleopTypeOK
    <2>3. /\ \A d \in Connections : conn'[d] = IF d = c THEN "open" ELSE conn[d]
          /\ conn' \in [Connections -> {"new", "open", "shut", "reset"}]
      BY <1>0, <2>1 DEF TeleopTypeOK
    <2>4. TeleopTypeOK'
      BY <1>0, <2>1, <2>2, <2>3 DEF TeleopTypeOK
    <2>5. ~InTable(c) /\ ~Waits(c)
      BY <2>1 DEF TeleopInv, Seen
    <2>6. \A d : InTable(d)' <=> InTable(d)
      BY <2>1 DEF InTable
    <2>7. \A d : Waits(d)' <=> Waits(d) \/ d = c
      BY <2>2 DEF Waits
    <2>8. \A i, j \in 1..Len(waiting') : waiting'[i] = waiting'[j] => i = j
      <3>1. \A i \in 1..Len(waiting) : waiting[i] # c
        BY <2>5 DEF Waits
      <3>2. \A i \in 1..Len(waiting') : i = Len(waiting) + 1 \/ i \in 1..Len(waiting)
        BY <2>2
      <3>3. \A i, j \in 1..Len(waiting) : waiting[i] = waiting[j] => i = j
        BY DEF TeleopInv
      <3> QED
        BY <2>2, <3>1, <3>2, <3>3
    <2> QED
      BY <2>1, <2>3, <2>4, <2>5, <2>6, <2>7, <2>8 DEF TeleopInv, Seen
  <1>2. ASSUME NEW c \in Connections, NEW m \in Messages, Send(c, m) PROVE TeleopInv'
    <2>1. /\ inbox' = [inbox EXCEPT ![c] = Append(@, m)]
          /\ UNCHANGED <<node, listening, conn, waiting, clients, velocity, age>>
      BY <1>2 DEF Send
    <2>2. TeleopTypeOK'
      BY <1>0, <2>1 DEF TeleopTypeOK
    <2> QED
      BY <2>1, <2>2 DEF TeleopInv, InTable, Waits, Seen
  <1>3. ASSUME NEW c \in Connections, Leave(c) PROVE TeleopInv'
    <2>1. /\ conn[c] = "open"
          /\ \/ conn' = [conn EXCEPT ![c] = "shut"]
             \/ conn' = [conn EXCEPT ![c] = "reset"]
          /\ inbox' \in {inbox, [inbox EXCEPT ![c] = <<>>]}
          /\ UNCHANGED <<node, listening, waiting, clients, velocity, age>>
      BY <1>3 DEF Leave
    <2>2. /\ \A d \in Connections : d # c => conn'[d] = conn[d]
          /\ conn'[c] \in {"shut", "reset"}
          /\ conn' \in [Connections -> {"new", "open", "shut", "reset"}]
      BY <1>0, <2>1 DEF TeleopTypeOK
    <2>3. inbox' \in [Connections -> Seq(Messages)]
      <3>1. inbox \in [Connections -> Seq(Messages)] /\ <<>> \in Seq(Messages)
        BY <1>0 DEF TeleopTypeOK
      <3> QED
        BY <2>1, <3>1
    <2>4. TeleopTypeOK'
      BY <1>0, <2>1, <2>2, <2>3 DEF TeleopTypeOK
    <2> QED
      BY <2>1, <2>2, <2>4 DEF TeleopInv, InTable, Waits, Seen
  <1> QED
    BY <1>1, <1>2, <1>3 DEF Operators

LEMMA SpeedTyped ==
    ASSUME NEW m \in Messages
    PROVE  Speed(m) \in [x : Nat, z : Nat]
  <1>1. m.x \in Int /\ m.z \in Int
    BY TeleopAssumption
  <1> QED
    BY <1>1 DEF Speed, Unsigned

(* What the loop takes, from the first client of the table. *)
LEMMA ReceiveMessageStep ==
    ASSUME TeleopInv, ReceiveMessage
    PROVE  TeleopInv'
  <1>0. TeleopTypeOK
    BY DEF TeleopInv
  <1> DEFINE table == cleanKeys
             i == First(table)
             c == table[i]
             m == Head(inbox[c])
  <1>1. /\ node = "up" /\ i > 0 /\ HasData(c) /\ TakeMessage(c, m)
        /\ clients' = IF node' = "up" THEN Marked(table, i) ELSE <<>>
    BY DEF ReceiveMessage
  <1>2. table \in Seq(Connections) /\ Len(table) \in Nat
    BY <1>0, CleanTyped
  <1>3. i \in 1..Len(table)
    BY <1>1, <1>2, FirstIs
  <1>4. c \in Connections /\ inbox[c] \in Seq(Messages) /\ inbox[c] # <<>>
    BY <1>0, <1>1, <1>2, <1>3 DEF HasData, TeleopTypeOK
  <1>5. m \in Messages /\ Tail(inbox[c]) \in Seq(Messages)
    BY <1>4
  <1>6. CASE /\ velocity' = Speed(m) /\ age' = 0
             /\ inbox' = [inbox EXCEPT ![c] = Tail(@)]
             /\ UNCHANGED <<node, listening, conn, waiting>>
    <2>1. Shifted(Marked(table, i), i)
      BY <1>0, <1>2, <1>3, MarkedShifts
    <2>2. clients' = Marked(table, i)
      BY <1>1, <1>6
    <2>3. Speed(m) \in [x : Nat, z : Nat]
      BY <1>5, SpeedTyped
    <2> HIDE DEF c, m, i, table
    <2>4. inbox' \in [Connections -> Seq(Messages)]
      BY <1>0, <1>4, <1>5, <1>6 DEF TeleopTypeOK
    <2>5. age' \in 0..Quiet + 1
      BY <1>6, TeleopAssumption
    <2>6. TeleopTypeOK'
      BY <1>0, <1>6, <2>1, <2>2, <2>3, <2>4, <2>5 DEF TeleopTypeOK, Shifted
    <2> QED
      BY <1>6, <2>1, <2>2, <2>6, TableStep
  <1>7. CASE Exit
    <2>1. /\ node' = "down" /\ listening' = FALSE
          /\ conn' = [d \in Connections |-> "reset"] /\ inbox' = [d \in Connections |-> <<>>]
          /\ waiting' = <<>> /\ UNCHANGED <<velocity, age>> /\ clients' = <<>>
      BY <1>1, <1>7 DEF Exit
    <2>2. TeleopTypeOK'
      <3>1. /\ conn' \in [Connections -> {"new", "open", "shut", "reset"}]
            /\ inbox' \in [Connections -> Seq(Messages)]
            /\ waiting' \in Seq(Connections) /\ clients' \in Seq(Connections \cup {NoSocket})
            /\ Len(clients') <= MAX_CLIENTS
        BY <2>1, TeleopAssumption
      <3> QED
        BY <1>0, <2>1, <3>1 DEF TeleopTypeOK
    <2> QED
      BY <2>1, <2>2, ExitStep
  <1> QED
    BY <1>1, <1>6, <1>7 DEF TakeMessage

LEMMA NoMessageTyped ==
    ASSUME TeleopTypeOK, NoMessage
    PROVE  /\ velocity' \in [x : Nat, z : Nat] /\ age' \in 0..Quiet + 1
           /\ UNCHANGED <<node, listening>>
  <1>1. age' \in 0..Quiet + 1
    BY TeleopAssumption DEF TeleopTypeOK, NoMessage
  <1>2. velocity' \in [x : Nat, z : Nat]
    BY DEF TeleopTypeOK, NoMessage, Stop
  <1> QED
    BY <1>1, <1>2 DEF NoMessage

LEMMA ReceiveNothingStep ==
    ASSUME TeleopInv, ReceiveNothing
    PROVE  TeleopInv'
  <1>0. TeleopTypeOK
    BY DEF TeleopInv
  <1> DEFINE table == cleanKeys
             i == First(table)
  <1>1. i > 0 /\ clients' = Marked(table, i) /\ NoMessage /\ UNCHANGED <<conn, inbox, waiting>>
    BY DEF ReceiveNothing, operatorVars
  <1>2. table \in Seq(Connections)
    BY <1>0, CleanTyped
  <1>3. i \in 0..Len(table)
    BY <1>2, FirstIs
  <1>4. Shifted(Marked(table, i), i)
    BY <1>0, <1>3, MarkedShifts
  <1> HIDE DEF i, table
  <1>5. TeleopTypeOK'
    BY <1>0, <1>1, <1>4, NoMessageTyped DEF TeleopTypeOK, Shifted
  <1> QED
    BY <1>1, <1>4, <1>5, TableStep

LEMMA ReceiveClientStep ==
    ASSUME TeleopInv, ReceiveClient
    PROVE  TeleopInv'
  <1>0. TeleopTypeOK
    BY DEF TeleopInv
  <1> DEFINE t == Marked(cleanKeys, Len(cleanKeys))
             n == Len(cleanKeys)
  <1>1. newClient(t) /\ NoMessage /\ UNCHANGED inbox
    BY DEF ReceiveClient
  <1>2. Shifted(t, n)
    <2>1. n \in 0..Len(cleanKeys)
      BY <1>0, CleanTyped
    <2> QED
      BY <1>0, <2>1, MarkedShifts
  <1> HIDE DEF t, n
  <1>3. CASE waiting = <<>> \/ Len(t) >= MAX_CLIENTS
    <2>1. clients' = t /\ UNCHANGED <<conn, waiting>>
      BY <1>1, <1>3 DEF newClient
    <2>2. TeleopTypeOK'
      BY <1>0, <1>1, <1>2, <2>1, NoMessageTyped DEF TeleopTypeOK, Shifted
    <2> QED
      BY <1>2, <2>1, <2>2, TableStep
  <1>4. CASE ~(waiting = <<>> \/ Len(t) >= MAX_CLIENTS)
    <2> DEFINE h == Head(waiting)
    <2>1. /\ clients' = Append(t, h) /\ waiting' = Tail(waiting)
          /\ \/ conn' = conn
             \/ conn[h] = "shut" /\ conn' = [conn EXCEPT ![h] = "reset"]
      BY <1>1, <1>4 DEF newClient
    <2>2. /\ waiting \in Seq(Connections) /\ waiting # <<>> /\ h = waiting[1]
          /\ h \in Connections /\ Len(waiting) \in Nat /\ Len(waiting) >= 1
          /\ waiting' \in Seq(Connections) /\ Len(waiting') = Len(waiting) - 1
          /\ \A i \in 1..Len(waiting') : waiting'[i] = waiting[i + 1]
      BY <1>0, <1>4, <2>1 DEF TeleopTypeOK
    <2> HIDE DEF h
    <2>3. /\ t \in Seq(Connections \cup {NoSocket}) /\ Len(t) \in Nat
          /\ clients' \in Seq(Connections \cup {NoSocket}) /\ Len(clients') = Len(t) + 1
          /\ clients'[Len(t) + 1] = h /\ \A i \in 1..Len(t) : clients'[i] = t[i]
          /\ Len(clients') <= MAX_CLIENTS
      BY <1>2, <1>4, <2>1, <2>2, TeleopAssumption DEF Shifted
    <2>4. /\ conn' \in [Connections -> {"new", "open", "shut", "reset"}]
          /\ \A c \in Connections : conn'[c] = conn[c] \/ (c = h /\ conn[c] = "shut" /\ conn'[c] = "reset")
      BY <1>0, <2>1, <2>2 DEF TeleopTypeOK
    <2>5. TeleopTypeOK'
      BY <1>0, <1>1, <2>2, <2>3, <2>4, NoMessageTyped DEF TeleopTypeOK
    <2>6. Waits(h) /\ ~InTable(h) /\ conn[h] # "new"
      BY <2>2 DEF Waits, TeleopInv, Seen
    <2>7. \A c : Waits(c)' <=> Waits(c) /\ c # h
      <3>1. \A j, k \in 1..Len(waiting) : waiting[j] = waiting[k] => j = k
        BY DEF TeleopInv
      <3>2. ASSUME NEW c, Waits(c)' PROVE Waits(c) /\ c # h
        <4>1. PICK j \in 1..Len(waiting') : waiting'[j] = c
          BY <3>2 DEF Waits
        <4>2. j + 1 \in 1..Len(waiting) /\ waiting[j + 1] = c /\ 1 \in 1..Len(waiting) /\ j + 1 # 1
          BY <2>2, <4>1
        <4> QED
          BY <2>2, <3>1, <4>2 DEF Waits
      <3>3. ASSUME NEW c, Waits(c), c # h PROVE Waits(c)'
        <4>1. PICK j \in 1..Len(waiting) : waiting[j] = c
          BY <3>3 DEF Waits
        <4>2. j # 1
          BY <2>2, <3>3, <4>1
        <4>3. j - 1 \in 1..Len(waiting') /\ waiting'[j - 1] = c
          BY <2>2, <4>1, <4>2
        <4> QED
          BY <4>3 DEF Waits
      <3> QED
        BY <3>2, <3>3
    <2>8. \A j, k \in 1..Len(waiting') : waiting'[j] = waiting'[k] => j = k
      <3>1. \A j, k \in 1..Len(waiting) : waiting[j] = waiting[k] => j = k
        BY DEF TeleopInv
      <3> SUFFICES ASSUME NEW j \in 1..Len(waiting'), NEW k \in 1..Len(waiting'),
                          waiting'[j] = waiting'[k]
                   PROVE  j = k
        OBVIOUS
      <3>2. j + 1 \in 1..Len(waiting) /\ k + 1 \in 1..Len(waiting) /\ waiting[j + 1] = waiting[k + 1]
        BY <2>2
      <3>3. j + 1 = k + 1
        BY <3>1, <3>2
      <3> QED
        BY <2>2, <3>3
    <2>9. \A c \in Connections : InTable(c)' <=> c = h \/ \E j \in 1..Len(t) : t[j] = c
      <3>1. \A j \in 1..Len(clients') : j = Len(t) + 1 \/ j \in 1..Len(t)
        BY <2>3
      <3>2. Len(t) + 1 \in 1..Len(clients') /\ \A j \in 1..Len(t) : j \in 1..Len(clients')
        BY <2>3
      <3> QED
        BY <2>3, <3>1, <3>2 DEF InTable
    <2>10. \A j, k \in 1..Len(clients') :
             clients'[j] = clients'[k] => j = k \/ clients'[j] = NoSocket
      <3>1. \A j, k \in 1..Len(t) : t[j] = t[k] => j = k \/ t[j] = NoSocket
        BY <1>2, ShiftedKeeps
      <3>2. \A j \in 1..Len(t) : t[j] # h
        BY <1>2, <2>2, <2>6, ShiftedKeeps
      <3>3. \A j \in 1..Len(clients') : j = Len(t) + 1 \/ j \in 1..Len(t)
        BY <2>3
      <3> QED
        BY <2>3, <3>1, <3>2, <3>3
    <2>11. ASSUME NEW c \in Connections, InTable(c)' \/ Waits(c)' PROVE Seen(c)'
      <3>1. Seen(c)
        BY <1>2, <2>6, <2>7, <2>9, <2>11, ShiftedKeeps DEF TeleopInv, Seen
      <3> QED
        BY <2>4, <3>1 DEF Seen
    <2>12. ASSUME NEW c \in Connections PROVE ~(InTable(c)' /\ Waits(c)')
      BY <1>2, <2>7, <2>9, <2>12, ShiftedKeeps DEF TeleopInv
    <2>13. ASSUME NEW c \in Connections, conn'[c] \in {"open", "shut"}
           PROVE  InTable(c)' \/ Waits(c)'
      <3>1. conn[c] \in {"open", "shut"}
        BY <2>4, <2>13
      <3>2. InTable(c) \/ Waits(c)
        BY <3>1 DEF TeleopInv
      <3> QED
        BY <1>2, <2>7, <2>9, <3>1, <3>2, ShiftedKeeps
    <2> QED
      BY <2>5, <2>8, <2>10, <2>11, <2>12, <2>13 DEF TeleopInv
  <1> QED
    BY <1>3, <1>4

LEMMA TeleopStep ==
    ASSUME TeleopInv, TeleopNext
    PROVE  TeleopInv'
  <1>1. CASE open
    <2>1. /\ node' = "up" /\ listening' \in BOOLEAN
          /\ UNCHANGED <<conn, inbox, waiting, clients, velocity, age>>
      BY <1>1 DEF open, operatorVars
    <2>2. TeleopTypeOK'
      BY <2>1 DEF TeleopInv, TeleopTypeOK
    <2> QED
      BY <2>1, <2>2 DEF TeleopInv, InTable, Waits, Seen
  <1>2. CASE ctrlc
    <2>1. /\ node' = "down" /\ listening' = FALSE
          /\ conn' = [d \in Connections |-> "reset"] /\ inbox' = [d \in Connections |-> <<>>]
          /\ waiting' = <<>> /\ UNCHANGED <<velocity, age>> /\ clients' = <<>>
      BY <1>2 DEF ctrlc, Exit
    <2>2. /\ conn' \in [Connections -> {"new", "open", "shut", "reset"}]
          /\ inbox' \in [Connections -> Seq(Messages)]
          /\ waiting' \in Seq(Connections) /\ clients' \in Seq(Connections \cup {NoSocket})
          /\ Len(clients') <= MAX_CLIENTS
      BY <2>1, TeleopAssumption
    <2>3. TeleopTypeOK'
      BY <2>1, <2>2 DEF TeleopInv, TeleopTypeOK
    <2> QED
      BY <2>1, <2>3, ExitStep
  <1> QED
    BY <1>1, <1>2, OperatorsStep, ReceiveMessageStep, ReceiveNothingStep, ReceiveClientStep
       DEF TeleopNext, Loop

LEMMA TeleopStarts == TeleopInit => TeleopInv
  <1> SUFFICES ASSUME TeleopInit PROVE TeleopInv
    OBVIOUS
  <1>1. /\ conn \in [Connections -> {"new", "open", "shut", "reset"}]
        /\ inbox \in [Connections -> Seq(Messages)]
        /\ waiting \in Seq(Connections) /\ clients \in Seq(Connections \cup {NoSocket})
        /\ Len(clients) <= MAX_CLIENTS /\ velocity \in [x : Nat, z : Nat]
        /\ age \in 0..Quiet + 1 /\ waiting = <<>> /\ clients = <<>>
        /\ \A c \in Connections : conn[c] = "new"
    BY TeleopAssumption DEF TeleopInit, Stop
  <1>2. TeleopTypeOK
    BY <1>1 DEF TeleopInit, TeleopTypeOK
  <1> QED
    BY <1>1, <1>2 DEF TeleopInv, InTable, Waits, Seen

(* The message that is taken. *)
LEMMA MessageTaken ==
    ASSUME TeleopInv, ReceiveMessage
    PROVE  \E i \in 1..Len(cleanKeys) :
             /\ i = First(cleanKeys) /\ HasData(cleanKeys[i])
             /\ cleanKeys[i] \in Connections
             /\ Head(inbox[cleanKeys[i]]) \in Messages
             /\ TakeMessage(cleanKeys[i], Head(inbox[cleanKeys[i]]))
  <1> DEFINE table == cleanKeys
             i == First(table)
  <1>1. /\ i > 0 /\ HasData(table[i]) /\ TakeMessage(table[i], Head(inbox[table[i]]))
    BY DEF ReceiveMessage
  <1>2. table \in Seq(Connections) /\ Len(table) \in Nat
    BY CleanTyped DEF TeleopInv
  <1>3. i \in 1..Len(table)
    BY <1>1, <1>2, FirstIs
  <1>4. table[i] \in Connections /\ inbox[table[i]] \in Seq(Messages) /\ inbox[table[i]] # <<>>
    BY <1>1, <1>2, <1>3 DEF HasData, TeleopInv, TeleopTypeOK
  <1> QED
    BY <1>1, <1>3, <1>4

LEMMA DeadManStep ==
    ASSUME TeleopInv, DeadMan, TeleopNext
    PROVE  DeadMan'
  <1>0. age \in Int /\ Quiet \in Nat
    BY TeleopAssumption DEF TeleopInv, TeleopTypeOK
  <1>1. CASE Operators \/ open \/ ctrlc
    <2>1. UNCHANGED <<velocity, age>>
      BY <1>1 DEF Operators, Connect, Leave, Send, open, ctrlc, Exit
    <2> QED
      BY <2>1 DEF DeadMan
  <1>2. CASE ReceiveMessage
    <2>1. PICK i \in 1..Len(cleanKeys) :
             /\ Head(inbox[cleanKeys[i]]) \in Messages
             /\ TakeMessage(cleanKeys[i], Head(inbox[cleanKeys[i]]))
      BY <1>2, MessageTaken
    <2>2. \/ /\ Head(inbox[cleanKeys[i]]).fields >= 6
             /\ velocity' = Speed(Head(inbox[cleanKeys[i]])) /\ age' = 0
          \/ UNCHANGED <<velocity, age>>
      BY <2>1 DEF TakeMessage, Exit
    <2> QED
      BY <1>0, <2>1, <2>2 DEF DeadMan
  <1>3. CASE NoMessage
    <2>1. /\ age' = IF age > Quiet THEN age ELSE age + 1
          /\ velocity' = IF age' > Quiet THEN Stop ELSE velocity
      BY <1>3 DEF NoMessage
    <2> QED
      BY <1>0, <2>1 DEF DeadMan
  <1> QED
    BY <1>1, <1>2, <1>3 DEF TeleopNext, Loop, ReceiveNothing, ReceiveClient

(* A client that has left blocks those behind it. *)
Blocked(d) ==
    /\ InTable(d)'
    /\ \A c \in Connections : Behind(c, d) =>
         /\ Len(inbox'[c]) >= Len(inbox[c]) \/ (conn[c] = "open" /\ conn'[c] = "reset")
         /\ Waits(c) => Waits(c)'

(* Where the client that has left is in the table. *)
LEMMA ClosedIsKept ==
    ASSUME TeleopInv, NEW d \in Connections, InTable(d), Closed(d), NEW n \in 0..Len(cleanKeys)
    PROVE  /\ \E k \in 1..Len(cleanKeys) : cleanKeys[k] = d
           /\ \E k \in 1..Len(Marked(cleanKeys, n)) : Marked(cleanKeys, n)[k] = d
  <1>1. PICK j \in 1..Len(clients) : clients[j] = d
    BY DEF InTable
  <1>2. d # NoSocket
    BY TeleopAssumption DEF NoSocket
  <1>3. \E k \in 1..Len(cleanKeys) : cleanKeys[k] = d
    BY <1>1, <1>2, CleanKeeps DEF KeptOf, TeleopInv
  <1>4. Shifted(Marked(cleanKeys, n), n)
    BY MarkedShifts DEF TeleopInv
  <1>5. \E k \in 1..Len(Marked(cleanKeys, n)) : Marked(cleanKeys, n)[k] = d
    BY <1>4, ShiftedKeeps DEF Closed
  <1> QED
    BY <1>3, <1>5

LEMMA BlockedStep ==
    ASSUME TeleopInv, [TeleopNext]_teleopVars, NEW d \in Connections, InTable(d), Closed(d),
           node' = "up"
    PROVE  Blocked(d)
  <1>0. /\ TeleopTypeOK /\ conn \in [Connections -> {"new", "open", "shut", "reset"}]
        /\ inbox \in [Connections -> Seq(Messages)] /\ waiting \in Seq(Connections)
        /\ \A c \in Connections : Len(inbox[c]) \in Nat
    BY DEF TeleopInv, TeleopTypeOK
  <1>1. ASSUME NEW c \in Connections, Connect(c) PROVE Blocked(d)
    <2>1. waiting' = Append(waiting, c) /\ UNCHANGED <<clients, inbox>>
      BY <1>1 DEF Connect
    <2>2. \A e : Waits(e) => Waits(e)'
      <3>1. /\ Len(waiting) \in Nat /\ Len(waiting') = Len(waiting) + 1
            /\ \A i \in 1..Len(waiting) : waiting'[i] = waiting[i] /\ i \in 1..Len(waiting')
        BY <1>0, <2>1
      <3> QED
        BY <3>1 DEF Waits
    <2> QED
      BY <1>0, <2>1, <2>2 DEF Blocked, InTable
  <1>2. ASSUME NEW c \in Connections, NEW m \in Messages, Send(c, m) PROVE Blocked(d)
    <2>1. inbox' = [inbox EXCEPT ![c] = Append(@, m)] /\ UNCHANGED <<conn, waiting, clients>>
      BY <1>2 DEF Send
    <2>2. \A e \in Connections : Len(inbox'[e]) >= Len(inbox[e])
      BY <1>0, <2>1
    <2> QED
      BY <2>1, <2>2 DEF Blocked, InTable, Waits
  <1>3. ASSUME NEW c \in Connections, Leave(c) PROVE Blocked(d)
    <2>1. /\ UNCHANGED <<waiting, clients>> /\ conn[c] = "open"
          /\ \/ inbox' = inbox
             \/ /\ conn' = [conn EXCEPT ![c] = "reset"]
                /\ inbox' = [inbox EXCEPT ![c] = <<>>]
      BY <1>3 DEF Leave
    <2>2. \A e \in Connections :
            Len(inbox'[e]) >= Len(inbox[e]) \/ (conn[e] = "open" /\ conn'[e] = "reset")
      <3>1. CASE inbox' = inbox
        BY <1>0, <3>1
      <3>2. CASE conn' = [conn EXCEPT ![c] = "reset"] /\ inbox' = [inbox EXCEPT ![c] = <<>>]
        BY <1>0, <2>1, <3>2
      <3> QED
        BY <2>1, <3>1, <3>2
    <2> QED
      BY <2>1, <2>2 DEF Blocked, InTable, Waits
  <1>4. CASE ReceiveMessage
    <2>1. PICK i \in 1..Len(cleanKeys) :
             /\ i = First(cleanKeys) /\ HasData(cleanKeys[i])
             /\ cleanKeys[i] \in Connections
             /\ TakeMessage(cleanKeys[i], Head(inbox[cleanKeys[i]]))
      BY <1>4, MessageTaken
    <2> DEFINE c == cleanKeys[i]
    <2>2. /\ inbox' = [inbox EXCEPT ![c] = Tail(@)] /\ UNCHANGED <<conn, waiting>>
          /\ clients' = Marked(cleanKeys, i)
      BY <1>4, <2>1 DEF TakeMessage, Exit, ReceiveMessage
    <2>3. i \in 0..Len(cleanKeys)
      OBVIOUS
    <2>4. InTable(d)'
      BY <2>2, <2>3, ClosedIsKept DEF InTable
    <2>5. ~Behind(c, d)
      <3>1. PICK k \in 1..Len(cleanKeys) : cleanKeys[k] = d
        BY <2>3, ClosedIsKept
      <3>2. cleanKeys \in Seq(Connections) /\ Len(cleanKeys) \in Nat
        BY <1>0, CleanTyped
      <3>3. i <= k
        BY <2>1, <3>1, <3>2, FirstIs
      <3>4. c # d
        BY <2>1 DEF Closed
      <3>5. i < k
        BY <3>1, <3>2, <3>3, <3>4
      <3>6. PICK j \in 1..Len(clients), l \in 1..Len(clients) :
               j < l /\ clients[j] = c /\ clients[l] = d
        <4>1. \A a, b \in 1..Len(cleanKeys) : a < b =>
                \E j, l \in 1..Len(clients) :
                  j < l /\ clients[j] = cleanKeys[a] /\ clients[l] = cleanKeys[b]
          BY <1>0, CleanKeeps DEF KeptOf
        <4> QED
          BY <3>1, <3>5, <4>1, SMTT(40)
      <3>7. Len(clients) \in Nat
        BY <1>0 DEF TeleopTypeOK
      <3> QED
        BY <3>6, <3>7 DEF Behind
    <2>6. \A e \in Connections : e # c => inbox'[e] = inbox[e]
      BY <1>0, <2>1, <2>2
    <2>7. \A e \in Connections : Behind(e, d) => Len(inbox'[e]) >= Len(inbox[e])
      BY <1>0, <2>5, <2>6, SMTT(40)
    <2> QED
      BY <2>2, <2>4, <2>7 DEF Blocked, Waits
  <1>5. CASE ReceiveNothing
    <2> DEFINE i == First(cleanKeys)
    <2>1. clients' = Marked(cleanKeys, i) /\ UNCHANGED <<conn, inbox, waiting>>
      BY <1>5 DEF ReceiveNothing, operatorVars
    <2>2. i \in 0..Len(cleanKeys)
      BY <1>0, CleanTyped, FirstIs
    <2> HIDE DEF i
    <2>3. InTable(d)'
      BY <2>1, <2>2, ClosedIsKept DEF InTable
    <2> QED
      BY <1>0, <2>1, <2>3 DEF Blocked, Waits
  <1>6. CASE ReceiveClient
    <2>1. First(cleanKeys) = 0
      BY <1>6 DEF ReceiveClient
    <2>2. cleanKeys \in Seq(Connections) /\ 0 \in 0..Len(cleanKeys)
      BY <1>0, CleanTyped
    <2>3. PICK k \in 1..Len(cleanKeys) : cleanKeys[k] = d
      BY <2>2, ClosedIsKept
    <2> QED
      BY <2>1, <2>2, <2>3, FirstIs
  <1>7. CASE open \/ UNCHANGED teleopVars
    BY <1>0, <1>7 DEF open, teleopVars, operatorVars, Blocked, InTable, Waits
  <1>8. CASE ctrlc
    BY <1>8 DEF ctrlc, Exit
  <1> QED
    BY <1>1, <1>2, <1>3, <1>4, <1>5, <1>6, <1>7, <1>8 DEF TeleopNext, Operators, Loop

-----------------------------------------------------------------------------
(* All together: the client that drives keeps its own invariant, and the   *)
(* server, the robot and the node theirs.                                  *)
DInv ==
    /\ driver \in {"planner", "goac", "teleop"}
    /\ TypeInv /\ RestInv
    /\ TeleopInv /\ DeadMan
    /\ driver # "goac" => LInv /\ Arrives /\ GoacTyped /\ goac = "off"
    /\ driver = "goac" => GoacInv

LEMMA DriversStart == DriversInit => DInv
  <1> SUFFICES ASSUME DriversInit PROVE DInv
    OBVIOUS
  <1>1. Standing /\ TeleopInit /\ driver \in {"planner", "goac", "teleop"}
    BY DEF DriversInit
  <1>2. excused \in BOOLEAN
    BY DEF DriversInit
  <1>3. TypeInv /\ RestInv
    BY <1>1, <1>2, InitTypeInv DEF Standing, RestInv
  <1>4. TeleopInv /\ DeadMan
    BY <1>1, TeleopStarts DEF TeleopInit, DeadMan
  <1>5. GoacTyped
    <2>1. 0 \in Signed /\ 0 \in Degrees
      BY NoCallTyped DEF NoCall, CallType, Signed
    <2>2. GoacInit("off") \/ GoacInit("wait")
      BY DEF DriversInit
    <2>3. /\ goac \in {"off", "wait"} /\ linked = FALSE /\ coordenadas = Zero
          /\ coordprimas = Zero /\ reply = "none" /\ told = Origin
      BY <2>2 DEF GoacInit
    <2>4. linked \in BOOLEAN
      BY <2>3
    <2> QED
      BY <2>1, <2>3, <2>4 DEF GoacTyped, Zero, Origin
  <1>6. driver # "goac" => LInv /\ Arrives /\ goac = "off"
    <2> SUFFICES ASSUME driver # "goac" PROVE LInv /\ Arrives /\ goac = "off"
      OBVIOUS
    <2>1. Init /\ goac = "off"
      BY <1>1 DEF DriversInit, Init, GoacInit
    <2> QED
      BY <1>1, <2>1, InitLInv DEF Standing, Arrives
  <1>7. driver = "goac" => GoacInv
    <2> SUFFICES ASSUME driver = "goac" PROVE GoacInv
      OBVIOUS
    <2>1. GoacInit("wait") /\ excused = (robot # [cell |-> Origin, o |-> 0])
      BY DEF DriversInit
    <2>2. GoacCalls
      BY <1>1, <2>1 DEF GoacInit, Standing, GoacCalls
    <2>3. GoacBelieves
      <3>1. CASE excused
        BY <3>1 DEF GoacBelieves
      <3>2. CASE ~excused
        <4>0. robot = [cell |-> Origin, o |-> 0]
          BY <2>1, <3>2
        <4>1. robot.cell = Origin /\ robot.o = 0 /\ flag_parada = 0
          BY <1>1, <4>0 DEF Standing
        <4>2. Place0 = Origin /\ coordprimas.ang % 360 = 0
          BY <2>1 DEF GoacInit, Place0, Zero, Origin
        <4> QED
          BY <2>1, <4>1, <4>2 DEF GoacBelieves, GoacInit
      <3> QED
        BY <3>1, <3>2
    <2> QED
      BY <1>5, <2>2, <2>3 DEF GoacInv
  <1> QED
    BY <1>1, <1>3, <1>4, <1>5, <1>6, <1>7 DEF DInv

LEMMA DriversStep == DInv /\ [DriversNext]_driversVars => DInv'
  <1> SUFFICES ASSUME DInv, [DriversNext]_driversVars PROVE DInv'
    OBVIOUS
  <1>1. ASSUME UNCHANGED goacVars, GoacTyped, goac = "off" PROVE GoacTyped' /\ goac' = "off"
    BY <1>1 DEF GoacTyped, goacVars
  <1>2. ASSUME UNCHANGED teleopVars PROVE TeleopInv' /\ DeadMan'
    BY <1>2 DEF DInv, TeleopInv, TeleopTypeOK, DeadMan, InTable, Waits, Seen, teleopVars,
       operatorVars
  <1>3. ASSUME driver # "goac", [Next]_vars
        PROVE  TypeInv' /\ RestInv' /\ LInv' /\ Arrives'
    <2>1. TypeInv /\ RestInv /\ LInv /\ Arrives
      BY <1>3 DEF DInv
    <2>2. server = "done" /\ step # "crashed" => calls # <<>>
      BY <2>1 DEF LInv, CallsInv
    <2>3. TypeInv'
      BY <1>3, <2>1, <2>2, TypeStep
    <2> QED
      BY <1>3, <2>1, <2>3, RestStep, LStep, ArrivesStep
  <1>4. CASE PlannerDrives
    BY <1>1, <1>2, <1>3, <1>4 DEF PlannerDrives, DInv
  <1>5. CASE GoacDrives
    <2>1. driver = "goac" /\ driver' = "goac" /\ GoacNext /\ UNCHANGED teleopVars
      BY <1>5 DEF GoacDrives
    <2>2. TypeInv' /\ RestInv' /\ GoacInv'
      BY <2>1, GoacStep DEF DInv
    <2> QED
      BY <1>2, <2>1, <2>2 DEF DInv
  <1>6. CASE TeleopDrives
    <2>1. /\ driver = "teleop" /\ driver' = "teleop" /\ TeleopNext
          /\ UNCHANGED vars /\ UNCHANGED goacVars
      BY <1>6 DEF TeleopDrives
    <2>2. TeleopInv' /\ DeadMan'
      BY <2>1, TeleopStep, DeadManStep DEF DInv
    <2> QED
      BY <1>1, <1>3, <2>1, <2>2 DEF DInv
  <1>7. CASE UNCHANGED driversVars
    <2>1. UNCHANGED driver /\ UNCHANGED vars /\ UNCHANGED goacVars /\ UNCHANGED teleopVars
      BY <1>7 DEF driversVars
    <2>2. driver = "goac" => TypeInv' /\ RestInv' /\ GoacInv'
      BY <2>1 DEF DInv, TypeInv, ClientTyped, ServerTyped, RobotTyped, RestInv, Rest, GoacInv,
         GoacTyped, GoacCalls, GoacBelieves, Asks, Place0, AskedHeading, AskedCells, Turning,
         Driving, Ahead, vars, clientVars, serverVars, robotVars, ghostVars, goacVars
    <2> QED
      BY <1>1, <1>2, <1>3, <2>1, <2>2 DEF DInv
  <1> QED
    BY <1>4, <1>5, <1>6, <1>7 DEF DriversNext

LEMMA DriversInvariant == DriversSpec => []DInv
  BY DriversStart, DriversStep, PTL DEF DriversSpec

(* Every variable of the two clients, the server, the robot and the        *)
(* teleoperation node keeps its type, whoever drives.                      *)
THEOREM DriversTypeCorrect == DriversSpec => []DriversTypeOK
  <1>1. DInv => DriversTypeOK
    <2> SUFFICES ASSUME DInv PROVE DriversTypeOK
      OBVIOUS
    <2>1. TypeOK
      BY Typed DEF DInv
    <2>2. GoacTyped
      BY DEF DInv, GoacInv
    <2>3. GoacTypeOK
      BY <2>2 DEF GoacTyped, GoacTypeOK, Signed, Degrees
    <2> QED
      BY <2>1, <2>3 DEF DInv, TeleopInv, DriversTypeOK
  <1> QED
    BY <1>1, DriversInvariant, PTL

(* Among the drivers of the base, too, the pose that the locomotion client *)
(* holds between two commands is the robot's, and a moveto without bumps   *)
(* ends at its cell.                                                       *)
THEOREM PoseAndMoveto == DriversSpec => [](PoseTrue /\ MovetoArrives)
  <1>1. LInv => PoseTrue
    BY DEF LInv, CallsInv, PoseInv, PoseIs, PoseTrue, Between
  <1>2. Arrives => MovetoArrives
    <2>1. <<FirstTurn>> # <<>> /\ <<FirstTurn, Forward(1, WayCells)>> # <<>>
          /\ <<Forward(1, WayCells)>> # <<>>
      OBVIOUS
    <2> QED
      BY <2>1 DEF Arrives, MovetoArrives, Between, Turns, Drives, Comes
  <1>3. GoacInv => PoseTrue /\ MovetoArrives
    BY DEF GoacInv, GoacCalls, PoseTrue, MovetoArrives
  <1>4. DInv => PoseTrue /\ MovetoArrives
    BY <1>1, <1>2, <1>3 DEF DInv
  <1> QED
    BY <1>4, DriversInvariant, PTL

(* The rotation loop turns towards its goal whoever asked for the turn.    *)
THEOREM TurnsTowardsGoalOfAll == DriversSpec => TurnsTowardsGoal
  <1>1. DInv => TypeInv /\ RestInv
    BY DEF DInv
  <1>2. TypeInv /\ RestInv =>
          [TurnStep /\ Abs(call.angle) <= 180 => Rest(robot'.o) < Rest(robot.o)]_vars
    BY TurnStepRest
  <1> QED
    BY <1>1, <1>2, DriversInvariant, PTL DEF TurnsTowardsGoal

(* Until a move is cut short by a bump, or goes straight to the right, the *)
(* place and the heading that the GOAC interface adds up are the robot's,  *)
(* for any goals along the eight directions.                               *)
THEOREM GoacPlaceIsTrue == DriversSpec => []GoacKnowsPlace
  <1>1. DInv => GoacKnowsPlace
    <2> SUFFICES ASSUME DInv, goac = "wait", ~excused
                 PROVE  /\ coordprimas.x = robot.cell.x /\ coordprimas.y = -robot.cell.y
                        /\ coordprimas.ang % 360 = robot.o
      BY DEF GoacKnowsPlace
    <2>1. GoacInv
      BY DEF DInv
    <2>2. robot.cell = Place0 /\ robot.o = coordprimas.ang % 360
      BY <2>1 DEF GoacInv, GoacBelieves
    <2>3. coordprimas.x \in Int /\ coordprimas.y \in Int
      BY <2>1 DEF GoacInv, GoacTyped
    <2> QED
      BY <2>2, <2>3 DEF Place0
  <1> QED
    BY <1>1, DriversInvariant, PTL

(* The heading is added up for ever and still stays within one turn and a  *)
(* half, so that the turns asked of the server stay within one.            *)
THEOREM GoacHeadingIsBounded == DriversSpec => []GoacTurns
  <1>1. DInv => GoacTurns
    <2> SUFFICES ASSUME DInv PROVE GoacTurns
      OBVIOUS
    <2>1. GoacTyped
      BY DEF DInv, GoacInv
    <2>2. /\ coordprimas.ang \in Int /\ -539 <= coordprimas.ang /\ coordprimas.ang <= 540
          /\ coordenadas.ang \in Int /\ -359 <= coordenadas.ang /\ coordenadas.ang <= 359
      BY <2>1 DEF GoacTyped, Signed, Degrees
    <2> QED
      BY <2>2 DEF GoacTurns, Abs
  <1> QED
    BY <1>1, DriversInvariant, PTL

(* The base moves for messages that keep coming and never backwards: the   *)
(* watchdog of the teleoperation node, for any guard time and messages.    *)
THEOREM WatchdogStops == DriversSpec => []DeadMan
  BY DriversInvariant, PTL DEF DInv

(* No connection is lost, and none is twice in the table, when the numbers *)
(* of the clients that were reset are cleaned, for a table of any size.    *)
THEOREM TableIsSound == DriversSpec => []TableSound
  <1>1. DInv => TableSound
    BY DEF DInv, TeleopInv, TableSound
  <1> QED
    BY <1>1, DriversInvariant, PTL

(* A client that has left blocks those behind it and those that wait.      *)
THEOREM ClosedClientBlocks == DriversSpec => DeadClientBlocks
  <1> DEFINE Step == \A d \in Connections : InTable(d) /\ Closed(d) /\ node' = "up" => Blocked(d)
  <1>1. DInv /\ [DriversNext]_driversVars => [Step]_teleopVars
    <2> SUFFICES ASSUME DInv, [DriversNext]_driversVars PROVE [Step]_teleopVars
      OBVIOUS
    <2>1. [TeleopNext]_teleopVars
      BY DEF DriversNext, PlannerDrives, GoacDrives, TeleopDrives, driversVars
    <2>2. TeleopInv
      BY DEF DInv
    <2> QED
      BY <2>1, <2>2, BlockedStep
  <1>2. [Step]_teleopVars <=> [\A d \in Connections : InTable(d) /\ Closed(d) /\ node' = "up" =>
          /\ InTable(d)'
          /\ \A c \in Connections : Behind(c, d) =>
                /\ Len(inbox'[c]) >= Len(inbox[c]) \/ (conn[c] = "open" /\ conn'[c] = "reset")
                /\ Waits(c) => Waits(c)']_teleopVars
    BY DEF Blocked
  <1> QED
    BY <1>1, <1>2, DriversInvariant, PTL DEF DriversSpec, DeadClientBlocks
=============================================================================
