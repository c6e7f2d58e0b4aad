--------------------------------- MODULE Goac ---------------------------------
(***************************************************************************)
(* The GOAC interface: another client of the functional-layer server,      *)
(* which executes the commands of a message-passing host one by one and    *)
(* answers each.  It does not ask where the robot is: it adds up the moves *)
(* that it has asked for, in coordprimas, and x grows ahead, y to the left *)
(* and angles to the left.                                                 *)
(*                                                                         *)
(* Its header belongs to an older server, with a pan-tilt unit; movements  *)
(* and readings are the ones of Locomotion.                                *)
(***************************************************************************)
EXTENDS Locomotion

CONSTANT Goals  \* places that MoveRobot asks for, as [x, y]

ASSUME GoacAssumption == Goals \subseteq [x : Int, y : Int]

VARIABLES
    goac,        \* what it does; "off" when another client drives the robot
    linked,      \* clnt was created
    coordenadas, \* where the move goes and the turn that it asks for
    coordprimas, \* where it believes to be, and its heading
    reply,       \* the answer to the command, or "none" yet
    told         \* the place that the last move reported

goacVars == <<goac, linked, coordenadas, coordprimas, reply, told>>

Zero == [x |-> 0, y |-> 0, ang |-> 0]

GoacTypeOK ==
    /\ goac \in {"off", "wait", "init", "moving", "ended", "crashed"}
    /\ linked \in BOOLEAN
    /\ coordenadas \in [x : Int, y : Int, ang : Int]
    /\ coordprimas \in [x : Int, y : Int, ang : Int]
    /\ reply \in {"none", "OK", "FAIL"}
    /\ told \in [x : Int, y : Int]

GoacInit(g) ==
    /\ goac = g
    /\ linked = FALSE
    /\ coordenadas = Zero /\ coordprimas = Zero
    /\ reply = "none"
    /\ told = Origin

-----------------------------------------------------------------------------
(* atan of y/x, of eight directions; along the axis it does not look at    *)
(* the sign of y.                                                          *)
angulo(x, y) ==
    IF x = 0 THEN (IF y = 0 THEN 0 ELSE 90)
    ELSE IF y = 0 THEN 0 ELSE 45 * Sign(x) * Sign(y)

cuadrante(x, y) ==
    IF y >= 0 THEN (IF x >= 0 THEN 1 ELSE 2) ELSE (IF x < 0 THEN 3 ELSE 4)

compensar_angulo(a, q) ==
    CASE q = 2 -> 180 - Abs(a) [] q = 3 -> -(180 - a) [] OTHER -> a

Heading(x, y) == compensar_angulo(angulo(x, y), cuadrante(x, y))

TurnAbsolute(a, h) == a
TurnFurther(a, h) ==
    IF a - h > 180 THEN a - h + 360 ELSE IF a - h < -180 THEN a - h - 360 ELSE a - h

(* The turn asked for: one turn of the circle is taken off, or added. *)
TurnFrom(a, h) ==
    IF a - h > 180 THEN a - h - 360 ELSE IF a - h < -180 THEN a - h + 360 ELSE a - h

(* (int)(n + 0.1f) *)
Truncated(n) == IF n < 0 THEN n + 1 ELSE n

Charging == [NoCall EXCEPT !.op = "charging"]

Received == goac = "wait"
Reply(r) == goac' = "wait" /\ reply' = r

(* Commands go through clnt, which is not set before InitialiseRobot. *)
Unlinked ==
    /\ Received /\ ~linked
    /\ goac' = "crashed" /\ reply' = "none"
    /\ UNCHANGED <<linked, coordenadas, coordprimas, told, vars>>

InitialiseRobot ==
    /\ Received /\ server = "idle"
    /\ reply' = "none"
    /\ \/ goac' = "init" /\ linked' = TRUE /\ calls' = <<Battery, Charging>>
       \/ goac' = "ended" /\ UNCHANGED <<linked, calls>>
    /\ UNCHANGED <<coordenadas, coordprimas, told, step, nStr, late, object_dest, cpos,
                   pose, serverVars, robotVars, ghostVars>>

MoveRobot ==
    /\ Received /\ linked /\ server = "idle"
    /\ \E g \in Goals :
        LET x == g.x - coordprimas.x
            y == g.y - coordprimas.y
            turn == TurnFrom(Heading(x, y), coordprimas.ang)
        IN  /\ Straight([x |-> x, y |-> y])
            /\ coordenadas' = [x |-> g.x, y |-> g.y, ang |-> turn]
            /\ calls' = <<Rotate(turn), Forward(1, Larger(Abs(x), Abs(y)))>>
            /\ excused' = (excused \/ (x = 0 /\ y < 0))
    /\ goac' = "moving" /\ reply' = "none"
    /\ UNCHANGED <<linked, coordprimas, told, step, nStr, late, object_dest, cpos,
                   pose, serverVars, robotVars, carried>>

(* What the unit answers is the answer, and no answer kills the client. *)
MovePTU ==
    /\ Received /\ linked
    /\ Reply("OK") \/ Reply("FAIL") \/ (goac' = "crashed" /\ reply' = "none")
    /\ UNCHANGED <<linked, coordenadas, coordprimas, told, vars>>

(* TakeSciencePic does not look at what the server says of the picture, and *)
(* Communicate only sleeps.                                                 *)
TakePicOrCommunicate ==
    /\ Received
    /\ Reply("OK")
    /\ UNCHANGED <<linked, coordenadas, coordprimas, told, vars>>

(* A message of no length ends it. *)
End ==
    /\ Received
    /\ goac' = "ended"
    /\ UNCHANGED <<linked, coordenadas, coordprimas, reply, told, vars>>

-----------------------------------------------------------------------------
GoacTakeCall == TakeCall /\ UNCHANGED goacVars

checkchargin ==
    /\ server = "charging"
    /\ server' = "done"
    /\ UNCHANGED <<step, clientVars, call, left, flag_parada, odom, robotVars, ghostVars, goacVars>>

(* The answers of a command.  The move is added up whatever it ended in,   *)
(* and the place reported is the one that the server says.                 *)
GoacAnswer ==
    /\ goac \in {"init", "moving"}
    /\ server = "done"
    /\ server' = "idle" /\ call' = NoCall /\ left' = 0
    /\ calls' = Tail(calls)
    /\ IF Len(calls) > 1 THEN UNCHANGED <<goac, reply, coordenadas, coordprimas, told>>
       ELSE /\ Reply("OK")
            /\ coordenadas' = Zero
            /\ IF goac = "init" THEN UNCHANGED <<coordprimas, told>>
               ELSE /\ coordprimas' = [coordenadas EXCEPT !.ang = coordprimas.ang + @]
                    /\ told' = [x |-> Truncated(odom.cell.x), y |-> Truncated(-odom.cell.y)]
    /\ UNCHANGED <<linked, step, nStr, late, object_dest, cpos, pose, flag_parada, odom,
                   robotVars, ghostVars>>

(* A move that is given up is answered, and then its null result followed. *)
GoacTimeOut ==
    /\ goac \in {"init", "moving"}
    /\ server \notin {"idle", "done"}
    /\ goac' = "crashed"
    /\ reply' = IF goac = "moving" THEN "FAIL" ELSE "none"
    /\ calls' = <<>>
    /\ UNCHANGED <<linked, coordenadas, coordprimas, told, step, nStr, late, object_dest, cpos,
                   pose, serverVars, robotVars, ghostVars>>

Commands == InitialiseRobot \/ MoveRobot \/ MovePTU \/ TakePicOrCommunicate \/ Unlinked \/ End
GoacServer == (Server /\ UNCHANGED goacVars) \/ checkchargin
GoacWorld == (BumpAhead \/ BumpInPassing) /\ UNCHANGED goacVars

GoacNext == Commands \/ GoacTakeCall \/ GoacAnswer \/ GoacTimeOut \/ GoacServer \/ GoacWorld

-----------------------------------------------------------------------------
(* While no bump has cut a move short, nor a move gone straight to the     *)
(* right, coordprimas is where the robot is and looks, whole turns apart.  *)
GoacKnowsPlace ==
    goac = "wait" /\ ~excused =>
        /\ coordprimas.x = robot.cell.x /\ coordprimas.y = -robot.cell.y
        /\ coordprimas.ang % 360 = robot.o

(* The heading is added up and never brought back to half a turn: it stays *)
(* within one turn and a half all the same, and turns within one.          *)
GoacTurns ==
    /\ -540 < coordprimas.ang /\ coordprimas.ang <= 540
    /\ Abs(coordenadas.ang) < 360

=============================================================================
