-------------------------------- MODULE Drivers --------------------------------
(***************************************************************************)
(* Who drives the base: the executive through TurtlecomAdapter, the GOAC   *)
(* interface, or an operator through the teleoperation node.  The first    *)
(* two call the functional-layer server; the node publishes on the         *)
(* server's topic.  They are started one instead of another.               *)
(***************************************************************************)
EXTENDS Goac, Teleop

VARIABLE driver

driversVars == <<driver, vars, goacVars, teleopVars>>

DriversTypeOK ==
    /\ driver \in {"planner", "goac", "teleop"}
    /\ TypeOK /\ GoacTypeOK /\ TeleopTypeOK

(* The GOAC interface believes that the base starts where its odometry is  *)
(* zero.  Where it is means nothing to the teleoperation node: one place   *)
(* stands for all.                                                         *)
DriversInit ==
    /\ Standing /\ TeleopInit
    /\ \/ driver = "planner" /\ excused = FALSE /\ GoacInit("off")
       \/ /\ driver = "teleop" /\ excused = FALSE /\ GoacInit("off")
          /\ robot.cell = Origin
       \/ /\ driver = "goac" /\ GoacInit("wait")
          /\ excused = (robot # [cell |-> Origin, o |-> 0])

PlannerDrives == driver = "planner" /\ Next /\ UNCHANGED <<driver, goacVars, teleopVars>>
GoacDrives == driver = "goac" /\ GoacNext /\ UNCHANGED <<driver, teleopVars>>
TeleopDrives == driver = "teleop" /\ TeleopNext /\ UNCHANGED <<driver, vars, goacVars>>

DriversNext == PlannerDrives \/ GoacDrives \/ TeleopDrives

(* As in Locomotion, with either client: calls are made, served, and       *)
(* answered or given up; a robot that meets an obstacle feels it.          *)
ByPlanner == driver = "planner" /\ UNCHANGED <<driver, goacVars, teleopVars>>
ByGoac == driver = "goac" /\ UNCHANGED <<driver, teleopVars>>
DriversFairness ==
    /\ WF_driversVars(ByPlanner /\ Client)
    /\ WF_driversVars(ByPlanner /\ Server)
    /\ WF_driversVars(ByPlanner /\ TimeOut)
    /\ WF_driversVars(ByPlanner /\ BumpAhead)
    /\ WF_driversVars(ByGoac /\ (GoacTakeCall \/ GoacAnswer))
    /\ WF_driversVars(ByGoac /\ GoacServer)
    /\ WF_driversVars(ByGoac /\ GoacTimeOut)
    /\ WF_driversVars(ByGoac /\ BumpAhead /\ UNCHANGED goacVars)

DriversSpec == DriversInit /\ [][DriversNext]_driversVars /\ DriversFairness

=============================================================================
