------------------------------- MODULE Actions -------------------------------
(***************************************************************************)
(* ExecuteAction of Planner.ple but for the movements of the robot: the    *)
(* executive has one action in progress, of the pan-tilt unit, the camera  *)
(* or the dock, while the docking drive, the docking server and the unit   *)
(* work on by themselves.                                                  *)
(***************************************************************************)
EXTENDS Docking, Camera

CONSTANT MaxActions \* bound: actions of a mission

ASSUME ActionsAssumption == MaxActions \in Nat

actionsVars == <<vars, cameraVars>>

ActionsInit == Init /\ CameraInit

AtRest == camera = "rest"

DockActions ==
    /\ Next
    /\ pc = "plan" /\ pc' # "plan" => AtRest
    /\ rounds' + shots <= MaxActions
    /\ UNCHANGED cameraVars

CameraActions ==
    /\ CameraNext
    /\ camera = "rest" /\ camera' # "rest" => pc = "plan"
    /\ rounds + shots' <= MaxActions
    /\ UNCHANGED vars

ActionsNext == DockActions \/ CameraActions

(* As in Docking; the executive also ends the actions of the camera.       *)
ActionsSpec ==
    /\ ActionsInit /\ [][ActionsNext]_actionsVars
    /\ WF_actionsVars(Dock /\ UNCHANGED cameraVars)
    /\ WF_actionsVars(TimerEnds /\ UNCHANGED cameraVars)
    /\ WF_actionsVars(TimerStops /\ UNCHANGED cameraVars)
    /\ WF_actionsVars(Tick /\ UNCHANGED cameraVars)
    /\ WF_actionsVars(Undock /\ UNCHANGED cameraVars)
    /\ WF_actionsVars((EndDock \/ StopDrive) /\ UNCHANGED cameraVars)
    /\ WF_actionsVars(CameraEndsStep /\ UNCHANGED vars)
=============================================================================
