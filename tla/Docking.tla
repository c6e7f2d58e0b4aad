------------------------------- MODULE Docking -------------------------------
(***************************************************************************)
(* Docking and undocking: the library nodes dock.ple, undock.ple and       *)
(* timer.ple, the branches of Planner.ple that call them, the calls they   *)
(* make to the functional-layer server (autodocking, restartDockServer,    *)
(* moveBack, stopAction), and the facts (is_charging turtle) and           *)
(* (free turtle) they keep in the problem.                                 *)
(*                                                                         *)
(* timer and dock run concurrently: dock is abandoned when the timer ends  *)
(* (InvariantCondition !stop_dock), the timer when dock has succeeded.     *)
(* Inside dock three nodes run concurrently and wait for each other's      *)
(* outcomes and for DockStatus.  A command blocks the executive, so a      *)
(* step is a command with its result, or a transition between commands.    *)
(*                                                                         *)
(* The drive that docks the robot is a server of its own: the functional   *)
(* layer sends it goals and cancels them, and it works on by itself.       *)
(***************************************************************************)
EXTENDS Integers

CONSTANTS
    Timer,       \* autodockmaxtime, in units of AUTODOCK_SERVER_TIMEOUT (5 s)
    DriveTime,   \* AUTODOCK_DRIVE_TIMEOUT in those units
    MaxRounds    \* bound: dockings and undockings of a mission

ASSUME DockingAssumption ==
    /\ Timer \in Nat /\ DriveTime \in Nat /\ MaxRounds \in Nat
    /\ DriveTime + 1 < Timer

Facts == {"is_charging", "free"}

VARIABLES
    pc,          \* where Planner.ple stands
    stage,       \* node of dock that executes, or how dock ended
    Autodock, DockServerFail, DockDriverFail, \* the nodes of AutoDocking
    DockStatus,  \* what autodocking returned last
    timer,       \* state of timer.ple
    elapsed,     \* units since it started, up to Timer + 1
    server,      \* the docking server of ROS
    drive,       \* its drive has a goal
    missed,      \* the call that should have cancelled that goal failed
    docked,      \* the robot is on the dock
    facts,       \* how many lines of each fact the problem has
    goal,        \* the problem has the goal (is_charging turtle)
    planned,     \* what the plan in progress does next
    rounds,      \* dockings and undockings begun
    cut          \* a docking has been abandoned

nodeVars  == <<Autodock, DockServerFail, DockDriverFail>>
driveVars == <<server, drive, missed, docked>>
factVars  == <<facts, goal>>
planVars  == <<planned, rounds, cut>>
vars == <<pc, stage, nodeVars, DockStatus, timer, elapsed, driveVars, factVars,
          planVars>>

TypeOK ==
    /\ pc \in {"plan", "dock", "stop", "back", "remove", "insert", "crashed"}
    /\ stage \in {"none", "AutoDocking", "UpdateDock", "IsntFree",
                  "AutodockState", "success", "failure"}
    /\ Autodock \in {"waiting", "ended", "finished"}
    /\ DockServerFail \in {"waiting", "success", "failure", "skipped"}
    /\ DockDriverFail \in {"waiting", "goback", "reactivate", "ending", "success",
                          "skipped"}
    /\ DockStatus \in {1, 0, -1, -2}
    /\ timer \in {"off", "running", "ended", "stopped"}
    /\ elapsed \in 0..Timer + 1
    /\ server \in {"down", "starting", "up"}
    /\ drive \in {"idle", "active"}
    /\ missed \in BOOLEAN
    /\ docked \in BOOLEAN
    /\ facts \in [Facts -> 0..MaxRounds + 1]
    /\ goal \in BOOLEAN
    /\ planned \in {"dock", "undock"}
    /\ rounds \in 0..MaxRounds
    /\ cut \in BOOLEAN

(* The mission starts on the dock (problemTemplatedOptic.pddl); GoBacktoDock *)
(* puts the goal in the problem, or not.                                   *)
Init ==
    /\ pc = "plan"
    /\ stage = "none"
    /\ Autodock = "waiting" /\ DockServerFail = "waiting" /\ DockDriverFail = "waiting"
    /\ DockStatus = 1
    /\ timer = "off"
    /\ elapsed = 0
    /\ server \in {"down", "up"}
    /\ drive = "idle" /\ missed = FALSE
    /\ docked = TRUE
    /\ facts = [f \in Facts |-> IF f = "is_charging" THEN 1 ELSE 0]
    /\ goal \in BOOLEAN
    /\ planned = "undock"
    /\ rounds = 0
    /\ cut = FALSE

Elapse(n) == elapsed' = IF elapsed + n > Timer THEN Timer + 1 ELSE elapsed + n

(* The InOut variables that the two library nodes share. *)
dock_finished_ok == stage = "success"
timer_finished_ok == timer = "ended"
DockOver == stage \in {"success", "failure"}
TimerOver == timer \in {"ended", "stopped"}

(* A command whose call times out leaves a null result that is followed.   *)
CallFails == pc' = "crashed"

-----------------------------------------------------------------------------
(* The executive.  Conditions of the domain hold of the facts as the plan  *)
(* is made; the plan then goes on whatever became of its actions.          *)
Planned(action, fact) ==
    /\ pc = "plan"
    /\ rounds < MaxRounds
    /\ action = planned \/ facts[fact] > 0
    /\ rounds' = rounds + 1

BeginTimerOnce == elapsed' = elapsed
BeginTimer == elapsed' = 0

BeginDock ==
    /\ Planned("dock", "free")
    /\ planned' = "undock"
    /\ pc' = "dock"
    /\ stage' = "AutoDocking"
    /\ Autodock' = "waiting" /\ DockServerFail' = "waiting" /\ DockDriverFail' = "waiting"
    /\ DockStatus' = 1
    /\ timer' = "running"
    /\ BeginTimer
    /\ UNCHANGED <<driveVars, factVars, cut>>

BeginUndock ==
    /\ Planned("undock", "is_charging")
    /\ planned' = "dock"
    /\ pc' = "back"
    /\ UNCHANGED <<stage, nodeVars, DockStatus, timer, elapsed, driveVars, factVars,
                   cut>>

StopIfSucceeded == dock_finished_ok
StopNeeded == timer_finished_ok /\ ~dock_finished_ok

(* The concurrence ends and DockTimeOut starts or is skipped. *)
EndDock ==
    /\ pc = "dock"
    /\ DockOver /\ TimerOver
    /\ pc' = IF StopNeeded THEN "stop" ELSE "plan"
    /\ UNCHANGED <<stage, nodeVars, DockStatus, timer, elapsed, driveVars,
                   factVars, planVars>>

stopautodock == drive' = "idle" /\ missed' = FALSE

(* DockTimeOut: stopAction cancels the goal of the drive.  Its client is a *)
(* second one; a call that fails is only reported: the drive keeps its     *)
(* goal and the plan goes on.                                              *)
StopFails == missed' = (drive = "active") /\ UNCHANGED drive

StopDrive ==
    /\ pc = "stop"
    /\ stopautodock \/ StopFails
    /\ pc' = "plan"
    /\ UNCHANGED <<stage, nodeVars, DockStatus, timer, elapsed, server, docked,
                   factVars, planVars>>

-----------------------------------------------------------------------------
(* autodocking_1_svc: -1 when the docking server does not answer, -2 when  *)
(* the drive does not finish in time (it is not stopped), and 0 when it    *)
(* finishes, whatever its final state: docked or given up.                 *)
ServerAbsent ==
    /\ server # "up"
    /\ DockStatus' = -1
    /\ Elapse(1)
    /\ UNCHANGED <<drive, missed, docked>>

DriveTimesOut ==
    /\ server = "up"
    /\ DockStatus' = -2
    /\ drive' = "active" /\ missed' = FALSE
    /\ docked' = FALSE
    /\ \E wait \in 0..1 : Elapse(DriveTime + wait)

DriveFinishes ==
    /\ server = "up"
    /\ DockStatus' = 0
    /\ drive' = "idle" /\ missed' = FALSE
    /\ docked' \in BOOLEAN
    /\ \E n \in 0..DriveTime + 1 : Elapse(n)

autodocking == (ServerAbsent \/ DriveTimesOut \/ DriveFinishes) /\ UNCHANGED <<server, pc>>

(* dock goes on while the timer has not ended. *)
In(s) == pc = "dock" /\ stage = s /\ ~timer_finished_ok

(* Autodock: its command, and what becomes of it when DockServerFail has   *)
(* an outcome (RepeatCondition).                                           *)
AutodockRuns ==
    /\ In("AutoDocking")
    /\ Autodock = "waiting"
    /\ DockStatus \notin {0, -2}
    /\ \/ /\ autodocking
          /\ Autodock' = "ended"
       \/ /\ CallFails
          /\ UNCHANGED <<DockStatus, Autodock, elapsed, driveVars>>
    /\ UNCHANGED <<stage, DockServerFail, DockDriverFail, timer, factVars,
                   planVars>>

AutodockSkipped ==
    /\ In("AutoDocking")
    /\ Autodock = "waiting"
    /\ DockStatus \in {0, -2}
    /\ Autodock' = "finished"
    /\ UNCHANGED <<pc, stage, DockServerFail, DockDriverFail, DockStatus, timer,
                   elapsed, driveVars, factVars, planVars>>

AutodockRepeats ==
    /\ In("AutoDocking")
    /\ Autodock = "ended"
    /\ DockServerFail # "waiting"
    /\ Autodock' = IF DockServerFail = "success" THEN "waiting" ELSE "finished"
    /\ UNCHANGED <<pc, stage, DockServerFail, DockDriverFail, DockStatus, timer,
                   elapsed, driveVars, factVars, planVars>>

restartdockserver == server' = IF server = "up" THEN "up" ELSE "starting"

(* DockServerFail: restartDockServer forks the launch of the server, and   *)
(* fails only if the fork does.  It has no RepeatCondition.                *)
RestartServer ==
    /\ In("AutoDocking")
    /\ DockServerFail = "waiting"
    /\ DockStatus = -1
    /\ \/ /\ DockServerFail' = "success"
          /\ restartdockserver
          /\ UNCHANGED pc
       \/ /\ DockServerFail' = "failure"
          /\ UNCHANGED <<pc, server>>
       \/ /\ CallFails
          /\ UNCHANGED <<DockServerFail, server>>
    /\ UNCHANGED <<stage, Autodock, DockDriverFail, DockStatus, timer, elapsed,
                   drive, missed, docked, factVars, planVars>>

SkipServerFail ==
    /\ In("AutoDocking")
    /\ DockServerFail = "waiting"
    /\ DockStatus = 0
    /\ DockServerFail' = "skipped"
    /\ UNCHANGED <<pc, stage, Autodock, DockDriverFail, DockStatus, timer,
                   elapsed, driveVars, factVars, planVars>>

(* DockDriverFail: it ends when DockStatus is 0 and not before, so its     *)
(* RepeatCondition, on DockStatus -2, never makes it repeat.               *)
DriverFailStarts ==
    /\ In("AutoDocking")
    /\ DockDriverFail = "waiting"
    /\ DockStatus = -2
    /\ DockDriverFail' = "goback"
    /\ UNCHANGED <<pc, stage, Autodock, DockServerFail, DockStatus, timer,
                   elapsed, driveVars, factVars, planVars>>

Goback ==
    /\ In("AutoDocking")
    /\ DockDriverFail = "goback"
    /\ \/ /\ DockDriverFail' = "reactivate"
          /\ docked' = FALSE
          /\ \E n \in 1..2 : Elapse(n)
          /\ UNCHANGED pc
       \/ /\ CallFails
          /\ UNCHANGED <<DockDriverFail, docked, elapsed>>
    /\ UNCHANGED <<stage, Autodock, DockServerFail, DockStatus, timer, server,
                   drive, missed, factVars, planVars>>

ReactivateDockDrive ==
    /\ In("AutoDocking")
    /\ DockDriverFail = "reactivate"
    /\ \/ /\ autodocking
          /\ DockDriverFail' = "ending"
       \/ /\ CallFails
          /\ UNCHANGED <<DockStatus, DockDriverFail, elapsed, driveVars>>
    /\ UNCHANGED <<stage, Autodock, DockServerFail, timer, factVars, planVars>>

DriverFailEndsAnyhow ==
    /\ In("AutoDocking")
    /\ DockDriverFail = "ending"
    /\ DockDriverFail' = "success"
    /\ UNCHANGED <<pc, stage, Autodock, DockServerFail, DockStatus, timer,
                   elapsed, driveVars, factVars, planVars>>

DriverFailEnds ==
    /\ In("AutoDocking")
    /\ DockDriverFail = "ending"
    /\ DockStatus = 0
    /\ DockDriverFail' = "success"
    /\ UNCHANGED <<pc, stage, Autodock, DockServerFail, DockStatus, timer,
                   elapsed, driveVars, factVars, planVars>>

SkipDriverFail ==
    /\ In("AutoDocking")
    /\ DockDriverFail = "waiting"
    /\ DockStatus = 0
    /\ DockDriverFail' = "skipped"
    /\ UNCHANGED <<pc, stage, Autodock, DockServerFail, DockStatus, timer,
                   elapsed, driveVars, factVars, planVars>>

AutoDockingEnds ==
    /\ In("AutoDocking")
    /\ Autodock = "finished"
    /\ DockServerFail # "waiting"
    /\ DockDriverFail \in {"success", "skipped"}
    /\ stage' = "UpdateDock"
    /\ UNCHANGED <<pc, nodeVars, DockStatus, timer, elapsed, driveVars,
                   factVars, planVars>>

-----------------------------------------------------------------------------
(* The edits: a fact is inserted again if it is there, and the first line  *)
(* that reads so is removed, which is the goal if there is no fact.        *)
insert_predicate(f) == facts' = [facts EXCEPT ![f] = @ + 1] /\ UNCHANGED goal

remove_predicate(f) ==
    IF facts[f] > 0 THEN facts' = [facts EXCEPT ![f] = @ - 1] /\ UNCHANGED goal
    ELSE UNCHANGED facts /\ goal' = (goal /\ f # "is_charging")

UpdateDockOther ==
    /\ In("UpdateDock")
    /\ insert_predicate("free")
    /\ stage' = "IsntFree"
    /\ UNCHANGED <<pc, nodeVars, DockStatus, timer, elapsed, driveVars, planVars>>

UpdateDock ==
    /\ In("UpdateDock")
    /\ insert_predicate("is_charging")
    /\ stage' = "IsntFree"
    /\ UNCHANGED <<pc, nodeVars, DockStatus, timer, elapsed, driveVars, planVars>>

IsntFree ==
    /\ In("IsntFree")
    /\ remove_predicate("free")
    /\ stage' = "AutodockState"
    /\ UNCHANGED <<pc, nodeVars, DockStatus, timer, elapsed, driveVars, planVars>>

AutodockState ==
    /\ In("AutodockState")
    /\ stage' = "success"
    /\ UNCHANGED <<pc, nodeVars, DockStatus, timer, elapsed, driveVars, factVars,
                   planVars>>

AbandonBetweenNodes ==
    /\ pc = "dock"
    /\ timer_finished_ok
    /\ ~DockOver /\ stage # "AutoDocking"
    /\ stage' = "failure"
    /\ cut' = TRUE
    /\ UNCHANGED <<pc, nodeVars, DockStatus, timer, elapsed, driveVars, factVars,
                   planned, rounds>>

(* The invariant of dock fails; commands already sent are not undone.      *)
AbandonDock ==
    /\ pc = "dock"
    /\ timer_finished_ok
    /\ ~DockOver
    /\ stage' = "failure"
    /\ cut' = TRUE
    /\ UNCHANGED <<pc, nodeVars, DockStatus, timer, elapsed, driveVars, factVars,
                   planned, rounds>>

-----------------------------------------------------------------------------
(* timer.ple: RunTimer looks at the tick every two seconds. *)
TimerEnds ==
    /\ pc = "dock"
    /\ timer = "running"
    /\ ~dock_finished_ok
    /\ elapsed > Timer
    /\ timer' = "ended"
    /\ UNCHANGED <<pc, stage, nodeVars, DockStatus, elapsed, driveVars, factVars,
                   planVars>>

TimerStops ==
    /\ pc = "dock"
    /\ timer = "running"
    /\ dock_finished_ok
    /\ timer' = "stopped"
    /\ UNCHANGED <<pc, stage, nodeVars, DockStatus, elapsed, driveVars, factVars,
                   planVars>>

(* Time passes between commands when no node of dock can take a step: once *)
(* DockDriverFail, or AutoDocking, waits for what no node will do.         *)
Stuck ==
    /\ stage = "AutoDocking"
    /\ DockStatus \in {-1, -2}
    /\ Autodock = "finished" \/ (Autodock = "ended" /\ DockServerFail = "waiting")
    /\ DockDriverFail = "ending" \/ (DockDriverFail = "waiting" /\ DockStatus = -1)
    /\ DockServerFail # "waiting" \/ DockStatus = -2

Tick ==
    /\ pc = "dock"
    /\ timer = "running"
    /\ Stuck
    /\ elapsed <= Timer
    /\ Elapse(1)
    /\ UNCHANGED <<pc, stage, nodeVars, DockStatus, timer, driveVars, factVars,
                   planVars>>

-----------------------------------------------------------------------------
(* undock.ple: moveBack, then the two facts. *)
MoveBack ==
    /\ pc = "back"
    /\ \/ /\ pc' = "remove"
          /\ docked' = FALSE
       \/ /\ CallFails
          /\ UNCHANGED docked
    /\ UNCHANGED <<stage, nodeVars, DockStatus, timer, elapsed, server, drive,
                   missed, factVars, planVars>>

UpdateUndockOther ==
    /\ pc = "remove"
    /\ remove_predicate("free")
    /\ pc' = "insert"
    /\ UNCHANGED <<stage, nodeVars, DockStatus, timer, elapsed, driveVars, planVars>>

UpdateUndock ==
    /\ pc = "remove"
    /\ remove_predicate("is_charging")
    /\ pc' = "insert"
    /\ UNCHANGED <<stage, nodeVars, DockStatus, timer, elapsed, driveVars, planVars>>

Isfree ==
    /\ pc = "insert"
    /\ insert_predicate("free")
    /\ pc' = "plan"
    /\ UNCHANGED <<stage, nodeVars, DockStatus, timer, elapsed, driveVars, planVars>>

-----------------------------------------------------------------------------
(* The docking server and its drive. *)
ServerStarts ==
    /\ server = "starting"
    /\ server' = "up"
    /\ UNCHANGED <<pc, stage, nodeVars, DockStatus, timer, elapsed, drive,
                   missed, docked, factVars, planVars>>

DriveEnds ==
    /\ drive = "active"
    /\ drive' = "idle" /\ missed' = FALSE
    /\ docked' \in BOOLEAN
    /\ UNCHANGED <<pc, stage, nodeVars, DockStatus, timer, elapsed, server,
                   factVars, planVars>>

AutoDocking == AutodockRuns \/ AutodockSkipped \/ AutodockRepeats
               \/ RestartServer \/ SkipServerFail
               \/ DriverFailStarts \/ Goback \/ ReactivateDockDrive \/ DriverFailEnds
               \/ SkipDriverFail \/ AutoDockingEnds
Dock == AutoDocking \/ UpdateDock \/ IsntFree \/ AutodockState \/ AbandonDock
TimerSteps == TimerEnds \/ TimerStops \/ Tick
Undock == MoveBack \/ UpdateUndock \/ Isfree
Planner == BeginDock \/ BeginUndock \/ EndDock \/ StopDrive
Drive == ServerStarts \/ DriveEnds

Next == Planner \/ Dock \/ TimerSteps \/ Undock \/ Drive

(* The executive ends what it has begun and runs the timer beside dock; it *)
(* need not begin anything, and the docking server may never start.        *)
Spec ==
    /\ Init /\ [][Next]_vars
    /\ WF_vars(Dock) /\ WF_vars(TimerEnds) /\ WF_vars(TimerStops) /\ WF_vars(Tick)
    /\ WF_vars(Undock) /\ WF_vars(EndDock \/ StopDrive)

-----------------------------------------------------------------------------
(* Once a docking is over a goal is left with the drive only if the call   *)
(* that cancels it failed: a drive that timed out is not stopped by the    *)
(* functional layer, so every end of dock other than a success must come   *)
(* to stopAction (Planner.ple, DockTimeOut).  A docking that does well     *)
(* leaves none, not even that of an earlier docking.                       *)
NoDriveLeft ==
    drive = "active" =>
        ~dock_finished_ok /\ (missed \/ pc \in {"dock", "stop", "crashed"})

(* dock.ple claims the robot is charging only if the last call of          *)
(* autodocking returned 0, on whatever path its three nodes got there:     *)
(* retries, a server that was restarted, a repetition that was skipped.    *)
ClaimedOnlyAfterDrive ==
    stage \in {"UpdateDock", "IsntFree", "AutodockState", "success"} => DockStatus = 0

(* The timer never cuts short a docking that did well at the first call:   *)
(* when it fails, a call failed (autodockmaxtime against the time-outs of  *)
(* Autodock.h).                                                            *)
FirstTryUncut ==
    stage = "failure" =>
        \/ DockStatus \in {-1, -2}
        \/ DockServerFail \in {"success", "failure"}
        \/ DockDriverFail \in {"goback", "reactivate", "ending", "success"}

(* Between actions the problem never loses what the robot is, charging or  *)
(* free; while no docking was abandoned it says one of them, once.         *)
FactsExclusive ==
    pc = "plan" =>
        LET lines == facts["is_charging"] + facts["free"]
        IN  lines >= 1 /\ (~cut => lines = 1)

(* An undocking takes the goal of charging for the fact only after a       *)
(* docking was abandoned (eliminar_predicado removes the first line that   *)
(* reads so).                                                              *)
GoalKept == [][~cut => goal' = goal]_goal

(* A docking ends, with or without success, whatever its nodes wait for.   *)
DockEnds == pc = "dock" ~> pc # "dock"

=============================================================================
