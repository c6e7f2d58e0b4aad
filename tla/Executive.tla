------------------------------ MODULE Executive ------------------------------
(***************************************************************************)
(* The deliberative loop of MoBAr: the PLEXIL plan bin/plexil/Planner.ple  *)
(* (node ExecutePlan), the commands get_plan, delete_goals and next_action *)
(* of PDDLAdapter that it calls, the reader of the plan file (CPlan,       *)
(* CDominio) behind them, and the thread of PDDLAdapter that injects the   *)
(* goals telecommanded through OGATE.                                      *)
(*                                                                         *)
(* The constructor of Planner copies the problem file and gives the copy   *)
(* to the PDDL planner, yet CProblema goes on editing the original until   *)
(* inicializarEstructuras runs for the first time: both files are state.   *)
(*                                                                         *)
(* Three actors interleave: the PLEXIL executive, blocked inside every     *)
(* command it executes; the PDDL planner, a process that get_plan starts   *)
(* and waits for; and the telecommand (TC) thread.  They share the goals   *)
(* of the problem file and the flag tcreplan, and no lock protects either. *)
(*                                                                         *)
(* PLEXIL semantics used, as Planner.plx shows it compiled: a block is a   *)
(* checked sequence, so a node that fails aborts the rest of its block;    *)
(* the body of the while and the branches of an if do not pass a failure   *)
(* on; the outcome of a node that has not finished is unknown, and so is   *)
(* what is computed from it.                                               *)
(***************************************************************************)
EXTENDS Naturals, Sequences

CONSTANTS
    Goals,       \* goals that can stand in the problem file
    InitGoals,   \* those of the mission as it starts
    ChargeGoal,  \* the goal (is_charging turtle)
    Cells,       \* cells of the map
    Home,        \* the cell where the problem file puts the robot
    StartCells,  \* the cells where the robot may stand as the mission starts
    Declared,    \* kinds of action the ACTIONS# table of the config lists
    MaxPlanLen   \* longest plan the planner returns

ASSUME ExecutiveAssumption ==
    /\ InitGoals \subseteq Goals
    /\ ChargeGoal \in Goals
    /\ Home \in Cells
    /\ StartCells \subseteq Cells
    /\ MaxPlanLen \in Nat

(* Kinds of action of a plan.  "inplace" stands for rotate, moveptu,       *)
(* picture, charge and the connectors Planner.ple has no branch for: none  *)
(* of them changes a variable of this module.                              *)
Kinds == {"moveto", "dock", "undock", "inplace"}

FINAL_PLAN == "FINAL_PLAN"
REPLAN == "REPLAN"
NoAction == "none"   \* the empty string nomaccion starts with

(* The problem file and the copy of it that the PDDL planner reads.        *)
Original == "problem"
Copy == "problem~"
Files == {Original, Copy}

(* A PLEXIL Boolean: replanificar is computed from an outcome that is not  *)
(* known yet.                                                              *)
PlexilBoolean == {"true", "false", "unknown"}

(* flag_planificacion is compared with 2 only: larger counts are one value *)
MaxFlag == 3
Increment(n) == IF n < MaxFlag THEN n + 1 ELSE n

GoBackToDockLate(n) == n = 3
GoBackToDock(n) == n = 2

Step == [kind : Kinds, from : Cells, to : Cells]

(* Plans the planner can return: every step starts where the previous one  *)
(* leaves the robot, and the first where the problem file says it is.      *)
Plans ==
    { p \in UNION { [1..n -> Step] : n \in 0..MaxPlanLen } :
        \A i \in DOMAIN p :
            /\ p[i].kind # "moveto" => p[i].to = p[i].from
            /\ i > 1 => p[i].from = p[i-1].to }
PlansFrom(c) == { p \in Plans : 1 \in DOMAIN p => p[1].from = c }

VARIABLES
    pc,            \* where the PLEXIL executive stands
    planok,        \* Planner.ple: a plan to follow is at hand
    replanificar,  \* Planner.ple: argument of the next get_plan
    flag_planificacion, \* Planner.ple: get_plan failures in a row
    nomaccion,     \* Planner.ple: what next_action returned last
    plan,          \* actions in the plan file that CPlan has open
    leidas,        \* how many of its lines CPlan has read
    numaccion,     \* CPlan: number of the last action read
    inicializado,  \* inicializarEstructuras has run: CDominio has read the
                   \* table of actions, CProblema edits the copy
    goals,         \* goals in each file
    posicion,      \* cell of the predicate (position turtle ...) in each
    robot,         \* cell the robot last reported
    displaced,     \* a docking manoeuvre moved it since posicion was written
    tcreplan,      \* PDDLAdapter: a TC goal asks for a new plan
    awaited,       \* the goal the TC thread has inserted and whose flag it
                   \* has not raised yet, if any
    unread,        \* goals telecommanded that the planner has not read since
    missed         \* goals inserted where the planner did not find them: in the
                   \* original, or after it had read its file

plexilVars == <<planok, replanificar, flag_planificacion, nomaccion>>
readerVars == <<plan, leidas, numaccion, inicializado>>
robotVars  == <<posicion, robot, displaced>>
goalVars   == <<goals, unread, missed>>

vars == <<pc, plexilVars, readerVars, robotVars, tcreplan, awaited, goalVars>>

PC == {"init", "loop", "solve", "delete_goals", "set_goal", "read", "act", "moved",
       "blocked", "backed", "check", "start_time", "done",
       "crashed"}

TypeOK ==
    /\ pc \in PC
    /\ planok \in BOOLEAN
    /\ replanificar \in PlexilBoolean
    /\ flag_planificacion \in 0..MaxFlag
    /\ nomaccion \in Kinds \cup {NoAction, FINAL_PLAN, REPLAN}
    /\ plan \in Seq(Step)
    /\ leidas \in 0..Len(plan)
    /\ numaccion \in 0..leidas
    /\ inicializado \in BOOLEAN
    /\ goals \in [Files -> SUBSET Goals]
    /\ posicion \in [Files -> Cells]
    /\ robot \in Cells
    /\ displaced \in BOOLEAN
    /\ tcreplan \in BOOLEAN
    /\ awaited \subseteq Goals
    /\ unread \subseteq Goals
    /\ missed \subseteq Goals

Init ==
    /\ pc = "init"
    /\ planok = FALSE
    /\ replanificar = "false"
    /\ flag_planificacion = 0
    /\ nomaccion = NoAction
    /\ plan = <<>>
    /\ leidas = 0
    /\ numaccion = 0
    /\ inicializado = FALSE
    /\ goals = [f \in Files |-> InitGoals]
    /\ posicion = [f \in Files |-> Home]
    /\ robot \in StartCells
    /\ displaced = FALSE
    /\ tcreplan = FALSE
    /\ awaited = {}
    /\ unread = {}
    /\ missed = {}

(* The file that CProblema edits. *)
Edited == IF inicializado THEN Copy ELSE Original

SetGoals(gs) == goals' = [goals EXCEPT ![Edited] = gs]
InsertGoal(g) ==
    /\ SetGoals(goals[Edited] \cup {g})
    /\ missed' = IF Edited = Copy /\ pc # "solve" THEN missed \ {g}
                                                  ELSE missed \cup {g}
DropGoals ==
    /\ SetGoals({})
    /\ unread' = unread \ goals[Edited]
    /\ missed' = missed \ goals[Edited]
SetPosicionOriginal(c) == posicion' = [posicion EXCEPT ![Original] = c]
SetPosicion(c) == posicion' = [posicion EXCEPT ![Edited] = c]

-----------------------------------------------------------------------------
(* GetTurtlestate: the cell the robot reports replaces the one in the      *)
(* problem file.                                                           *)
UpdatePositionPlanner ==
    /\ pc = "init"
    /\ SetPosicion(robot)
    /\ pc' = "loop"
    /\ UNCHANGED <<plexilVars, readerVars, robot, displaced, tcreplan, awaited,
                   goalVars>>

(* Planning: get_plan, then the count of its failures.                     *)

Finish ==
    /\ pc = "loop"
    /\ nomaccion = FINAL_PLAN
    /\ pc' = "done"
    /\ UNCHANGED <<plexilVars, readerVars, robotVars, tcreplan, awaited,
                   goalVars>>

(* planok: node Plan is skipped and ResetFlag runs. *)
KeepPlan ==
    /\ pc = "loop"
    /\ nomaccion # FINAL_PLAN
    /\ planok
    /\ flag_planificacion' = 0
    /\ pc' = "read"
    /\ UNCHANGED <<planok, replanificar, nomaccion, readerVars, robotVars,
                   tcreplan, awaited, goalVars>>

(* get_plan removes the distances and cells a former planning left in the  *)
(* problem file and starts the planner, which reads the copy.              *)
LaunchPlanner ==
    /\ pc = "loop"
    /\ nomaccion # FINAL_PLAN
    /\ ~planok
    /\ unread' = unread \ goals[Copy]
    /\ missed' = missed \ goals[Copy]
    /\ pc' = "solve"
    /\ UNCHANGED <<plexilVars, readerVars, robotVars, tcreplan, awaited, goals>>

(* An unknown argument is a nonzero double, so planificar takes it as a    *)
(* request to replan and leaves CDominio and CProblema as they are.        *)
FirstPlanningOnce == replanificar = "false" /\ planok
FirstPlanning == replanificar = "false"

(* inicializarEstructuras. *)
ReopenPlan ==
    /\ leidas' = 0
    /\ numaccion' = 0
    /\ inicializado' = (inicializado \/ FirstPlanning)

PlannerSucceeds ==
    /\ pc = "solve"
    /\ plan' \in PlansFrom(posicion[Copy])
    /\ ReopenPlan
    /\ tcreplan' = FALSE
    /\ planok' = TRUE
    /\ flag_planificacion' = 0
    /\ pc' = "read"
    /\ UNCHANGED <<replanificar, nomaccion, robotVars, awaited, goalVars>>

(* The planner exits with an error, or its output holds no actions: in the *)
(* second case inicializarEstructuras has run as far as opening the plan.  *)
PlannerFails ==
    /\ pc = "solve"
    /\ \/ UNCHANGED readerVars
       \/ /\ plan' = <<>>
          /\ ReopenPlan
    /\ tcreplan' = TRUE
    /\ planok' = FALSE
    /\ flag_planificacion' = Increment(flag_planificacion)
    /\ pc' = IF GoBackToDock(flag_planificacion') THEN "delete_goals" ELSE "loop"
    /\ UNCHANGED <<replanificar, nomaccion, robotVars, awaited, goalVars>>

(* delete_goals is called without arguments, and executeCommand takes the  *)
(* number of the planner from the first one: whatever stands there names   *)
(* planner 0, or no planner, and then the process dies.                    *)
DeleteGoals ==
    /\ pc = "delete_goals"
    /\ \/ /\ DropGoals
          /\ pc' = "set_goal"
       \/ /\ UNCHANGED goalVars
          /\ pc' = "crashed"
    /\ UNCHANGED <<plexilVars, readerVars, robotVars, tcreplan, awaited>>

SetNewGoals ==
    /\ pc = "set_goal"
    /\ InsertGoal(ChargeGoal)
    /\ pc' = "loop"
    /\ UNCHANGED <<plexilVars, readerVars, robotVars, tcreplan, awaited, unread>>

-----------------------------------------------------------------------------
(* ReadNextAction and SetPlanFlag: next_action.                            *)

ReplanRequestedAtStart == tcreplan /\ leidas = 0
ReplanRequested == tcreplan

SetPlanFlagAlways == planok' = TRUE
SetPlanFlag == planok' = (nomaccion' # REPLAN)

NextIsReplan ==
    /\ pc = "read"
    /\ ReplanRequested
    /\ nomaccion' = REPLAN
    /\ SetPlanFlag
    /\ pc' = "start_time"
    /\ UNCHANGED <<replanificar, flag_planificacion, readerVars, robotVars,
                   tcreplan, awaited, goalVars>>

NextIsEnd ==
    /\ pc = "read"
    /\ ~ReplanRequested
    /\ leidas = Len(plan)
    /\ numaccion' = 0
    /\ nomaccion' = FINAL_PLAN
    /\ SetPlanFlag
    /\ pc' = "check"
    /\ UNCHANGED <<replanificar, flag_planificacion, plan, leidas, inicializado,
                   robotVars, tcreplan, awaited, goalVars>>

(* CDominio finds the action in its table only after it has read it. *)
acciones == IF inicializado THEN Declared ELSE {}

Known(kind) == kind \in acciones

NextIsAction ==
    /\ pc = "read"
    /\ ~ReplanRequested
    /\ leidas < Len(plan)
    /\ Known(plan[leidas + 1].kind)
    /\ leidas' = leidas + 1
    /\ numaccion' = numaccion + 1
    /\ nomaccion' = plan[leidas + 1].kind
    /\ SetPlanFlag
    /\ pc' = "act"
    /\ UNCHANGED <<replanificar, flag_planificacion, plan, inicializado,
                   robotVars, tcreplan, awaited, goalVars>>

(* sig_accion returns -23 and leaves numaccion alone, and next_action does *)
(* not look at it: conector_accion reports the end of the plan before the  *)
(* first action, and later follows a null pointer.                         *)
NextIsUndeclared ==
    /\ pc = "read"
    /\ ~ReplanRequested
    /\ leidas < Len(plan)
    /\ ~Known(plan[leidas + 1].kind)
    /\ leidas' = leidas + 1
    /\ IF numaccion > 0
       THEN /\ pc' = "crashed"
            /\ UNCHANGED <<nomaccion, planok>>
       ELSE /\ pc' = "check"
            /\ nomaccion' = FINAL_PLAN
            /\ SetPlanFlag
    /\ UNCHANGED <<replanificar, flag_planificacion, plan, numaccion,
                   inicializado, robotVars, tcreplan, awaited, goalVars>>

-----------------------------------------------------------------------------
(* ExecuteAction.                                                          *)

Current == plan[leidas]

(* The robot stops where it meets an obstacle, or overshoots. *)
MoveTo ==
    /\ pc = "act"
    /\ nomaccion = "moveto"
    /\ robot' \in Cells
    /\ pc' = "moved"
    /\ UNCHANGED <<plexilVars, readerVars, posicion, displaced, tcreplan,
                   awaited, goalVars>>

(* modify_predicate replaces the origin of the action, and fails when the  *)
(* file does not hold it: the branch is then abandoned before CheckOk.     *)
UpdatePosition ==
    /\ pc = "moved"
    /\ IF posicion[Edited] = Current.from
       THEN /\ SetPosicion(robot)
            /\ displaced' = FALSE
            /\ pc' = IF robot = Current.to THEN "check" ELSE "blocked"
       ELSE /\ UNCHANGED <<posicion, displaced>>
            /\ pc' = "check"
    /\ UNCHANGED <<plexilVars, readerVars, robot, tcreplan, awaited, goalVars>>

(* checkAngle, bumpersensor, putObstacle and moveBackxMeters *)
MoveBackTurtle ==
    /\ pc = "blocked"
    /\ robot' \in Cells
    /\ pc' = "backed"
    /\ UNCHANGED <<plexilVars, readerVars, posicion, displaced, tcreplan,
                   awaited, goalVars>>

(* Replan, inside CheckOk, compares the outcome of CheckOk. *)
ReplanKeepingPlan == replanificar' = "unknown" /\ UNCHANGED planok
Replan == planok' = FALSE /\ replanificar' = "unknown"

(* Object 1 of the predicate position is the name of the robot, so the old *)
(* position always matches.                                                *)
UpdateBackPosition ==
    /\ pc = "backed"
    /\ SetPosicion(robot)
    /\ displaced' = FALSE
    /\ Replan
    /\ pc' = "check"
    /\ UNCHANGED <<flag_planificacion, nomaccion, readerVars, robot, tcreplan,
                   awaited, goalVars>>

(* Both manoeuvres drive the robot and neither updates posicion. *)
DockOrUndock ==
    /\ pc = "act"
    /\ nomaccion \in {"dock", "undock"}
    /\ robot' \in Cells
    /\ displaced' = TRUE
    /\ pc' = "check"
    /\ UNCHANGED <<plexilVars, readerVars, posicion, tcreplan, awaited,
                   goalVars>>

ActInPlace ==
    /\ pc = "act"
    /\ nomaccion = "inplace"
    /\ pc' = "check"
    /\ UNCHANGED <<plexilVars, readerVars, robotVars, tcreplan, awaited,
                   goalVars>>

(* The postcondition !replanificar fails unless replanificar is false, and *)
(* the iteration ends there.                                               *)
ActionResultIgnored == TRUE
ActionResult == replanificar = "false"

CheckActionResult ==
    /\ pc = "check"
    /\ pc' = IF ActionResult THEN "start_time" ELSE "loop"
    /\ UNCHANGED <<plexilVars, readerVars, robotVars, tcreplan, awaited,
                   goalVars>>

(* Starts when replanificar is true and is skipped when it is false: while *)
(* it is unknown the node waits, and the iteration with it.                *)
SetStartTime ==
    /\ pc = "start_time"
    /\ replanificar # "unknown"
    /\ pc' = "loop"
    /\ UNCHANGED <<plexilVars, readerVars, robotVars, tcreplan, awaited,
                   goalVars>>

-----------------------------------------------------------------------------
(* ogateClientThread: a telecommanded goal goes into the problem file, and *)
(* then the flag is raised.                                                *)

TCInsertGoal ==
    /\ awaited = {}
    /\ pc # "crashed"
    /\ \E g \in Goals :
        /\ InsertGoal(g)
        /\ unread' = unread \cup {g}
        /\ awaited' = {g}
    /\ UNCHANGED <<pc, plexilVars, readerVars, robotVars, tcreplan>>

TCSetReplan ==
    /\ awaited # {}
    /\ pc # "crashed"
    /\ tcreplan' = TRUE
    /\ awaited' = {}
    /\ UNCHANGED <<pc, plexilVars, readerVars, robotVars, goalVars>>

-----------------------------------------------------------------------------
Planning == UpdatePositionPlanner \/ LaunchPlanner \/ PlannerSucceeds
            \/ PlannerFails \/ DeleteGoals \/ SetNewGoals
Reading == NextIsReplan \/ NextIsEnd \/ NextIsAction \/ NextIsUndeclared
Executing == MoveTo \/ UpdatePosition \/ MoveBackTurtle \/ UpdateBackPosition
             \/ DockOrUndock \/ ActInPlace \/ CheckActionResult \/ SetStartTime

Exec == Finish \/ KeepPlan \/ Planning \/ Reading \/ Executing
TCThread == TCInsertGoal \/ TCSetReplan

Next == Exec \/ TCThread

(* The executive and the planner it waits for keep running, and the TC     *)
(* thread raises the flag of a goal it has inserted; no telecommand needs  *)
(* to arrive.                                                              *)
Spec == Init /\ [][Next]_vars /\ WF_vars(Exec) /\ WF_vars(TCSetReplan)

-----------------------------------------------------------------------------
(* Properties.                                                             *)

(* A moveto is executed only while the problem file puts the robot where   *)
(* the action starts, so modify_predicate finds the position it replaces:  *)
(* a plan does not outlive the obstacle that displaced the robot.          *)
MoveStartsFromPosition ==
    pc \in {"act", "moved"} /\ nomaccion = "moveto"
        => Current.from = posicion[Edited]

(* The planner starts from the cell the robot reported last, unless a      *)
(* docking manoeuvre, which updates no position, moved it since.           *)
PlannerSeesRobotCell ==
    pc = "solve" => posicion[Copy] = robot \/ displaced

(* next_action hands out an action although the planner has not read a     *)
(* telecommanded goal only in three cases: the goal arrived while the plan *)
(* was being computed; the TC thread is still to raise its flag; or the    *)
(* goal arrived before inicializarEstructuras first ran, and then it went  *)
(* to the original, which no planner reads, and the first success cleared  *)
(* its flag.                                                               *)
OnlyLateGoalsIgnored ==
    [][pc = "read" /\ pc' = "act"
        => unread \subseteq awaited \cup missed]_vars

(* A plan whose actions are all declared is followed to its end: it never  *)
(* crashes next_action, and FINAL_PLAN comes after its last action only.   *)
DeclaredPlanFollowed ==
    [][pc = "read" /\ (\A i \in DOMAIN plan : plan[i].kind \in Declared)
        => /\ pc' # "crashed"
           /\ nomaccion' = FINAL_PLAN => leidas = Len(plan)]_vars

(* After two failures in a row the planner finds the goal that sends the   *)
(* robot to charge in its file ("if no solution rescheduled twice, go      *)
(* charging point"), with one exception: when the two failures came before *)
(* inicializarEstructuras first ran, set_goal wrote it to the original,    *)
(* and the planner goes on with the goals it had.                          *)
ChargeAfterTwoFailures ==
    pc \in {"loop", "solve"} /\ flag_planificacion >= 2
        => ChargeGoal \in goals[Copy] \cup missed

(* The executive waits forever for an unknown replanificar only when a     *)
(* telecommand made it replan: an obstacle alone never stops the mission.  *)
Hung == pc = "start_time" /\ replanificar = "unknown"
HangsOnlyOnReplan == Hung => nomaccion = REPLAN

(* A telecommanded goal makes the planner run, unless the mission is over. *)
TelecommandReachesPlanner ==
    awaited # {} ~> pc \in {"solve", "done", "crashed"} \/ Hung

-----------------------------------------------------------------------------
(* What comments and messages of the code say, and it does not do.         *)

(* "TC GOAL IMPLIES REPLAN!" (PDDLAdapter.cpp:721): no action is handed    *)
(* out while a goal of the planner's file, its flag raised, waits for a    *)
(* plan.                                                                   *)
TCGoalImpliesReplan ==
    [][pc = "read" /\ pc' = "act" => unread \cap goals[Copy] \subseteq awaited]_vars

(* REPLAN is the "Replanning action (for TC)" (Planner.ple:102): the       *)
(* planner runs after next_action has returned it.                         *)
ReplanReachesPlanner == nomaccion = REPLAN ~> pc \in {"solve", "crashed"}

(* "Si se ha llegado al final devuelve FINAL_PLAN" (CPlan.h:22): the end   *)
(* of the plan is reported when all of it has been read.                   *)
FinalAtTheEnd == nomaccion = FINAL_PLAN => leidas = Len(plan)
=============================================================================
