--------------------------- MODULE ExecutiveProofs ---------------------------
(***************************************************************************)
(* Proofs of the safety properties of Executive, for every set of goals,   *)
(* cells and declared actions and every bound on the length of plans.      *)
(***************************************************************************)
EXTENDS Executive, TLAPS

(* Phases in which a plan is being followed, and in which there is none.   *)
Following == {"read", "act", "moved", "blocked", "backed"}
PlanningPhases == {"solve", "delete_goals", "set_goal"}

(* The plan is a path. *)
PlanChained ==
    \A i \in DOMAIN plan :
        /\ plan[i].kind # "moveto" => plan[i].to = plan[i].from
        /\ i > 1 => plan[i].from = plan[i-1].to

(* planok and the phase agree, and the mission goes on in each of them.    *)
PhaseInv ==
    /\ pc \in Following => planok
    /\ pc \in PlanningPhases \cup {"init"} => ~planok
    /\ pc \in Following \cup PlanningPhases \cup {"init"} => nomaccion # FINAL_PLAN

(* CDominio and CProblema are initialised before either is relied upon.    *)
InitialisedInv ==
    /\ planok => inicializado
    /\ replanificar # "false" => inicializado

(* The action in progress starts at the cell of the file, and so does the  *)
(* next one between two actions.                                           *)
ActionInv ==
    pc \in {"act", "moved"} =>
        /\ leidas > 0
        /\ nomaccion = plan[leidas].kind
        /\ plan[leidas].from = posicion[Copy]
        /\ pc = "moved" => nomaccion = "moveto"

NextActionInv ==
    /\ pc \in {"loop", "read", "check", "start_time"}
    /\ planok
    /\ nomaccion # FINAL_PLAN
    /\ leidas < Len(plan)
    => plan[leidas + 1].from = posicion[Copy]

(* A goal no planner has read is in the planner's file, or was missed; with *)
(* a plan at hand it was missed, or has its flag up or is about to.        *)
GoalsInv ==
    /\ unread \subseteq goals[Copy] \cup missed
    /\ pc = "solve" => unread \subseteq missed
    /\ planok => tcreplan \/ unread \subseteq awaited \cup missed

HangInv == pc = "start_time" /\ replanificar # "false" => nomaccion = REPLAN

ChargeInv ==
    flag_planificacion >= 2 /\ pc \notin {"delete_goals", "set_goal", "crashed"}
        => ChargeGoal \in goals[Copy] \cup missed

IInv ==
    /\ TypeOK
    /\ PlanChained
    /\ PhaseInv
    /\ InitialisedInv
    /\ ActionInv
    /\ NextActionInv
    /\ GoalsInv
    /\ HangInv
    /\ ChargeInv

(* The unfaithful variants, ReplanKeepingPlan and others, are never cited. *)
USE DEF Files, Original, Copy, Kinds, FINAL_PLAN, REPLAN, NoAction, PlexilBoolean,
        PC, MaxFlag

-----------------------------------------------------------------------------
(* What the planner returns is a sequence of steps along a path from c.    *)
LEMMA PlansAreChained ==
    ASSUME NEW c \in Cells, NEW p \in PlansFrom(c)
    PROVE  /\ p \in Seq(Step)
           /\ \A i \in DOMAIN p :
                /\ p[i].kind # "moveto" => p[i].to = p[i].from
                /\ p[i].from = IF i = 1 THEN c ELSE p[i-1].to
  <1>1. PICK n \in 0..MaxPlanLen : p \in [1..n -> Step]
    BY DEF PlansFrom, Plans
  <1>2. n \in Nat
    BY <1>1, ExecutiveAssumption
  <1>3. p \in Seq(Step)
    BY <1>1, <1>2
  <1>4. QED
    BY <1>3 DEF PlansFrom, Plans

-----------------------------------------------------------------------------
(* Every step keeps the types.                                             *)
LEMMA TypeStep == TypeOK /\ [Next]_vars => TypeOK'
  <1> SUFFICES ASSUME TypeOK, [Next]_vars PROVE TypeOK'
    OBVIOUS
  <1> USE ExecutiveAssumption DEF TypeOK
  <1>1. CASE Finish
    BY <1>1 DEF Finish, plexilVars, readerVars, robotVars, goalVars
  <1>2. CASE KeepPlan
    <2>1. /\ pc' \in PC
          /\ flag_planificacion' \in 0..MaxFlag
      BY <1>2 DEF KeepPlan
    <2>2. UNCHANGED <<planok, replanificar, nomaccion, readerVars, robotVars,
                      tcreplan, awaited, goalVars>>
      BY <1>2 DEF KeepPlan
    <2>3. QED
      BY <2>1, <2>2 DEF readerVars, robotVars, goalVars
  <1>3. CASE UpdatePositionPlanner
    BY <1>3 DEF UpdatePositionPlanner, SetPosicion, Edited, plexilVars,
       readerVars, goalVars
  <1>4. CASE LaunchPlanner
    BY <1>4 DEF LaunchPlanner, plexilVars, readerVars, robotVars
  <1>5. CASE PlannerSucceeds
    <2>1. posicion[Copy] \in Cells
      OBVIOUS
    <2>2. plan' \in Seq(Step)
      BY <1>5, <2>1, PlansAreChained DEF PlannerSucceeds
    <2>3. leidas' \in 0..Len(plan') /\ numaccion' \in 0..leidas'
      BY <1>5, <2>2 DEF PlannerSucceeds, ReopenPlan
    <2>4. inicializado' \in BOOLEAN
      BY <1>5, Zenon DEF PlannerSucceeds, ReopenPlan
    <2>5. /\ pc' \in PC
          /\ flag_planificacion' \in 0..MaxFlag
      BY <1>5 DEF PlannerSucceeds
    <2>6. QED
      BY <1>5, <2>2, <2>3, <2>4, <2>5 DEF PlannerSucceeds, robotVars, goalVars
  <1>6. CASE PlannerFails
    <2>1. Increment(flag_planificacion) \in 0..MaxFlag
      <3>1. flag_planificacion \in 0..3
        OBVIOUS
      <3>2. QED
        BY <3>1 DEF Increment
    <2>2. /\ plan' \in Seq(Step)
          /\ leidas' \in 0..Len(plan')
          /\ numaccion' \in 0..leidas'
      <3>1. CASE UNCHANGED readerVars
        BY <3>1 DEF readerVars
      <3>2. CASE plan' = <<>> /\ ReopenPlan
        BY <3>2 DEF ReopenPlan
      <3>3. QED
        BY <1>6, <3>1, <3>2 DEF PlannerFails
    <2>3. inicializado' \in BOOLEAN
      BY <1>6, Zenon DEF PlannerFails, ReopenPlan, readerVars
    <2>4. QED
      BY <1>6, <2>1, <2>2, <2>3 DEF PlannerFails, GoBackToDock, robotVars, goalVars
  <1>7. CASE DeleteGoals
    <2>1. goals' \in [Files -> SUBSET Goals]
      BY <1>7 DEF DeleteGoals, DropGoals, SetGoals, goalVars
    <2>2. unread' \subseteq Goals /\ missed' \subseteq Goals
      BY <1>7 DEF DeleteGoals, DropGoals, goalVars
    <2>3. pc' \in PC
      BY <1>7 DEF DeleteGoals
    <2>4. UNCHANGED <<plexilVars, readerVars, robotVars, tcreplan, awaited>>
      BY <1>7 DEF DeleteGoals
    <2>5. QED
      BY <2>1, <2>2, <2>3, <2>4 DEF plexilVars, readerVars, robotVars
  <1>8. CASE SetNewGoals
    BY <1>8 DEF SetNewGoals, InsertGoal, SetGoals, Edited, plexilVars, readerVars,
       robotVars
  <1>9. CASE NextIsReplan
    BY <1>9 DEF NextIsReplan, SetPlanFlag, readerVars, robotVars, goalVars
  <1>10. CASE NextIsEnd
    BY <1>10 DEF NextIsEnd, SetPlanFlag, robotVars, goalVars
  <1>11. CASE NextIsAction
    <2>1. plan[leidas + 1] \in Step
      BY <1>11 DEF NextIsAction
    <2>2. plan[leidas + 1].kind \in Kinds
      BY <2>1 DEF Step
    <2>3. QED
      BY <1>11, <2>2 DEF NextIsAction, SetPlanFlag, robotVars, goalVars
  <1>12. CASE NextIsUndeclared
    <2>1. /\ leidas' \in 0..Len(plan')
          /\ numaccion' \in 0..leidas'
      BY <1>12 DEF NextIsUndeclared
    <2>2. /\ pc' \in PC
          /\ nomaccion' \in Kinds \cup {NoAction, FINAL_PLAN, REPLAN}
          /\ planok' \in BOOLEAN
      BY <1>12, Zenon DEF NextIsUndeclared, SetPlanFlag
    <2>3. QED
      BY <1>12, <2>1, <2>2 DEF NextIsUndeclared, robotVars, goalVars
  <1>13. CASE MoveTo
    BY <1>13 DEF MoveTo, plexilVars, readerVars, goalVars
  <1>14. CASE UpdatePosition
    BY <1>14 DEF UpdatePosition, SetPosicion, Edited, plexilVars, readerVars,
       goalVars
  <1>15. CASE MoveBackTurtle
    BY <1>15 DEF MoveBackTurtle, plexilVars, readerVars, goalVars
  <1>16. CASE UpdateBackPosition
    BY <1>16 DEF UpdateBackPosition, Replan, SetPosicion, Edited, readerVars,
       goalVars
  <1>17. CASE DockOrUndock
    BY <1>17 DEF DockOrUndock, plexilVars, readerVars, goalVars
  <1>18. CASE ActInPlace
    BY <1>18 DEF ActInPlace, plexilVars, readerVars, robotVars, goalVars
  <1>19. CASE CheckActionResult
    BY <1>19 DEF CheckActionResult, ActionResult, plexilVars, readerVars,
       robotVars, goalVars
  <1>20. CASE SetStartTime
    BY <1>20 DEF SetStartTime, plexilVars, readerVars, robotVars, goalVars
  <1>21. CASE TCInsertGoal
    BY <1>21 DEF TCInsertGoal, InsertGoal, SetGoals, Edited, plexilVars,
       readerVars, robotVars
  <1>22. CASE TCSetReplan
    BY <1>22 DEF TCSetReplan, plexilVars, readerVars, robotVars, goalVars
  <1>23. CASE UNCHANGED vars
    BY <1>23 DEF vars, plexilVars, readerVars, robotVars, goalVars
  <1>24. QED
    BY <1>1, <1>2, <1>3, <1>4, <1>5, <1>6, <1>7, <1>8, <1>9, <1>10, <1>11,
       <1>12, <1>13, <1>14, <1>15, <1>16, <1>17, <1>18, <1>19, <1>20, <1>21,
       <1>22, <1>23
       DEF Next, Exec, TCThread, Planning, Reading, Executing

-----------------------------------------------------------------------------
LEMMA InvInit == Init => IInv
  <1> SUFFICES ASSUME Init PROVE IInv
    OBVIOUS
  <1>1. TypeOK
    <2>1. /\ plan \in Seq(Step)
          /\ leidas \in 0..Len(plan)
          /\ numaccion \in 0..leidas
          /\ flag_planificacion \in 0..MaxFlag
      BY DEF Init
    <2>2. /\ goals \in [Files -> SUBSET Goals]
          /\ posicion \in [Files -> Cells]
          /\ robot \in Cells
      BY ExecutiveAssumption DEF Init
    <2>3. QED
      BY <2>1, <2>2 DEF Init, TypeOK
  <1>2. PlanChained
    BY DEF Init, PlanChained
  <1>3. PhaseInv /\ InitialisedInv /\ ActionInv /\ HangInv /\ GoalsInv
    BY DEF Init, PhaseInv, Following, PlanningPhases, InitialisedInv, ActionInv,
       HangInv, GoalsInv
  <1>4. NextActionInv /\ ChargeInv
    BY DEF Init, NextActionInv, ChargeInv
  <1>5. QED
    BY <1>1, <1>2, <1>3, <1>4 DEF IInv

(* A new plan is a path that starts at the cell in the planner's file.     *)
LEMMA NewPlanChained ==
    ASSUME TypeOK, PlannerSucceeds
    PROVE  /\ PlanChained'
           /\ 0 < Len(plan') => plan'[1].from = posicion[Copy]
  <1>1. posicion[Copy] \in Cells /\ plan' \in PlansFrom(posicion[Copy])
    BY DEF PlannerSucceeds, TypeOK
  <1>2. /\ plan' \in Seq(Step)
        /\ \A i \in DOMAIN plan' :
             /\ plan'[i].kind # "moveto" => plan'[i].to = plan'[i].from
             /\ plan'[i].from = IF i = 1 THEN posicion[Copy] ELSE plan'[i-1].to
    BY <1>1, PlansAreChained
  <1>3. PlanChained'
    BY <1>2 DEF PlanChained
  <1>4. ASSUME 0 < Len(plan') PROVE plan'[1].from = posicion[Copy]
    <2>1. 1 \in DOMAIN plan'
      BY <1>2, <1>4
    <2>2. QED
      BY <1>2, <2>1
  <1>5. QED
    BY <1>3, <1>4

(* Every step keeps the inductive invariant.  Two actions need more than   *)
(* the parts of the invariant side by side: the planner that answers,      *)
(* whose plan is a path from the cell in the file, and next_action, which  *)
(* turns what is known of the next action into what is known of this one.  *)
LEMMA InvStep == IInv /\ [Next]_vars => IInv'
  <1> SUFFICES ASSUME IInv, [Next]_vars PROVE IInv'
    OBVIOUS
  <1>0. TypeOK /\ TypeOK'
    BY TypeStep DEF IInv
  <1> USE <1>0 DEF IInv, PlanChained, PhaseInv, Following, PlanningPhases,
                   InitialisedInv, ActionInv, NextActionInv, GoalsInv, HangInv,
                   ChargeInv, Edited, TypeOK, plexilVars, readerVars,
                   robotVars, goalVars
  <1>1. CASE Finish
    BY <1>1 DEF Finish
  <1>2. CASE KeepPlan
    BY <1>2 DEF KeepPlan
  <1>3. CASE UpdatePositionPlanner
    BY <1>3 DEF UpdatePositionPlanner, SetPosicion
  <1>4. CASE LaunchPlanner
    BY <1>4 DEF LaunchPlanner
  <1>5. CASE PlannerSucceeds
    <2>1. PlanChained'
      BY <1>5, NewPlanChained
    <2>2. 0 < Len(plan') => plan'[1].from = posicion[Copy]
      BY <1>5, NewPlanChained
    <2>3. NextActionInv'
      BY <1>5, <2>2 DEF PlannerSucceeds, ReopenPlan
    <2>4. InitialisedInv'
      BY <1>5, Zenon DEF PlannerSucceeds, ReopenPlan, FirstPlanning
    <2>5. (PhaseInv /\ ActionInv /\ GoalsInv /\ HangInv /\ ChargeInv)'
      BY <1>5 DEF PlannerSucceeds
    <2>6. QED
      BY <2>1, <2>3, <2>4, <2>5
  <1>6. CASE PlannerFails
    BY <1>6 DEF PlannerFails, ReopenPlan, FirstPlanning, Increment, GoBackToDock
  <1>7. CASE DeleteGoals
    BY <1>7 DEF DeleteGoals, DropGoals, SetGoals
  <1>8. CASE SetNewGoals
    BY <1>8 DEF SetNewGoals, InsertGoal, SetGoals
  <1>9. CASE NextIsReplan
    BY <1>9 DEF NextIsReplan, SetPlanFlag, ReplanRequested
  <1>10. CASE NextIsEnd
    BY <1>10 DEF NextIsEnd, SetPlanFlag, ReplanRequested
  <1>11. CASE NextIsAction
    <2>1. /\ leidas' = leidas + 1 /\ leidas + 1 \in 1..Len(plan)
          /\ UNCHANGED <<plan, posicion>>
          /\ nomaccion' = plan[leidas + 1].kind
      BY <1>11 DEF NextIsAction
    <2>2. plan[leidas + 1].from = posicion[Copy]
      BY <1>11 DEF NextIsAction
    <2>3. nomaccion' \in Kinds
      <3>1. plan[leidas + 1] \in Step
        BY <2>1
      <3>2. QED
        BY <2>1, <3>1 DEF Step
    <2>4. ActionInv'
      BY <1>11, <2>1, <2>2 DEF NextIsAction
    <2>5. (PhaseInv /\ InitialisedInv /\ GoalsInv)'
      BY <1>11, <2>3 DEF NextIsAction, SetPlanFlag
    <2>6. (PlanChained /\ NextActionInv /\ HangInv /\ ChargeInv)'
      BY <1>11 DEF NextIsAction
    <2>7. QED
      BY <2>4, <2>5, <2>6
  <1>12. CASE NextIsUndeclared
    BY <1>12 DEF NextIsUndeclared, SetPlanFlag, ReplanRequested
  <1>13. CASE MoveTo
    BY <1>13 DEF MoveTo
  <1>14. CASE UpdatePosition
    BY <1>14 DEF UpdatePosition, SetPosicion, Current
  <1>15. CASE MoveBackTurtle
    BY <1>15 DEF MoveBackTurtle
  <1>16. CASE UpdateBackPosition
    BY <1>16 DEF UpdateBackPosition, Replan, SetPosicion
  <1>17. CASE DockOrUndock
    BY <1>17 DEF DockOrUndock
  <1>18. CASE ActInPlace
    BY <1>18 DEF ActInPlace
  <1>19. CASE CheckActionResult
    BY <1>19 DEF CheckActionResult, ActionResult
  <1>20. CASE SetStartTime
    BY <1>20 DEF SetStartTime
  <1>21. CASE TCInsertGoal
    BY <1>21 DEF TCInsertGoal, InsertGoal, SetGoals
  <1>22. CASE TCSetReplan
    BY <1>22 DEF TCSetReplan
  <1>23. CASE UNCHANGED vars
    BY <1>23 DEF vars
  <1>24. QED
    BY <1>1, <1>2, <1>3, <1>4, <1>5, <1>6, <1>7, <1>8, <1>9, <1>10, <1>11,
       <1>12, <1>13, <1>14, <1>15, <1>16, <1>17, <1>18, <1>19, <1>20, <1>21,
       <1>22, <1>23
       DEF Next, Exec, TCThread, Planning, Reading, Executing

THEOREM Invariance == Spec => []IInv
  BY InvInit, InvStep, PTL DEF Spec

(* Every variable keeps its type in every behaviour of the loop.           *)
THEOREM TypeCorrect == Spec => []TypeOK
  BY Invariance, PTL DEF IInv

(* A moveto is executed only from the cell the problem file gives, however *)
(* obstacles, failed plannings and telecommands interleave.                *)
THEOREM MovesFromPosition == Spec => []MoveStartsFromPosition
  <1>1. IInv => MoveStartsFromPosition
    BY DEF IInv, TypeOK, PhaseInv, Following, InitialisedInv, ActionInv,
       MoveStartsFromPosition, Current, Edited
  <1>2. QED
    BY <1>1, Invariance, PTL

(* The executive hangs at SetStartTime only in an iteration that a         *)
(* telecommand turned into a replanning.                                   *)
THEOREM HangsOnReplanOnly == Spec => []HangsOnlyOnReplan
  <1>1. IInv => HangsOnlyOnReplan
    BY DEF IInv, HangInv, HangsOnlyOnReplan, Hung
  <1>2. QED
    BY <1>1, Invariance, PTL

(* After two failed plannings in a row the planner finds the goal of       *)
(* charging in its file, unless it was written to the original, before     *)
(* inicializarEstructuras first ran.                                       *)
THEOREM ChargeGoalInserted == Spec => []ChargeAfterTwoFailures
  <1>1. IInv => ChargeAfterTwoFailures
    BY DEF IInv, ChargeInv, ChargeAfterTwoFailures
  <1>2. QED
    BY <1>1, Invariance, PTL

(* An action is dispatched with a telecommanded goal unread only if the    *)
(* goal came while the plan was being computed or before                   *)
(* inicializarEstructuras first ran, or its flag is still to be raised.    *)
THEOREM GoalsNotIgnored == Spec => OnlyLateGoalsIgnored
  <1>1. IInv /\ [Next]_vars
          => [pc = "read" /\ pc' = "act"
              => unread \subseteq awaited \cup missed]_vars
    <2> SUFFICES ASSUME IInv, [Next]_vars, pc = "read", pc' = "act"
                 PROVE  unread \subseteq awaited \cup missed
      OBVIOUS
    <2>1. NextIsAction
      BY DEF Next, Exec, TCThread, Planning, Reading, Executing, Finish,
         KeepPlan, UpdatePositionPlanner, LaunchPlanner, PlannerSucceeds,
         PlannerFails, DeleteGoals, SetNewGoals, NextIsReplan, NextIsEnd,
         NextIsUndeclared, MoveTo, UpdatePosition, MoveBackTurtle,
         UpdateBackPosition, DockOrUndock, ActInPlace, CheckActionResult,
         SetStartTime, TCInsertGoal, TCSetReplan, vars
    <2>2. ~tcreplan
      BY <2>1 DEF NextIsAction, ReplanRequested
    <2>3. QED
      BY <2>2 DEF IInv, PhaseInv, Following, GoalsInv
  <1>2. QED
    BY <1>1, Invariance, PTL DEF Spec, OnlyLateGoalsIgnored

(* next_action never crashes on a plan of declared actions, nor ends it    *)
(* early: the table of actions has been read before the plan is followed.  *)
THEOREM DeclaredPlans == Spec => DeclaredPlanFollowed
  <1>1. IInv /\ [Next]_vars
          => [pc = "read" /\ (\A i \in DOMAIN plan : plan[i].kind \in Declared)
              => /\ pc' # "crashed"
                 /\ nomaccion' = FINAL_PLAN => leidas = Len(plan)]_vars
    <2> SUFFICES ASSUME IInv, [Next]_vars, pc = "read",
                        \A i \in DOMAIN plan : plan[i].kind \in Declared
                 PROVE  /\ pc' # "crashed"
                        /\ nomaccion' = FINAL_PLAN => leidas = Len(plan)
      OBVIOUS
    <2>1. inicializado /\ nomaccion # FINAL_PLAN
      BY DEF IInv, PhaseInv, Following, InitialisedInv
    <2>2. leidas < Len(plan) => leidas + 1 \in DOMAIN plan
      BY DEF IInv, TypeOK
    <2>3. CASE NextIsReplan
      BY <2>3 DEF NextIsReplan
    <2>4. CASE NextIsEnd
      BY <2>4 DEF NextIsEnd
    <2>5. CASE NextIsAction
      <3>1. plan[leidas + 1] \in Step
        BY <2>2, <2>5 DEF NextIsAction, IInv, TypeOK
      <3>2. nomaccion' \in Kinds
        BY <2>5, <3>1 DEF NextIsAction, Step
      <3>3. QED
        BY <2>5, <3>2 DEF NextIsAction
    <2>6. CASE NextIsUndeclared
      BY <2>1, <2>2, <2>6 DEF NextIsUndeclared, Known, acciones
    <2>7. CASE UNCHANGED <<pc, nomaccion>>
      BY <2>1, <2>7
    <2>8. QED
      BY <2>3, <2>4, <2>5, <2>6, <2>7
         DEF Next, Exec, TCThread, Planning, Reading, Executing, Finish,
         KeepPlan, UpdatePositionPlanner, LaunchPlanner, PlannerSucceeds,
         PlannerFails, DeleteGoals, SetNewGoals, MoveTo, UpdatePosition,
         MoveBackTurtle, UpdateBackPosition, DockOrUndock, ActInPlace,
         CheckActionResult, SetStartTime, TCInsertGoal, TCSetReplan, vars,
         plexilVars
  <1>2. QED
    BY <1>1, Invariance, PTL DEF Spec, DeclaredPlanFollowed

-----------------------------------------------------------------------------
(* The planner's file and the robot.                                       *)

(* The two disagree only between a move and the update that follows it.    *)
CellInv ==
    /\ pc \notin {"moved", "backed"} => posicion[Copy] = robot \/ displaced
    /\ pc = "init" => posicion[Copy] = robot

LEMMA CellStep == IInv /\ CellInv /\ [Next]_vars => CellInv'
  <1> SUFFICES ASSUME IInv, CellInv, [Next]_vars PROVE CellInv'
    OBVIOUS
  <1> USE DEF CellInv, plexilVars, readerVars, robotVars, goalVars, Edited,
              SetPosicion
  <1>1. CASE UpdatePositionPlanner
    BY <1>1 DEF UpdatePositionPlanner, IInv, TypeOK
  <1>2. CASE UpdatePosition
    <2>1. posicion[Copy] = Current.from /\ inicializado
      BY <1>2 DEF UpdatePosition, IInv, PhaseInv, Following, InitialisedInv,
         ActionInv, Current
    <2>2. QED
      BY <1>2, <2>1 DEF UpdatePosition, IInv, TypeOK
  <1>3. CASE UpdateBackPosition
    BY <1>3 DEF UpdateBackPosition, IInv, TypeOK, PhaseInv, Following,
       InitialisedInv
  <1>4. CASE MoveTo \/ MoveBackTurtle \/ DockOrUndock
    BY <1>4 DEF MoveTo, MoveBackTurtle, DockOrUndock
  <1>5. CASE \/ Finish \/ KeepPlan \/ LaunchPlanner \/ PlannerSucceeds
             \/ PlannerFails \/ DeleteGoals \/ SetNewGoals
    BY <1>5 DEF Finish, KeepPlan, LaunchPlanner, PlannerSucceeds, PlannerFails,
       DeleteGoals, SetNewGoals
  <1>6. CASE Reading \/ ActInPlace \/ CheckActionResult \/ SetStartTime
    BY <1>6 DEF Reading, NextIsReplan, NextIsEnd, NextIsAction, NextIsUndeclared,
       ActInPlace, CheckActionResult, SetStartTime
  <1>7. CASE TCThread \/ UNCHANGED vars
    BY <1>7 DEF TCThread, TCInsertGoal, TCSetReplan, vars
  <1>8. QED
    BY <1>1, <1>2, <1>3, <1>4, <1>5, <1>6, <1>7
       DEF Next, Exec, Planning, Executing

(* When the mission starts where its problem file says, the planner always *)
(* starts from the cell the robot reported last, unless a docking          *)
(* manoeuvre moved it since.                                               *)
THEOREM PlannerSeesRobot ==
    ASSUME StartCells = {Home}
    PROVE  Spec => []PlannerSeesRobotCell
  <1>1. Init => CellInv
    BY DEF Init, CellInv
  <1>2. CellInv => PlannerSeesRobotCell
    BY DEF CellInv, PlannerSeesRobotCell
  <1>3. QED
    BY <1>1, <1>2, CellStep, Invariance, PTL DEF Spec
=============================================================================
