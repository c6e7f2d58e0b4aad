---------------------------- MODULE DockingProofs ----------------------------
(***************************************************************************)
(* The safety properties of Docking, for every timer that outlasts a first *)
(* call, every time-out of the drive and any number of dockings.           *)
(*                                                                         *)
(* The inductive invariant IInv has one part for each thing the properties *)
(* depend on: how many lines of a fact there can be, what the nodes of     *)
(* AutoDocking know of DockStatus, what the timer knows of the time spent, *)
(* and which facts the problem holds at each step of the plan.             *)
(***************************************************************************)
EXTENDS Docking, TLAPS

Late == {"UpdateDock", "IsntFree", "AutodockState", "success"}

(* A fact has a line more only once the insertion of the round is made.    *)
LinesInv ==
    /\ \A f \in Facts : facts[f] <= rounds + 1
    /\ pc = "dock" /\ stage \in {"AutoDocking", "UpdateDock"} =>
            facts["is_charging"] <= rounds
    /\ pc \in {"back", "remove", "insert"} => facts["free"] <= rounds

(* The nodes and DockStatus. *)
NodesInv ==
    /\ DockDriverFail \in {"goback", "reactivate"} => DockStatus = -2
    /\ DockDriverFail \in {"success", "skipped"} => DockStatus = 0
    /\ stage \in Late => DockStatus = 0
    /\ Autodock = "waiting" /\ DockStatus # 1 => DockServerFail = "success"
    /\ drive = "active" => /\ DockStatus # 0
                           /\ missed \/ pc \in {"dock", "stop", "crashed"}

(* The timer ends when the time is spent, and a first call does not spend it. *)
Untried ==
    /\ DockServerFail \in {"waiting", "skipped"}
    /\ DockDriverFail \in {"waiting", "skipped"}
    /\ DockStatus \in {0, 1}

TimeInv ==
    /\ timer = "ended" => elapsed > Timer
    /\ stage = "failure" => timer = "ended"
    /\ DockStatus = 1 => elapsed = 0
    /\ Untried => elapsed <= DriveTime + 1

(* The facts at each step of the plan, exactly while no docking failed.    *)
Holds(c, f) == facts["is_charging"] = c /\ facts["free"] = f

FactsInv ==
    /\ stage = "failure" => cut
    /\ pc = "stop" => stage = "failure"
    /\ pc \in {"dock", "stop"} => planned = "undock"
    /\ pc \in {"back", "remove", "insert"} => planned = "dock"
    /\ pc = "plan" /\ planned = "dock" => facts["free"] >= 1
    /\ pc = "plan" => facts["is_charging"] + facts["free"] >= 1
    /\ pc = "dock" => \/ stage \in {"AutoDocking", "UpdateDock"} /\ facts["free"] >= 1
                      \/ stage \in Late \ {"UpdateDock"} /\ facts["is_charging"] >= 1
                      \/ stage = "failure" /\ facts["is_charging"] + facts["free"] >= 1
    /\ pc = "stop" => facts["is_charging"] + facts["free"] >= 1

ExactInv ==
    ~cut =>
        /\ pc = "plan" /\ planned = "dock" => Holds(0, 1)
        /\ pc = "plan" /\ planned = "undock" => Holds(1, 0)
        /\ pc = "dock" /\ stage \in {"AutoDocking", "UpdateDock"} => Holds(0, 1)
        /\ pc = "dock" /\ stage = "IsntFree" => Holds(1, 1)
        /\ pc = "dock" /\ stage \in {"AutodockState", "success"} => Holds(1, 0)
        /\ pc \in {"back", "remove"} => Holds(1, 0)
        /\ pc = "insert" => Holds(0, 0)

IInv == TypeOK /\ LinesInv /\ NodesInv /\ TimeInv /\ FactsInv /\ ExactInv

USE DockingAssumption DEF Facts, Late, vars, nodeVars, driveVars, factVars, planVars

-----------------------------------------------------------------------------
LEMMA InitIInv == Init => IInv
  <1>1. SUFFICES ASSUME Init PROVE IInv
    OBVIOUS

  <1>2. TypeOK
    <2>1. facts \in [Facts -> 0..MaxRounds + 1]
      BY <1>1 DEF Init
    <2>2. docked \in BOOLEAN /\ goal \in BOOLEAN /\ cut \in BOOLEAN
      BY <1>1, Zenon DEF Init
    <2>3. elapsed \in 0..Timer + 1 /\ rounds \in 0..MaxRounds
      BY <1>1 DEF Init
    <2> QED
      BY <1>1, <2>1, <2>2, <2>3, Zenon DEF Init, TypeOK
  <1>3. LinesInv
    BY <1>1 DEF Init, LinesInv
  <1>4. NodesInv
    BY <1>1 DEF Init, NodesInv
  <1>5. TimeInv
    BY <1>1 DEF Init, TimeInv, Untried
  <1>6. FactsInv
    BY <1>1 DEF Init, FactsInv
  <1>7. ExactInv
    BY <1>1 DEF Init, ExactInv, Holds
  <1> QED
    BY <1>2, <1>3, <1>4, <1>5, <1>6, <1>7 DEF IInv

(* Time stays within its cap. *)
LEMMA ElapseType ==
    ASSUME TypeOK, NEW n \in Nat, Elapse(n)
    PROVE  elapsed' \in 0..Timer + 1
  BY DEF TypeOK, Elapse

(* What a call of autodocking, or one that fails, leaves. *)
LEMMA AutodockingType ==
    ASSUME TypeOK, autodocking \/ UNCHANGED <<elapsed, driveVars>>
    PROVE  /\ elapsed' \in 0..Timer + 1 /\ docked' \in BOOLEAN
           /\ missed' \in BOOLEAN
  <1>1. CASE ServerAbsent
    <2>1. elapsed' \in 0..Timer + 1
      BY <1>1, ElapseType DEF ServerAbsent
    <2> QED
      BY <1>1, <2>1, Zenon DEF ServerAbsent, TypeOK
  <1>2. CASE DriveTimesOut
    <2>1. elapsed' \in 0..Timer + 1
      BY <1>2, ElapseType DEF DriveTimesOut
    <2> QED
      BY <1>2, <2>1, Zenon DEF DriveTimesOut
  <1>3. CASE DriveFinishes
    <2>1. elapsed' \in 0..Timer + 1
      BY <1>3, ElapseType DEF DriveFinishes
    <2> QED
      BY <1>3, <2>1, Zenon DEF DriveFinishes
  <1>4. CASE UNCHANGED <<elapsed, driveVars>>
    <2>1. UNCHANGED <<elapsed, missed, docked>>
      BY <1>4
    <2> QED
      BY <2>1, Zenon DEF TypeOK
  <1> QED
    BY <1>1, <1>2, <1>3, <1>4 DEF autodocking

(* Every step keeps the types; the bound on the lines of a fact comes from *)
(* LinesInv.                                                               *)
LEMMA NextTypeOK == IInv /\ [Next]_vars => TypeOK'
  <1>1. SUFFICES ASSUME IInv, [Next]_vars PROVE TypeOK'
    OBVIOUS
  <1>2. TypeOK /\ LinesInv
    BY <1>1 DEF IInv
  <1> USE <1>2 DEF TypeOK, LinesInv
  <1>3. CASE BeginDock
    BY <1>3 DEF BeginDock, Planned, BeginTimer
  <1>4. CASE BeginUndock
    BY <1>4 DEF BeginUndock, Planned
  <1>5. CASE EndDock
    BY <1>5 DEF EndDock, DockOver, TimerOver, StopNeeded, timer_finished_ok,
        dock_finished_ok
  <1>6. CASE StopDrive
    <2>1. missed' \in BOOLEAN
      BY <1>6, Zenon DEF StopDrive, stopautodock, StopFails
    <2> QED
      BY <1>6, <2>1 DEF StopDrive, stopautodock, StopFails
  <1>7. CASE AutodockRuns
    <2>1. elapsed' \in 0..Timer + 1 /\ docked' \in BOOLEAN
          /\ missed' \in BOOLEAN
      BY <1>7, AutodockingType DEF AutodockRuns
    <2> QED
      BY <1>7, <2>1 DEF AutodockRuns, autodocking, ServerAbsent, DriveTimesOut,
        DriveFinishes, CallFails
  <1>8. CASE AutodockSkipped
    BY <1>8 DEF AutodockSkipped, In, timer_finished_ok
  <1>9. CASE AutodockRepeats
    BY <1>9 DEF AutodockRepeats, In, timer_finished_ok
  <1>10. CASE RestartServer
    BY <1>10 DEF RestartServer, restartdockserver, In, timer_finished_ok, CallFails
  <1>11. CASE SkipServerFail
    BY <1>11 DEF SkipServerFail, In, timer_finished_ok
  <1>12. CASE DriverFailStarts
    BY <1>12 DEF DriverFailStarts, In, timer_finished_ok
  <1>13. CASE Goback
    <2>1. elapsed' \in 0..Timer + 1
      BY <1>13, ElapseType DEF Goback
    <2>2. docked' \in BOOLEAN
      BY <1>13, Zenon DEF Goback
    <2> QED
      BY <1>13, <2>1, <2>2 DEF Goback, CallFails
  <1>14. CASE ReactivateDockDrive
    <2>1. elapsed' \in 0..Timer + 1 /\ docked' \in BOOLEAN
          /\ missed' \in BOOLEAN
      BY <1>14, AutodockingType DEF ReactivateDockDrive
    <2> QED
      BY <1>14, <2>1 DEF ReactivateDockDrive, autodocking, ServerAbsent, DriveTimesOut,
        DriveFinishes, CallFails
  <1>15. CASE DriverFailEnds
    BY <1>15 DEF DriverFailEnds, In, timer_finished_ok
  <1>16. CASE SkipDriverFail
    BY <1>16 DEF SkipDriverFail, In, timer_finished_ok
  <1>17. CASE AutoDockingEnds
    BY <1>17 DEF AutoDockingEnds, In, timer_finished_ok
  <1>18. CASE UpdateDock
    BY <1>18 DEF UpdateDock, In, timer_finished_ok, insert_predicate
  <1>19. CASE IsntFree
    BY <1>19 DEF IsntFree, In, timer_finished_ok, remove_predicate
  <1>20. CASE AutodockState
    BY <1>20 DEF AutodockState, In, timer_finished_ok
  <1>21. CASE AbandonDock
    BY <1>21 DEF AbandonDock, timer_finished_ok, DockOver
  <1>22. CASE TimerEnds
    BY <1>22 DEF TimerEnds, dock_finished_ok
  <1>23. CASE TimerStops
    BY <1>23 DEF TimerStops, dock_finished_ok
  <1>24. CASE Tick
    BY <1>24 DEF Tick, Stuck, Elapse
  <1>25. CASE MoveBack
    <2>1. docked' \in BOOLEAN
      BY <1>25, Zenon DEF MoveBack
    <2> QED
      BY <1>25, <2>1 DEF MoveBack, CallFails
  <1>26. CASE UpdateUndock
    <2>1. goal' \in BOOLEAN
      BY <1>26, Zenon DEF UpdateUndock, remove_predicate
    <2>2. facts' \in [Facts -> 0..MaxRounds + 1]
      BY <1>26 DEF UpdateUndock, remove_predicate
    <2> QED
      BY <1>26, <2>1, <2>2 DEF UpdateUndock
  <1>27. CASE Isfree
    BY <1>27 DEF Isfree, insert_predicate
  <1>28. CASE ServerStarts
    BY <1>28 DEF ServerStarts
  <1>29. CASE DriveEnds
    <2>1. docked' \in BOOLEAN /\ missed' \in BOOLEAN
      BY <1>29, Zenon DEF DriveEnds
    <2> QED
      BY <1>29, <2>1 DEF DriveEnds
  <1>30. CASE UNCHANGED vars
    BY <1>30 DEF vars
  <1> QED
    BY <1>1, <1>3, <1>4, <1>5, <1>6, <1>7, <1>8, <1>9, <1>10, <1>11, <1>12,
        <1>13, <1>14, <1>15, <1>16, <1>17, <1>18, <1>19, <1>20, <1>21, <1>22,
        <1>23, <1>24, <1>25, <1>26, <1>27, <1>28, <1>29,
        <1>30
       DEF Next, Planner, Dock, AutoDocking, TimerSteps, Undock, Drive

(* At most one line of a fact is inserted in a round. *)
LEMMA NextLinesInv == IInv /\ [Next]_vars => LinesInv'
  <1>1. SUFFICES ASSUME IInv, [Next]_vars PROVE LinesInv'
    OBVIOUS
  <1>2. TypeOK /\ LinesInv
    BY <1>1 DEF IInv
  <1> USE <1>2 DEF TypeOK, LinesInv
  <1>3. CASE BeginDock
    BY <1>3 DEF BeginDock, Planned, BeginTimer
  <1>4. CASE BeginUndock
    BY <1>4 DEF BeginUndock, Planned
  <1>5. CASE EndDock
    BY <1>5 DEF EndDock, DockOver, TimerOver, StopNeeded, timer_finished_ok,
        dock_finished_ok
  <1>6. CASE StopDrive
    BY <1>6 DEF StopDrive, stopautodock, StopFails
  <1>7. CASE AutodockRuns
    BY <1>7 DEF AutodockRuns, In, timer_finished_ok, autodocking,
        ServerAbsent, DriveTimesOut, DriveFinishes, Elapse, CallFails
  <1>8. CASE AutodockSkipped
    BY <1>8 DEF AutodockSkipped, In, timer_finished_ok
  <1>9. CASE AutodockRepeats
    BY <1>9 DEF AutodockRepeats, In, timer_finished_ok
  <1>10. CASE RestartServer
    BY <1>10 DEF RestartServer, restartdockserver, In, timer_finished_ok, CallFails
  <1>11. CASE SkipServerFail
    BY <1>11 DEF SkipServerFail, In, timer_finished_ok
  <1>12. CASE DriverFailStarts
    BY <1>12 DEF DriverFailStarts, In, timer_finished_ok
  <1>13. CASE Goback
    BY <1>13 DEF Goback, In, timer_finished_ok, Elapse, CallFails
  <1>14. CASE ReactivateDockDrive
    BY <1>14 DEF ReactivateDockDrive, In, timer_finished_ok, autodocking,
        ServerAbsent, DriveTimesOut, DriveFinishes, Elapse, CallFails
  <1>15. CASE DriverFailEnds
    BY <1>15 DEF DriverFailEnds, In, timer_finished_ok
  <1>16. CASE SkipDriverFail
    BY <1>16 DEF SkipDriverFail, In, timer_finished_ok
  <1>17. CASE AutoDockingEnds
    BY <1>17 DEF AutoDockingEnds, In, timer_finished_ok
  <1>18. CASE UpdateDock
    BY <1>18 DEF UpdateDock, In, timer_finished_ok, insert_predicate
  <1>19. CASE IsntFree
    BY <1>19 DEF IsntFree, In, timer_finished_ok, remove_predicate
  <1>20. CASE AutodockState
    BY <1>20 DEF AutodockState, In, timer_finished_ok
  <1>21. CASE AbandonDock
    BY <1>21 DEF AbandonDock, timer_finished_ok, DockOver
  <1>22. CASE TimerEnds
    BY <1>22 DEF TimerEnds, dock_finished_ok
  <1>23. CASE TimerStops
    BY <1>23 DEF TimerStops, dock_finished_ok
  <1>24. CASE Tick
    BY <1>24 DEF Tick, Stuck, Elapse
  <1>25. CASE MoveBack
    BY <1>25 DEF MoveBack, CallFails
  <1>26. CASE UpdateUndock
    BY <1>26 DEF UpdateUndock, remove_predicate
  <1>27. CASE Isfree
    BY <1>27 DEF Isfree, insert_predicate
  <1>28. CASE ServerStarts
    BY <1>28 DEF ServerStarts
  <1>29. CASE DriveEnds
    BY <1>29 DEF DriveEnds
  <1>30. CASE UNCHANGED vars
    BY <1>30 DEF vars
  <1> QED
    BY <1>1, <1>3, <1>4, <1>5, <1>6, <1>7, <1>8, <1>9, <1>10, <1>11, <1>12,
        <1>13, <1>14, <1>15, <1>16, <1>17, <1>18, <1>19, <1>20, <1>21, <1>22,
        <1>23, <1>24, <1>25, <1>26, <1>27, <1>28, <1>29,
        <1>30
       DEF Next, Planner, Dock, AutoDocking, TimerSteps, Undock, Drive

(* What the nodes of AutoDocking know of DockStatus. *)
LEMMA NextNodesInv == IInv /\ [Next]_vars => NodesInv'
  <1>1. SUFFICES ASSUME IInv, [Next]_vars PROVE NodesInv'
    OBVIOUS
  <1>2. TypeOK /\ NodesInv /\ TimeInv
    BY <1>1 DEF IInv
  <1> USE <1>2 DEF TypeOK, NodesInv, TimeInv
  <1>3. CASE BeginDock
    BY <1>3 DEF BeginDock, Planned, BeginTimer
  <1>4. CASE BeginUndock
    BY <1>4 DEF BeginUndock, Planned
  <1>5. CASE EndDock
    BY <1>5 DEF EndDock, DockOver, TimerOver, StopNeeded, timer_finished_ok,
        dock_finished_ok
  <1>6. CASE StopDrive
    BY <1>6 DEF StopDrive, stopautodock, StopFails
  <1>7. CASE AutodockRuns
    BY <1>7 DEF AutodockRuns, In, timer_finished_ok, autodocking,
        ServerAbsent, DriveTimesOut, DriveFinishes, Elapse, CallFails
  <1>8. CASE AutodockSkipped
    BY <1>8 DEF AutodockSkipped, In, timer_finished_ok
  <1>9. CASE AutodockRepeats
    BY <1>9 DEF AutodockRepeats, In, timer_finished_ok
  <1>10. CASE RestartServer
    BY <1>10 DEF RestartServer, restartdockserver, In, timer_finished_ok, CallFails
  <1>11. CASE SkipServerFail
    BY <1>11 DEF SkipServerFail, In, timer_finished_ok
  <1>12. CASE DriverFailStarts
    BY <1>12 DEF DriverFailStarts, In, timer_finished_ok
  <1>13. CASE Goback
    BY <1>13 DEF Goback, In, timer_finished_ok, Elapse, CallFails
  <1>14. CASE ReactivateDockDrive
    BY <1>14 DEF ReactivateDockDrive, In, timer_finished_ok, autodocking,
        ServerAbsent, DriveTimesOut, DriveFinishes, Elapse, CallFails
  <1>15. CASE DriverFailEnds
    BY <1>15 DEF DriverFailEnds, In, timer_finished_ok
  <1>16. CASE SkipDriverFail
    BY <1>16 DEF SkipDriverFail, In, timer_finished_ok
  <1>17. CASE AutoDockingEnds
    BY <1>17 DEF AutoDockingEnds, In, timer_finished_ok
  <1>18. CASE UpdateDock
    BY <1>18 DEF UpdateDock, In, timer_finished_ok, insert_predicate
  <1>19. CASE IsntFree
    BY <1>19 DEF IsntFree, In, timer_finished_ok, remove_predicate
  <1>20. CASE AutodockState
    BY <1>20 DEF AutodockState, In, timer_finished_ok
  <1>21. CASE AbandonDock
    BY <1>21 DEF AbandonDock, timer_finished_ok, DockOver
  <1>22. CASE TimerEnds
    BY <1>22 DEF TimerEnds, dock_finished_ok
  <1>23. CASE TimerStops
    BY <1>23 DEF TimerStops, dock_finished_ok
  <1>24. CASE Tick
    BY <1>24 DEF Tick, Stuck, Elapse
  <1>25. CASE MoveBack
    BY <1>25 DEF MoveBack, CallFails
  <1>26. CASE UpdateUndock
    BY <1>26 DEF UpdateUndock, remove_predicate
  <1>27. CASE Isfree
    BY <1>27 DEF Isfree, insert_predicate
  <1>28. CASE ServerStarts
    BY <1>28 DEF ServerStarts
  <1>29. CASE DriveEnds
    BY <1>29 DEF DriveEnds
  <1>30. CASE UNCHANGED vars
    BY <1>30 DEF vars
  <1> QED
    BY <1>1, <1>3, <1>4, <1>5, <1>6, <1>7, <1>8, <1>9, <1>10, <1>11, <1>12,
        <1>13, <1>14, <1>15, <1>16, <1>17, <1>18, <1>19, <1>20, <1>21, <1>22,
        <1>23, <1>24, <1>25, <1>26, <1>27, <1>28, <1>29,
        <1>30
       DEF Next, Planner, Dock, AutoDocking, TimerSteps, Undock, Drive

(* The timer against the time the calls take. *)
LEMMA NextTimeInv == IInv /\ [Next]_vars => TimeInv'
  <1>1. SUFFICES ASSUME IInv, [Next]_vars PROVE TimeInv'
    OBVIOUS
  <1>2. TypeOK /\ NodesInv /\ TimeInv
    BY <1>1 DEF IInv
  <1> USE <1>2 DEF TypeOK, NodesInv, TimeInv, Untried
  <1>3. CASE BeginDock
    BY <1>3 DEF BeginDock, Planned, BeginTimer
  <1>4. CASE BeginUndock
    BY <1>4 DEF BeginUndock, Planned
  <1>5. CASE EndDock
    BY <1>5 DEF EndDock, DockOver, TimerOver, StopNeeded, timer_finished_ok,
        dock_finished_ok
  <1>6. CASE StopDrive
    BY <1>6 DEF StopDrive, stopautodock, StopFails
  <1>7. CASE AutodockRuns
    BY <1>7 DEF AutodockRuns, In, timer_finished_ok, autodocking,
        ServerAbsent, DriveTimesOut, DriveFinishes, Elapse, CallFails
  <1>8. CASE AutodockSkipped
    BY <1>8 DEF AutodockSkipped, In, timer_finished_ok
  <1>9. CASE AutodockRepeats
    BY <1>9 DEF AutodockRepeats, In, timer_finished_ok
  <1>10. CASE RestartServer
    BY <1>10 DEF RestartServer, restartdockserver, In, timer_finished_ok, CallFails
  <1>11. CASE SkipServerFail
    BY <1>11 DEF SkipServerFail, In, timer_finished_ok
  <1>12. CASE DriverFailStarts
    BY <1>12 DEF DriverFailStarts, In, timer_finished_ok
  <1>13. CASE Goback
    BY <1>13 DEF Goback, In, timer_finished_ok, Elapse, CallFails
  <1>14. CASE ReactivateDockDrive
    BY <1>14 DEF ReactivateDockDrive, In, timer_finished_ok, autodocking,
        ServerAbsent, DriveTimesOut, DriveFinishes, Elapse, CallFails
  <1>15. CASE DriverFailEnds
    BY <1>15 DEF DriverFailEnds, In, timer_finished_ok
  <1>16. CASE SkipDriverFail
    BY <1>16 DEF SkipDriverFail, In, timer_finished_ok
  <1>17. CASE AutoDockingEnds
    BY <1>17 DEF AutoDockingEnds, In, timer_finished_ok
  <1>18. CASE UpdateDock
    BY <1>18 DEF UpdateDock, In, timer_finished_ok, insert_predicate
  <1>19. CASE IsntFree
    BY <1>19 DEF IsntFree, In, timer_finished_ok, remove_predicate
  <1>20. CASE AutodockState
    BY <1>20 DEF AutodockState, In, timer_finished_ok
  <1>21. CASE AbandonDock
    BY <1>21 DEF AbandonDock, timer_finished_ok, DockOver
  <1>22. CASE TimerEnds
    BY <1>22 DEF TimerEnds, dock_finished_ok
  <1>23. CASE TimerStops
    BY <1>23 DEF TimerStops, dock_finished_ok
  <1>24. CASE Tick
    BY <1>24 DEF Tick, Stuck, Elapse
  <1>25. CASE MoveBack
    BY <1>25 DEF MoveBack, CallFails
  <1>26. CASE UpdateUndock
    BY <1>26 DEF UpdateUndock, remove_predicate
  <1>27. CASE Isfree
    BY <1>27 DEF Isfree, insert_predicate
  <1>28. CASE ServerStarts
    BY <1>28 DEF ServerStarts
  <1>29. CASE DriveEnds
    BY <1>29 DEF DriveEnds
  <1>30. CASE UNCHANGED vars
    BY <1>30 DEF vars
  <1> QED
    BY <1>1, <1>3, <1>4, <1>5, <1>6, <1>7, <1>8, <1>9, <1>10, <1>11, <1>12,
        <1>13, <1>14, <1>15, <1>16, <1>17, <1>18, <1>19, <1>20, <1>21, <1>22,
        <1>23, <1>24, <1>25, <1>26, <1>27, <1>28, <1>29,
        <1>30
       DEF Next, Planner, Dock, AutoDocking, TimerSteps, Undock, Drive

(* A fact is there at each step; none is lost with an abandoned docking.   *)
LEMMA NextFactsInv == IInv /\ [Next]_vars => FactsInv'
  <1>1. SUFFICES ASSUME IInv, [Next]_vars PROVE FactsInv'
    OBVIOUS
  <1>2. TypeOK /\ FactsInv
    BY <1>1 DEF IInv
  <1> USE <1>2 DEF TypeOK, FactsInv
  <1>3. CASE BeginDock
    BY <1>3 DEF BeginDock, Planned, BeginTimer
  <1>4. CASE BeginUndock
    BY <1>4 DEF BeginUndock, Planned
  <1>5. CASE EndDock
    BY <1>5 DEF EndDock, DockOver, TimerOver, StopNeeded, timer_finished_ok,
        dock_finished_ok
  <1>6. CASE StopDrive
    BY <1>6 DEF StopDrive, stopautodock, StopFails
  <1>7. CASE AutodockRuns
    BY <1>7 DEF AutodockRuns, In, timer_finished_ok, autodocking,
        ServerAbsent, DriveTimesOut, DriveFinishes, Elapse, CallFails
  <1>8. CASE AutodockSkipped
    BY <1>8 DEF AutodockSkipped, In, timer_finished_ok
  <1>9. CASE AutodockRepeats
    BY <1>9 DEF AutodockRepeats, In, timer_finished_ok
  <1>10. CASE RestartServer
    BY <1>10 DEF RestartServer, restartdockserver, In, timer_finished_ok, CallFails
  <1>11. CASE SkipServerFail
    BY <1>11 DEF SkipServerFail, In, timer_finished_ok
  <1>12. CASE DriverFailStarts
    BY <1>12 DEF DriverFailStarts, In, timer_finished_ok
  <1>13. CASE Goback
    BY <1>13 DEF Goback, In, timer_finished_ok, Elapse, CallFails
  <1>14. CASE ReactivateDockDrive
    BY <1>14 DEF ReactivateDockDrive, In, timer_finished_ok, autodocking,
        ServerAbsent, DriveTimesOut, DriveFinishes, Elapse, CallFails
  <1>15. CASE DriverFailEnds
    BY <1>15 DEF DriverFailEnds, In, timer_finished_ok
  <1>16. CASE SkipDriverFail
    BY <1>16 DEF SkipDriverFail, In, timer_finished_ok
  <1>17. CASE AutoDockingEnds
    BY <1>17 DEF AutoDockingEnds, In, timer_finished_ok
  <1>18. CASE UpdateDock
    BY <1>18 DEF UpdateDock, In, timer_finished_ok, insert_predicate
  <1>19. CASE IsntFree
    BY <1>19 DEF IsntFree, In, timer_finished_ok, remove_predicate
  <1>20. CASE AutodockState
    BY <1>20 DEF AutodockState, In, timer_finished_ok
  <1>21. CASE AbandonDock
    BY <1>21 DEF AbandonDock, timer_finished_ok, DockOver
  <1>22. CASE TimerEnds
    BY <1>22 DEF TimerEnds, dock_finished_ok
  <1>23. CASE TimerStops
    BY <1>23 DEF TimerStops, dock_finished_ok
  <1>24. CASE Tick
    BY <1>24 DEF Tick, Stuck, Elapse
  <1>25. CASE MoveBack
    BY <1>25 DEF MoveBack, CallFails
  <1>26. CASE UpdateUndock
    BY <1>26 DEF UpdateUndock, remove_predicate
  <1>27. CASE Isfree
    BY <1>27 DEF Isfree, insert_predicate
  <1>28. CASE ServerStarts
    BY <1>28 DEF ServerStarts
  <1>29. CASE DriveEnds
    BY <1>29 DEF DriveEnds
  <1>30. CASE UNCHANGED vars
    BY <1>30 DEF vars
  <1> QED
    BY <1>1, <1>3, <1>4, <1>5, <1>6, <1>7, <1>8, <1>9, <1>10, <1>11, <1>12,
        <1>13, <1>14, <1>15, <1>16, <1>17, <1>18, <1>19, <1>20, <1>21, <1>22,
        <1>23, <1>24, <1>25, <1>26, <1>27, <1>28, <1>29,
        <1>30
       DEF Next, Planner, Dock, AutoDocking, TimerSteps, Undock, Drive

(* The exact facts while no docking was abandoned. *)
LEMMA NextExactInv == IInv /\ [Next]_vars => ExactInv'
  <1>1. SUFFICES ASSUME IInv, [Next]_vars PROVE ExactInv'
    OBVIOUS
  <1>2. TypeOK /\ FactsInv /\ ExactInv
    BY <1>1 DEF IInv
  <1> USE <1>2 DEF TypeOK, FactsInv, ExactInv, Holds
  <1>3. CASE BeginDock
    BY <1>3 DEF BeginDock, Planned, BeginTimer
  <1>4. CASE BeginUndock
    BY <1>4 DEF BeginUndock, Planned
  <1>5. CASE EndDock
    BY <1>5 DEF EndDock, DockOver, TimerOver, StopNeeded, timer_finished_ok,
        dock_finished_ok
  <1>6. CASE StopDrive
    BY <1>6 DEF StopDrive, stopautodock, StopFails
  <1>7. CASE AutodockRuns
    BY <1>7 DEF AutodockRuns, In, timer_finished_ok, autodocking,
        ServerAbsent, DriveTimesOut, DriveFinishes, Elapse, CallFails
  <1>8. CASE AutodockSkipped
    BY <1>8 DEF AutodockSkipped, In, timer_finished_ok
  <1>9. CASE AutodockRepeats
    BY <1>9 DEF AutodockRepeats, In, timer_finished_ok
  <1>10. CASE RestartServer
    BY <1>10 DEF RestartServer, restartdockserver, In, timer_finished_ok, CallFails
  <1>11. CASE SkipServerFail
    BY <1>11 DEF SkipServerFail, In, timer_finished_ok
  <1>12. CASE DriverFailStarts
    BY <1>12 DEF DriverFailStarts, In, timer_finished_ok
  <1>13. CASE Goback
    BY <1>13 DEF Goback, In, timer_finished_ok, Elapse, CallFails
  <1>14. CASE ReactivateDockDrive
    BY <1>14 DEF ReactivateDockDrive, In, timer_finished_ok, autodocking,
        ServerAbsent, DriveTimesOut, DriveFinishes, Elapse, CallFails
  <1>15. CASE DriverFailEnds
    BY <1>15 DEF DriverFailEnds, In, timer_finished_ok
  <1>16. CASE SkipDriverFail
    BY <1>16 DEF SkipDriverFail, In, timer_finished_ok
  <1>17. CASE AutoDockingEnds
    BY <1>17 DEF AutoDockingEnds, In, timer_finished_ok
  <1>18. CASE UpdateDock
    BY <1>18 DEF UpdateDock, In, timer_finished_ok, insert_predicate
  <1>19. CASE IsntFree
    BY <1>19 DEF IsntFree, In, timer_finished_ok, remove_predicate
  <1>20. CASE AutodockState
    BY <1>20 DEF AutodockState, In, timer_finished_ok
  <1>21. CASE AbandonDock
    BY <1>21 DEF AbandonDock, timer_finished_ok, DockOver
  <1>22. CASE TimerEnds
    BY <1>22 DEF TimerEnds, dock_finished_ok
  <1>23. CASE TimerStops
    BY <1>23 DEF TimerStops, dock_finished_ok
  <1>24. CASE Tick
    BY <1>24 DEF Tick, Stuck, Elapse
  <1>25. CASE MoveBack
    BY <1>25 DEF MoveBack, CallFails
  <1>26. CASE UpdateUndock
    BY <1>26 DEF UpdateUndock, remove_predicate
  <1>27. CASE Isfree
    BY <1>27 DEF Isfree, insert_predicate
  <1>28. CASE ServerStarts
    BY <1>28 DEF ServerStarts
  <1>29. CASE DriveEnds
    BY <1>29 DEF DriveEnds
  <1>30. CASE UNCHANGED vars
    BY <1>30 DEF vars
  <1> QED
    BY <1>1, <1>3, <1>4, <1>5, <1>6, <1>7, <1>8, <1>9, <1>10, <1>11, <1>12,
        <1>13, <1>14, <1>15, <1>16, <1>17, <1>18, <1>19, <1>20, <1>21, <1>22,
        <1>23, <1>24, <1>25, <1>26, <1>27, <1>28, <1>29,
        <1>30
       DEF Next, Planner, Dock, AutoDocking, TimerSteps, Undock, Drive

(* The inductive invariant. *)
THEOREM Inductive == Spec => []IInv
  <1>1. IInv /\ [Next]_vars => IInv'
    BY NextTypeOK, NextLinesInv, NextNodesInv, NextTimeInv, NextFactsInv,
       NextExactInv DEF IInv
  <1> QED
    BY InitIInv, <1>1, PTL DEF Spec

(* What the invariant is for, shared with the theorems of ActionsProofs.   *)
LEMMA Consequences ==
    IInv => TypeOK /\ NoDriveLeft /\ ClaimedOnlyAfterDrive /\ FirstTryUncut /\ FactsExclusive
  <1>1. IInv => TypeOK
    BY DEF IInv
  <1>2. IInv => NoDriveLeft
    BY DEF IInv, TypeOK, NodesInv, NoDriveLeft, dock_finished_ok
  <1>3. IInv => ClaimedOnlyAfterDrive
    BY DEF IInv, NodesInv, ClaimedOnlyAfterDrive
  <1>4. IInv => FirstTryUncut
    BY DEF IInv, TypeOK, TimeInv, Untried, FirstTryUncut
  <1>5. IInv => FactsExclusive
    BY DEF IInv, TypeOK, FactsInv, ExactInv, Holds, FactsExclusive
  <1> QED
    BY <1>1, <1>2, <1>3, <1>4, <1>5

(* The types of the docking, its counts of lines included: no edit leaves  *)
(* a fact a negative number of times (remove_predicate).                   *)
THEOREM TypeCorrect == Spec => []TypeOK
  BY Inductive, Consequences, PTL

(* No goal is left with the drive after a docking: a drive that timed out  *)
(* is stopped by DockTimeOut, whatever the retries did.                    *)
THEOREM NoDriveIsLeft == Spec => []NoDriveLeft
  BY Inductive, Consequences, PTL

(* dock.ple claims the robot is charging only after a call returned 0.     *)
THEOREM ClaimIsAfterDrive == Spec => []ClaimedOnlyAfterDrive
  BY Inductive, Consequences, PTL

(* A docking that did well at the first call is not cut short, for every   *)
(* timer longer than that call can take.                                   *)
THEOREM FirstTryIsUncut == Spec => []FirstTryUncut
  BY Inductive, Consequences, PTL

(* Between actions the problem says what the robot is, once if no docking  *)
(* was abandoned, after any number of dockings.                            *)
THEOREM FactsAreExclusive == Spec => []FactsExclusive
  BY Inductive, Consequences, PTL

(* The goal of charging does not change in a step while no docking was     *)
(* abandoned: what GoalKept says of each step.                             *)
LEMMA GoalStep == IInv /\ [Next]_vars => [~cut => goal' = goal]_goal
  <1>1. ASSUME IInv, [Next]_vars, ~cut PROVE goal' = goal
    <2>1. TypeOK /\ ExactInv
      BY <1>1 DEF IInv
    <2>2. CASE UpdateUndock
      BY <2>1, <2>2, <1>1 DEF UpdateUndock, remove_predicate, TypeOK, ExactInv, Holds
    <2>3. CASE IsntFree
      BY <2>1, <2>3 DEF IsntFree, In, remove_predicate, TypeOK
    <2>4. CASE UpdateDock \/ Isfree
      BY <2>4 DEF UpdateDock, Isfree, insert_predicate
    <2>5. CASE ~(UpdateUndock \/ IsntFree \/ UpdateDock \/ Isfree)
      BY <2>5, <1>1 DEF
        Next, Planner, Dock, AutoDocking, TimerSteps, Undock, Drive,
        BeginDock, BeginUndock, EndDock, StopDrive, stopautodock, StopFails, AutodockRuns,
        AutodockSkipped, AutodockRepeats, RestartServer, restartdockserver, SkipServerFail,
        DriverFailStarts, Goback, ReactivateDockDrive, DriverFailEnds,
        SkipDriverFail, AutoDockingEnds, AutodockState, AbandonDock,
        TimerEnds, TimerStops, Tick, MoveBack, ServerStarts, DriveEnds
    <2> QED
      BY <2>2, <2>3, <2>4, <2>5
  <1> QED
    BY <1>1

(* The goal of charging is lost only after a docking was abandoned.        *)
THEOREM GoalIsKept == Spec => GoalKept
  BY Inductive, GoalStep, PTL DEF Spec, GoalKept
=============================================================================
