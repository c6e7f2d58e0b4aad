# MoBAr: a verification project in TLA+

MoBAr runs a TurtleBot robot as an autonomous rover. A PDDL task planner computes
plans, a PLEXIL executive carries them out and replans when something goes wrong,
adapters (C++ classes loaded by the executive) give PLEXIL its commands, and a
ROS server moves the robot. This directory models the parts of it that decide
what the mission does, checks them with TLC, and proves the main results with
TLAPS.

Paths below are relative to the repository root (`src/` here); line numbers refer
to the commit the project was written against.

| read first | for |
|---|---|
| `Executive.tla` | the deliberative loop, the planner and the telecommand thread |
| `ProblemFile.tla`, `ProblemText.tla`, `Problem.tla` | the edits of the PDDL problem file |
| `AtomicProblem.tla` | what the callers of those edits rely on |
| `Docking.tla`, `Camera.tla`, `Actions.tla` | docking and its timer, pan-tilt unit, camera; the actions of a plan one after the other |
| `Locomotion.tla` | client, functional-layer server and robot |
| `Goac.tla`, `Teleop.tla`, `Drivers.tla` | the two other ways to drive the base, and the choice between the three |
| `ObstacleMap.tla`, `PathSearch.tla`, `PathPlanner.tla` | bumps written in the map, the route search, UP2TA |
| `OgateLink.tla`, `Ogate.tla` | the connections with OGATE, the telecommand thread's answers, the clocks, the end of the mission |
| `ExecutiveProofs.tla`, `ProblemFileProofs.tla`, `DockingProofs.tla`, `ActionsProofs.tla`, `LocomotionProofs.tla`, `DriversProofs.tla`, `OgateProofs.tla`, `PathPlannerProofs.tla` | the theorems |
| `MC*.tla`, `*.cfg` | the instances TLC checks |
| `PROJECT.json` | components, runs, mutants, definition-to-line map, findings, hazards, theorems |

## 1. Inventory

### 1.1 The parts and how they interact

```
 OGATE (ground) <---sockets---> OGATE client thread, clock thread
                                      |  tcreplan, problem file, tick
  PLEXIL executive -- commands --> adapters (PDDL, Turtlecom, Arduino, Timer)
   Planner.ple, dock.ple, ...         |                 |             |
                             CProblema/CPlan/CDominio  RPC           serial line
                                      |                 |             |
                            planner process (up2ta)   ROS server    PTU sketch
                                 reads/writes the       |
                                 problem and plan     robot base, bumper, dock
```

* PLEXIL calls `executeCommand` of an adapter in the executive's own thread: the
  executive stands still until the command returns. `get_plan` even waits for the
  planner process.
* Other threads exist beside it: `PDDLAdapter::ogateClientThread` (telecommanded
  goals), `InterfaceAdapter::internalClockThread` (the tick), and the POSIX timer
  behind `timer.ple`. They share member variables and the problem file with the
  executive, without locks.
* The functional-layer server is another process, reached by RPC with time-outs. The base can be driven
  without the executive: by the GOAC interface, another client of that server, or by operators through the
  teleoperation node, which publishes velocities on the topic the server uses. One of the three is started.

### 1.2 Components

**Deliberative executive** (`bin/plexil/Planner.ple`, `src/plexil/pddl/PDDLAdapter.cpp`,
`Planner.cpp`, `CPlan.cpp`, `CDominio.cpp`).
State: the PLEXIL variables `planok`, `replanificar`, `flag_planificacion`, `nomaccion`;
the reader's position in the plan; `tcreplan`; the goals and the position in the problem
file. Operations: `get_plan`, `next_action`, `delete_goals`, the execution of each kind of
action with the updates of the position, the back-off after an obstacle, the injection of
a telecommanded goal. Hard: the telecommand thread interleaves with all of it; three
flags in two languages carry one request to replan; a PLEXIL Boolean can be *unknown*; the
problem file exists twice. Correct when: the planner and the executive agree on where the
robot is, no action of a stale plan is executed, a telecommanded goal is eventually
planned for, repeated failures send the robot to charge, the mission ends when its plan
does. **Modelled but for the start-up nodes that configure adapters** (2.1).

**Problem file** (`src/plexil/pddl/CProblema.cpp`, and the copy in `src/upta`).
State: the problem and its auxiliary file. Operations: insert, replace, delete a line,
erase a section; each copies the file, removes it, and renames the copy. Hard: two
threads edit it; a process can die between the two calls; lines are recognised by a
prefix wherever they stand. Correct when: every edit is atomic, does what it says, and
answers truly. **Modelled** (2.2).

**Docking library nodes** (`dock.ple`, `undock.ple`, `timer.ple`). State: the concurrent
nodes' states, the timer, the predicates `free` and `is_charging`. Hard: the timer
fires between two updates of the problem; retries that wait for what no node will do; a drive that
goes on with a goal nobody waits for. Correct when: every docking that fails asks the drive to stop, success is
claimed only after a call that returned it, the problem says what the robot is. **Modelled** (2.3).

**Pan-tilt unit and camera** (`arduino/ArduinoAdapter.cc`, `pantilt.c`, `ptuarduino.ino`,
`takepicture` of the server). State: the serial buffer, the position believed, the number of the
next picture. Hard: a buffer that is not cleared; an answer nobody looks at; a late answer taken for
that of a later frame; a counter that also reports failure. Correct when: the servos are where the
problem says once a call reached them, a picture keeps its file. **Modelled but for operations the mission never asks for** (2.3).

**Locomotion client** (`src/plexil/ros/TurtlecomAdapter.cc`). State: the pose, the RPC
handle. Hard: calls that time out while the server goes on; `NULL` results; headings, relative angles
and signs of axes. Correct when: the pose kept is the robot's.

**Functional-layer server** (`src/ros/src/nodo_comunicacion/src/nodo_comunicacion_server.cpp`).
State: `flag_parada`, the odometry, the call in progress. Hard: one call at a time, so a stop
is served after what it should stop; a bump after a movement stops the next one.
Correct when: a movement ends at its goal or its obstacle. **Both modelled for what plans ask** (2.4).

**Obstacle map** (`PDDLAdapter::add_obstacle`). State: a text file shared with the path
planner, written at byte offsets. Hard: eight sectors by six values of the bumper; the sides of
the map, where marks overwrite the ends of lines; two names for each axis. Correct when: the planner reads the cells that were marked
where they are and nothing else has changed. **Modelled** (2.5).

**Path planner UP2TA** (`src/upta/`). State: the map and its margins, the open and closed lists, the
distances. Hard: an `erase` by key takes every node of equal cost; parents that change during a search; a retry without
margin that must be undone. Correct when: routes are clear of obstacles and searches end. **Modelled
but for options and the external task planner** (2.5).

**OGATE connection** (`src/OgateInterf/`, `PDDLAdapter::ogateClientThread`). State: sockets,
registrations, the status. Hard: two readers of one socket; any message passes for a missing one; a thread
joined while it waits. Correct when: client and OGATE agree on what is registered, OGATE is told the
truth, the mission stops when asked. **Modelled, the client side** (2.6).

**Clock and tick** (`plexil-mod/InterfaceAdapter.cc`, `TickTimeAdapter.cpp`). State: the
shared tick, `threadRunning`. Hard: an unlocked test-and-set, started from two places. Correct when: one
clock counts. **Modelled but for the lookups of the time and the wake-up timer** (2.6).

**GOAC interface** (`src/GOACInterf/main.cpp`). State: the place and heading it adds up (`coordprimas`), the
RPC handle. Operations: the commands of the message-passing host. Hard: it never asks where the robot is; a move
counts whole whatever it ended in; headings are added up and corrected by at most one turn. Correct when: the place it
believes in is the robot's. **Modelled but for the older server of its header** (2.4).

**Teleoperation** (`src/ros/src/teleop/src`). State: the table of clients, the last velocity, the time since the last message.
Hard: clients that close, reset or send nothing; numbers that shift in the table; a base that goes on driving. Correct when: the
base stands still unless messages keep coming, and no client is lost. **Modelled** (2.4).

**Not part of the mission's logic**: the older copy of the PDDL library in `src/pddl`, and the generated or
superseded files (`src/ros/build`, rpcgen stubs, `src/up2ta.cpp`).

Every hazard met in these parts is listed at its line in `PROJECT.json`, with the properties that
would catch it.

## 2. What is modelled

### 2.1 `Executive`: the deliberative loop

PLEXIL semantics the module relies on, all visible in the compiled `Planner.plx`: a block
is a checked sequence, so a node that fails aborts the rest of its block; the body of a
`while` and the branches of an `if` do not pass a failure on; the outcome of an
unfinished node is *unknown*, and so is whatever is computed from it; a `double` argument
read from an unknown is not zero.

| variable | in the code |
|---|---|
| `pc` | the node of `Planner.ple` that executes next (and `crashed`, `done`) |
| `planok`, `replanificar`, `flag_planificacion`, `nomaccion` | the PLEXIL variables of those names |
| `plan`, `leidas`, `numaccion` | the plan file `CPlan` has open, the lines read, `CPlan::numaccion` |
| `inicializado` | `Planner::inicializarEstructuras` has run: `CDominio` holds the table of actions, `CProblema` edits the copy |
| `goals`, `posicion` | goals and robot position in the problem file and in the copy the planner reads |
| `robot`, `displaced` | the cell last reported; a docking manoeuvre moved it since |
| `tcreplan`, `awaited` | the flag of `PDDLAdapter`; a goal inserted whose flag is still to be raised |
| `unread`, `missed` | goals telecommanded that the planner has not read since; goals inserted where its last run did not find them: in the original, or after it had read (history, for the properties) |

| action | code |
|---|---|
| `UpdatePositionPlanner` | `GetTurtlestate`, before the loop |
| `LaunchPlanner`, `PlannerSucceeds`, `PlannerFails` | `get_plan` up to the start of the process, and from its end, with `ResetFlag`/count of failures |
| `DeleteGoals`, `SetNewGoals` | the two commands after the second failure in a row |
| `KeepPlan`, `Finish` | node Plan skipped; condition of the `while` |
| `NextIsReplan`, `NextIsEnd`, `NextIsAction`, `NextIsUndeclared` | the outcomes of `next_action` and `SetPlanFlag` |
| `MoveTo`, `UpdatePosition`, `MoveBackTurtle`, `UpdateBackPosition` | the `moveto` branch |
| `DockOrUndock`, `ActInPlace` | the other branches |
| `CheckActionResult`, `SetStartTime` | the two nodes that close an iteration |
| `TCInsertGoal`, `TCSetReplan` | the two statements of `ogateClientThread` |

The commands of the executive are split where another thread's step can matter: `get_plan`
around the planner process, `moveto` around the call to the robot. The insertion of a
goal is one step here; what happens when it overlaps another edit is the subject of
`ProblemTwo` below. Abstracted: distances and way points, the obstacle map, the angles and
the PTU, whatever a docking does inside, times. The planner is *any* function of the
problem's position: it returns any chained sequence of steps, or fails in either of the two
ways the code distinguishes.

### 2.2 `ProblemFile`, `ProblemText`, `Problem`: the edits of the problem file

`ProblemFile` is the protocol, one action per system call that another thread can see:
`Open` (reads the problem, truncates the auxiliary file), `Write`, `RemoveProblem`,
`RenameAux`, `Return`. `salida` records which file an output stream is open on, because a
rename takes the file away under an open stream. The texts are a parameter.

`ProblemText` says what each edit makes of the lines, in the terms of `copiar_hasta`:
the search that stops at an empty line, the first match only, the erasure up to a closing
parenthesis or a comment, the garbage written when a mark is missing.

`Problem` puts them together for the layout of `problemTemplatedOptic.pddl`, the set of
edits the mission asks for, and the conditions under which it asks (`AsPlanned`).

`AtomicProblem` is the abstract specification: an edit is asked for, takes place as a
whole, answers, and returns. `ProblemFile` implements it under the mapping in the module
(the content is the auxiliary file while the problem has no name).

### 2.3 `Docking`, `Camera`, `Actions`: the actions that do not drive the robot about

`Docking` is the three library nodes with the branches of `Planner.ple` that call them. `dock`
and `timer` run concurrently and end each other; inside `dock` three nodes wait for each other's outcomes.

| variable | in the code |
|---|---|
| `pc`, `stage`, `Autodock`, `DockServerFail`, `DockDriverFail`, `timer` | the states of the nodes of those names; `stage` is the step of `dock`, `pc` that of `Planner.ple` |
| `DockStatus` | the variable: 1, then what `autodocking` returned |
| `elapsed` | time since the timer started, in units of 5 s |
| `server`, `drive`, `docked` | the docking server of ROS, its drive, the robot |
| `facts`, `goal` | how many lines of the two facts, and of the goal `(is_charging turtle)`, the problem has |
| `cut`, `missed` | history: a docking was abandoned; the call that should have cancelled the goal of the drive failed |

Each node has its actions (`AutodockRuns`/`Skipped`/`Repeats`, `RestartServer`, `DriverFailStarts`,
`Goback`, `ReactivateDockDrive`, `UpdateDock`, `IsntFree`, `AbandonDock`, `TimerEnds`, ...); `autodocking` is the
call with its four outcomes (done, server absent -1, drive out of time -2, call out of time: the null
result is followed and the executive dies). The failure of a docking is not looked at by the plan, which
goes on. `StopDrive` is `stopautodock` or `StopFails`: a null result is only reported (`TurtlecomAdapter.cc:596`) and the drive keeps its goal. `DockDriverFail` ends only on `DockStatus` 0, so its repetition on -2 is never reached: it
makes one retry and, if that fails, waits for the timer.

`Camera` is `moveptu` and `picture`. `MovePtu` is `SendFrame`, `Refuse` or `CallLost`: a call that fails sends no frame, is only reported (`ArduinoAdapter.cc:163`), and its position is recorded all the same (`lost`). `line`, `lectura`, `unit`, `input` are the frames to the sketch, its
buffer, the servos and the bytes back; `answer` is what `pantilt::position` made of them. The answer is inverted on its way to the
adapter and nobody looks at it; a position out of range is refused without being sent, and
recorded all the same; the unit may take longer than the second `position` waits. When not a byte came, `position` compares
a buffer nothing was written to: either answer. `numberOfPicture` becomes -1 when a save fails and numbering starts
over.

`Actions` composes them: one action in progress, the drive, the docking server and the sketch working on by themselves.

### 2.4 `Locomotion`, `Goac`, `Teleop`, `Drivers`: who drives the base

Three processes: the commands of the client as `Planner.ple` chains them (`step`, `nStr`, `calls`, `pose`), the server
(`server`, `call`, `left`, `flag_parada`, `odom`), and the robot in its world (`robot`, `contact`, `obstacles`).
`TakeCall`/`Answer` are the RPC, `TimeOut` the client that gives up while the server works on: it follows the null result and dies (`Die`),
but for the rotation of a `moveto`, whose null result is only reported (`TurtlecomAdapter.cc:648-656`) and whose forward call goes out
while the server is still turning (`GiveUp`, `late`);
`Settle...`, `Drive`, `TurnStep`, `ReachGoal`, `StopByBump`, `Close...` are the phases of a movement, during all of which the
bumper is listened to. `newhead`, `angrot`, `angulo_deseado`, `error` are the angles as the code computes them, in
degrees (the NaN of a `moveto` to the robot's own cell included: it is overwritten by 90). `Docking` moves the robot without any answer that says so.

A place is a cell and an orientation a multiple of `Turn`; the robot moves along its sector, cell by cell. The
velocity left over after a movement is ignored. A kept contact gives no new event. Backwards the bumper is not
looked at, so a blocked robot loops until the call times out, and the null result kills the executive. A rotation
that a bump cuts does not keep `moveto` from going forward.

`Goac` extends `Locomotion` with the other client. `goac` is where `main` stands in its loop, `coordenadas` the move asked
for with its turn, `coordprimas` what the moves add up to, `reply` and `told` what the host hears. One action per command
(`InitialiseRobot`, `MoveRobot`, `MovePTU`, `TakePicOrCommunicate`, `End`; any of them before the handle is set is `Unlinked`: a null
pointer), `GoacAnswer` and `GoacTimeOut` for the calls they make. The heading of a move is computed by `angulo`, `cuadrante` and
`compensar_angulo`, the turn by `TurnFrom`; along the axis the sign of y is not looked at, so a move straight to
the right goes to the left (`excused` records it, as it does a bump that cut a move).

`Teleop` is the node's loop turn by turn, a turn being its clock: `ReceiveMessage`, `ReceiveNothing` and `ReceiveClient` are
the outcomes of `ServerSelect::receive` with the reaction of `main`; `cleanKeys`, `Marked` and `newClient` are the table;
`Connect`, `Send` and `Leave` are the operators, at any moment. Kept as the code has them: signs are erased from a velocity with the
other characters that are no digits; a message of fewer than six fields kills the node; the sixth is written behind the
array, which may end the loop; a client that closed is read as an empty message for ever.

`Drivers` starts one of the three. What the executive's client, the GOAC interface and the server share is the module `Locomotion`, so
`GoacDrives` steps the same server and robot that `PlannerDrives` does.

### 2.5 `ObstacleMap`, `PathSearch`, `PathPlanner`: the map and the routes

`ObstacleMap` has the file as its characters: `MarkedCells` (orientation and bumper to cells, with two odd tables of the code),
`offset` and `WriteMark` (the byte offset, before and behind the file included), measured on the file as it is (`columnas`, `filas`), and
`ReadObstacles` (`read_map`). A mark beyond the last column overwrites the end of a line, and `read_map` does not notice: it goes on
reading the same row (`RowStarts`), the rows ahead come nearer (`LineOf`), the last ones are outside the map (`Unread`). When a row is
then shorter than the first, `read_map` writes behind its end (`Overrun`): the planner dies or goes on, both are steps.
`PathSearch` is `GSIsearch` over `Map`: `TakeNode`, `UpdateVertex`, `LineOfSight`, the ordered list and the `erase` by key (`Remaining`),
`RouteTo`, and the margins, whose value depends on the order of the obstacles. Loops are recursive functions over their counter. Distances are thousandths of a cell, cut.
`PathPlanner` is `main` around them: `ReadMap`, `SearchPair`/`SearchOutside`/`SkipPair`/`Retry`/`EndPair` (the
distances between the coordinates), `TaskPlan` (external: any sequence of moves with a known distance, or a failure), `ExpandMove`/`EndMove` (the
routes of those moves), then `Drive` and `Bump`, which marks the map and plans again. `Clear` and `reset_data` stand where the code
has them: after each pair, before a retry and after a move that has a route; a move that has none leaves its closed list and its nodes to the search of the next move.

Kept as the code has them: coordinates in comments of the problem count; there is no distance *to* the first
coordinate; the ordering of the goals has no effect. Taken as harmless: `update_vertex` increments an iterator it has
erased; buffers are taken as long enough (a line of the map has at most 200 characters, joined with the next too; an angle 4). Left out: the columns that a joined *first* row
has beyond those of the map, and what is read behind the last cell of a file that a mark made longer.

### 2.6 `OgateLink`, `Ogate`: the threads and OGATE

`OgateLink` is the client library over two connections (the tick adapter's and the planner's), messages whole and in
order: `link`, `numbered`, `believed` (what a client takes as registered), `asked` and `wire` (messages either way), and OGATE
with `registered`; OGATE may be absent or leave. `Ogate` adds the threads, none of which locks anything: the
executive (`exec`: connect, number, register, the mission, the stops), the client thread (`Look` computes the status, `Read` takes a message and answers it:
two steps), and two clocks statement by statement (`ClockTest`, `ClockRaise`, `ClockLoop`, `ClockAdd`, `ClockSend`).

Kept as the code has them: connecting to an absent OGATE is tried for ever (`ClientSelect::open` says -1, which is true); a
registration takes whatever message comes next; the client thread may take the acknowledgement the executive waits for;
writing to an OGATE that has left may kill the process; joining a thread that was never started may hang or fail; `stop` waits for
OGATE's request to finish.

## 3. What TLC checks

| run | question | result |
|---|---|---|
| `executive` | the loop, planner and telecommands interleaving | all properties hold |
| `executive_tc` | is no action handed out while a flagged goal waits? (`PDDLAdapter.cpp:721`) | no: see F1 |
| `executive_replan` | does the planner run after `REPLAN`? (`Planner.ple:102`) | no: F2 |
| `executive_final` | is the end reported at the end? (`CPlan.h:22`) | no: F3 |
| `executive_start` | is the planner given the cell of the robot? | not before the first plan: F4 |
| `problem` | every edit in any order by one thread | all properties hold |
| `problem_sgp` | the same edits on the layout `configSGP` names | they erase section headers: F5 |
| `problem_two` | two threads edit at once | a reported success is lost: F6 |
| `docking` | what each way a docking can end leaves behind; where the servos are; which pictures are kept | all properties hold |
| `locomotion` | the base driven by the executive, the GOAC interface or operators: poses, turns, the end of a `moveto` and of every command, the guard time, the table of clients | all properties hold |
| `path_planner` | routes, plans and failures, before and after a bump is marked | all properties hold |
| `ogate` | registrations, status, ticks and the end, four threads and OGATE | all properties hold |

**Properties of `executive`.**
`MoveStartsFromPosition`: a move starts where the file says the robot is, so the update
that follows finds its line: a plan never outlives the obstacle that displaced the robot.
`PlannerSeesRobotCell`: the planner starts from the last reported cell, dockings apart.
`ChargeAfterTwoFailures`: after two failures in a row the charging goal is in the file the planner reads, with one exception that is part of F4: two
failures before the first success put it in the original, and the planner is run again with the goals it had.
`HangsOnlyOnReplan`: the loop waits on an unknown only in an iteration that a telecommand
made `REPLAN`. `OnlyLateGoalsIgnored`: an action is handed out although the planner has not read a telecommanded goal only if the goal came during the
planning (F1), if its flag is about to rise, or if it came before the first success, went to the original (F4) and had its flag cleared by that success. `DeclaredPlanFollowed`: a plan of declared actions is
followed to its end. `TelecommandReachesPlanner` (liveness): a telecommanded goal makes the
planner run, unless the mission is over or hung as in F2.

**Properties of `problem`.** `WholeTextKept`: at every moment a whole problem is in one
of the two files, so a process killed anywhere loses nothing. `EditsAreAtomic`:
refinement of `AtomicProblem`, liveness included. `EditsAsMeant`: each edit changes its own section
as intended and no other.

**Properties of `docking`.** `NoDriveLeft`: after a docking no goal is left with the drive, although a
time-out does not cancel one, unless the call that was to cancel it failed: every way to end other than a success comes to `stopAction`. `ClaimedOnlyAfterDrive`:
the problem is told `is_charging` only when the last call returned 0. `FirstTryUncut`: the timer never cuts a docking
whose first call does well. `FactsExclusive`: between actions the problem says charging or free, and just one unless
a docking was abandoned (then it may say both). `GoalKept`: an undocking takes the charging *goal* for the fact
only after an abandoned docking. `DockEnds`, `CameraEnds` (liveness): whatever the nodes, the unit or the camera fail to answer.
`PointsAsRecorded`: the servos are where the problem says although nobody looks at the answers, unless the last call was lost
(then the recorded position is wrong until the next call that is not). `AnswerTells`: the
answer is right, but for a late unit or a frame two shorter than an earlier one, whose tail it gets. `PicturesKept`: a picture keeps its file until a save has failed.

**Properties of `locomotion`.** `PoseTrue`: between commands the client's pose is the robot's unless the docking drive moved
it, a `moveto` whose rotation timed out included: the server takes the forward call only after it has turned. `MovetoArrives`: from a true pose, without a bump, a `moveto` ends at its cell and says so.
`TurnsTowardsGoal`: the rotation loop never turns away from its goal, across the origin or not. `CommandsEnd`, `ForwardEnds` (liveness):
a command is answered or kills the client, which may outlive one time-out of a `moveto`; a movement forward ends by itself even when nobody waits.
`GoacKnowsPlace`: the place and heading added up are the robot's, whole turns apart, until a bump cuts a move or one goes
straight to the right. `GoacTurns`: what is never brought back to one turn stays within one and a half, and turns within one. `DeadMan`: the
base moves only for a message of the last turns, with that message's speeds, never backwards. `TableSound`: the table holds
each accepted connection once, until it is reset, however descriptors shift. `DeadClientBlocks`: once a client that closed is in the table,
nobody behind it is heard and nobody new accepted, for as long as the node runs; this states what the code does of `recv` returning 0, so that
whoever changes it sees it change.

**Properties of `path_planner`.** `RouteIsClear`: a route leads from start to goal by nodes in sight of each other, past no
obstacle. `PlanAvoidsMarks`: no later plan enters a marked cell of a row that is still read in its place (`InPlace`: no line without an end in it or behind it), as long as
`add_obstacle` measures the map as it is (`Measured`: it takes the length of the first line and the size of the file). Both conditions are needed: plans do enter marked cells of rows that a
joined line moved, and any marked cell once a mark has taken the end of the first line or made the file longer. `MarkKeepsMap`: with the map measured right, a mark made off the sides of the map
leaves it so and moves no row; inside a map whose rows are all in place it changes only what it marks; and every mark in a row that is in place is read.
`FailsOnlyAfterDrop`: a search of cleared data misses a goal that can be reached only after the `erase` dropped a node (which happens).
"Of cleared data" is needed: `main` clears the closed list and the nodes after a move only when it has a route (`upta/main.cpp:500-510`), so the first
search of the move after a failed one finds cells closed that it never took, and may miss a goal it could reach without having dropped anything; the retry that
follows is cleared. No map of nine cells with up to three obstacles shows it, which is why the instance has twelve.
`SearchEnds`: every round of every search closes another cell, and the walk back along the parents that `GSIsearch.cpp:73` marks as a possible endless loop meets the start.

**Properties of `ogate`.** `InterfacesAgree`: a client believes registered only what OGATE registered, and the mission starts with
all of it, although two threads read the socket. `StatusIsTrue`: `FINISHED` is sent only when no planner works, however old
the status. `TicksInOrder`: if the first clock began before the second was spawned, each tick is sent once (otherwise both count).
`StopEnds` (liveness): once OGATE's request to finish is on its way, the adapters stop and OGATE is told how.

**Findings** (details in `PROJECT.json`).
F1: `get_plan` ends by overwriting `tcreplan`, so a goal telecommanded while the planner runs is
forgotten. F2: `replanificar` is computed inside the node whose outcome it reads, so after
the first obstacle it stays unknown, and the next `REPLAN` stops the loop for ever. F3: a
first action that the table lacks reads as the end of the plan. F4: the planner reads a
copy made before the first edits, so the edits before the first success do not reach it
(`src/plexil/pddl/Planner.h:29` asks for them to be made before planning). F5: the
erasures stop at a comment the SGP layout does not have there. F6: no lock protects the auxiliary file.

**Bounds, and why they are enough.** `Executive.cfg`: two goals (the charging one and another),
two cells (where the robot is and elsewhere), plans of at most two actions (the smallest with a
first and a later one, which `numaccion > 0` tells apart), failures counted to 3 (`MaxFlag`; the
code compares with 2 only), one table of actions that lacks `dock` so that undeclared actions
occur. `Problem.cfg`: one goal, at most one way point and one distance (`MaxGoals`, `MaxScratch`), two
cells, every order of up to three facts: an edit looks at its mark, the first match and the
line that stops it, so a longer section adds nothing to one with a line and one without. `ProblemSGP.cfg`: texts of at
most twelve lines (`MCMaxLength`). `ProblemTwo.cfg`: two editors and the edits they really run.

`Docking.cfg`: the real times (timer 60 s, drive 20 s, server 5 s: 12, 4 and 1 units); four actions (`MaxActions`), so that an
abandoned docking is followed by an undocking and another docking, or a failed save by two pictures; positions with frames
of 16, 17 and 18 characters (the residue needs a difference of two) and one out of range. `Locomotion.cfg`: six cells with an
obstacle, where a way is up to two cells along any of the eight directions and there is a wall on every side; two docks, one away from the
origin of the pose; one bump that no cell explains (`MaxBumps`), at any point of any movement. The
GOAC interface asks for three places, on both sides of a diagonal, so that headings add up over turns of both signs and moves start from every
place reached; three operators share a table of two (`MAX_CLIENTS`), so that one waits, is accepted into the place of another, or is not; one turn of guard time (`Quiet`), one unread message
each (`MaxInbox`), messages of six fields and of one: a message is in time, late, or fatal. `PathPlanner.cfg`: maps of four rows of three cells with no obstacle or three in the two
rows in the middle, enough for detours, any-angle segments, dropped nodes and walls that separate; two bumps from any cell by any value of the
bumper, so that a mark is measured and a plan made in a map whose lines an earlier mark joined; plans of two moves, so that one follows another that failed; `PairLimit` is the 200 of the code scaled to the map (three cells), so that pairs on both sides of it occur. 337056 states. `Ogate.cfg`: two requests (one that a registration may
swallow and one for the thread), one plan that ends, ticks to 2 (two clocks that race repeat one at once).

**Fairness.** `WF(Exec)`: the executive is a loop in its own thread, and both the planner and
the robot's commands return (`get_plan` runs the planner with `system`, the RPC calls have
time-outs). `WF(TCSetReplan)`: the telecommand thread raises the flag in the statement after
the insertion. No telecommand has to arrive. In `ProblemFile`, an edit that began
continues (straight-line code); none has to begin.
`Docking`, `Camera`: the executive goes on with the nodes of the action it has begun and looks at its timer (each disjunct has its
own `WF`, the nodes being conditions the executive re-evaluates); neither the docking server, nor its drive, nor the unit has to do anything.
`Locomotion`: calls are made, served, answered or given up (each is the only thing its process does), and a robot
that runs into an obstacle presses its bumper. `DriversFairness` is that with either client; operators and the teleoperation node owe nothing. `PathPlanner`: none; that searches end is stated by what each round closes.
`Ogate`: the operating system runs the executive's thread, which stops adapters one after the other, and the client
thread, whose read never blocks; the clocks and OGATE owe nothing.

**Deadlock.** Checked in `problem`. `Executive` really stops: the mission ends, the
process dies on a null pointer, or it hangs as in F2, so its configurations say
`CHECK_DEADLOCK FALSE`; so do `ProblemSGP`, whose texts are bounded, and `ProblemTwo`. In the four later runs the
mission ends too (no more actions, no plan, a null pointer, a killed process, a stopped executive); that nothing waits for
ever before that is what `DockEnds`, `CameraEnds`, `CommandsEnd`, `ForwardEnds`, `SearchEnds` and `StopEnds` say.

**Mutants.** Every property of the passing runs has a mutant in `PROJECT.json`: an alternative form of one
definition, written next to it in the module (`FirstPlanningOnce`, `WriteBlind`, ...), under which TLC
finds that property violated.

## 4. What is proved

`tlapm` checks every proof to the last leaf.

**`ExecutiveProofs`** assumes only `ExecutiveAssumption` (the sets of goals and cells contain those
named) and proves, for all goals, cells, tables of actions and plan lengths: `TypeCorrect`,
`MovesFromPosition`, `HangsOnReplanOnly`, `ChargeGoalInserted`, `GoalsNotIgnored`, `DeclaredPlans`, and, if
the robot starts where the problem says (`StartCells = {Home}`, which F4 shows to be needed),
`PlannerSeesRobot`. None of them is inductive. The invariant `IInv` adds: the plan is a path
(`PlanChained`); in which phases `planok` holds and the mission is not over (`PhaseInv`); a plan
at hand, or a request to replan, means that `inicializarEstructuras` ran and both sides
use the same file (`InitialisedInv`); the action in progress and the next one start at the cell of that file (`ActionInv`,
`NextActionInv`: this is where "an obstacle discards the plan" is used); a goal the planner has not read has its
flag up, is about to, or was inserted where the planner did not find it (`GoalsInv`); and the two invariants' forms that the steps
between need (`HangInv`, `ChargeInv`). `TypeStep` proves types apart, so that the step lemma `InvStep`
only treats the actions that disturb the rest.

**`ProblemFileProofs`** assumes `ProblemAssumption` (the edits asked for stay within the set of texts) and one
editor, and proves `TypeCorrect`, `TextNeverLost`, `SuccessMeansDone` and `Atomicity`: initial states and steps of
the protocol are those of `AtomicProblem`. The invariant gives, for each value of `pc`, what the two
files and the stream are. With two editors these theorems are false; `problem_two` shows why.

**`DockingProofs`** assumes `DockingAssumption` (the timer outlasts a drive and the unit it is late by) and proves `TypeCorrect`, `NoDriveIsLeft`,
`ClaimIsAfterDrive`, `FirstTryIsUncut`, `FactsAreExclusive` and `GoalIsKept` for every timer, drive and number of dockings. `IInv` says how many lines of a fact there can be (`LinesInv`), what the
nodes know of `DockStatus` (`NodesInv`), what the timer knows of the time spent (`TimeInv`), and which facts the problem holds at each
step, exactly while nothing was abandoned (`FactsInv`, `ExactInv`), and that a drive with a goal is either still to be stopped or was asked to in vain. **`ActionsProofs`** carries these over to the composition
(`DockingInActions`) and proves `CameraTypeCorrect`, `UnitFollowsProblem`, `AnswerIsTrue` and `PicturesStay`, for all positions and any number
of actions: what is on the two lines, how long a residue the buffer can have, and which numbers files can have. The
types of `Camera` are proved and not checked again by the run.

**`LocomotionProofs`** assumes `LocomotionAssumption` (the turn of one loop divides 45 degrees; docks stand outside obstacles) and proves
`PoseIsTrue`, `TypeCorrect`, `TurnsAreTowardsGoal` and `MovetoEndsThere` for every world, angle, dock and number of bumps. The first needs nothing of the numbers (`LInv`): the
calls fit the command and the server does the first of them (`CallsInv`), whoever drives the robot reads the odometry before the answer
(`OdomInv`), and a call without a pose leaves the robot where it is (`PoseInv`); a client that gives up the rotation of a `moveto` keeps
its two calls, so that its pose is still that of the second. The others are arithmetic. `TypeInv` keeps every angle a multiple of `Turn`
in its range: a rotation whose goal is no multiple of what one loop turns would pass it by. `RestInv` bounds what is left of a rotation by the turn it was asked for,
so that from half a turn or less the error decreases at each loop. `Arrives` follows a `moveto` through its two calls: while it
turns, the angle the server turns to is the heading of the goal (`Turning`); while it drives, cells made and cells left add up to its place (`Driving`).

**`DriversProofs`** uses `GoacAssumption` and `TeleopAssumption` too, and proves `DriversTypeCorrect`, `PoseAndMoveto` and `TurnsTowardsGoalOfAll` (what `Locomotion` promises
holds with the three drivers), `GoacPlaceIsTrue`, `GoacHeadingIsBounded`, `WatchdogStops`, `TableIsSound` and `ClosedClientBlocks`. In `DInv`, the server and the robot keep `TypeInv` and `RestInv` whoever
calls, and the node `TeleopInv`; the rest goes by driver: `LInv` and `Arrives` without the GOAC interface, and with it `GoacInv`, which re-uses `Turning` and `Driving` for the move in progress and bounds the heading to come.
The heading needs the bound on the *sum* of heading and turn, which lies in (-540, 540] because the turn is measured from it.

**`PathPlannerProofs`** assumes `MapAssumption`, `MarginAssumption` and `PlannerAssumption` (maps and problems are made of cells) and proves all that the run `path_planner` checks, for maps of any size, any
margin, any problem, plans of any length and any number of bumps: `TypeCorrect`, `RoutesAreClear`, `PlansAvoidMarks`, `MarksKeepTheMap`, `FailuresAreDrops`, `SearchesEnd`.
`PInv` has five parts. `SearchInv`: the list of open nodes is in order and without repetition, every reached node has a reached parent, and no obstacle lies between them (`Sound`).
The obvious invariant, that costs decrease along the parents, is false: `update_vertex` changes the parent of a node that others have for a parent, and `erase` loses nodes; the links survive it.
`MapInv` and `PhaseInv` relate the file, the marks and the obstacles read: while the map is measured right every marked cell is a 9 in its place, which needs that no two cells share an offset (`PlacesApart`)
nor one with the end of a line (`LineEndApart`), and a row with no joined line in it or behind it is read in its place (`ReadInPlace`), by counting the starts of rows behind it; `PairInv` keeps the loops over pairs and moves within the
coordinates, which needs the robot among them; `RouteInv` is about the plan. `EndInv` follows one search. `Underway` ranks the nodes this search took so that parents come before
their children: a closed node's parent no longer changes, so the walk back meets the start. `Complete`, on cleared data and as long as nothing was dropped, says that every cell next to a closed one is an obstacle, closed or open; when nothing is open,
the closed cells are a set without a way out, which is what `Separated` asks for.

The library's induction cannot be used (see below), so what a recursive function or a loop returns is proved by the least counterexample: a non-empty set of numbers has
a least one (`LeastNat`, from the library's minimum of a well-founded order), and the step before it contradicts it. `UpdateExists`, `BackExists` and the like first show that the function of the definition exists.

**`OgateProofs`** proves `TypeCorrect`, `Agreement`, `TrueStatus` and `OrderedTicks` for any number of requests, plans and ticks: an
acknowledgement is on its way only of what is registered (`LinkInv`), what each phase of the executive has had answered (`PhaseInv`), who may still raise `running`
(`StatusInv`), and that the second clock ends at its test (`ClockInv`).

The types of `Executive`, `ProblemFile`, `Docking`, `Camera`, `Locomotion`, `Goac`, `Teleop` and `Ogate` are proved and not checked again by a run.

**Only model-checked**: liveness (`TelecommandReachesPlanner`, `DockEnds`, `CameraEnds`, `CommandsEnd`, `ForwardEnds`, `StopEnds`, the fairness half of `EditsAreAtomic`), which is
out of the prover's reach; and `EditsAsMeant`, which compares what an edit makes of the lines of a text with what it should have made, over operators of `ProblemText` that search and
cut sequences: without induction over the lines each of its edits would need an argument of its own. `EditsAreAtomic` is proved as far as safety (`Atomicity`).

## 5. Limits

* Docking is one action of `Executive` that moves the robot anywhere; what happens inside it is `Docking`, which in turn takes any plan. The motion of `MoveTo` in `Executive` is any of the results `Locomotion` shows.
* Each edit is atomic in `Executive` and `Docking`: that is what the single-editor theorems justify, and what two editors break (F6).
* `ProblemText` compares names whole; in the shipped problems no name begins another, and there is no empty line.
* `AsPlanned` takes facts to be inserted when absent and deleted when present, so `EditsAsMeant` says nothing of deleting an absent fact, which takes the goal of the same name. Only an abandoned docking brings that about: `Docking` counts the lines of each fact for that reason, and `GoalKept` is about it.
* `WholeTextKept` is about the files a killed process leaves. A process started again is not modelled; its first edit would truncate the auxiliary file that may hold the only text.
* The number that `delete_goals` reads without having been given one may kill the process: a step of `Executive`, after which nothing is promised and nothing is said to be wrong.
* A call of `moveptu` that failed is one that was not served (its 60 s are far beyond what the server may take); a server that dies in the middle of one is left out. A call of `Locomotion` that was sent and not yet taken by the server is dropped when the client dies.
* `SetStartTime` asks for a function that `problemTemplatedOptic.pddl` does not have: it changes nothing, and says so.
* A cancelled drive is taken to stop; a mission starts docked, as the problem says; the serial line loses no bytes; the time the servos take is left out; OGATE's messages arrive whole.
* `readBateryLevel` is a call like the others; the level, always 0, is used by nobody.
* The number of the planner in `putObstacle` is read from its first argument, a string; it is taken as the only planner.

* The GOAC interface and the teleoperation node are never started together with the executive; the turns of the GOAC interface are of eight directions, and its host sends any command at any time.

**Not modelled.** The *standalone PDDL library* (`src/pddl`) is an older copy of the modelled classes. *Generated and vendored files*
(`src/ros/build`, rpcgen stubs, the superseded `src/up2ta.cpp`) decide nothing. Inside the parts modelled:
`checkCharging` and the `yaw`/`pitch` calls, which no plan makes; the start-up nodes that only configure adapters; the metrics and the traces; the options of
UP2TA and its heuristics other than the default; `reset` and a negative `usleep` of the clock; and `ServerSelect`, which only the tests use.

## 6. Plan

1. `TickTimeAdapter::setThresholds` and `timerTimeout`, the wake-up behind `Wait` of `timer.ple`: a remaining time of
exactly zero disarms `timer_settime`. Composed with the clocks of `Ogate` it belongs in the run `ogate`.
2. `Executive` with the outcomes of `Docking` in place of its one action, by a refinement that hides the nodes of `dock`.
3. `EditsAsMeant` proved, edit by edit, with the least-counterexample argument of `PathPlannerProofs` for the search of a line.
4. OGATE's `finish` and the other control requests as seen by the loop of `Planner.ple`.
