-------------------------------- MODULE Ogate --------------------------------
(***************************************************************************)
(* The three sorts of threads that share the connections with OGATE: the   *)
(* thread of the executive, which connects and registers as Planner.ple    *)
(* orders and stops the adapters, the client thread of PDDLAdapter, which  *)
(* answers OGATE, and the clock, which start and connect_timer_to_ogate    *)
(* both spawn.  None of the variables they share has a lock.               *)
(***************************************************************************)
EXTENDS OgateLink

CONSTANTS
    MaxPlans, \* bound: plans that come to their end
    MaxTick   \* bound: the tick where the clocks of the model rest

ASSUME OgateAssumption == MaxPlans \in Nat /\ MaxTick \in Nat

Clock == {1, 2}

VARIABLES
    exec,     \* what the executive does: step, client and interface
    stopping, \* adapters that are still to be stopped
    running,  \* planners at work
    plans,    \* plans that came to their end
    thread,   \* client thread: "none", "look", "read", "ended"
    status,   \* what it found out last
    told,     \* the status OGATE was sent last
    clock,    \* of each clock thread, where it is
    seen,     \* the tick each one has read
    tick, threadRunning, finish,
    ticks,    \* ticks sent to OGATE
    raced     \* the second clock was spawned before the first began

execVars == <<exec, stopping, running, plans>>
threadVars == <<thread, status, told>>
clockVars == <<clock, seen, tick, threadRunning, finish, ticks, raced>>
vars == <<linkVars, execVars, threadVars, clockVars>>

Step == {"open", "number", "ask", "ack", "create", "mission", "stop", "join", "stopped"}
At(step, c, i) == [step |-> step, client |-> c, interface |-> i]

(* TickTimeAdapter::start has spawned a clock before the plan begins.      *)
Init ==
    /\ LinkInit
    /\ exec = At("open", "timer", "data")
    /\ stopping = {}
    /\ running = 0 /\ plans = 0
    /\ thread = "none" /\ status = "FINISHED" /\ told = "none"
    /\ clock = [k \in Clock |-> IF k = 1 THEN "test" ELSE "none"]
    /\ seen = [k \in Clock |-> 0]
    /\ tick = 0 /\ threadRunning = FALSE /\ finish = FALSE
    /\ ticks = <<>> /\ raced = FALSE

TypeOK ==
    /\ LinkType
    /\ exec \in [step : Step, client : Client, interface : Interface]
    /\ stopping \subseteq Client
    /\ running \in Int /\ plans \in 0..MaxPlans
    /\ thread \in {"none", "look", "read", "ended"}
    /\ status \in {"RUNNING", "FINISHED", "FAILURE"}
    /\ told \in {"none", "RUNNING", "FINISHED", "FAILURE"}
    /\ clock \in [Clock -> {"none", "test", "raise", "loop", "add", "send", "ended"}]
    /\ seen \in [Clock -> Nat]
    /\ tick \in Nat /\ threadRunning \in BOOLEAN /\ finish \in BOOLEAN
    /\ ticks \in Seq(Nat) /\ raced \in BOOLEAN

-----------------------------------------------------------------------------
(* The executive. *)
AtStep(step) == alive /\ exec.step = step
Goes(step) == exec' = [exec EXCEPT !.step = step]

OpenConnection ==
    /\ AtStep("open")
    /\ Connect(exec.client)
    /\ Goes("number")
    /\ UNCHANGED <<stopping, running, plans, threadVars, clockVars>>

GetNumber ==
    /\ AtStep("number")
    /\ ReadNumber(exec.client)
    /\ Goes("ask")
    /\ UNCHANGED <<stopping, running, plans, threadVars, clockVars>>

AskRegister ==
    /\ AtStep("ask")
    /\ SendRegister(exec.client, exec.interface)
    /\ Goes("ack")
    /\ UNCHANGED <<stopping, running, plans, threadVars, clockVars>>

(* The mission ends when a connection is told to have failed.              *)
MissionEnds == exec' = [exec EXCEPT !.step = "stop"] /\ stopping' = Client

(* The tick adapter has its interface, and spawns a clock. *)
TimerRegistered ==
    /\ AtStep("ack") /\ exec.client = "timer"
    /\ ReadAck("timer", "data")
    /\ IF "data" \in believed'["timer"]
       THEN /\ clock' = [clock EXCEPT ![2] = "test"]
            /\ raced' = ~threadRunning
            /\ exec' = At("create", "planner", "control")
            /\ UNCHANGED stopping
       ELSE MissionEnds /\ UNCHANGED <<clock, raced>>
    /\ UNCHANGED <<running, plans, threadVars, seen, tick, threadRunning, finish, ticks>>

CreatePlanner ==
    /\ AtStep("create")
    /\ running' = running + 1
    /\ Goes("open")
    /\ UNCHANGED <<linkVars, stopping, plans, threadVars, clockVars>>

(* The client thread is spawned before the other interface is registered.  *)
ControlRegistered ==
    /\ AtStep("ack") /\ exec.client = "planner" /\ exec.interface = "control"
    /\ ReadAck("planner", "control")
    /\ IF "control" \in believed'["planner"]
       THEN thread' = "look"
       ELSE UNCHANGED thread
    /\ exec' = At("ask", "planner", "data")
    /\ UNCHANGED <<stopping, running, plans, status, told, clockVars>>

DataRegistered ==
    /\ AtStep("ack") /\ exec.client = "planner" /\ exec.interface = "data"
    /\ ReadAck("planner", "data")
    /\ IF "data" \in believed'["planner"]
       THEN Goes("mission") /\ UNCHANGED stopping
       ELSE MissionEnds
    /\ UNCHANGED <<running, plans, threadVars, clockVars>>

(* Observations and metrics. *)
SendData ==
    /\ AtStep("mission")
    /\ \E c \in Client : hasDataInterface(c)
    /\ Written
    /\ UNCHANGED <<up, link, numbered, believed, asked, registered, wire, requests,
                   execVars, threadVars, clockVars>>

(* next_action gives the end of a plan; a new one does not count again.    *)
PlanEnds ==
    /\ AtStep("mission")
    /\ plans < MaxPlans
    /\ plans' = plans + 1
    /\ running' = running - 1
    /\ UNCHANGED <<linkVars, exec, stopping, threadVars, clockVars>>

EndMission ==
    /\ AtStep("mission")
    /\ MissionEnds
    /\ UNCHANGED <<linkVars, running, plans, threadVars, clockVars>>

-----------------------------------------------------------------------------
(* The adapters are stopped, in an order the executive does not fix.       *)
StopTimer ==
    /\ AtStep("stop") /\ "timer" \in stopping
    /\ finish' = TRUE
    /\ stopping' = stopping \ {"timer"}
    /\ UNCHANGED <<linkVars, exec, running, plans, threadVars, clock, seen, tick,
                   threadRunning, ticks, raced>>

StopPlanner ==
    /\ AtStep("stop") /\ "planner" \in stopping
    /\ running' = 0
    /\ IF hasControlInterface("planner") THEN Written /\ told' = "FINISHED"
       ELSE UNCHANGED <<alive, told>>
    /\ Goes("join")
    /\ UNCHANGED <<up, link, numbered, believed, asked, registered, wire, requests,
                   stopping, plans, thread, status, clockVars>>

(* To join a thread that was never spawned is undefined. *)
Join ==
    /\ AtStep("join")
    /\ thread \in {"none", "ended"}
    /\ IF thread = "none" THEN alive' \in BOOLEAN ELSE alive' = alive
    /\ stopping' = stopping \ {"planner"}
    /\ Goes("stop")
    /\ UNCHANGED <<up, link, numbered, believed, asked, registered, wire, requests,
                   running, plans, threadVars, clockVars>>

Stopped ==
    /\ AtStep("stop") /\ stopping = {}
    /\ finish' = TRUE
    /\ Goes("stopped")
    /\ UNCHANGED <<linkVars, stopping, running, plans, threadVars, clock, seen, tick,
                   threadRunning, ticks, raced>>

Executive ==
    \/ OpenConnection \/ GetNumber \/ AskRegister
    \/ TimerRegistered \/ CreatePlanner \/ ControlRegistered \/ DataRegistered
    \/ SendData \/ PlanEnds \/ EndMission
    \/ StopTimer \/ StopPlanner \/ Join \/ Stopped

-----------------------------------------------------------------------------
(* ogateClientThread: the status is read, then a message, and the answer   *)
(* gives the status that was read.  A goal goes to the problem (module     *)
(* Executive); any other message is dropped.                               *)
StatusOffByOne == IF running > 1 THEN "RUNNING" ELSE "FINISHED"
Status == IF running > 0 THEN "RUNNING" ELSE "FINISHED"

Look ==
    /\ alive /\ thread = "look"
    /\ status' = Status
    /\ IF Status = "FINISHED" THEN Written /\ told' = Status ELSE UNCHANGED <<alive, told>>
    /\ thread' = "read"
    /\ UNCHANGED <<up, link, numbered, believed, asked, registered, wire, requests,
                   execVars, clockVars>>

Answer(m) ==
    \/ /\ m = "status"
       /\ told' = status /\ Written
       /\ thread' = "look"
       /\ UNCHANGED status
    \/ /\ m = "finish"
       /\ status' = IF status = "RUNNING" THEN "FAILURE" ELSE status
       /\ told' = status' /\ Written
       /\ thread' = "ended"
    \/ /\ m \notin {"status", "finish"}
       /\ thread' = "look"
       /\ UNCHANGED <<status, told, alive>>

Read ==
    /\ alive /\ thread = "read"
    /\ IF Receives("planner") /\ Arrived("planner")
       THEN Taken("planner") /\ Answer(Head(wire["planner"]))
       ELSE thread' = "look" /\ UNCHANGED <<wire, status, told, alive>>
    /\ UNCHANGED <<up, link, numbered, believed, asked, registered, requests,
                   execVars, clockVars>>

-----------------------------------------------------------------------------
(* internalClockThread. *)
MovesTo(k, step) == clock' = [clock EXCEPT ![k] = step]

Untested(k) == "raise"
Tested(k) == IF threadRunning THEN "ended" ELSE "raise"

ClockTest(k) ==
    /\ clock[k] = "test"
    /\ MovesTo(k, Tested(k))
    /\ UNCHANGED <<linkVars, seen, tick, threadRunning, finish, ticks, raced>>

ClockRaise(k) ==
    /\ clock[k] = "raise"
    /\ threadRunning' = TRUE
    /\ MovesTo(k, "loop")
    /\ UNCHANGED <<linkVars, seen, tick, finish, ticks, raced>>

(* tick++ reads the tick and writes it in two steps. *)
ClockLoop(k) ==
    /\ clock[k] = "loop"
    /\ IF finish THEN MovesTo(k, "ended") /\ UNCHANGED seen
       ELSE /\ tick < MaxTick
            /\ seen' = [seen EXCEPT ![k] = tick]
            /\ MovesTo(k, "add")
    /\ UNCHANGED <<linkVars, tick, threadRunning, finish, ticks, raced>>

ClockAdd(k) ==
    /\ clock[k] = "add"
    /\ tick' = seen[k] + 1
    /\ seen' = [seen EXCEPT ![k] = 0]
    /\ MovesTo(k, "send")
    /\ UNCHANGED <<linkVars, threadRunning, finish, ticks, raced>>

ClockSend(k) ==
    /\ clock[k] = "send"
    /\ IF hasDataInterface("timer") THEN ticks' = Append(ticks, tick) /\ Written
       ELSE UNCHANGED <<ticks, alive>>
    /\ MovesTo(k, "loop")
    /\ UNCHANGED <<up, link, numbered, believed, asked, registered, wire, requests, seen,
                   tick, threadRunning, finish, raced>>

ClockSteps(k) == ClockTest(k) \/ ClockRaise(k) \/ ClockLoop(k) \/ ClockAdd(k) \/ ClockSend(k)
Clocks == /\ alive
          /\ \E k \in Clock : ClockSteps(k)
          /\ UNCHANGED <<execVars, threadVars>>

-----------------------------------------------------------------------------
Server == OgateServer /\ UNCHANGED <<execVars, threadVars, clockVars>>

Next == Executive \/ Look \/ Read \/ Clocks \/ Server

(* The operating system runs the thread of the executive, which stops      *)
(* adapters one by one, and the client thread, which never blocks.         *)
Fairness ==
    /\ WF_vars(StopTimer) /\ WF_vars(StopPlanner) /\ WF_vars(Join) /\ WF_vars(Stopped)
    /\ WF_vars(Look) /\ WF_vars(Read)

Spec == Init /\ [][Next]_vars /\ Fairness

-----------------------------------------------------------------------------
(* A client takes an interface as registered only when OGATE registered    *)
(* it, and a mission goes on only with all of them: although the client    *)
(* thread reads the same socket, no other message is taken for the         *)
(* acknowledgement that registerDataInterface waits for.                   *)
InterfacesAgree ==
    /\ \A c \in Client : believed[c] \subseteq registered[c]
    /\ exec.step = "mission" =>
          "data" \in registered["timer"] /\ registered["planner"] = Interface

(* OGATE is told that the component finished only when no planner works,   *)
(* however old the status is when it is sent.                              *)
StatusIsTrue == told = "FINISHED" => running <= 0

(* stop() ends once OGATE's request to finish is on its way to the client  *)
(* thread, which tells OGATE how it ends: also when the registration of    *)
(* the data interface has failed, and after other requests.                *)
Finishing ==
    /\ exec.step = "stop" /\ thread # "none"
    /\ thread = "ended" \/ \E k \in DOMAIN wire["planner"] : wire["planner"][k] = "finish"
StopEnds ==
    Finishing ~> ~alive \/ (exec.step = "stopped" /\ told \in {"FINISHED", "FAILURE"})

(* If the first clock has begun when connect_timer_to_ogate spawns the     *)
(* second, OGATE gets each tick once and none is left out: two threads     *)
(* never count together.                                                   *)
TicksInOrder ==
    ~raced => \A n \in 1..Len(ticks) - 1 : ticks[n + 1] = ticks[n] + 1
=============================================================================
