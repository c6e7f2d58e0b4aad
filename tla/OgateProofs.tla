----------------------------- MODULE OgateProofs -----------------------------
(***************************************************************************)
(* The safety properties of Ogate, for any number of requests, plans and   *)
(* ticks.  An interface taken as registered follows from what is on its    *)
(* way to a client (LinkInv) and from how far the executive has come       *)
(* (PhaseInv); the status from who may still raise running (StatusInv);    *)
(* the ticks from the second clock, which ends at its test (ClockInv).     *)
(***************************************************************************)
EXTENDS Ogate, TLAPS

(* The executive connects and registers. *)
Going == {"open", "number", "ask", "ack", "create", "mission"}
TimerPhase == exec.step \in Going /\ exec.client = "timer"
ControlPhase == exec.step \in Going /\ exec.client = "planner" /\ exec.interface = "control"
DataPhase == exec.step \in Going /\ exec.client = "planner" /\ exec.interface = "data"

(* An acknowledgement is on its way only of what OGATE registered. *)
LinkInv ==
    \A c \in Client :
        /\ believed[c] \subseteq registered[c]
        /\ \A k \in DOMAIN wire[c] :
              wire[c][k] \in Interface => wire[c][k] \in registered[c]

(* Nothing of the planner's connection is used before its turn comes. *)
Fresh == asked["planner"] = <<>> /\ registered["planner"] = {}

PhaseInv ==
    /\ TimerPhase =>
          /\ exec.step \in {"open", "number", "ask", "ack"} /\ exec.interface = "data"
          /\ Fresh /\ wire["planner"] = <<>>
          /\ believed["timer"] = {} /\ believed["planner"] = {}
    /\ ControlPhase =>
          /\ exec.step # "mission" /\ believed["planner"] = {}
          /\ "data" \in believed["timer"]
          /\ exec.step # "ack" => Fresh
          /\ exec.step \in {"create", "open", "ask"} => wire["planner"] = <<>>
          /\ exec.step = "number" => wire["planner"] \in {<<>>, <<"number">>}
          /\ exec.step = "ack" =>
                /\ \A k \in DOMAIN asked["planner"] : asked["planner"][k] = "control"
                /\ "control" \in registered["planner"] \/ wire["planner"] = <<>>
    /\ DataPhase =>
          /\ exec.step \in {"ask", "ack", "mission"}
          /\ "data" \in believed["timer"]
          /\ \/ "control" \in registered["planner"]
             \/ exec.step # "mission" /\ ~up /\ wire["planner"] = <<>>
                /\ believed["planner"] = {}
          /\ exec.step = "mission" => "data" \in believed["planner"]

(* No planner starts to work after the client thread has. *)
StatusInv ==
    /\ TimerPhase \/ ControlPhase => thread = "none" /\ told = "none"
    /\ thread = "read" /\ status = "FINISHED" => running <= 0
    /\ told = "FINISHED" => running <= 0

(* One clock counts, and sends what it has counted once it may. *)
Sending ==
    /\ hasDataInterface("timer")
    /\ \/ clock[1] \in {"loop", "add", "ended"} /\ ticks[Len(ticks)] = tick
       \/ clock[1] = "send" /\ ticks[Len(ticks)] = tick - 1

ClockInv ==
    /\ TimerPhase => ~raced /\ clock[2] = "none"
    /\ ~raced =>
          /\ clock[2] \in {"none", "test", "ended"}
          /\ clock[2] = "test" => threadRunning
          /\ clock[1] = "add" => seen[1] = tick
          /\ ticks # <<>> => Sending
    /\ TicksInOrder

IInv == TypeOK /\ LinkInv /\ PhaseInv /\ StatusInv /\ ClockInv

-----------------------------------------------------------------------------
(* Types. *)
LEMMA InitIInv == Init => IInv
  <1> SUFFICES ASSUME Init PROVE IInv
    OBVIOUS
  <1>1. TypeOK
    <2>1. LinkType
      BY MaxRequestsAssumption DEF Init, LinkInit, LinkType
    <2>2. plans \in 0..MaxPlans /\ ticks \in Seq(Nat) /\ running \in Int
      BY OgateAssumption DEF Init
    <2> QED
      BY <2>1, <2>2 DEF Init, TypeOK, At, Step, Client, Interface, Clock
  <1>2. LinkInv
    BY DEF Init, LinkInit, LinkInv, Client
  <1>3. PhaseInv
    BY DEF Init, LinkInit, PhaseInv, TimerPhase, ControlPhase, DataPhase, At, Client, Fresh,
           Going
  <1>4. StatusInv
    BY DEF Init, StatusInv, TimerPhase, ControlPhase, At
  <1>5. ClockInv
    BY DEF Init, ClockInv, TimerPhase, At, Clock, TicksInOrder
  <1> QED
    BY <1>1, <1>2, <1>3, <1>4, <1>5 DEF IInv

(* What is told of a write keeps the type of alive. *)
LEMMA WrittenType == alive \in BOOLEAN /\ Written => alive' \in BOOLEAN
  BY DEF Written

(* What is read is no longer on its way. *)
LEMMA TakenType ==
    ASSUME NEW c \in Client, TypeOK, Arrived(c), Taken(c)
    PROVE  wire' \in [Client -> Seq(Message)] /\ Head(wire[c]) \in Message
  <1>1. wire \in [Client -> Seq(Message)] /\ wire[c] \in Seq(Message) /\ wire[c] # <<>>
    BY DEF TypeOK, LinkType, Arrived
  <1>2. Tail(wire[c]) \in Seq(Message) /\ Head(wire[c]) \in Message
    BY <1>1
  <1> QED
    BY <1>1, <1>2 DEF Taken

LEMMA ExecutiveType == TypeOK /\ Executive => TypeOK'
  <1> SUFFICES ASSUME TypeOK, Executive PROVE TypeOK'
    OBVIOUS
  <1>a. alive \in BOOLEAN
    BY DEF TypeOK, LinkType
  <1>1. CASE OpenConnection
    <2>1. wire' \in [Client -> Seq(Message)]
      BY <1>1 DEF OpenConnection, Connect, TypeOK, LinkType, Message, Client
    <2> QED
      BY <1>1, <2>1, ZenonT(60)
         DEF OpenConnection, Connect, Goes, Step, TypeOK, LinkType, threadVars, clockVars
  <1>2. CASE GetNumber
    <2>1. wire' \in [Client -> Seq(Message)] /\ numbered' \subseteq Client
      BY <1>2, TakenType DEF GetNumber, ReadNumber, TypeOK, LinkType
    <2> QED
      BY <1>2, <2>1, ZenonT(60)
         DEF GetNumber, ReadNumber, Goes, Step, TypeOK, LinkType, threadVars, clockVars
  <1>3. CASE AskRegister
    <2>1. asked' \in [Client -> Seq(Interface)]
      BY <1>3 DEF AskRegister, SendRegister, TypeOK, LinkType
    <2> QED
      BY <1>3, <1>a, <2>1, WrittenType
        DEF AskRegister, SendRegister, Goes, Step, TypeOK, LinkType, threadVars, clockVars
  <1>4. ASSUME NEW c \in Client, NEW i \in Interface, ReadAck(c, i)
        PROVE  LinkType'
    <2>1. wire' \in [Client -> Seq(Message)]
      BY <1>4, TakenType DEF ReadAck, TypeOK, LinkType
    <2>2. believed \in [Client -> SUBSET Interface] /\ believed[c] \cup {i} \in SUBSET Interface
      BY DEF TypeOK, LinkType
    <2>3. believed' \in [Client -> SUBSET Interface]
      BY <1>4, <2>2 DEF ReadAck
    <2> QED
      BY <1>4, <2>1, <2>3 DEF ReadAck, TypeOK, LinkType
  <1>5. CASE TimerRegistered
    <2>1. LinkType'
      BY <1>4, <1>5 DEF TimerRegistered, Client, Interface
    <2>2. clock' \in [Clock -> {"none", "test", "raise", "loop", "add", "send", "ended"}]
      BY <1>5 DEF TimerRegistered, TypeOK
    <2>3. raced' \in BOOLEAN
      BY <1>5 DEF TimerRegistered, TypeOK
    <2>4. stopping' \subseteq Client
      BY <1>5 DEF TimerRegistered, MissionEnds, TypeOK
    <2>5. exec' \in [step : Step, client : Client, interface : Interface]
      BY <1>5 DEF TimerRegistered, MissionEnds, At, Step, Client, Interface, TypeOK
    <2> QED
      BY <1>5, <2>1, <2>2, <2>3, <2>4, <2>5 DEF TimerRegistered, TypeOK, threadVars
  <1>6. CASE CreatePlanner
    <2>1. running' \in Int
      BY <1>6 DEF CreatePlanner, TypeOK
    <2> QED
      BY <1>6, <2>1, ZenonT(60)
         DEF CreatePlanner, Goes, Step, TypeOK, LinkType, linkVars, threadVars,
                        clockVars
  <1>7. CASE ControlRegistered
    <2>1. LinkType'
      BY <1>4, <1>7 DEF ControlRegistered, Client, Interface
    <2> QED
      BY <1>7, <2>1 DEF ControlRegistered, At, Step, Client, Interface, TypeOK, clockVars
  <1>8. CASE DataRegistered
    <2>1. LinkType'
      BY <1>4, <1>8 DEF DataRegistered, Client, Interface
    <2> QED
      BY <1>8, <2>1 DEF DataRegistered, MissionEnds, Goes, Step, Client, TypeOK, threadVars,
                        clockVars
  <1>9. CASE SendData
    BY <1>9, <1>a, WrittenType
      DEF SendData, TypeOK, LinkType, execVars, threadVars, clockVars
  <1>10. CASE PlanEnds
    BY <1>10, OgateAssumption DEF PlanEnds, TypeOK, LinkType, linkVars, threadVars, clockVars
  <1>11. CASE EndMission
    BY <1>11, ZenonT(60)
       DEF EndMission, MissionEnds, Step, TypeOK, LinkType, linkVars, threadVars, clockVars
  <1>12. CASE StopTimer
    BY <1>12 DEF StopTimer, TypeOK, LinkType, linkVars, threadVars
  <1>13. CASE StopPlanner
    <2>1. running' \in Int
      BY <1>13 DEF StopPlanner
    <2>2. alive' \in BOOLEAN /\ told' \in {"none", "RUNNING", "FINISHED", "FAILURE"}
      BY <1>13, <1>a, WrittenType DEF StopPlanner, TypeOK
    <2> QED
      BY <1>13, <2>1, <2>2 DEF StopPlanner, Goes, Step, TypeOK, LinkType, clockVars
  <1>14. CASE Join
    BY <1>14, <1>a DEF Join, Goes, Step, TypeOK, LinkType, threadVars, clockVars
  <1>15. CASE Stopped
    BY <1>15, ZenonT(60) DEF Stopped, Goes, Step, TypeOK, LinkType, linkVars, threadVars
  <1> QED
    BY <1>1, <1>2, <1>3, <1>5, <1>6, <1>7, <1>8, <1>9, <1>10, <1>11, <1>12, <1>13, <1>14,
       <1>15 DEF Executive

LEMMA ThreadType == TypeOK /\ (Look \/ Read) => TypeOK'
  <1> SUFFICES ASSUME TypeOK, Look \/ Read PROVE TypeOK'
    OBVIOUS
  <1>a. alive \in BOOLEAN
    BY DEF TypeOK, LinkType
  <1>1. CASE Look
    BY <1>1, <1>a, WrittenType DEF Look, Status, TypeOK, LinkType, execVars, clockVars
  <1>2. CASE Read
    <2>1. wire' \in [Client -> Seq(Message)]
      BY <1>2, TakenType DEF Read, TypeOK, LinkType, Client
    <2>2. /\ status' \in {"RUNNING", "FINISHED", "FAILURE"}
          /\ told' \in {"none", "RUNNING", "FINISHED", "FAILURE"}
          /\ thread' \in {"look", "ended"} /\ alive' \in BOOLEAN
      BY <1>2, <1>a, WrittenType DEF Read, Answer, TypeOK
    <2> QED
      BY <1>2, <2>1, <2>2 DEF Read, TypeOK, LinkType, execVars, clockVars
  <1> QED
    BY <1>1, <1>2

LEMMA ClocksType == TypeOK /\ Clocks => TypeOK'
  <1> SUFFICES ASSUME TypeOK, Clocks PROVE TypeOK'
    OBVIOUS
  <1>a. alive \in BOOLEAN
    BY DEF TypeOK, LinkType
  <1>1. PICK k \in Clock : ClockSteps(k) /\ UNCHANGED <<execVars, threadVars>>
    BY DEF Clocks
  <1>2. CASE ClockTest(k)
    BY <1>1, <1>2 DEF ClockTest, MovesTo, Tested, TypeOK, LinkType, linkVars, execVars, threadVars
  <1>3. CASE ClockRaise(k)
    BY <1>1, <1>3 DEF ClockRaise, MovesTo, TypeOK, LinkType, linkVars, execVars, threadVars
  <1>4. CASE ClockLoop(k)
    BY <1>1, <1>4, ZenonT(60)
       DEF ClockLoop, MovesTo, TypeOK, LinkType, linkVars, execVars, threadVars
  <1>5. CASE ClockAdd(k)
    BY <1>1, <1>5 DEF ClockAdd, MovesTo, TypeOK, LinkType, linkVars, execVars, threadVars
  <1>6. CASE ClockSend(k)
    <2>0. ticks \in Seq(Nat) /\ tick \in Nat
      BY DEF TypeOK
    <2>1. ticks' \in Seq(Nat)
      <3>1. Append(ticks, tick) \in Seq(Nat)
        BY <2>0
      <3> QED
        BY <1>6, <2>0, <3>1 DEF ClockSend
    <2>2. alive' \in BOOLEAN
      BY <1>6, <1>a, WrittenType DEF ClockSend
    <2> QED
      BY <1>1, <1>6, <2>1, <2>2
        DEF ClockSend, MovesTo, TypeOK, LinkType, execVars, threadVars
  <1> QED
    BY <1>1, <1>2, <1>3, <1>4, <1>5, <1>6 DEF ClockSteps

LEMMA ServerType == TypeOK /\ Server => TypeOK'
  <1> SUFFICES ASSUME TypeOK, Server PROVE TypeOK'
    OBVIOUS
  <1>1. UNCHANGED <<execVars, threadVars, clockVars>>
    BY DEF Server
  <1>2. CASE \E c \in Client : OgateRegisters(c)
    <2>1. PICK c \in Client : OgateRegisters(c)
      BY <1>2
    <2>2. Head(asked[c]) \in Interface /\ Tail(asked[c]) \in Seq(Interface)
      BY <2>1 DEF OgateRegisters, TypeOK, LinkType
    <2>3. Head(asked[c]) \in Message
      BY <2>2 DEF Message
    <2>4. /\ wire' \in [Client -> Seq(Message)] /\ asked' \in [Client -> Seq(Interface)]
          /\ registered' \in [Client -> SUBSET Interface]
      BY <2>1, <2>2, <2>3 DEF OgateRegisters, TypeOK, LinkType
    <2> QED
      BY <1>1, <2>1, <2>4 DEF OgateRegisters, TypeOK, LinkType, execVars, threadVars, clockVars
  <1>3. CASE \E m \in Request : OgateAsks(m)
    <2>1. PICK m \in Request : OgateAsks(m)
      BY <1>3
    <2>2. m \in Message
      BY <2>1 DEF Message
    <2>a. wire \in [Client -> Seq(Message)] /\ Append(wire["planner"], m) \in Seq(Message)
      BY <2>2 DEF TypeOK, LinkType, Client
    <2>b. wire' \in [Client -> Seq(Message)]
      BY <2>1, <2>a DEF OgateAsks
    <2>3. wire' \in [Client -> Seq(Message)] /\ requests' \in 0..MaxRequests
      BY <2>1, <2>b, MaxRequestsAssumption DEF OgateAsks, TypeOK, LinkType
    <2> QED
      BY <1>1, <2>1, <2>3 DEF OgateAsks, TypeOK, LinkType, execVars, threadVars, clockVars
  <1>4. CASE OgateLeaves
    BY <1>1, <1>4 DEF OgateLeaves, TypeOK, LinkType, execVars, threadVars, clockVars
  <1> QED
    BY <1>2, <1>3, <1>4 DEF Server, OgateServer

LEMMA TypeStep == TypeOK /\ [Next]_vars => TypeOK'
  <1>1. TypeOK /\ UNCHANGED vars => TypeOK'
    BY DEF TypeOK, LinkType, vars, linkVars, execVars, threadVars, clockVars
  <1> QED
    BY <1>1, ExecutiveType, ThreadType, ClocksType, ServerType DEF Next

-----------------------------------------------------------------------------
(* What is on its way. *)
LEMMA TakenLink ==
    ASSUME NEW c \in Client, TypeOK, LinkInv, Arrived(c), Taken(c), registered' = registered
    PROVE  /\ \A d \in Client : \A k \in DOMAIN wire'[d] :
                  wire'[d][k] \in Interface => wire'[d][k] \in registered'[d]
           /\ Head(wire[c]) \in Interface => Head(wire[c]) \in registered[c]
  <1>1. wire \in [Client -> Seq(Message)] /\ wire[c] \in Seq(Message) /\ wire[c] # <<>>
    BY DEF TypeOK, LinkType, Arrived
  <1>2. /\ 1 \in DOMAIN wire[c] /\ Head(wire[c]) = wire[c][1]
        /\ \A k \in DOMAIN Tail(wire[c]) :
              k + 1 \in DOMAIN wire[c] /\ Tail(wire[c])[k] = wire[c][k + 1]
    BY <1>1
  <1>3. /\ wire'[c] = Tail(wire[c])
        /\ \A d \in Client \ {c} : wire'[d] = wire[d]
    BY <1>1 DEF Taken
  <1>4. \A k \in DOMAIN wire[c] : wire[c][k] \in Interface => wire[c][k] \in registered[c]
    BY DEF LinkInv
  <1>5. ASSUME NEW d \in Client, NEW k \in DOMAIN wire'[d], wire'[d][k] \in Interface
        PROVE  wire'[d][k] \in registered'[d]
    <2>1. CASE d = c
      BY <1>2, <1>3, <1>4, <1>5, <2>1
    <2>2. CASE d # c
      BY <1>3, <1>5, <2>2 DEF LinkInv
    <2> QED
      BY <2>1, <2>2
  <1> QED
    BY <1>2, <1>4, <1>5

LEMMA SentLink ==
    ASSUME NEW c \in Client, NEW m \in Message, TypeOK, LinkInv,
           wire' = [wire EXCEPT ![c] = Append(@, m)],
           \A d \in Client : registered[d] \subseteq registered'[d],
           m \in Interface => m \in registered'[c]
    PROVE  \A d \in Client : \A k \in DOMAIN wire'[d] :
              wire'[d][k] \in Interface => wire'[d][k] \in registered'[d]
  <1>1. wire \in [Client -> Seq(Message)] /\ wire[c] \in Seq(Message)
    BY DEF TypeOK, LinkType
  <1>2. \A k \in DOMAIN Append(wire[c], m) :
            \/ k \in DOMAIN wire[c] /\ Append(wire[c], m)[k] = wire[c][k]
            \/ Append(wire[c], m)[k] = m
    BY <1>1
  <1>3. /\ wire'[c] = Append(wire[c], m)
        /\ \A d \in Client \ {c} : wire'[d] = wire[d]
    BY <1>1
  <1> QED
    BY <1>2, <1>3 DEF LinkInv

LEMMA AckLink ==
    ASSUME NEW c \in Client, NEW i \in Interface, TypeOK, LinkInv, ReadAck(c, i)
    PROVE  LinkInv'
  <1>1. /\ believed \in [Client -> SUBSET Interface] /\ registered' = registered
    BY DEF TypeOK, LinkType, ReadAck
  <1>2. CASE Arrived(c) /\ Taken(c)
    <2>1. /\ \A d \in Client : \A k \in DOMAIN wire'[d] :
                 wire'[d][k] \in Interface => wire'[d][k] \in registered'[d]
          /\ Head(wire[c]) \in Interface => Head(wire[c]) \in registered[c]
      BY <1>1, <1>2, TakenLink
    <2>2. \/ believed' = believed
          \/ Head(wire[c]) = i /\ believed' = [believed EXCEPT ![c] = @ \cup {i}]
      BY <1>2 DEF ReadAck, Acknowledges
    <2>3. \A d \in Client : believed'[d] \subseteq registered[d]
      BY <1>1, <2>1, <2>2 DEF LinkInv
    <2> QED
      BY <1>1, <2>1, <2>3 DEF LinkInv
  <1>3. CASE UNCHANGED <<wire, believed>>
    BY <1>1, <1>3 DEF LinkInv
  <1> QED
    BY <1>2, <1>3 DEF ReadAck

LEMMA LinkStep == TypeOK /\ LinkInv /\ [Next]_vars => LinkInv'
  <1> SUFFICES ASSUME TypeOK, LinkInv, [Next]_vars PROVE LinkInv'
    OBVIOUS
  <1>0. /\ wire \in [Client -> Seq(Message)] /\ registered \in [Client -> SUBSET Interface]
        /\ asked \in [Client -> Seq(Interface)] /\ exec.client \in Client
    BY DEF TypeOK, LinkType
  <1>1. CASE OpenConnection
    <2>1. CASE up
      <3>1. "number" \in Message /\ "number" \notin Interface
        BY DEF Message, Interface
      <3>2. /\ wire' = [wire EXCEPT ![exec.client] = Append(@, "number")]
            /\ registered' = registered /\ believed' = believed
        BY <1>1, <2>1 DEF OpenConnection, Connect
      <3>3. \A d \in Client : \A k \in DOMAIN wire'[d] :
                wire'[d][k] \in Interface => wire'[d][k] \in registered'[d]
        BY <1>0, <3>1, <3>2, SentLink
      <3> QED
        BY <3>2, <3>3 DEF LinkInv
    <2>2. CASE ~up
      BY <1>1, <2>2 DEF OpenConnection, Connect, LinkInv
    <2> QED
      BY <2>1, <2>2
  <1>2. CASE GetNumber
    <2>1. /\ Arrived(exec.client) /\ Taken(exec.client)
          /\ registered' = registered /\ believed' = believed
      BY <1>2 DEF GetNumber, ReadNumber
    <2> QED
      BY <1>0, <2>1, TakenLink DEF LinkInv
  <1>3. CASE TimerRegistered \/ ControlRegistered \/ DataRegistered
    BY <1>3, AckLink DEF TimerRegistered, ControlRegistered, DataRegistered, Client, Interface
  <1>4. CASE Read
    <2>1. registered' = registered /\ believed' = believed
      BY <1>4 DEF Read
    <2>2. CASE wire' = wire
      BY <2>1, <2>2 DEF LinkInv
    <2>3. CASE Arrived("planner") /\ Taken("planner")
      BY <2>1, <2>3, TakenLink DEF LinkInv, Client
    <2> QED
      BY <1>4, <2>2, <2>3 DEF Read
  <1>5. CASE Server
    <2>1. ASSUME NEW c \in Client, OgateRegisters(c) PROVE LinkInv'
      <3>1. Head(asked[c]) \in Interface /\ Head(asked[c]) \in Message
        BY <1>0, <2>1 DEF OgateRegisters, Message
      <3>2. /\ registered' = [registered EXCEPT ![c] = @ \cup {Head(asked[c])}]
            /\ wire' = [wire EXCEPT ![c] = Append(@, Head(asked[c]))] /\ believed' = believed
        BY <2>1 DEF OgateRegisters
      <3>3. /\ \A d \in Client : registered[d] \subseteq registered'[d]
            /\ Head(asked[c]) \in registered'[c]
        BY <1>0, <3>2
      <3>4. \A d \in Client : \A k \in DOMAIN wire'[d] :
                wire'[d][k] \in Interface => wire'[d][k] \in registered'[d]
        BY <3>1, <3>2, <3>3, SentLink
      <3> QED
        BY <3>2, <3>3, <3>4 DEF LinkInv
    <2>2. ASSUME NEW m \in Request, OgateAsks(m) PROVE LinkInv'
      <3>1. m \in Message /\ m \notin Interface /\ "planner" \in Client
        BY DEF Message, Request, Interface, Client
      <3>2. /\ wire' = [wire EXCEPT !["planner"] = Append(@, m)]
            /\ registered' = registered /\ believed' = believed
        BY <2>2 DEF OgateAsks
      <3>3. \A d \in Client : \A k \in DOMAIN wire'[d] :
                wire'[d][k] \in Interface => wire'[d][k] \in registered'[d]
        BY <3>1, <3>2, SentLink
      <3> QED
        BY <3>2, <3>3 DEF LinkInv
    <2>3. CASE OgateLeaves
      BY <2>3 DEF OgateLeaves, LinkInv
    <2> QED
      BY <1>5, <2>1, <2>2, <2>3 DEF Server, OgateServer
  <1>6. CASE UNCHANGED <<believed, registered, wire>>
    BY <1>6 DEF LinkInv
  <1>7. ASSUME Clocks PROVE UNCHANGED <<believed, registered, wire>>
    BY <1>7 DEF Clocks, ClockSteps, ClockTest, ClockRaise, ClockLoop, ClockAdd, ClockSend,
                linkVars
  <1>8. ASSUME AskRegister \/ CreatePlanner \/ SendData \/ PlanEnds \/ EndMission
               \/ StopTimer \/ StopPlanner \/ Join \/ Stopped \/ Look \/ UNCHANGED vars
        PROVE  UNCHANGED <<believed, registered, wire>>
    BY <1>8 DEF AskRegister, SendRegister, CreatePlanner, SendData, PlanEnds, EndMission,
       StopTimer, StopPlanner, Join, Stopped, Look, vars, linkVars
  <1> QED
    BY <1>1, <1>2, <1>3, <1>4, <1>5, <1>6, <1>7, <1>8 DEF Next, Executive

-----------------------------------------------------------------------------
(* How far the executive has come. *)
phaseVars == <<exec, asked, registered, wire, believed, up>>

LEMMA PhaseExecutive == TypeOK /\ PhaseInv /\ Executive => PhaseInv'
  <1> SUFFICES ASSUME TypeOK, PhaseInv, Executive PROVE PhaseInv'
    OBVIOUS
  <1>0. /\ exec \in [step : Step, client : Client, interface : Interface]
        /\ wire \in [Client -> Seq(Message)] /\ registered \in [Client -> SUBSET Interface]
        /\ asked \in [Client -> Seq(Interface)] /\ believed \in [Client -> SUBSET Interface]
        /\ "planner" \in Client /\ "timer" \in Client
        /\ \A c \in Client : c = "timer" \/ c = "planner"
        /\ \A i \in Interface : i = "control" \/ i = "data"
    BY DEF TypeOK, LinkType, Client, Interface
  <1>1. CASE OpenConnection
    <2>1. /\ exec.step = "open" /\ exec' = [exec EXCEPT !.step = "number"]
          /\ UNCHANGED <<asked, registered, believed, up>>
          /\ exec.client # "planner" => wire'["planner"] = wire["planner"]
          /\ exec.client = "planner" /\ wire["planner"] = <<>> =>
                wire'["planner"] \in {<<>>, <<"number">>}
      <3>1. wire["planner"] = <<>> => Append(wire["planner"], "number") = <<"number">>
        OBVIOUS
      <3>2. \/ wire' = wire
            \/ wire' = [wire EXCEPT ![exec.client] = Append(wire[exec.client], "number")]
        BY <1>1 DEF OpenConnection, Connect
      <3>3. \/ wire'["planner"] = wire["planner"]
            \/ exec.client = "planner" /\ wire'["planner"] = Append(wire["planner"], "number")
        BY <1>0, <3>2
      <3> QED
        BY <1>0, <1>1, <3>1, <3>3 DEF OpenConnection, AtStep, Goes, Connect
    <2> QED
      BY <1>0, <2>1 DEF PhaseInv, TimerPhase, ControlPhase, DataPhase, Fresh, Going
  <1>2. CASE GetNumber
    <2>1. /\ exec.step = "number" /\ exec' = [exec EXCEPT !.step = "ask"]
          /\ UNCHANGED <<asked, registered, believed, up>>
          /\ exec.client # "planner" => wire'["planner"] = wire["planner"]
          /\ exec.client = "planner" /\ wire["planner"] \in {<<>>, <<"number">>} =>
                wire'["planner"] = <<>>
      <3>1. wire["planner"] = <<"number">> => Tail(wire["planner"]) = <<>>
        OBVIOUS
      <3>2. /\ wire' = [wire EXCEPT ![exec.client] = Tail(wire[exec.client])]
            /\ wire[exec.client] # <<>>
        BY <1>2 DEF GetNumber, ReadNumber, Arrived, Taken
      <3>3. /\ exec.client # "planner" => wire'["planner"] = wire["planner"]
            /\ exec.client = "planner" => wire'["planner"] = Tail(wire["planner"])
        BY <1>0, <3>2
      <3> QED
        BY <1>0, <1>2, <3>1, <3>2, <3>3 DEF GetNumber, AtStep, Goes, ReadNumber
    <2> QED
      BY <1>0, <2>1 DEF PhaseInv, TimerPhase, ControlPhase, DataPhase, Fresh, Going
  <1>3. CASE AskRegister
    <2>1. /\ exec.step = "ask" /\ exec' = [exec EXCEPT !.step = "ack"]
          /\ UNCHANGED <<registered, believed, up, wire>>
          /\ exec.client # "planner" => asked'["planner"] = asked["planner"]
          /\ exec.client = "planner" /\ asked["planner"] = <<>> =>
                asked'["planner"] \in {<<>>, <<exec.interface>>}
      <3>1. asked["planner"] = <<>> =>
               Append(asked["planner"], exec.interface) = <<exec.interface>>
        OBVIOUS
      <3>2. \/ asked' = asked
            \/ asked' = [asked EXCEPT ![exec.client] = Append(asked[exec.client], exec.interface)]
        BY <1>3 DEF AskRegister, SendRegister
      <3>3. \/ asked'["planner"] = asked["planner"]
            \/ /\ exec.client = "planner"
               /\ asked'["planner"] = Append(asked["planner"], exec.interface)
        BY <1>0, <3>2
      <3> QED
        BY <1>0, <1>3, <3>1, <3>3 DEF AskRegister, AtStep, Goes, SendRegister
    <2> QED
      BY <1>0, <2>1 DEF PhaseInv, TimerPhase, ControlPhase, DataPhase, Fresh, Going
  <1>4. CASE TimerRegistered
    <2>1. /\ exec.step = "ack" /\ exec.client = "timer"
          /\ UNCHANGED <<asked, registered, up>>
          /\ wire'["planner"] = wire["planner"] /\ believed'["planner"] = believed["planner"]
          /\ \/ exec' = At("create", "planner", "control") /\ "data" \in believed'["timer"]
             \/ exec' = [exec EXCEPT !.step = "stop"]
      BY <1>0, <1>4 DEF TimerRegistered, AtStep, MissionEnds, ReadAck, Taken
    <2> QED
      BY <1>0, <2>1 DEF PhaseInv, TimerPhase, ControlPhase, DataPhase, Fresh, Going, At
  <1>5. CASE CreatePlanner
    BY <1>0, <1>5 DEF CreatePlanner, AtStep, Goes, linkVars, PhaseInv, TimerPhase, ControlPhase,
       DataPhase, Fresh, Going
  <1>6. CASE ControlRegistered
    <2>1. /\ exec.step = "ack" /\ exec.client = "planner" /\ exec.interface = "control"
          /\ exec' = At("ask", "planner", "data")
          /\ UNCHANGED <<asked, registered, up>> /\ believed'["timer"] = believed["timer"]
          /\ \/ wire["planner"] # <<>>
             \/ wire["planner"] = <<>> /\ ~up /\ UNCHANGED <<wire, believed>>
      BY <1>0, <1>6 DEF ControlRegistered, AtStep, ReadAck, Arrived, Closed
    <2> QED
      BY <1>0, <2>1 DEF PhaseInv, TimerPhase, ControlPhase, DataPhase, Fresh, Going, At
  <1>7. CASE DataRegistered
    <2>1. /\ exec.step = "ack" /\ exec.client = "planner" /\ exec.interface = "data"
          /\ UNCHANGED <<asked, registered, up>> /\ believed'["timer"] = believed["timer"]
          /\ \/ exec' = [exec EXCEPT !.step = "mission"] /\ "data" \in believed'["planner"]
             \/ exec' = [exec EXCEPT !.step = "stop"]
          /\ wire["planner"] = <<>> => believed' = believed
      BY <1>0, <1>7 DEF DataRegistered, AtStep, Goes, MissionEnds, ReadAck, Arrived
    <2> QED
      BY <1>0, <2>1 DEF PhaseInv, TimerPhase, ControlPhase, DataPhase, Fresh, Going
  <1>8. CASE SendData \/ PlanEnds
    <2>1. UNCHANGED phaseVars
      BY <1>8 DEF SendData, PlanEnds, execVars, linkVars, phaseVars
    <2> QED
      BY <2>1 DEF phaseVars, PhaseInv, TimerPhase, ControlPhase, DataPhase, Fresh
  <1>9. CASE EndMission \/ StopTimer \/ StopPlanner \/ Join \/ Stopped
    <2>1. exec'.step \in {"stop", "join", "stopped"}
      BY <1>0, <1>9 DEF EndMission, MissionEnds, StopTimer, StopPlanner, Join, Stopped, AtStep,
         Goes
    <2> QED
      BY <2>1 DEF PhaseInv, TimerPhase, ControlPhase, DataPhase, Going
  <1> QED
    BY <1>1, <1>2, <1>3, <1>4, <1>5, <1>6, <1>7, <1>8, <1>9 DEF Executive

LEMMA PhaseRead == TypeOK /\ PhaseInv /\ StatusInv /\ Read => PhaseInv'
  <1> SUFFICES ASSUME TypeOK, PhaseInv, StatusInv, Read PROVE PhaseInv'
    OBVIOUS
  <1>1. ~TimerPhase /\ ~ControlPhase
    BY DEF StatusInv, Read
  <1>2. /\ UNCHANGED <<exec, asked, registered, believed, up>>
        /\ wire["planner"] = <<>> => wire' = wire
    BY DEF Read, execVars, Arrived
  <1> QED
    BY <1>1, <1>2 DEF PhaseInv, TimerPhase, ControlPhase, DataPhase

LEMMA PhaseServer == TypeOK /\ PhaseInv /\ Server => PhaseInv'
  <1> SUFFICES ASSUME TypeOK, PhaseInv, Server PROVE PhaseInv'
    OBVIOUS
  <1>0. /\ exec' = exec /\ believed' = believed
        /\ wire \in [Client -> Seq(Message)] /\ registered \in [Client -> SUBSET Interface]
        /\ asked \in [Client -> Seq(Interface)] /\ "planner" \in Client
    BY DEF Server, OgateServer, OgateRegisters, OgateAsks, OgateLeaves, execVars, TypeOK,
           LinkType, Client
  <1>1. ASSUME NEW c \in Client, OgateRegisters(c) PROVE PhaseInv'
    <2>1. CASE c # "planner"
      <3>1. /\ up' = up /\ wire'["planner"] = wire["planner"]
            /\ asked'["planner"] = asked["planner"]
            /\ registered'["planner"] = registered["planner"]
        BY <1>0, <1>1, <2>1 DEF OgateRegisters
      <3> QED
        BY <1>0, <3>1 DEF PhaseInv, TimerPhase, ControlPhase, DataPhase, Fresh
    <2>2. CASE c = "planner"
      <3>1. /\ up /\ up' = up /\ asked["planner"] # <<>>
            /\ asked'["planner"] = Tail(asked["planner"])
            /\ registered'["planner"] = registered["planner"] \cup {Head(asked["planner"])}
        BY <1>0, <1>1, <2>2 DEF OgateRegisters
      <3>2. ~TimerPhase /\ (ControlPhase => exec.step = "ack")
        BY <3>1 DEF PhaseInv, Fresh
      <3>3. ASSUME \A k \in DOMAIN asked["planner"] : asked["planner"][k] = "control"
            PROVE  /\ Head(asked["planner"]) = "control"
                   /\ \A k \in DOMAIN Tail(asked["planner"]) :
                         Tail(asked["planner"])[k] = "control"
        <4>1. /\ Head(asked["planner"]) = asked["planner"][1] /\ 1 \in DOMAIN asked["planner"]
              /\ \A k \in DOMAIN Tail(asked["planner"]) :
                    /\ k + 1 \in DOMAIN asked["planner"]
                    /\ Tail(asked["planner"])[k] = asked["planner"][k + 1]
          BY <1>0, <3>1
        <4> QED
          BY <3>3, <4>1
      <3>4. ControlPhase => /\ "control" \in registered'["planner"]
                            /\ \A k \in DOMAIN asked'["planner"] :
                                  asked'["planner"][k] = "control"
        BY <3>1, <3>2, <3>3 DEF PhaseInv
      <3> QED
        BY <1>0, <3>1, <3>2, <3>4 DEF PhaseInv, TimerPhase, ControlPhase, DataPhase
    <2> QED
      BY <2>1, <2>2
  <1>2. ASSUME NEW m \in Request, OgateAsks(m) PROVE PhaseInv'
    <2>1. /\ up' = up /\ asked' = asked /\ registered' = registered
          /\ "control" \in registered["planner"]
      BY <1>2 DEF OgateAsks
    <2>2. ~TimerPhase /\ (ControlPhase => exec.step = "ack")
      BY <2>1 DEF PhaseInv, Fresh
    <2> QED
      BY <1>0, <2>1, <2>2 DEF PhaseInv, TimerPhase, ControlPhase, DataPhase
  <1>3. CASE OgateLeaves
    BY <1>0, <1>3 DEF OgateLeaves, PhaseInv, TimerPhase, ControlPhase, DataPhase, Fresh
  <1> QED
    BY <1>1, <1>2, <1>3 DEF Server, OgateServer

LEMMA PhaseStep == TypeOK /\ PhaseInv /\ StatusInv /\ [Next]_vars => PhaseInv'
  <1>1. ASSUME PhaseInv, UNCHANGED phaseVars PROVE PhaseInv'
    BY <1>1 DEF phaseVars, PhaseInv, TimerPhase, ControlPhase, DataPhase, Fresh
  <1>2. Look \/ Clocks \/ UNCHANGED vars => UNCHANGED phaseVars
    BY DEF Look, Clocks, ClockSteps, ClockTest, ClockRaise, ClockLoop, ClockAdd, ClockSend,
       vars, linkVars, execVars, phaseVars
  <1> QED
    BY <1>1, <1>2, PhaseExecutive, PhaseRead, PhaseServer DEF Next

-----------------------------------------------------------------------------
(* The status. *)
LEMMA StatusStep == TypeOK /\ PhaseInv /\ StatusInv /\ [Next]_vars => StatusInv'
  <1> SUFFICES ASSUME TypeOK, PhaseInv, StatusInv, [Next]_vars PROVE StatusInv'
    OBVIOUS
  <1>0. /\ exec \in [step : Step, client : Client, interface : Interface] /\ running \in Int
        /\ \A c \in Client : c = "timer" \/ c = "planner"
        /\ \A i \in Interface : i = "control" \/ i = "data"
    BY DEF TypeOK, Client, Interface
  <1>1. CASE OpenConnection \/ GetNumber \/ AskRegister
    <2>1. /\ exec.step \in {"open", "number", "ask"}
          /\ exec'.client = exec.client /\ exec'.interface = exec.interface
          /\ UNCHANGED <<threadVars, running>>
      BY <1>0, <1>1 DEF OpenConnection, GetNumber, AskRegister, AtStep, Goes
    <2> QED
      BY <1>0, <2>1 DEF StatusInv, TimerPhase, ControlPhase, Going, threadVars
  <1>2. CASE TimerRegistered
    <2>1. TimerPhase /\ UNCHANGED <<threadVars, running>>
      BY <1>2 DEF TimerRegistered, AtStep, TimerPhase, Going
    <2> QED
      BY <1>0, <2>1 DEF StatusInv, threadVars
  <1>3. CASE CreatePlanner
    <2>1. ~TimerPhase /\ exec.step \in Going
      BY <1>3 DEF CreatePlanner, AtStep, PhaseInv, TimerPhase, Going
    <2>2. ControlPhase \/ DataPhase
      BY <1>0, <2>1 DEF TimerPhase, ControlPhase, DataPhase
    <2>3. ControlPhase
      BY <1>3, <2>2 DEF CreatePlanner, AtStep, PhaseInv
    <2> QED
      BY <1>3, <2>3 DEF CreatePlanner, StatusInv, threadVars
  <1>4. CASE ControlRegistered
    <2>1. ControlPhase
      BY <1>4 DEF ControlRegistered, AtStep, ControlPhase, Going
    <2>2. /\ told' = told /\ running' = running /\ thread' \in {thread, "look"}
          /\ exec' = At("ask", "planner", "data")
      BY <1>4 DEF ControlRegistered
    <2> QED
      BY <2>1, <2>2 DEF StatusInv, TimerPhase, ControlPhase, At
  <1>5. CASE DataRegistered
    <2>1. /\ exec'.client = "planner" /\ exec'.interface = "data"
          /\ UNCHANGED <<threadVars, running>>
      BY <1>0, <1>5 DEF DataRegistered, AtStep, Goes, MissionEnds
    <2> QED
      BY <2>1 DEF StatusInv, TimerPhase, ControlPhase, threadVars
  <1>6. CASE PlanEnds
    <2>1. UNCHANGED <<exec, threadVars>> /\ running' = running - 1
      BY <1>6 DEF PlanEnds
    <2> QED
      BY <1>0, <2>1 DEF StatusInv, TimerPhase, ControlPhase, threadVars
  <1>7. CASE StopPlanner
    <2>1. /\ exec'.step = "join" /\ running' = 0 /\ UNCHANGED <<thread, status>>
      BY <1>0, <1>7 DEF StopPlanner, Goes
    <2> QED
      BY <2>1 DEF StatusInv, TimerPhase, ControlPhase, Going
  <1>8. CASE EndMission \/ Join \/ Stopped
    <2>1. /\ exec'.step \in {"stop", "stopped"} /\ UNCHANGED <<threadVars, running>>
      BY <1>0, <1>8 DEF EndMission, MissionEnds, Join, Stopped, Goes, execVars
    <2> QED
      BY <2>1 DEF StatusInv, TimerPhase, ControlPhase, Going, threadVars
  <1>9. CASE Look
    <2>1. /\ UNCHANGED <<exec, running>> /\ thread # "none" /\ status' = Status
          /\ told' = told \/ (told' = Status /\ Status = "FINISHED")
      BY <1>9 DEF Look, execVars
    <2>2. Status = "FINISHED" => running <= 0
      BY <1>0 DEF Status
    <2> QED
      BY <2>1, <2>2 DEF StatusInv, TimerPhase, ControlPhase
  <1>10. CASE Read
    <2>1. /\ UNCHANGED <<exec, running>> /\ thread = "read" /\ thread' # "read"
          /\ told' \in {told, status, "FAILURE"}
      BY <1>10 DEF Read, Answer, execVars
    <2> QED
      BY <2>1 DEF StatusInv, TimerPhase, ControlPhase
  <1>11. CASE SendData \/ StopTimer \/ Clocks \/ Server \/ UNCHANGED vars
    <2>1. UNCHANGED <<exec, threadVars, running>>
      BY <1>11 DEF SendData, StopTimer, Clocks, Server, execVars, vars
    <2> QED
      BY <2>1 DEF StatusInv, TimerPhase, ControlPhase, threadVars
  <1> QED
    BY <1>1, <1>2, <1>3, <1>4, <1>5, <1>6, <1>7, <1>8, <1>9, <1>10, <1>11 DEF Next, Executive

-----------------------------------------------------------------------------
(* The clocks. *)
LEMMA InterfaceStays ==
    ASSUME TypeOK, [Next]_vars, hasDataInterface("timer")
    PROVE  hasDataInterface("timer")'
  <1>0. numbered \subseteq Client /\ believed \in [Client -> SUBSET Interface] /\ "timer" \in Client
    BY DEF TypeOK, LinkType, Client
  <1>1. ASSUME NEW c \in Client, NEW i \in Interface, ReadAck(c, i)
        PROVE  hasDataInterface("timer")'
    BY <1>0, <1>1 DEF ReadAck, hasDataInterface
  <1>2. CASE TimerRegistered \/ ControlRegistered \/ DataRegistered
    BY <1>1, <1>2 DEF TimerRegistered, ControlRegistered, DataRegistered, Client, Interface
  <1>3. CASE GetNumber
    BY <1>3 DEF GetNumber, ReadNumber, hasDataInterface
  <1>4. CASE UNCHANGED <<numbered, believed>>
    BY <1>4 DEF hasDataInterface
  <1>5. ASSUME OpenConnection \/ AskRegister \/ CreatePlanner \/ SendData \/ PlanEnds
               \/ EndMission \/ StopTimer \/ StopPlanner \/ Join \/ Stopped \/ Look \/ Read
               \/ Clocks \/ Server \/ UNCHANGED vars
        PROVE  UNCHANGED <<numbered, believed>>
    BY <1>5 DEF OpenConnection, Connect, AskRegister, SendRegister, CreatePlanner, SendData,
       PlanEnds, EndMission, StopTimer, StopPlanner, Join, Stopped, Look, Read, Clocks,
       ClockSteps, ClockTest, ClockRaise, ClockLoop, ClockAdd, ClockSend, Server, OgateServer,
       OgateRegisters, OgateAsks, OgateLeaves, linkVars, vars
  <1> QED
    BY <1>2, <1>3, <1>4, <1>5 DEF Next, Executive

(* The first clock counts alone. *)
LEMMA ClocksStep == TypeOK /\ PhaseInv /\ ClockInv /\ Clocks => ClockInv'
  <1> SUFFICES ASSUME TypeOK, PhaseInv, ClockInv, Clocks PROVE ClockInv'
    OBVIOUS
  <1> SUFFICES ASSUME ~raced PROVE ClockInv'
    <2>1. CASE raced
      <3>0. PICK k \in Clock : ClockSteps(k) /\ UNCHANGED <<execVars, threadVars>>
        BY DEF Clocks
      <3>1. raced' = raced /\ exec' = exec
        BY <3>0 DEF ClockSteps, ClockTest, ClockRaise, ClockLoop, ClockAdd, ClockSend, execVars
      <3> QED
        BY <2>1, <3>1 DEF ClockInv, TimerPhase, TicksInOrder
    <2> QED
      BY <2>1
  <1>0. /\ clock \in [Clock -> {"none", "test", "raise", "loop", "add", "send", "ended"}]
        /\ seen \in [Clock -> Nat] /\ tick \in Nat /\ ticks \in Seq(Nat)
        /\ 1 \in Clock /\ 2 \in Clock /\ \A k \in Clock : k = 1 \/ k = 2
    BY DEF TypeOK, Clock
  <1>1. PICK k \in Clock : ClockSteps(k) /\ exec' = exec
    BY DEF Clocks, execVars
  <1>2. /\ clock[2] \in {"none", "test", "ended"} /\ (clock[2] = "test" => threadRunning)
        /\ clock[1] = "add" => seen[1] = tick
        /\ ticks # <<>> => Sending
        /\ \A n \in 1..Len(ticks) - 1 : ticks[n + 1] = ticks[n] + 1
    BY DEF ClockInv, TicksInOrder
  <1>3. hasDataInterface("timer") => hasDataInterface("timer")'
    BY InterfaceStays DEF Next
  <1>4. TimerPhase' => ~raced /\ clock[2] = "none"
    BY <1>1 DEF ClockInv, TimerPhase
  <1>5. CASE k = 2
    <2>1. ClockTest(2) /\ threadRunning /\ clock[2] = "test"
      BY <1>1, <1>2, <1>5 DEF ClockSteps, ClockTest, ClockRaise, ClockLoop, ClockAdd, ClockSend
    <2>2. /\ clock' = [clock EXCEPT ![2] = "ended"]
          /\ UNCHANGED <<seen, tick, threadRunning, ticks, raced>>
      BY <2>1 DEF ClockTest, MovesTo, Tested
    <2> QED
      BY <1>0, <1>2, <1>3, <1>4, <2>1, <2>2 DEF ClockInv, Sending, TicksInOrder
  <1>6. CASE k = 1
    <2>1. clock'[2] = clock[2] /\ raced' = raced /\ (threadRunning => threadRunning')
      BY <1>0, <1>1, <1>6
        DEF ClockSteps, ClockTest, ClockRaise, ClockLoop, ClockAdd, ClockSend, MovesTo
    <2>2. (clock'[1] = "add" => seen'[1] = tick') /\ (ticks' # <<>> => Sending') /\ TicksInOrder'
      <3>1. CASE ClockTest(1) \/ ClockRaise(1)
        <4>1. /\ clock[1] \in {"test", "raise"} /\ clock'[1] \in {"raise", "ended", "loop"}
              /\ UNCHANGED <<tick, ticks, raced>>
          BY <1>0, <3>1 DEF ClockTest, ClockRaise, MovesTo, Tested
        <4>2. ticks = <<>>
          BY <1>2, <4>1 DEF Sending
        <4> QED
          BY <4>1, <4>2 DEF TicksInOrder
      <3>2. CASE ClockLoop(1)
        <4>1. /\ clock[1] = "loop" /\ clock'[1] \in {"add", "ended"}
              /\ clock'[1] = "add" => seen'[1] = tick
              /\ UNCHANGED <<tick, ticks, raced>>
          BY <1>0, <3>2 DEF ClockLoop, MovesTo
        <4> QED
          BY <1>2, <1>3, <4>1 DEF Sending, TicksInOrder
      <3>3. CASE ClockAdd(1)
        <4>1. /\ clock[1] = "add" /\ clock'[1] = "send" /\ tick' = tick + 1
              /\ UNCHANGED <<ticks, raced>>
          BY <1>0, <1>2, <3>3 DEF ClockAdd, MovesTo
        <4> QED
          BY <1>0, <1>2, <1>3, <4>1 DEF Sending, TicksInOrder
      <3>4. CASE ClockSend(1)
        <4>1. /\ clock[1] = "send" /\ clock'[1] = "loop" /\ tick' = tick /\ raced' = raced
          BY <1>0, <3>4 DEF ClockSend, MovesTo
        <4>2. CASE hasDataInterface("timer")
          <5>1. ticks' = Append(ticks, tick)
            BY <3>4, <4>2 DEF ClockSend
          <5>2. /\ Len(ticks') = Len(ticks) + 1 /\ ticks'[Len(ticks')] = tick
                /\ \A n \in 1..Len(ticks) : ticks'[n] = ticks[n]
            BY <1>0, <5>1
          <5>3. ticks # <<>> => ticks[Len(ticks)] = tick - 1
            BY <1>2, <4>1 DEF Sending
          <5>4. ASSUME NEW n \in 1..Len(ticks') - 1 PROVE ticks'[n + 1] = ticks'[n] + 1
            <6>1. Len(ticks) \in Nat /\ n \in 1..Len(ticks)
              BY <1>0, <5>2
            <6>2. CASE n = Len(ticks)
              <7>1. ticks # <<>> /\ ticks'[n] = tick - 1 /\ ticks'[n + 1] = tick
                BY <5>2, <5>3, <6>1, <6>2
              <7> QED
                BY <1>0, <7>1
            <6>3. CASE n # Len(ticks)
              <7>1. n \in 1..Len(ticks) - 1 /\ n + 1 \in 1..Len(ticks)
                BY <6>1, <6>3
              <7> QED
                BY <1>2, <5>2, <6>1, <7>1
            <6> QED
              BY <6>2, <6>3
          <5> QED
            BY <1>3, <4>1, <4>2, <5>2, <5>4 DEF Sending, TicksInOrder
        <4>3. CASE ~hasDataInterface("timer")
          <5>1. ticks = <<>> /\ ticks' = ticks
            BY <1>2, <3>4, <4>3 DEF Sending, ClockSend
          <5> QED
            BY <4>1, <5>1 DEF TicksInOrder
        <4> QED
          BY <4>2, <4>3
      <3> QED
        BY <1>1, <1>6, <3>1, <3>2, <3>3, <3>4 DEF ClockSteps
    <2> QED
      BY <1>2, <1>4, <2>1, <2>2 DEF ClockInv
  <1> QED
    BY <1>0, <1>5, <1>6

LEMMA ClockStep == TypeOK /\ PhaseInv /\ ClockInv /\ [Next]_vars => ClockInv'
  <1> SUFFICES ASSUME TypeOK, PhaseInv, ClockInv, [Next]_vars PROVE ClockInv'
    OBVIOUS
  <1>0. hasDataInterface("timer") => hasDataInterface("timer")'
    BY InterfaceStays
  <1>1. CASE TimerRegistered
    <2>1. TimerPhase /\ ~TimerPhase'
      BY <1>1 DEF TimerRegistered, AtStep, TimerPhase, Going, MissionEnds, At, TypeOK
    <2>2. ~raced /\ clock[2] = "none" /\ believed["timer"] = {}
      BY <2>1 DEF ClockInv, PhaseInv
    <2>3. ticks = <<>> /\ (clock[1] = "add" => seen[1] = tick)
      BY <2>2 DEF ClockInv, Sending, hasDataInterface
    <2>4. UNCHANGED <<seen, tick, ticks, threadRunning>>
      BY <1>1 DEF TimerRegistered
    <2>5. \/ clock' = [clock EXCEPT ![2] = "test"] /\ raced' = ~threadRunning
          \/ UNCHANGED <<clock, raced>>
      BY <1>1 DEF TimerRegistered
    <2>6. /\ clock'[1] = clock[1]
          /\ clock'[2] \in {"none", "test"} /\ (~raced' /\ clock'[2] = "test" => threadRunning)
      <3>1. clock \in [Clock -> {"none", "test", "raise", "loop", "add", "send", "ended"}]
            /\ 1 \in Clock /\ 2 \in Clock
        BY DEF TypeOK, Clock
      <3>2. CASE clock' = [clock EXCEPT ![2] = "test"] /\ raced' = ~threadRunning
        <4>1. clock'[1] = clock[1] /\ clock'[2] = "test"
          BY <3>1, <3>2
        <4> QED
          BY <3>2, <4>1
      <3>3. CASE UNCHANGED <<clock, raced>>
        BY <2>2, <3>3
      <3> QED
        BY <2>5, <3>2, <3>3
    <2>7. TicksInOrder'
      BY <2>3, <2>4 DEF TicksInOrder
    <2> QED
      BY <2>1, <2>3, <2>4, <2>6, <2>7 DEF ClockInv
  <1>2. CASE Clocks
    BY <1>2, ClocksStep
  <1>3. CASE UNCHANGED <<clock, seen, tick, threadRunning, ticks, raced>> /\ (TimerPhase' => TimerPhase)
    BY <1>0, <1>3 DEF ClockInv, Sending, TicksInOrder
  <1>4. ASSUME OpenConnection \/ GetNumber \/ AskRegister \/ CreatePlanner \/ ControlRegistered
               \/ DataRegistered \/ SendData \/ PlanEnds \/ EndMission \/ StopTimer
               \/ StopPlanner \/ Join \/ Stopped \/ Look \/ Read \/ Server \/ UNCHANGED vars
        PROVE  UNCHANGED <<clock, seen, tick, threadRunning, ticks, raced>>
    BY <1>4 DEF OpenConnection, GetNumber, AskRegister, CreatePlanner, ControlRegistered,
       DataRegistered, SendData, PlanEnds, EndMission, StopTimer, StopPlanner, Join, Stopped,
       Look, Read, Server, clockVars, vars
  <1>5. ASSUME OpenConnection \/ GetNumber \/ AskRegister \/ CreatePlanner \/ ControlRegistered
               \/ DataRegistered
        PROVE  TimerPhase' => TimerPhase
    BY <1>5 DEF OpenConnection, GetNumber, AskRegister, CreatePlanner, ControlRegistered,
       DataRegistered, AtStep, Goes, MissionEnds, At, TimerPhase, Going, TypeOK
  <1>6. ASSUME SendData \/ PlanEnds \/ StopTimer \/ Look \/ Read \/ Server \/ UNCHANGED vars
        PROVE  TimerPhase' => TimerPhase
    BY <1>6 DEF SendData, PlanEnds, StopTimer, Look, Read, Server, execVars, vars, TimerPhase
  <1>7. ASSUME EndMission \/ StopPlanner \/ Join \/ Stopped PROVE ~TimerPhase'
    BY <1>7 DEF EndMission, MissionEnds, StopPlanner, Join, Stopped, Goes, TimerPhase, Going,
       TypeOK
  <1> QED
    BY <1>1, <1>2, <1>3, <1>4, <1>5, <1>6, <1>7 DEF Next, Executive

-----------------------------------------------------------------------------
(* IInv holds in every state: it does at first, and each step keeps it.    *)
THEOREM Inductive == Spec => []IInv
  <1>1. IInv /\ [Next]_vars => IInv'
    BY TypeStep, LinkStep, PhaseStep, StatusStep, ClockStep DEF IInv
  <1> QED
    BY InitIInv, <1>1, PTL DEF Spec

(* Every variable of the executive, its threads and its connections keeps  *)
(* to its type, whatever OGATE sends and whenever it leaves.               *)
THEOREM TypeCorrect == Spec => []TypeOK
  <1>1. IInv => TypeOK
    BY DEF IInv
  <1> QED
    BY <1>1, Inductive, PTL

(* A client of OgateServerClient takes an interface as registered only if  *)
(* OGATE registered it, and the mission goes on only with all interfaces,  *)
(* although two threads read the same socket.                              *)
THEOREM Agreement == Spec => []InterfacesAgree
  <1>1. IInv => InterfacesAgree
    <2> SUFFICES ASSUME IInv PROVE InterfacesAgree
      OBVIOUS
    <2>1. \A c \in Client : believed[c] \subseteq registered[c]
      BY DEF IInv, LinkInv
    <2>2. ASSUME exec.step = "mission"
          PROVE  "data" \in registered["timer"] /\ registered["planner"] = Interface
      <3>1. ~TimerPhase /\ ~ControlPhase
        BY <2>2 DEF IInv, PhaseInv
      <3>2. DataPhase
        BY <2>2, <3>1 DEF IInv, TypeOK, TimerPhase, ControlPhase, DataPhase, Going, Client,
           Interface
      <3>3. /\ "data" \in believed["timer"] /\ "control" \in registered["planner"]
            /\ "data" \in believed["planner"]
        BY <2>2, <3>2 DEF IInv, PhaseInv
      <3>4. registered["planner"] \subseteq Interface
        BY DEF IInv, TypeOK, LinkType, Client
      <3> QED
        BY <2>1, <3>3, <3>4 DEF Client, Interface
    <2> QED
      BY <2>1, <2>2 DEF InterfacesAgree
  <1> QED
    BY <1>1, Inductive, PTL

(* ogateClientThread and stop tell OGATE that the component finished only  *)
(* when no planner is at work, however many plans there are.               *)
THEOREM TrueStatus == Spec => []StatusIsTrue
  <1>1. IInv => StatusIsTrue
    BY DEF IInv, StatusInv, StatusIsTrue
  <1> QED
    BY <1>1, Inductive, PTL

(* When the first clock has begun before the second is spawned, the ticks  *)
(* that internalClockThread sends follow each other, one by one.           *)
THEOREM OrderedTicks == Spec => []TicksInOrder
  <1>1. IInv => TicksInOrder
    BY DEF IInv, ClockInv
  <1> QED
    BY <1>1, Inductive, PTL
=============================================================================
