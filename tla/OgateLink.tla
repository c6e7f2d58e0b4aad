------------------------------ MODULE OgateLink ------------------------------
(***************************************************************************)
(* The connections of the executive with the OGATE server: the client      *)
(* library OgateServerClient, over a non-blocking socket, and OGATE as the *)
(* library expects it.  OGATE is a Java program outside of the repository: *)
(* it numbers a client that connects, acknowledges what it registers, asks *)
(* a component with a control interface, and may go away.                  *)
(*                                                                         *)
(* Messages are blocks of a fixed length that arrive whole and in order.   *)
(***************************************************************************)
EXTENDS Integers, Sequences

CONSTANT MaxRequests \* bound: what OGATE asks of the planner's component

ASSUME MaxRequestsAssumption == MaxRequests \in Nat

(* The tick adapter's client and the one of the PDDL adapter.              *)
Client == {"timer", "planner"}
Interface == {"control", "data"}
(* Requests of OGATE; a goal is a telecommand.  Those the component does   *)
(* not implement have no effect.                                           *)
Request == {"status", "finish", "goal"}
(* A message to a client: its number, an acknowledgement or a request.     *)
Message == {"number"} \cup Interface \cup Request

VARIABLES
    up,         \* OGATE is there
    link,       \* "none", "refused" (an open socket all the same), "linked"
    numbered,   \* clients that know their number (clientid)
    believed,   \* interfaces a client takes as registered (controlif, dataif)
    asked,      \* REGISTER messages on their way to OGATE
    registered, \* interfaces OGATE has registered
    wire,       \* messages on their way to a client
    requests,   \* how many requests OGATE has made
    alive       \* the process of the executive

linkVars == <<up, link, numbered, believed, asked, registered, wire, requests, alive>>

LinkInit ==
    /\ up \in BOOLEAN
    /\ link = [c \in Client |-> "none"]
    /\ numbered = {}
    /\ believed = [c \in Client |-> {}]
    /\ asked = [c \in Client |-> <<>>]
    /\ registered = [c \in Client |-> {}]
    /\ wire = [c \in Client |-> <<>>]
    /\ requests = 0
    /\ alive = TRUE

LinkType ==
    /\ up \in BOOLEAN
    /\ link \in [Client -> {"none", "refused", "linked"}]
    /\ numbered \subseteq Client
    /\ believed \in [Client -> SUBSET Interface]
    /\ asked \in [Client -> Seq(Interface)]
    /\ registered \in [Client -> SUBSET Interface]
    /\ wire \in [Client -> Seq(Message)]
    /\ requests \in 0..MaxRequests
    /\ alive \in BOOLEAN

-----------------------------------------------------------------------------
(* The library. *)

(* A write to a connection OGATE has closed may kill the process.          *)
Written == IF up THEN alive' = alive ELSE alive' \in BOOLEAN

hasDataInterface(c) == c \in numbered /\ "data" \in believed[c]
hasControlInterface(c) == c \in numbered /\ "control" \in believed[c]

(* connect, up to its loop: a host that is not there is no failure.        *)
Connect(c) ==
    /\ link' = [link EXCEPT ![c] = IF up THEN "linked" ELSE "refused"]
    /\ wire' = IF up THEN [wire EXCEPT ![c] = Append(@, "number")] ELSE wire
    /\ UNCHANGED <<up, numbered, believed, asked, registered, requests, alive>>

Arrived(c) == link[c] = "linked" /\ wire[c] # <<>>
Closed(c) == link[c] = "linked" /\ wire[c] = <<>> /\ ~up
Taken(c) == wire' = [wire EXCEPT ![c] = Tail(@)]

(* The loop of connect ends with the first message and with nothing else.  *)
ReadNumber(c) ==
    /\ Arrived(c)
    /\ Taken(c)
    /\ numbered' = numbered \cup {c}
    /\ UNCHANGED <<up, link, believed, asked, registered, requests, alive>>

SendRegister(c, i) ==
    /\ asked' = IF up THEN [asked EXCEPT ![c] = Append(@, i)] ELSE asked
    /\ Written
    /\ UNCHANGED <<up, link, numbered, believed, registered, wire, requests>>

AnyAnswer(m, i) == TRUE
Acknowledges(m, i) == m = i

(* The loop of a registration ends with the next message, whatever it is,  *)
(* or with the end of the connection.                                      *)
ReadAck(c, i) ==
    /\ \/ /\ Arrived(c)
          /\ Taken(c)
          /\ believed' = IF Acknowledges(Head(wire[c]), i)
                         THEN [believed EXCEPT ![c] = @ \cup {i}] ELSE believed
       \/ Closed(c) /\ UNCHANGED <<wire, believed>>
    /\ UNCHANGED <<up, link, numbered, asked, registered, requests, alive>>

(* A message can be read by receive only with some interface.              *)
ReceivesWithBoth(c) == believed[c] = Interface
Receives(c) == believed[c] # {}

-----------------------------------------------------------------------------
(* OGATE. *)
OgateRegisters(c) ==
    /\ up
    /\ asked[c] # <<>>
    /\ asked' = [asked EXCEPT ![c] = Tail(@)]
    /\ registered' = [registered EXCEPT ![c] = @ \cup {Head(asked[c])}]
    /\ wire' = [wire EXCEPT ![c] = Append(@, Head(asked[c]))]
    /\ UNCHANGED <<up, link, numbered, believed, requests, alive>>

OgateAsks(m) ==
    /\ up
    /\ "control" \in registered["planner"]
    /\ requests < MaxRequests
    /\ requests' = requests + 1
    /\ wire' = [wire EXCEPT !["planner"] = Append(@, m)]
    /\ UNCHANGED <<up, link, numbered, believed, asked, registered, alive>>

OgateLeaves ==
    /\ up
    /\ up' = FALSE
    /\ UNCHANGED <<link, numbered, believed, asked, registered, wire, requests, alive>>

OgateServer ==
    \/ \E c \in Client : OgateRegisters(c)
    \/ \E m \in Request : OgateAsks(m)
    \/ OgateLeaves
=============================================================================
