-------------------------------- MODULE Teleop --------------------------------
(***************************************************************************)
(* The teleoperation node: a socket server that never waits, and a loop    *)
(* of 1 kHz that publishes on cmd_vel_mux/input/teleop, the topic the      *)
(* functional-layer server drives the base with, the velocity of the last  *)
(* message, or none when messages have stopped.                            *)
(*                                                                         *)
(* One step of the node is one turn of its loop, which is also its clock.  *)
(* Between two turns the operators connect, send and leave.  A connection  *)
(* is used once: who comes back comes as another one.                      *)
(***************************************************************************)
EXTENDS Integers, Sequences, SequencesExt

CONSTANTS
    Connections,  \* the connections operators make
    Messages,     \* what they send: [fields, x, z], x ahead and z to the left
    MAX_CLIENTS,  \* places in the table of the server
    Quiet,        \* turns of the loop in TIME_WHITHOUT_MESSAGES
    MaxInbox      \* bound: messages of a connection not read yet

ASSUME TeleopAssumption ==
    /\ Messages \subseteq [fields : Nat, x : Int, z : Int]
    /\ "-1" \notin Connections
    /\ MAX_CLIENTS \in Nat \ {0}
    /\ Quiet \in Nat
    /\ MaxInbox \in Nat \ {0}

VARIABLES
    node,      \* "starting", "up" or "down"
    listening, \* its port is open
    conn,      \* of each connection, its end on the operator's side
    inbox,     \* what was sent on it and not read
    waiting,   \* connections made and not accepted, in order
    clients,   \* descriptors of the table; NoSocket is a -1
    velocity,  \* what is published
    age        \* turns since the last message; Quiet + 1 is any more

NoSocket == "-1"
Stop == [x |-> 0, z |-> 0]

operatorVars == <<conn, inbox, waiting>>
teleopVars == <<node, listening, operatorVars, clients, velocity, age>>

TeleopTypeOK ==
    /\ node \in {"starting", "up", "down"}
    /\ listening \in BOOLEAN
    /\ conn \in [Connections -> {"new", "open", "shut", "reset"}]
    /\ inbox \in [Connections -> Seq(Messages)]
    /\ waiting \in Seq(Connections)
    /\ clients \in Seq(Connections \cup {NoSocket})
    /\ Len(clients) <= MAX_CLIENTS
    /\ velocity \in [x : Nat, z : Nat]
    /\ age \in 0..Quiet + 1

(* begin is zero: before the first message, messages have long stopped. *)
TeleopInit ==
    /\ node = "starting" /\ listening = FALSE
    /\ conn = [c \in Connections |-> "new"]
    /\ inbox = [c \in Connections |-> <<>>]
    /\ waiting = <<>> /\ clients = <<>>
    /\ velocity = Stop /\ age = Quiet + 1

-----------------------------------------------------------------------------
(* The operators. *)
Connect(c) ==
    /\ listening
    /\ conn[c] = "new"
    /\ conn' = [conn EXCEPT ![c] = "open"]
    /\ waiting' = Append(waiting, c)
    /\ UNCHANGED <<node, listening, inbox, clients, velocity, age>>

Send(c, m) ==
    /\ conn[c] = "open"
    /\ Len(inbox[c]) < MaxInbox
    /\ inbox' = [inbox EXCEPT ![c] = Append(@, m)]
    /\ UNCHANGED <<node, listening, conn, waiting, clients, velocity, age>>

(* A socket closed with data in it that was not read, the client's number  *)
(* for one, resets the connection, and what it had sent may be lost.       *)
Leave(c) ==
    /\ conn[c] = "open"
    /\ \/ conn' = [conn EXCEPT ![c] = "shut"] /\ inbox' = inbox
       \/ /\ conn' = [conn EXCEPT ![c] = "reset"]
          /\ inbox' \in {inbox, [inbox EXCEPT ![c] = <<>>]}
    /\ UNCHANGED <<node, listening, waiting, clients, velocity, age>>

-----------------------------------------------------------------------------
(* The node.  ServerSelect::open returns -1, which is true, when it fails: *)
(* the node goes on, and nobody can connect.                               *)
open ==
    /\ node = "starting"
    /\ node' = "up"
    /\ listening' \in BOOLEAN
    /\ UNCHANGED <<operatorVars, clients, velocity, age>>

cleanKeysAfterFirst ==
    LET kept[i \in 0..Len(clients)] ==
          IF i <= 1 THEN <<>>
          ELSE IF clients[i] # NoSocket THEN Append(kept[i - 1], clients[i]) ELSE kept[i - 1]
    IN  kept[Len(clients)]

(* Descriptors that are not -1 move down to the places that are. *)
cleanKeys ==
    LET kept[i \in 0..Len(clients)] ==
          IF i = 0 THEN <<>>
          ELSE IF clients[i] # NoSocket THEN Append(kept[i - 1], clients[i]) ELSE kept[i - 1]
    IN  kept[Len(clients)]

HasData(c) == inbox[c] # <<>>
Gone(c) == ~HasData(c) /\ conn[c] = "reset"    \* recv is -1
Closed(c) == ~HasData(c) /\ conn[c] = "shut"   \* recv is 0

(* The first client of the table whose recv is not negative; the ones      *)
(* before it that were reset leave a -1 behind.                            *)
FirstWithData(table) == SelectInSeq(table, LAMBDA c : HasData(c))
First(table) ==
    SelectInSeq(table, LAMBDA c : HasData(c) \/ Closed(c))
Marked(table, n) ==
    [i \in 1..Len(table) |-> IF i <= n /\ Gone(table[i]) THEN NoSocket ELSE table[i]]

(* The number of a client that has left is answered with a reset. *)
newClient(table) ==
    IF waiting = <<>> \/ Len(table) >= MAX_CLIENTS
    THEN clients' = table /\ UNCHANGED <<conn, waiting>>
    ELSE /\ clients' = Append(table, Head(waiting))
         /\ waiting' = Tail(waiting)
         /\ \/ conn' = conn
            \/ conn[Head(waiting)] = "shut" /\ conn' = [conn EXCEPT ![Head(waiting)] = "reset"]

(* Whatever is not a digit, a comma or a point becomes a space, the signs  *)
(* too.                                                                    *)
Unsigned(n) == IF n < 0 THEN -n ELSE n
Speed(m) == [x |-> Unsigned(m.x), z |-> Unsigned(m.z)]

(* The sockets go with the process. *)
Exit ==
    /\ node' = "down" /\ listening' = FALSE
    /\ conn' = [c \in Connections |-> "reset"]
    /\ inbox' = [c \in Connections |-> <<>>]
    /\ waiting' = <<>>
    /\ UNCHANGED <<velocity, age>>

(* A message with less than six fields ends in atof(NULL).  The sixth      *)
(* field is written past the end of values_speed, and read there; the      *)
(* variable it lies on may be the one that ends the loop.                  *)
TakeMessage(c, m) ==
    \/ /\ m.fields >= 6
       /\ velocity' = Speed(m) /\ age' = 0
       /\ inbox' = [inbox EXCEPT ![c] = Tail(@)]
       /\ UNCHANGED <<node, listening, conn, waiting>>
    \/ Exit

NoMessageGoesOn ==
    /\ age' = IF age > Quiet THEN age ELSE age + 1
    /\ UNCHANGED <<velocity, node, listening>>

NoMessage ==
    /\ age' = IF age > Quiet THEN age ELSE age + 1
    /\ velocity' = IF age' > Quiet THEN Stop ELSE velocity
    /\ UNCHANGED <<node, listening>>

ReceiveMessage ==
    /\ node = "up"
    /\ LET table == cleanKeys
           i == First(table)
       IN  /\ i > 0 /\ HasData(table[i])
           /\ TakeMessage(table[i], Head(inbox[table[i]]))
           /\ clients' = IF node' = "up" THEN Marked(table, i) ELSE <<>>

(* A connection closed by its operator is read as a message of no length,  *)
(* and stays in the table.                                                 *)
ReceiveNothing ==
    /\ node = "up"
    /\ LET table == cleanKeys
           i == First(table)
       IN  /\ i > 0 /\ ~HasData(table[i])
           /\ clients' = Marked(table, i)
    /\ NoMessage
    /\ UNCHANGED operatorVars

ReceiveClient ==
    /\ node = "up"
    /\ First(cleanKeys) = 0
    /\ newClient(Marked(cleanKeys, Len(cleanKeys)))
    /\ NoMessage
    /\ UNCHANGED inbox

ctrlc ==
    /\ node = "up"
    /\ Exit
    /\ clients' = <<>>

Operators ==
    /\ node = "up"
    /\ \E c \in Connections : Connect(c) \/ Leave(c) \/ \E m \in Messages : Send(c, m)
Loop == ReceiveMessage \/ ReceiveNothing \/ ReceiveClient
TeleopNext == Operators \/ open \/ Loop \/ ctrlc

TeleopSpec == TeleopInit /\ [][TeleopNext]_teleopVars

-----------------------------------------------------------------------------
(* The base is told to move for messages that keep coming, never longer    *)
(* than the guard time after the last one, and never backwards, whatever   *)
(* the operators ask (the loop of main.cpp).                               *)
DeadMan ==
    velocity # Stop =>
        age <= Quiet /\ \E m \in Messages : m.fields >= 6 /\ velocity = Speed(m)

(* The table holds a connection once, and every one that was accepted      *)
(* until it is reset: no client is lost when the numbers shift.            *)
Waits(c) == \E i \in 1..Len(waiting) : waiting[i] = c
InTable(c) == \E i \in 1..Len(clients) : clients[i] = c
TableSound ==
    /\ \A i, j \in 1..Len(clients) : clients[i] = clients[j] => i = j \/ clients[i] = NoSocket
    /\ \A c \in Connections :
        conn[c] \in {"open", "shut"} => (InTable(c) <=> ~Waits(c))

(* Once a client that has left is found in the table, nobody behind it is  *)
(* heard again and nobody new is accepted (recv of 0 in receive).          *)
Behind(c, d) ==
    \A i, j \in 1..Len(clients) : clients[i] = c /\ clients[j] = d => i > j
DeadClientBlocks ==
    [][\A d \in Connections : InTable(d) /\ Closed(d) /\ node' = "up" =>
          /\ InTable(d)'
          /\ \A c \in Connections : Behind(c, d) =>
                /\ Len(inbox'[c]) >= Len(inbox[c]) \/ (conn[c] = "open" /\ conn'[c] = "reset")
                /\ Waits(c) => Waits(c)']_teleopVars

=============================================================================
