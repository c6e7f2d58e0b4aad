----------------------------- MODULE ProblemFile -----------------------------
(***************************************************************************)
(* How CProblema edits the problem file.  Every edit (insertar_pred,       *)
(* reemplazar_pred, eliminar_predicado, eliminar_goals, eliminar_inits,    *)
(* eliminar_objs and, in the planner, insertar_objetos) has the same form: *)
(* open the problem and an auxiliary file, copy the one to the other with  *)
(* the edit, close them, remove the problem and rename the auxiliary file. *)
(*                                                                         *)
(* The executive, the planner process it waits for and the telecommand     *)
(* thread of PDDLAdapter run such edits on the same two names with no lock *)
(* between them.  What the edits write is left to the module ProblemText.  *)
(*                                                                         *)
(* A text is read when the problem is opened and written when the          *)
(* auxiliary file is closed: both fit in the buffers of their streams.     *)
(***************************************************************************)
CONSTANTS
    Editors,     \* threads that edit the problem
    Contents,    \* texts of the problem
    Blank,       \* the text of a file just truncated
    NoFile,      \* no file of that name
    Start,       \* text of the problem as the mission starts
    Requests,    \* edits
    Apply(_, _), \* text that an edit makes of a text
    Finds(_, _), \* whether it finds in the text what it looks for
    Issued(_, _),  \* edits the program asks for while the problem reads so
    Overlay(_, _)  \* text left by writing one over the other

ASSUME ProblemAssumption ==
    /\ Start \in Contents
    /\ Blank \notin Contents
    /\ NoFile \notin Contents \cup {Blank}
    /\ \A r \in Requests, c \in Contents :
            Issued(r, c) => Apply(r, c) \in Contents
    /\ \A c \in Contents : Overlay(c, Blank) = c

VARIABLES
    problem,   \* text of the file rutaproblema
    aux,       \* text of the file rutaauxiliar
    pc,        \* where each editor stands
    request,   \* the edit it does
    buffer,    \* what it has read
    salida,    \* file its output stream is open on
    result     \* what it is to return

vars == <<problem, aux, pc, request, buffer, salida, result>>

(* A file that has lost its last name while it is open is "unlinked".      *)
Streams == {"closed", "aux", "problem", "unlinked"}

TypeOK ==
    /\ problem \in Contents \cup {NoFile}
    /\ aux \in Contents \cup {Blank, NoFile}
    /\ pc \in [Editors -> {"idle", "write", "remove", "rename", "return"}]
    /\ request \in [Editors -> Requests]
    /\ buffer \in [Editors -> Contents \cup {Blank}]
    /\ salida \in [Editors -> Streams]
    /\ result \in [Editors -> {"none", "ok", "not_found", "error"}]

Init ==
    /\ problem = Start
    /\ aux = NoFile
    /\ pc = [e \in Editors |-> "idle"]
    /\ request \in [Editors -> Requests]
    /\ buffer = [e \in Editors |-> Blank]
    /\ salida = [e \in Editors |-> "closed"]
    /\ result = [e \in Editors |-> "none"]

Goto(e, l) == pc' = [pc EXCEPT ![e] = l]
Reply(r, c) == IF Finds(r, c) THEN "ok" ELSE "not_found"

(* Opening the output truncates the auxiliary file, whoever else has it    *)
(* open; it is done even when there is no problem to read.                 *)
Open(e, r) ==
    /\ pc[e] = "idle"
    /\ problem # NoFile => Issued(r, problem)
    /\ aux' = Blank
    /\ request' = [request EXCEPT ![e] = r]
    /\ IF problem = NoFile
       THEN /\ result' = [result EXCEPT ![e] = "error"]
            /\ Goto(e, "return")
            /\ UNCHANGED <<buffer, salida>>
       ELSE /\ buffer' = [buffer EXCEPT ![e] = problem]
            /\ salida' = [salida EXCEPT ![e] = "aux"]
            /\ Goto(e, "write")
            /\ UNCHANGED result
    /\ UNCHANGED problem

WriteBlind(e) ==
    /\ pc[e] = "write"
    /\ aux' = Apply(request[e], buffer[e])
    /\ result' = [result EXCEPT ![e] = "ok"]
    /\ salida' = [salida EXCEPT ![e] = "closed"]
    /\ Goto(e, "remove")
    /\ UNCHANGED <<problem, request, buffer>>

(* copiar_hasta and close: the text lands on whatever file the stream is   *)
(* open on by then.                                                        *)
Write(e) ==
    LET text == Apply(request[e], buffer[e])
    IN  /\ pc[e] = "write"
        /\ aux' = IF salida[e] = "aux" THEN Overlay(text, aux) ELSE aux
        /\ problem' = IF salida[e] = "problem" THEN Overlay(text, problem)
                      ELSE problem
        /\ result' = [result EXCEPT ![e] = Reply(request[e], buffer[e])]
        /\ salida' = [salida EXCEPT ![e] = "closed"]
        /\ Goto(e, "remove")
        /\ UNCHANGED <<request, buffer>>

(* actualizar_archivos: remove, then rename.  Either fails if the file is  *)
(* not there, and the edit then reports an error.                          *)
Fail(e) ==
    /\ result' = [result EXCEPT ![e] = "error"]
    /\ Goto(e, "return")
    /\ UNCHANGED <<problem, aux, salida>>

(* What becomes of the open streams when a file loses or changes its name. *)
Unlinked(s) == IF s = "problem" THEN "unlinked" ELSE s
Renamed(s) == IF s = "aux" THEN "problem" ELSE Unlinked(s)

RemoveBoth(e) ==
    /\ pc[e] = "remove"
    /\ problem' = NoFile
    /\ aux' = NoFile
    /\ Goto(e, "rename")
    /\ UNCHANGED <<request, buffer, salida, result>>

RemoveProblem(e) ==
    /\ pc[e] = "remove"
    /\ IF problem = NoFile
       THEN Fail(e)
       ELSE /\ problem' = NoFile
            /\ salida' = [x \in Editors |-> Unlinked(salida[x])]
            /\ Goto(e, "rename")
            /\ UNCHANGED <<aux, result>>
    /\ UNCHANGED <<request, buffer>>

RenameAux(e) ==
    /\ pc[e] = "rename"
    /\ IF aux = NoFile
       THEN Fail(e)
       ELSE /\ problem' = aux
            /\ aux' = NoFile
            /\ salida' = [x \in Editors |-> Renamed(salida[x])]
            /\ Goto(e, "return")
            /\ UNCHANGED result
    /\ UNCHANGED <<request, buffer>>

Return(e) ==
    /\ pc[e] = "return"
    /\ result' = [result EXCEPT ![e] = "none"]
    /\ Goto(e, "idle")
    /\ UNCHANGED <<problem, aux, request, buffer, salida>>

Step(e) == Write(e) \/ RemoveProblem(e) \/ RenameAux(e) \/ Return(e)

Next == \E e \in Editors : Step(e) \/ \E r \in Requests : Open(e, r)

(* An edit that has begun goes on; none needs to begin. *)
Spec == Init /\ [][Next]_vars /\ \A e \in Editors : WF_vars(Step(e))

-----------------------------------------------------------------------------
(* Properties.                                                             *)

(* A process killed at any moment leaves a whole text behind: the problem  *)
(* as it was or as it is to be, the latter at worst under the name of the  *)
(* auxiliary file (remove and rename are two calls).                       *)
WholeTextKept ==
    /\ problem # Blank
    /\ problem = NoFile => aux \notin {Blank, NoFile}

(* The problem as its callers see it: after the call of remove its only    *)
(* copy is the auxiliary file.                                             *)
Current == IF problem = NoFile THEN aux ELSE problem
Served == {"rename", "return"}

Atomic == INSTANCE AtomicProblem WITH
    content <- Current,
    phase <- [e \in Editors |-> IF pc[e] = "idle" THEN "idle"
                                ELSE IF pc[e] \in Served THEN "served"
                                ELSE "asked"],
    answer <- [e \in Editors |-> IF pc[e] \in Served THEN result[e] ELSE "none"]

(* The edits of insertar_pred, eliminar_predicado and the others, asked for *)
(* by one thread, are atomic: each takes place entirely as remove returns,  *)
(* answers truly, and ends.                                                 *)
EditsAreAtomic == Atomic!Spec

SuccessMade ==
    \A e \in Editors :
        pc[e] = "rename" /\ pc'[e] = "return" /\ result'[e] = "ok"
            => problem' = Apply(request[e], buffer[e])

(* "devuelve 0 si se ha insertado correctamente" (CProblema.h:64): an edit *)
(* that succeeds leaves the problem it read, with the edit made.           *)
SuccessIsTrue == [][SuccessMade]_vars
=============================================================================
