-------------------------- MODULE ProblemFileProofs --------------------------
(***************************************************************************)
(* What the protocol of CProblema guarantees to a single editor, for every *)
(* set of texts and of edits: no whole text is ever lost, an edit that     *)
(* returns success was made, and edits are atomic.  The assumption is the  *)
(* one the program does not enforce: Editors has one member.               *)
(***************************************************************************)
EXTENDS ProblemFile, TLAPS

(* Where the editor stands says which file holds the text: the problem, or *)
(* the auxiliary file between the calls of remove and of rename.           *)
Writing(e) ==
    /\ problem # NoFile /\ Issued(request[e], problem)
    /\ buffer[e] = problem /\ aux = Blank /\ salida[e] = "aux"

Removing(e) ==
    /\ problem # NoFile /\ buffer[e] = problem
    /\ aux = Apply(request[e], buffer[e]) /\ aux \in Contents
    /\ result[e] = Reply(request[e], buffer[e])

Renaming(e) ==
    /\ problem = NoFile
    /\ aux = Apply(request[e], buffer[e]) /\ aux \in Contents

FilesInv(e) ==
    /\ pc[e] \in {"idle", "return"} => problem # NoFile
    /\ pc[e] = "write" => Writing(e)
    /\ pc[e] = "remove" => Removing(e)
    /\ pc[e] = "rename" => Renaming(e)

IInv == TypeOK /\ \A e \in Editors : FilesInv(e)

(* The reply of an edit is one of two.                                     *)
LEMMA ReplyType ==
    ASSUME NEW r, NEW c
    PROVE  Reply(r, c) \in {"ok", "not_found"}
BY DEF Reply

(* The invariant holds as the mission starts.                              *)
LEMMA InvInit == Init => IInv
<1> SUFFICES ASSUME Init PROVE IInv
    OBVIOUS
<1>1. TypeOK
    BY ProblemAssumption DEF Init, TypeOK, Streams
<1>2. ASSUME NEW e \in Editors PROVE FilesInv(e)
    BY ProblemAssumption DEF Init, FilesInv
<1> QED
    BY <1>1, <1>2 DEF IInv

(* One step of the only editor preserves it.                               *)
LEMMA InvStep ==
    ASSUME NEW e, Editors = {e}, IInv, [Next]_vars
    PROVE  IInv'
<1> USE DEF IInv
<1>0. /\ TypeOK /\ FilesInv(e)
      /\ e \in Editors
    OBVIOUS
<1>1. ASSUME NEW r \in Requests, Open(e, r) PROVE TypeOK' /\ FilesInv(e)'
  <2>1. problem # NoFile /\ problem \in Contents /\ Issued(r, problem)
      BY <1>0, <1>1 DEF TypeOK, FilesInv, Open
  <2>2. TypeOK'
      BY <1>0, <1>1, <2>1 DEF TypeOK, Open, Goto, Streams
  <2>3. pc'[e] = "write"
      BY <1>0, <1>1, <2>1 DEF TypeOK, Open, Goto
  <2>4. Writing(e)'
      BY <1>0, <1>1, <2>1 DEF TypeOK, Open, Writing
  <2> QED
      BY <2>2, <2>3, <2>4 DEF FilesInv
<1>2. ASSUME Write(e) PROVE TypeOK' /\ FilesInv(e)'
  <2> DEFINE text == Apply(request[e], buffer[e])
  <2>1. Writing(e) /\ text \in Contents
      BY <1>0, <1>2, ProblemAssumption DEF TypeOK, FilesInv, Write, Writing
  <2>2. aux' = text /\ problem' = problem
      BY <1>0, <1>2, <2>1, ProblemAssumption DEF Write, Writing
  <2>3. TypeOK'
      BY <1>0, <1>2, <2>1, <2>2, ReplyType DEF TypeOK, Write, Goto, Streams
  <2>4. pc'[e] = "remove"
      BY <1>0, <1>2 DEF TypeOK, Write, Goto
  <2>5. Removing(e)'
      BY <1>0, <1>2, <2>1, <2>2 DEF TypeOK, Write, Writing, Removing, Reply
  <2> QED
      BY <2>3, <2>4, <2>5 DEF FilesInv
<1>3. ASSUME RemoveProblem(e) PROVE TypeOK' /\ FilesInv(e)'
  <2>1. Removing(e)
      BY <1>0, <1>3 DEF FilesInv, RemoveProblem
  <2>2. /\ problem' = NoFile /\ aux' = aux
        /\ salida' = [x \in Editors |-> Unlinked(salida[x])]
        /\ pc' = [pc EXCEPT ![e] = "rename"]
        /\ UNCHANGED <<request, buffer, result>>
      BY <1>3, <2>1 DEF RemoveProblem, Removing, Goto
  <2>3. TypeOK'
      BY <1>0, <2>1, <2>2 DEF TypeOK, Removing, Unlinked, Streams
  <2>4. pc'[e] = "rename" /\ Renaming(e)'
      BY <1>0, <2>1, <2>2 DEF TypeOK, Removing, Renaming
  <2> QED
      BY <2>3, <2>4 DEF FilesInv
<1>4. ASSUME RenameAux(e) PROVE TypeOK' /\ FilesInv(e)'
  <2>1. Renaming(e) /\ aux # NoFile
      BY <1>0, <1>4, ProblemAssumption DEF FilesInv, RenameAux, Renaming
  <2>2. /\ problem' = aux /\ aux' = NoFile
        /\ salida' = [x \in Editors |-> Renamed(salida[x])]
        /\ pc' = [pc EXCEPT ![e] = "return"]
        /\ UNCHANGED <<request, buffer, result>>
      BY <1>4, <2>1 DEF RenameAux, Goto
  <2>3. TypeOK'
      BY <1>0, <2>1, <2>2 DEF TypeOK, Renaming, Renamed, Unlinked, Streams
  <2>4. pc'[e] = "return" /\ problem' # NoFile
      BY <1>0, <2>1, <2>2 DEF TypeOK
  <2> QED
      BY <2>3, <2>4 DEF FilesInv
<1>5. ASSUME Return(e) PROVE TypeOK' /\ FilesInv(e)'
  <2>1. TypeOK'
      BY <1>0, <1>5 DEF TypeOK, Return, Goto
  <2>2. pc'[e] = "idle" /\ problem' # NoFile
      BY <1>0, <1>5 DEF TypeOK, FilesInv, Return, Goto
  <2> QED
      BY <2>1, <2>2 DEF FilesInv
<1>6. CASE UNCHANGED vars
    BY <1>0, <1>6
       DEF vars, TypeOK, FilesInv, Writing, Removing, Renaming, Reply
<1>7. CASE Next
    BY <1>1, <1>2, <1>3, <1>4, <1>5, <1>7 DEF Next, Step
<1> QED
    BY <1>6, <1>7

(* One editor: the invariant holds always.                                 *)
THEOREM Invariance ==
    ASSUME NEW e, Editors = {e}
    PROVE  Spec => []IInv
<1>1. Init => IInv
    BY InvInit
<1>2. IInv /\ [Next]_vars => IInv'
    BY InvStep
<1> QED
    BY <1>1, <1>2, PTL DEF Spec

(* One editor: the variables keep their types; in particular the problem   *)
(* is always a text that the edits make, or has no name for a moment.      *)
THEOREM TypeCorrect ==
    ASSUME NEW e, Editors = {e}
    PROVE  Spec => []TypeOK
<1>1. IInv => TypeOK
    BY DEF IInv
<1> QED
    BY <1>1, Invariance, PTL

(* One editor: whenever the process dies, one of the two files of          *)
(* actualizar_archivos holds a whole text, and it is the problem unless    *)
(* the process died between remove and rename.                             *)
THEOREM TextNeverLost ==
    ASSUME NEW e, Editors = {e}
    PROVE  Spec => []WholeTextKept
<1>1. IInv => WholeTextKept
  <2> SUFFICES ASSUME IInv PROVE WholeTextKept
      OBVIOUS
  <2>1. TypeOK /\ FilesInv(e) /\ pc[e] \in {"idle", "write", "remove", "rename", "return"}
      BY DEF IInv, TypeOK
  <2>2. problem # Blank
      BY <2>1, ProblemAssumption DEF TypeOK
  <2>3. problem = NoFile => aux \in Contents
      BY <2>1 DEF FilesInv, Writing, Removing, Renaming
  <2> QED
      BY <2>2, <2>3, ProblemAssumption DEF WholeTextKept
<1> QED
    BY <1>1, Invariance, PTL

(* One editor: an edit that returns 0 (insertar_pred and the others) left  *)
(* in the problem file the text it read with the edit made.                *)
THEOREM SuccessMeansDone ==
    ASSUME NEW e, Editors = {e}
    PROVE  Spec => SuccessIsTrue
<1>1. IInv /\ [Next]_vars => [SuccessMade]_vars
  <2> SUFFICES ASSUME IInv, Next, pc[e] = "rename", pc'[e] = "return"
               PROVE  problem' = Apply(request[e], buffer[e])
      BY DEF SuccessMade
  <2>1. Renaming(e) /\ aux # NoFile
      BY ProblemAssumption DEF IInv, FilesInv, Renaming
  <2>2. RenameAux(e)
      BY DEF Next, Step, Open, Write, RemoveProblem, Return
  <2> QED
      BY <2>1, <2>2 DEF RenameAux, Renaming
<1> QED
    BY <1>1, Invariance, PTL DEF Spec, SuccessIsTrue

-----------------------------------------------------------------------------
(* The refinement.  Opening the files is the call, remove is the moment    *)
(* the edit takes place, and the other steps are not seen.                 *)

LEMMA AtomicInit ==
    ASSUME NEW e, Editors = {e}, Init
    PROVE  Atomic!Init
BY ProblemAssumption
   DEF Init, Atomic!Init, Current, Served, Atomic!NoReply

LEMMA AtomicStep ==
    ASSUME NEW e, Editors = {e}, IInv, IInv', [Next]_vars
    PROVE  [Atomic!Next]_(Atomic!vars)
<1> DEFINE phase(p) == IF p = "idle" THEN "idle"
                       ELSE IF p \in Served THEN "served" ELSE "asked"
           Phases == [x \in Editors |-> phase(pc[x])]
           Answers == [x \in Editors |-> IF pc[x] \in Served THEN result[x]
                                         ELSE "none"]
<1>0. e \in Editors /\ TypeOK /\ FilesInv(e) /\ FilesInv(e)' /\ TypeOK'
    BY DEF IInv
<1>1. ASSUME NEW r \in Requests, Open(e, r) PROVE Atomic!Ask(e, r)
  <2>1. problem # NoFile /\ Issued(r, problem) /\ pc[e] = "idle"
      BY <1>0, <1>1 DEF FilesInv, Open
  <2>2. Current = problem /\ Current' = problem
      BY <1>1, <2>1 DEF Current, Open
  <2>3. pc' = [pc EXCEPT ![e] = "write"] /\ result' = result
      BY <1>1, <2>1 DEF Open, Goto
  <2>4. Phases' = [Phases EXCEPT ![e] = "asked"]
      BY <1>0, <2>3 DEF TypeOK, Served
  <2>5. Answers' = Answers
      BY <1>0, <2>1, <2>3 DEF TypeOK, Served
  <2>6. request' = [request EXCEPT ![e] = r]
      BY <1>1 DEF Open
  <2> QED
      BY <1>0, <2>1, <2>2, <2>4, <2>5, <2>6 DEF Atomic!Ask
<1>2. ASSUME Write(e) PROVE UNCHANGED Atomic!vars
  <2>1. problem' = problem /\ problem # NoFile /\ request' = request
      BY <1>0, <1>2 DEF FilesInv, Write, Writing
  <2>2. pc[e] = "write" /\ pc' = [pc EXCEPT ![e] = "remove"]
      BY <1>2 DEF Write, Goto
  <2>3. Phases' = Phases /\ Answers' = Answers
      BY <1>0, <2>2 DEF TypeOK, Served
  <2>4. Current' = Current
      BY <2>1 DEF Current
  <2> QED
      BY <2>1, <2>3, <2>4 DEF Atomic!vars
<1>3. ASSUME RemoveProblem(e) PROVE Atomic!Serve(e)
  <2>1. Removing(e) /\ pc[e] = "remove"
      BY <1>0, <1>3 DEF FilesInv, RemoveProblem
  <2>2. /\ problem' = NoFile /\ aux' = aux /\ request' = request
        /\ pc' = [pc EXCEPT ![e] = "rename"] /\ result' = result
      BY <1>3, <2>1 DEF RemoveProblem, Removing, Goto
  <2>3. Current = problem /\ Current' = Apply(request[e], Current)
      BY <2>1, <2>2 DEF Current, Removing
  <2>4. Phases[e] = "asked" /\ Phases' = [Phases EXCEPT ![e] = "served"]
      BY <1>0, <2>1, <2>2 DEF TypeOK, Served
  <2>5. result[e] = Atomic!Reply(request[e], Current)
      BY <2>1, <2>3 DEF Removing, Reply, Atomic!Reply
  <2>6. Answers' = [Answers EXCEPT ![e] = result[e]]
      BY <1>0, <2>1, <2>2 DEF TypeOK, Served
  <2> QED
      BY <2>2, <2>3, <2>4, <2>5, <2>6 DEF Atomic!Serve
<1>4. ASSUME RenameAux(e) PROVE UNCHANGED Atomic!vars
  <2>1. Renaming(e) /\ aux # NoFile /\ pc[e] = "rename"
      BY <1>0, <1>4, ProblemAssumption DEF FilesInv, RenameAux, Renaming
  <2>2. /\ problem' = aux /\ request' = request /\ result' = result
        /\ pc' = [pc EXCEPT ![e] = "return"]
      BY <1>4, <2>1 DEF RenameAux, Goto
  <2>3. Current' = Current
      BY <2>1, <2>2 DEF Current, Renaming
  <2>4. Phases' = Phases /\ Answers' = Answers
      BY <1>0, <2>1, <2>2 DEF TypeOK, Served
  <2> QED
      BY <2>2, <2>3, <2>4 DEF Atomic!vars
<1>5. ASSUME Return(e) PROVE Atomic!Return(e)
  <2>1. /\ pc[e] = "return" /\ pc' = [pc EXCEPT ![e] = "idle"]
        /\ problem' = problem /\ aux' = aux /\ request' = request
      BY <1>5 DEF Return, Goto
  <2>2. Current' = Current
      BY <2>1 DEF Current
  <2>3. Phases[e] = "served" /\ Phases' = [Phases EXCEPT ![e] = "idle"]
      BY <1>0, <2>1 DEF TypeOK, Served
  <2>4. Answers' = [Answers EXCEPT ![e] = "none"]
      BY <1>0, <2>1 DEF TypeOK, Served
  <2> QED
      BY <2>1, <2>2, <2>3, <2>4 DEF Atomic!Return, Atomic!NoReply
<1>6. CASE UNCHANGED vars
    BY <1>6 DEF vars, Atomic!vars, Current, Served
<1>7. CASE Next
    BY <1>0, <1>1, <1>2, <1>3, <1>4, <1>5, <1>7 DEF Next, Step, Atomic!Next
<1> QED
    BY <1>6, <1>7

(* One editor: the protocol implements the problem of AtomicProblem, step  *)
(* by step (its liveness is left to TLC).                                  *)
THEOREM Atomicity ==
    ASSUME NEW e, Editors = {e}
    PROVE  Spec => Atomic!Init /\ [][Atomic!Next]_(Atomic!vars)
<1>1. Init => Atomic!Init
    BY AtomicInit
<1>2. IInv /\ IInv' /\ [Next]_vars => [Atomic!Next]_(Atomic!vars)
    BY AtomicStep
<1> QED
    BY <1>1, <1>2, Invariance, PTL DEF Spec
=============================================================================
