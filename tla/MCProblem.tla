------------------------------ MODULE MCProblem ------------------------------
(* Instances of Problem for TLC.                                           *)
EXTENDS Problem

MCBlank == <<>>

(* The layout of problemTemplated.pddl, which configSGP names: no comment  *)
(* among the objects, one line before another header of the data.          *)
MCTemplateSGP ==
    <<OBJS, Line("turtle - rover", <<>>), Close, INIT,
      Line("= (square_size", <<>>), OTHER_CONFIG, Position(Home), Close,
      GOAL, Close>>

(* The edits of the first planning and of a goal by telecommand.           *)
MCPlanEdits ==
    {DeleteInits, DeleteObjs, DeleteGoals, Insert(CONFIG, Free)}
        \cup {Insert(GOAL, Picture(p)) : p \in Pictures}

MCMaxLength == 12 \* bound: lines of a problem of the other layout
MCShort(r, text) == Len(Edit(r, text)) <= MCMaxLength

RECURSIVE Closure(_)
Closure(texts) ==
    LET more == texts \cup
            {Edit(r, c) : <<r, c>> \in
                {rc \in Requests \X texts : MCShort(rc[1], rc[2])}}
    IN  IF more = texts THEN texts ELSE Closure(more)

MCTextsSGP == Closure({MCTemplateSGP})

(* Two threads: the executive moves the robot, a telecommand adds a goal.  *)
MCTwoEdits ==
    {SetPosition(c) : c \in Cells} \cup {Insert(GOAL, Picture(p)) : p \in Pictures}
=============================================================================
