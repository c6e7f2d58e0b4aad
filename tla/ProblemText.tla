----------------------------- MODULE ProblemText -----------------------------
(***************************************************************************)
(* What the edits of CProblema write.  A problem is a sequence of lines,   *)
(* and a line is the name it begins with and the objects that follow it.   *)
(* CProblema recognises a line by how it begins (strncmp), so a pattern    *)
(* matches every line whose name is its own and whose objects begin with   *)
(* its objects.  Names none of which begins another, as in the shipped     *)
(* problems, are compared whole.                                           *)
(***************************************************************************)
EXTENDS Naturals, SequencesExt

Line(name, args) == [name |-> name, args |-> args]

OBJS == Line("(:objects", <<>>)
INIT == Line("(:init", <<>>)
CONFIG == Line(";DATA AND CONFIG", <<>>)
OTHER_CONFIG == Line(";TURTLEBOT DATA AND CONFIG", <<>>)
GOAL == Line("(:goal", <<>>)
Comment == Line(";", <<>>)
Close == Line(")", <<>>)
EmptyLine == Line("empty", <<>>)
Garbage == Line("garbage", <<>>)

Comments == {Comment, CONFIG, OTHER_CONFIG}
IsEmpty(l) == l = EmptyLine

Matches(l, pattern) ==
    l.name = pattern.name /\ IsPrefix(pattern.args, l.args)

(* The lines a copy reads: it stops at an empty line as at the end.        *)
Readable(text) ==
    LET end == SelectInSeq(text, IsEmpty)
    IN  IF end = 0 THEN text ELSE SubSeq(text, 1, end - 1)

From(text, i) == SubSeq(text, i, Len(text))

(* copiar_hasta(line): where the line is that it stops at, 0 if none; and, *)
(* copiar_hasta(NULL), what is copied after it.  A search that fails has   *)
(* consumed the empty line it stopped at, and the copy goes on behind it.  *)
Found(text, pattern) ==
    SelectInSeq(Readable(text), LAMBDA l : Matches(l, pattern))

Before(text, at) ==
    IF at = 0 THEN Readable(text) ELSE SubSeq(text, 1, at - 1)

After(text, at) ==
    Readable(From(text, IF at = 0 THEN Len(Readable(text)) + 2 ELSE at + 1))

(* insertar_pred and insertar_objetos: the line goes first in its section. *)
Inserted(text, at, line) ==
    Before(text, at)
        \o (IF at = 0 THEN <<>> ELSE <<text[at], line>>)
        \o After(text, at)

(* reemplazar_pred and eliminar_predicado: the first line that matches.    *)
Replaced(text, at, line) ==
    Before(text, at)
        \o (IF at = 0 THEN <<>> ELSE <<line>>)
        \o After(text, at)

DeletedEverywhere(text, at) ==
    SelectSeq(text, LAMBDA l : at = 0 \/ l # text[at])

Deleted(text, at) == Before(text, at) \o After(text, at)

(* eliminar_goals, eliminar_inits and eliminar_objs: what stands between a *)
(* mark and the first line that stops the erasure is left out.  When there *)
(* is no mark they write a line from a buffer that holds nothing, and when *)
(* no line stops them an empty line.                                       *)
Emptied(text, at, stops) ==
    LET end == SelectInSubSeq(text, at + 1, Len(text),
                              LAMBDA l : l \in stops \/ IsEmpty(l))
    IN  IF at = 0 THEN Before(text, 0) \o <<Garbage>> \o After(text, 0)
        ELSE SubSeq(text, 1, at)
                \o (IF end = 0 THEN <<EmptyLine>>
                    ELSE <<text[end]>> \o After(text, end))

(* An edit: its kind, the mark or the pattern it looks for, and the line   *)
(* it writes.                                                              *)
Insert(mark, line) == [op |-> "insert", at |-> mark, line |-> line]
Replace(pattern, line) == [op |-> "replace", at |-> pattern, line |-> line]
Delete(pattern) == [op |-> "delete", at |-> pattern, line |-> EmptyLine]
DeleteGoals == [op |-> "goals", at |-> GOAL, line |-> EmptyLine]
DeleteInits == [op |-> "inits", at |-> INIT, line |-> EmptyLine]
DeleteObjs == [op |-> "objs", at |-> OBJS, line |-> EmptyLine]

Edit(r, text) ==
    LET at == Found(text, r.at)
    IN  CASE r.op = "insert" -> Inserted(text, at, r.line)
          [] r.op = "replace" -> Replaced(text, at, r.line)
          [] r.op = "delete" -> Deleted(text, at)
          [] r.op = "goals" -> Emptied(text, at, {Close})
          [] OTHER -> Emptied(text, at, Comments)

(* The insertions, the replacement and the deletion of a line report that  *)
(* their line is missing (-2); the erasures do not.                        *)
Reports(r, text) ==
    r.op \in {"insert", "replace", "delete"} => Found(text, r.at) # 0

(* Writing a file from its beginning leaves what lies further.             *)
WrittenOver(new, old) == new \o From(old, Len(new) + 1)

=============================================================================
