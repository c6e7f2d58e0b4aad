------------------------------- MODULE Problem -------------------------------
(***************************************************************************)
(* The problem file of a mission: the protocol of ProblemFile on the texts *)
(* of ProblemText, with the layout of problemTemplatedOptic.pddl and the   *)
(* edits that Planner.ple, dock.ple, undock.ple, PDDLAdapter and up2ta ask *)
(* for.  Lines that no edit looks for or writes are left out.              *)
(***************************************************************************)
EXTENDS ProblemFile, ProblemText

CONSTANTS
    Cells,       \* cells the robot may be in
    Home,        \* the one it starts from
    Pictures,    \* goals that are sent by telecommand
    MaxGoals,    \* bound: goals in the problem
    MaxScratch   \* bound: way points, and distances, in the problem

Position(c) == Line("position", <<"turtle", c>>)
IsCharging == Line("is_charging", <<"turtle">>)
Free == Line("free", <<"turtle">>)
Picture(p) == Line("picture", <<p>>)
WayPoints == Line("waypoints", <<>>)
Distance == Line("= (distance", <<>>)
TimePoint == Line("= (time_point", <<>>)

(* The template, with what the edits put in its four sections.             *)
Text(objs, inits, facts, goals) ==
    <<OBJS>> \o objs \o <<Comment, Close, INIT>> \o inits \o <<CONFIG>>
        \o facts \o <<Close, GOAL>> \o goals \o <<Close>>

Template == Text(<<>>, <<>>, <<Position(Home), IsCharging>>, <<>>)

GoalLines == {Picture(p) : p \in Pictures} \cup {IsCharging}

Facts ==
    {f \in BoundedSeq({Position(c) : c \in Cells} \cup {IsCharging, Free}, 3) :
        /\ \A i, j \in DOMAIN f : f[i].name = f[j].name => i = j
        /\ \E i \in DOMAIN f : f[i].name = "position"}

Texts ==
    {Text(o, d, f, g) :
        o \in BoundedSeq({WayPoints}, MaxScratch),
        d \in BoundedSeq({Distance}, MaxScratch),
        f \in Facts,
        g \in BoundedSeq(GoalLines, MaxGoals)}

(* The lines between a mark and the next line that ends its section.       *)
Section(text, mark) ==
    LET from == SelectInSeq(text, LAMBDA l : l = mark)
        to == SelectInSubSeq(text, from + 1, Len(text),
                             LAMBDA l : l \in Comments \cup {Close})
    IN  SubSeq(text, from + 1, to - 1)

Sections == {OBJS, INIT, CONFIG, GOAL}

-----------------------------------------------------------------------------
(* The edits.                                                              *)

SetPosition(c) == Replace(Line("position", <<"turtle">>), Position(c))
Move(c, d) == Replace(Position(c), Position(d))

(* What the path planner inserts, with its own copy of the class: the      *)
(* distances go after the mark of the initial state, not the conditions.   *)
InsertWayPoints == Insert(OBJS, WayPoints)
InsertDistance == Insert(INIT, Distance)

(* SetStartTime sets a function this problem does not have.                *)
SetStartTime == Replace(TimePoint, TimePoint)

Edits ==
    {SetPosition(c) : c \in Cells} \cup {Move(c, d) : c \in Cells, d \in Cells}
        \cup {Insert(GOAL, g) : g \in GoalLines}
        \cup {Insert(CONFIG, IsCharging), Insert(CONFIG, Free)}
        \cup {Delete(IsCharging), Delete(Free)}
        \cup {InsertWayPoints, InsertDistance}
        \cup {DeleteGoals, DeleteInits, DeleteObjs, SetStartTime}

(* A robot is docked when it is free and undocked when it is charging, by  *)
(* the conditions of AutoDock and UnDock in the domain, so the facts that  *)
(* dock and undock insert are absent and those they remove present.  The   *)
(* other edits are asked for at any time, within the bounds.               *)
AsPlanned(r, text) ==
    LET facts == Section(text, CONFIG)
    IN  /\ r.op = "insert" =>
            CASE r.at = CONFIG -> ~Contains(facts, r.line)
              [] r.at = GOAL -> Len(Section(text, GOAL)) < MaxGoals
              [] OTHER -> Len(Section(text, r.at)) < MaxScratch
        /\ r.op = "delete" => Contains(facts, r.at)

-----------------------------------------------------------------------------
(* Properties.                                                             *)

(* What an edit means for the sections of the problem: the one it is about *)
(* and what becomes of it.                                                 *)
Target(r) == IF r.op \in {"replace", "delete"} THEN CONFIG ELSE r.at

Meant(r, lines) ==
    CASE r.op = "insert" -> <<r.line>> \o lines
      [] r.op = "replace" ->
            [i \in DOMAIN lines |->
                IF Matches(lines[i], r.at) THEN r.line ELSE lines[i]]
      [] r.op = "delete" -> SelectSeq(lines, LAMBDA l : l # r.at)
      [] OTHER -> <<>>

(* An edit, from the moment its text becomes the only copy to its return,  *)
(* changes the section it is about as it means to and leaves the others    *)
(* alone: the fact and the goal (is_charging turtle) are not mistaken for  *)
(* each other, no mark is lost, and the distances of an earlier planning   *)
(* go with the way points they are between.                                *)
EditsAsMeant ==
    [][\A e \in Editors : pc[e] = "remove" /\ pc'[e] = "rename" =>
        \A s \in Sections :
            Section(Current', s) =
                IF s = Target(request[e]) THEN Meant(request[e], Section(Current, s))
                ELSE Section(Current, s)]_vars

Marks(text) == SelectSeq(text, LAMBDA l : l \in {OBJS, INIT, GOAL})

(* "BORRAR EN EL PROBLEMA LAS DISTANCIAS ENTRE CASILLAS"                   *)
(* (PDDLAdapter.cpp:629): get_plan erases distances, and the way points    *)
(* they are between; the sections of the problem stay.                     *)
MarksKept == [][Marks(Current') = Marks(Current)]_vars
=============================================================================
