---------------------------- MODULE MCExecutive ----------------------------
(* Small instances of Executive: two goals, two cells, plans of at most    *)
(* two actions.  The table of actions misses one kind, as configSGP misses *)
(* actions of the domain.                                                  *)
EXTENDS Executive

CONSTANTS g1, charge, c1, c2

MCGoals == {g1, charge}
MCInitGoals == {g1}
MCCells == {c1, c2}
MCAtHome == {c1}
MCAnywhere == {c1, c2}
MCDeclared == {"moveto", "undock", "inplace"}
=============================================================================
