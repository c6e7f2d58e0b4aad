---------------------------- MODULE MCLocomotion ----------------------------
(***************************************************************************)
(* Two cells by three with an obstacle in a corner: rows, columns and      *)
(* diagonals to move along, ways of two cells, and walls on every side.    *)
(* One turn of the loop is 45 degrees; one bump comes from nowhere.  GOAC  *)
(* asks for three places, on both sides of a diagonal; three operators     *)
(* share a table of two.                                                   *)
(***************************************************************************)
EXTENDS Drivers

MCWidth == 2
MCHeight == 3
MCTurn == 45
MCAngles == {-180, 45}
MCWorlds == {{[x |-> 1, y |-> 2]}}
MCDocks == {[cell |-> [x |-> 0, y |-> 0], o |-> 0],
            [cell |-> [x |-> 1, y |-> 0], o |-> 180]}
MCMaxBumps == 1
MCGoals == {[x |-> 0, y |-> 0], [x |-> 1, y |-> 0], [x |-> 1, y |-> -1]}
MCConnections == {"first", "second", "third"}
MCMessages == {[fields |-> 6, x |-> -1, z |-> 0], [fields |-> 1, x |-> 0, z |-> 0]}
=============================================================================
