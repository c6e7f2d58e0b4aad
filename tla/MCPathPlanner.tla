---------------------------- MODULE MCPathPlanner ----------------------------
(***************************************************************************)
(* Four rows of three cells, free or with three obstacles in the two rows  *)
(* in the middle, and a margin of a cell: straight, diagonal and any-angle *)
(* segments, inner cells and the four sides, walls that a bump closes.     *)
(* Two bumps, so that one can follow a mark that joined two lines; plans   *)
(* of two moves, so that a search follows one that found no route.         *)
(***************************************************************************)
EXTENDS PathPlanner, FiniteSetsExt

MCRows == 4
MCCols == 3
MCMargin == 1
MCMaps == kSubset(0, Cell) \cup kSubset(3, {p \in Cell : p.Y \in {1, 2}})
MCProblems ==
    {[before |-> <<>>, after |-> <<[X |-> 2, Y |-> 2]>>],
     [before |-> <<[X |-> 0, Y |-> 0], [X |-> 0, Y |-> 2]>>, after |-> <<>>],
     [before |-> <<[X |-> 0, Y |-> 2]>>, after |-> <<[X |-> 1, Y |-> 0]>>]}
MCPairLimit == 3000
MCMaxMoves == 2
MCMaxBumps == 2
=============================================================================
