------------------------------ MODULE PathSearch ------------------------------
(***************************************************************************)
(* The search of a route in the map of the path planner: GSIsearch (Basic  *)
(* Theta* with a list of open nodes ordered by F) over the nodes of Map,   *)
(* and the safety margin around obstacles.                                 *)
(*                                                                         *)
(* Distances are thousandths of a cell, cut: two sums are the same here    *)
(* when they are the same number.                                          *)
(***************************************************************************)
EXTENDS ObstacleMap, Sequences, SequencesExt

CONSTANT Margin \* cells around an obstacle (desp); 0 when there is none

ASSUME MarginAssumption == Margin \in Nat

VARIABLES
    obstacles, \* cells whose C is over MAX_C
    S,         \* factor of the safety margin of each node
    node,      \* G, F and parent of each node; F is -1 before it is reached
    open,      \* nodes by F, the older first
    closed,    \* nodes taken from open
    start, goal,
    path,      \* the nodes of the route, the goal first
    result,    \* of the search: "searching", "found", "none", "hangs"
    dropped    \* a node left open untaken, with the same F as one taken

searchVars == <<obstacles, S, node, open, closed, start, goal, path, result, dropped>>

Abs(n) == IF n < 0 THEN -n ELSE n
Larger(m, n) == IF m > n THEN m ELSE n

(* Square roots of the distances there are in the map, in thousandths.     *)
Roots ==
    [n \in {a * a + b * b : a \in 0..Cols - 1, b \in 0..Rows - 1} |->
        CHOOSE r \in 0..1000 * (Rows + Cols) :
            r * r <= 1000000 * n /\ 1000000 * n < (r + 1) * (r + 1)]

get_dist(p, t) == Roots[(p.X - t.X) * (p.X - t.X) + (p.Y - t.Y) * (p.Y - t.Y)]

-----------------------------------------------------------------------------
(* Map. *)
Node == [G : Nat, F : Int, parent : Cell]
NoNode == [G |-> 0, F |-> -1, parent |-> [X |-> 0, Y |-> 0]]

reset_data(n) == [p \in Cell |-> [G |-> 0, F |-> -1, parent |-> n[p].parent]]

(* What obstacle o makes of the factor s of node p.  Next to an obstacle   *)
(* the factor goes to 3 even when it was higher.                           *)
margin(s, o, p) ==
    LET dx == Abs(p.X - o.X)
        dy == Abs(p.Y - o.Y)
        next == dx + dy = 1 \/ (dx = 1 /\ dy = 1)
        dist == IF dx = dy /\ ~next THEN dx ELSE dx + dy
        wide == (Margin - dist + 2) * (Margin - dist + 2)
    IN  IF dx > Margin \/ dy > Margin THEN s
        ELSE Larger(IF next THEN 3 ELSE s, wide)

(* The code goes over the map by columns, from one obstacle to the next.   *)
safety_margin(obs, s) ==
    LET at(i) == [X |-> (i - 1) \div Rows, Y |-> (i - 1) % Rows]
        factor(p) ==
            LET over[i \in 0..Rows * Cols] ==
                  IF i = 0 THEN s[p]
                  ELSE IF at(i) \in obs THEN margin(over[i - 1], at(i), p) ELSE over[i - 1]
            IN  over[Rows * Cols]
    IN  IF Margin = 0 THEN s ELSE [p \in Cell |-> IF p \in obs THEN s[p] ELSE factor(p)]

NoMargin == [p \in Cell |-> 0]

valid_pos(p) == p \in Cell
is_obstacle(p) == valid_pos(p) => p \in obstacles

(* The nodes around p, as the loops of get_succesors meet them. *)
Around == <<<<-1, -1>>, <<0, -1>>, <<1, -1>>, <<-1, 0>>, <<1, 0>>, <<-1, 1>>, <<0, 1>>, <<1, 1>>>>
get_succesor(p, k) == [X |-> p.X + Around[k][1], Y |-> p.Y + Around[k][2]]

-----------------------------------------------------------------------------
(* GSIsearch. *)

(* The cells segment_cost looks at: those of the points where the segment  *)
(* cuts the lines at half a cell, rounded up, and never its last point.    *)
Rounded(n, d) == (2 * n + d) \div (2 * d)

SegmentCells(p, q) ==
    LET dx == q.X - p.X
        dy == q.Y - p.Y
        ax == Abs(dx)
        ay == Abs(dy)
        n == Larger(ax, ay)
        cut(k, a) == [X |-> Rounded(2 * a * p.X + k * dx, 2 * a),
                      Y |-> Rounded(2 * a * p.Y + k * dy, 2 * a)]
    IN  IF dx = 0 \/ dy = 0 THEN {cut(2 * k, n) : k \in 0..n - 1}
        ELSE {cut(k, ax) : k \in 0..2 * ax - 1} \cup {cut(k, ay) : k \in 0..2 * ay - 1}

ClearOfMargin(p, q) ==
    \A c \in SegmentCells(p, q) : c \in Cell /\ S[c] <= 2

LineOfSight(p, q) ==
    \A c \in SegmentCells(p, q) : ~is_obstacle(c) /\ S[c] <= 2

InsertLast(o, n, p) == Append(o, p)

(* The list of open nodes is a multimap: a node is inserted behind those   *)
(* of the same F.  FirstOf is the first of the places K, or the end.       *)
FirstOf(K, o) == Min(K \cup {Len(o) + 1})
InsertOpen(o, n, p) == InsertAt(o, FirstOf({k \in 1..Len(o) : n[o[k]].F > n[p].F}, o), p)

UpdateSeen(st, pos, succ) ==
    LET parent == st.node[pos].parent
        cost == st.node[parent].G + get_dist(parent, succ)
        n == [st.node EXCEPT ![succ] =
                [G |-> cost, F |-> cost + get_dist(succ, goal), parent |-> parent]]
    IN  IF ~LineOfSight(parent, succ) \/ (st.node[succ].F >= 0 /\ cost >= st.node[succ].G)
        THEN st
        ELSE [node |-> n,
              open |-> InsertOpen(RemoveFirst(st.open, succ), n, succ)]

(* update_vertex: a segment from the parent of pos if it sees succ, else a  *)
(* step from pos, dearer within the margin.                                *)
UpdateVertex(st, pos, succ) ==
    LET parent == st.node[pos].parent
        sees == LineOfSight(parent, succ)
        from == IF sees THEN parent ELSE pos
        cost == st.node[from].G
                + get_dist(from, succ) * (IF sees THEN 1 ELSE S[succ])
        reached == st.node[succ].F >= 0
        n == [st.node EXCEPT ![succ] =
                [G |-> cost, F |-> cost + get_dist(succ, goal), parent |-> from]]
    IN  IF reached /\ cost >= st.node[succ].G THEN st
        ELSE [node |-> n, open |-> InsertOpen(RemoveFirst(st.open, succ), n, succ)]

(* The route along the parents, at most as long as there are cells. *)
RouteTo(p) ==
    LET n == Rows * Cols
        back[k \in 1..n + 1] == IF k = 1 THEN p ELSE node[back[k - 1]].parent
        met == {k \in 1..n : back[k] = start} \cup {n + 1}
    IN  [k \in 1..Min(met) |-> back[k]]

Clear == /\ open' = <<>> /\ closed' = {} /\ path' = <<>>

(* The first steps of search, over the nodes n and the closed nodes c.     *)
BeginSearch(n, c, from, to) ==
    LET m == [n EXCEPT ![from] = [G |-> 0, F |-> get_dist(from, to), parent |-> from]]
    IN  /\ start' = from /\ goal' = to
        /\ node' = m
        /\ open' = <<from>>
        /\ closed' = c
        /\ path' = <<>>
        /\ result' = "searching"
        /\ dropped' = FALSE

(* erase takes every node with the key: those with the F of the taken one. *)
Remaining(pos) ==
    SubSeq(open, FirstOf({k \in 1..Len(open) : node[open[k]].F # node[pos].F}, open), Len(open))

TreatedNow(q, pos) == q = pos
Treated(q, pos) == q \in closed \cup {pos}

(* One round of the loop of search. *)
TakeNode ==
    /\ result = "searching"
    /\ open # <<>>
    /\ LET pos == Head(open)
           rest == Remaining(pos)
           route == RouteTo(pos)
           update[k \in 0..8] ==
               IF k = 0 THEN [node |-> node, open |-> rest]
               ELSE LET succ == get_succesor(pos, k) IN
                    IF is_obstacle(succ) \/ Treated(succ, pos) THEN update[k - 1]
                    ELSE UpdateVertex(update[k - 1], pos, succ)
           st == update[8]
       IN  /\ closed' = closed \cup {pos}
           /\ dropped' = (dropped \/ Len(rest) < Len(open) - 1)
           /\ IF pos = goal
              THEN /\ result' = IF Last(route) = start THEN "found" ELSE "hangs"
                   /\ path' = route
                   /\ open' = rest
                   /\ UNCHANGED node
              ELSE /\ open' = st.open /\ node' = st.node
                   /\ UNCHANGED <<result, path>>
    /\ UNCHANGED <<obstacles, S, start, goal>>

NoRoute ==
    /\ result = "searching"
    /\ open = <<>>
    /\ result' = "none"
    /\ UNCHANGED <<obstacles, S, node, open, closed, start, goal, path, dropped>>

Search == TakeNode \/ NoRoute

-----------------------------------------------------------------------------
(* distancia, -1 when it is not positive. *)
get_route_dist ==
    LET add(d, k) == d + get_dist(path[k], path[k + 1])
        d == FoldLeft(add, 0, [k \in 1..Len(path) - 1 |-> k])
    IN  IF d > 0 THEN d ELSE -1

(* No robot comes from one cell to the other by free cells next to each    *)
(* other: a set of cells with the first and without the second has no way  *)
(* out.                                                                    *)
Adjacent(p, q) == Abs(p.X - q.X) <= 1 /\ Abs(p.Y - q.Y) <= 1
Separated(from, to) ==
    \E C \in SUBSET (Cell \ {to}) :
        /\ from \in C
        /\ \A p \in C, q \in Cell \ (C \cup obstacles) : ~Adjacent(p, q)
=============================================================================
