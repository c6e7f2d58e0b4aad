--------------------------- MODULE PathPlannerProofs ---------------------------
(***************************************************************************)
(* The planner UP2TA, for maps of any size, any margin, any problem and    *)
(* any number of bumps: the map file that PDDLAdapter marks and read_map   *)
(* reads, the parents that search walks back, and the plans made of its    *)
(* routes.                                                                 *)
(*                                                                         *)
(* The invariant PInv follows the search (SearchInv), the map and its file *)
(* (MapInv, PhaseInv), the loops over pairs and moves (PairInv) and the    *)
(* segments of the plan (RouteInv).  EndInv, on top of it, follows one     *)
(* search to its end: the nodes it took have parents taken before them     *)
(* (Underway), and on cleared data every node next to a closed one is      *)
(* closed or open (Complete).                                              *)
(***************************************************************************)
EXTENDS PathPlanner, TLAPS, WellFoundedInduction, FiniteSetTheorems

-----------------------------------------------------------------------------
(* The map file.  What is written for a cell is where that cell is read,   *)
(* and neither another cell nor the end of a line is there.                *)

LEMMA CellIs ==
    /\ Rows \in Nat /\ Cols \in Nat /\ Rows >= 1 /\ Cols >= 1
    /\ \A p \in Cell : /\ p.X \in Int /\ 0 <= p.X /\ p.X <= Cols - 1
                       /\ p.Y \in Int /\ 0 <= p.Y /\ p.Y <= Rows - 1
                       /\ p = [X |-> p.X, Y |-> p.Y]
    /\ \A x, y \in Int :
         [X |-> x, Y |-> y] \in Cell <=> 0 <= x /\ x <= Cols - 1 /\ 0 <= y /\ y <= Rows - 1
  BY MapAssumption DEF Cell

(* The library's induction takes an operator, so what a recursive function *)
(* keeps is proved here by its least counterexample.                       *)

LEMMA LeastNat ==
    ASSUME NEW K \in SUBSET Nat, K # {}
    PROVE  \E m \in K : \A k \in K : m <= k
  <1>1. PICK m \in K : \A k \in K : ~(<<k, m>> \in OpToRel(<, Nat))
    BY WFMin, NatLessThanWellFounded
  <1>2. \A k \in K : k \in Nat /\ m \in Nat /\ ~(k < m)
    BY <1>1 DEF OpToRel
  <1>3. \A k \in K : m <= k
    BY <1>2
  <1> QED
    BY <1>1, <1>3

LEMMA MinIs ==
    ASSUME NEW K \in SUBSET Nat, K # {}
    PROVE  Min(K) \in K /\ \A k \in K : Min(K) <= k
  <1>1. PICK m \in K : \A k \in K : m <= k
    BY LeastNat
  <1> QED
    BY <1>1 DEF Min

(* A quotient, from what bounds its dividend. *)
LEMMA DivBounds ==
    ASSUME NEW a \in Int, NEW b \in Nat, b > 0, NEW lo \in Int, NEW hi \in Int,
           b * lo <= a, a < b * (hi + 1)
    PROVE  lo <= a \div b /\ a \div b <= hi /\ a \div b \in Int
  <1> DEFINE q == a \div b
             r == a % b
  <1>1. q \in Int /\ r \in Int /\ a = b * q + r /\ 0 <= r /\ r < b
    OBVIOUS
  <1> HIDE DEF q, r
  <1>2. ~(q <= lo - 1)
    <2> SUFFICES ASSUME q <= lo - 1 PROVE FALSE
      OBVIOUS
    <2>1. b * (lo - 1 - q) >= 0 /\ b * (lo - 1 - q) = b * lo - b - b * q
      BY <1>1
    <2> QED
      BY <1>1, <2>1
  <1>3. ~(q >= hi + 1)
    <2> SUFFICES ASSUME q >= hi + 1 PROVE FALSE
      OBVIOUS
    <2>1. b * (q - (hi + 1)) >= 0 /\ b * (q - (hi + 1)) = b * q - b * (hi + 1)
      BY <1>1
    <2> QED
      BY <1>1, <2>1
  <1>4. lo <= q /\ q <= hi /\ q \in Int
    BY <1>1, <1>2, <1>3
  <1> QED
    BY <1>4 DEF q

(* A multiple of n strictly between -n and n is 0. *)
LEMMA SmallMultiple ==
    ASSUME NEW n \in Nat, NEW k \in Int, -n < n * k, n * k < n
    PROVE  k = 0
  <1>1. CASE k >= 1
    <2>1. n * (k - 1) >= 0 /\ n * (k - 1) = n * k - n
      BY <1>1
    <2> QED
      BY <2>1
  <1>2. CASE k <= -1
    <2>1. n * (-1 - k) >= 0 /\ n * (-1 - k) = -n - n * k
      BY <1>2
    <2> QED
      BY <2>1
  <1> QED
    BY <1>1, <1>2

(* The place of a cell, and of the end of a line, in a file that           *)
(* add_obstacle measures as it is.                                         *)
Place(x, y) == offset(Cols + 1, Rows, x, y)

(* Rows do not overlap, the place of the end of a line counted in. *)
LEMMA PlacesApart ==
    ASSUME NEW x \in Int, NEW y \in Int, NEW u \in Int, NEW v \in Int,
           0 <= y, y <= Cols, 0 <= v, v <= Cols, Place(x, y) = Place(u, v)
    PROVE  x = u /\ y = v
  <1> DEFINE n == Cols + 1
             a == Rows - x - 1
             b == Rows - u - 1
  <1>1. n \in Nat /\ a \in Int /\ b \in Int /\ n * a + y = n * b + v
    BY CellIs DEF Place, offset
  <1>2. n * (a - b) = v - y
    BY <1>1
  <1>3. v - y < n /\ -n < v - y
    BY CellIs
  <1>4. a - b = 0
    <2> HIDE DEF n, a, b
    <2> QED
      BY <1>1, <1>2, <1>3, SmallMultiple
  <1>5. a = b /\ y = v
    <2> HIDE DEF n, a, b
    <2> QED
      BY <1>1, <1>4
  <1> QED
    BY <1>5, CellIs

LEMMA LineEndIs ==
    ASSUME NEW r \in Int
    PROVE  LineEnd(r) = Place(Rows - 1 - r, Cols)
  <1>1. Rows - (Rows - 1 - r) - 1 = r
    BY CellIs
  <1> QED
    BY <1>1 DEF LineEnd, Place, offset

LEMMA PlaceInPlaces ==
    ASSUME NEW x \in Int, NEW y \in Int, 0 <= x, x <= Rows - 1, 0 <= y, y <= Cols
    PROVE  Place(x, y) \in Places
  <1> DEFINE n == Cols + 1
             a == Rows - x - 1
  <1>1. n \in Nat /\ a \in Int /\ 0 <= a /\ a <= Rows - 1 /\ y < n
    BY CellIs
  <1>2. n * a >= 0 /\ n * (Rows - 1 - a) >= 0 /\ n * (Rows - 1 - a) = Rows * n - n - n * a
    BY <1>1, CellIs
  <1>3. n * a \in Int /\ Rows * n \in Int
    BY <1>1, CellIs
  <1>4. 0 <= n * a + y /\ n * a + y <= Rows * n - 1
    <2> HIDE DEF n, a
    <2> QED
      BY <1>1, <1>2, <1>3
  <1> QED
    BY <1>3, <1>4 DEF Place, offset, Places

(* The end of a line of the file is one of its places, not the first, and  *)
(* not that of a cell.                                                     *)
LEMMA LineEndApart ==
    ASSUME NEW r \in 0..Rows - 1
    PROVE  /\ LineEnd(r) \in Places /\ LineEnd(r) # 0
           /\ \A x, y \in Int : 0 <= y /\ y <= Cols - 1 => Place(x, y) # LineEnd(r)
  <1>1. r \in Int /\ Rows - 1 - r \in Int /\ 0 <= Rows - 1 - r /\ Rows - 1 - r <= Rows - 1
    BY CellIs
  <1>2. LineEnd(r) = Place(Rows - 1 - r, Cols) /\ LineEnd(r) \in Places
    BY <1>1, LineEndIs, PlaceInPlaces, CellIs
  <1>3. ASSUME NEW x \in Int, NEW y \in Int, 0 <= y, y <= Cols - 1
        PROVE  Place(x, y) # LineEnd(r)
    <2>1. Place(x, y) = Place(Rows - 1 - r, Cols) => y = Cols
      BY <1>1, <1>3, PlacesApart, CellIs
    <2> QED
      BY <1>2, <1>3, <2>1, CellIs
  <1>4. LineEnd(r) # 0
    <2>1. Place(Rows - 1, 0) = 0
      BY CellIs DEF Place, offset
    <2> QED
      BY <1>3, <2>1, CellIs
  <1> QED
    BY <1>2, <1>3, <1>4

(* A row that no line without an end is behind or in is read where it was  *)
(* written.                                                                *)
LEMMA ReadInPlace ==
    ASSUME NEW f, NEW p \in InPlace(f)
    PROVE  p \in ReadObstacles(f) <=> f[Place(p.Y, p.X)] = "9"
  <1> DEFINE n == Rows - 1 - p.Y
             T == RowStarts(f)
             Behind(g) == {h \in T : h > g}
  <1>1. /\ p \in Cell /\ p.Y \in Int /\ 0 <= p.Y /\ p.Y <= Rows - 1
        /\ Rows \in Nat /\ n \in Int /\ 0 <= n /\ n <= Rows - 1 /\ n..Rows - 1 \subseteq T
        /\ p.Y = Rows - 1 - n
    BY CellIs DEF InPlace
  <1>2. T \subseteq 0..Rows - 1 /\ IsFiniteSet(0..Rows - 1) /\ IsFiniteSet(T)
    <2>1. T \subseteq 0..Rows - 1
      BY DEF RowStarts
    <2>2. IsFiniteSet(0..Rows - 1)
      BY <1>1, FS_Interval
    <2> QED
      BY <2>1, <2>2, FS_Subset
  <1> HIDE DEF T, n
  <1>3. ASSUME NEW g \in T, n <= g
        PROVE  Cardinality(Behind(g)) = Rows - 1 - g
    <2>1. g \in Int /\ g <= Rows - 1
      BY <1>2
    <2>2. Behind(g) = g + 1..Rows - 1
      <3>1. \A h \in T : h \in Int /\ h <= Rows - 1
        BY <1>2
      <3>2. \A h \in g + 1..Rows - 1 : h \in T /\ h > g
        BY <1>1, <1>3, <2>1
      <3>3. \A h \in T : h > g => h \in g + 1..Rows - 1
        BY <1>1, <2>1, <3>1
      <3> QED
        BY <3>2, <3>3
    <2>3. Cardinality(g + 1..Rows - 1) = Rows - 1 - g
      <3>1. Cardinality(g + 1..Rows - 1) =
              IF g + 1 > Rows - 1 THEN 0 ELSE Rows - 1 - (g + 1) + 1
        BY <1>1, <2>1, FS_Interval
      <3> QED
        BY <1>1, <2>1, <3>1
    <2> QED
      BY <2>2, <2>3
  <1>4. n \in T /\ Cardinality(Behind(n)) = p.Y
    BY <1>1, <1>3
  <1>5. ASSUME NEW g \in T, Cardinality(Behind(g)) = p.Y
        PROVE  g = n
    <2>0. g \in Int
      BY <1>2
    <2>1. CASE n <= g
      BY <1>1, <1>3, <1>5, <2>0, <2>1
    <2>2. CASE g < n
      <3>1. n..Rows - 1 \subseteq Behind(g)
        BY <1>1, <2>0, <2>2
      <3>2. IsFiniteSet(Behind(g))
        BY <1>2, FS_Subset
      <3>3. Cardinality(n..Rows - 1) <= Cardinality(Behind(g))
        BY <3>1, <3>2, FS_Subset
      <3>4. Cardinality(n..Rows - 1) = Rows - 1 - n + 1
        BY <1>1, FS_Interval
      <3> QED
        BY <1>1, <1>5, <3>3, <3>4
    <2> QED
      BY <1>1, <2>0, <2>1, <2>2
  <1>6. LineOf(f, p.Y) = n
    BY <1>4, <1>5 DEF LineOf, T
  <1>7. p.Y < RowsRead(f)
    <2>1. n..Rows - 1 \subseteq T /\ Cardinality(n..Rows - 1) <= Cardinality(T)
      BY <1>1, <1>2, FS_Subset
    <2>2. Cardinality(n..Rows - 1) = Rows - 1 - n + 1
      BY <1>1, FS_Interval
    <2>3. Cardinality(T) \in Nat
      BY <1>2, FS_CardinalityType
    <2> QED
      BY <1>1, <2>1, <2>2, <2>3 DEF RowsRead, T
  <1>8. Cardinality(T) \in Nat
    BY <1>2, FS_CardinalityType
  <1>9. p \notin Unread(f)
    BY <1>1, <1>7, <1>8 DEF Unread, RowsRead, T
  <1>10. (Cols + 1) * n + p.X = Place(p.Y, p.X)
    <2>1. Rows - p.Y - 1 = n
      BY <1>1
    <2> QED
      BY <2>1 DEF Place, offset
  <1> QED
    BY <1>1, <1>6, <1>9, <1>10 DEF ReadObstacles, Walls

LEMMA ReadInCells == \A f : ReadObstacles(f) \in SUBSET Cell /\ Walls(f) \in SUBSET Cell
  BY DEF ReadObstacles, Walls, Unread

(* How add_obstacle measures the file. *)
LEMMA ColumnasIs ==
    ASSUME NEW f
    PROVE  /\ columnas(f) \in Nat /\ columnas(f) > 0
           /\ columnas(f) = Cols + 1 <=> Rows = 1 \/ f[LineEnd(0)] = "end"
  <1> DEFINE K == {r \in 1..Rows : f[LineEnd(r - 1)] = "end"} \cup {Rows}
             m == Min(K)
  <1>1. K \in SUBSET Nat /\ K # {} /\ \A k \in K : k \in 1..Rows
    BY CellIs
  <1>2. m \in K /\ \A k \in K : m <= k
    <2> HIDE DEF K
    <2> QED
      BY <1>1, MinIs
  <1>3. columnas(f) = (Cols + 1) * m
    BY DEF columnas
  <1>4. 1 \in K <=> Rows = 1 \/ f[LineEnd(0)] = "end"
    <2>1. 1 - 1 = 0 /\ 1 \in 1..Rows
      BY CellIs
    <2> QED
      BY <2>1
  <1> HIDE DEF K, m
  <1>5. m \in Nat /\ m >= 1
    BY <1>1, <1>2, CellIs
  <1>6. m = 1 <=> 1 \in K
    BY <1>1, <1>2, <1>5
  <1>7. (Cols + 1) * m = (Cols + 1) * 1 <=> m = 1
    <2>1. \A a, b \in Nat : a >= 1 /\ b >= 1 /\ a * b = a => b = 1
      <3> SUFFICES ASSUME NEW a \in Nat, NEW b \in Nat, a >= 1, b >= 1, a * b = a PROVE b = 1
        OBVIOUS
      <3>1. CASE b >= 2
        <4>1. a * (b - 2) >= 0 /\ a * (b - 2) = a * b - 2 * a
          BY <3>1
        <4> QED
          BY <4>1
      <3> QED
        BY <3>1
    <2>2. Cols + 1 \in Nat /\ Cols + 1 >= 1 /\ (Cols + 1) * 1 = Cols + 1
      BY CellIs
    <2> QED
      BY <1>5, <2>1, <2>2
  <1>8. (Cols + 1) * m \in Nat /\ (Cols + 1) * m > 0
    <2>1. \A a, b \in Nat : a >= 1 /\ b >= 1 => a * b \in Nat /\ a * b > 0
      OBVIOUS
    <2> QED
      BY <1>5, <2>1, CellIs
  <1> QED
    BY <1>3, <1>4, <1>6, <1>7, <1>8, CellIs

(* A file of z places has Rows lines when a line more does not fit. *)
LEMMA FilasIs ==
    ASSUME NEW z \in Nat, Rows * (Cols + 1) <= z
    PROVE  z \div (Cols + 1) = Rows <=> z < (Rows + 1) * (Cols + 1)
  <1> DEFINE b == Cols + 1
  <1>1. b \in Nat /\ b > 0 /\ Rows \in Nat
    BY CellIs
  <1>2. b * Rows = Rows * (Cols + 1) /\ b * (Rows + 1) = (Rows + 1) * (Cols + 1)
    BY CellIs
  <1> HIDE DEF b
  <1>3. ASSUME z < b * (Rows + 1) PROVE z \div b = Rows
    <2>1. Rows <= z \div b /\ z \div b <= Rows /\ z \div b \in Int
      BY <1>1, <1>2, <1>3, DivBounds
    <2> QED
      BY <1>1, <2>1
  <1>4. ASSUME z >= b * (Rows + 1) PROVE z \div b # Rows
    <2> DEFINE q == z \div b
    <2>1. q \in Int /\ z = (b * q) + (z % b) /\ 0 <= z % b /\ z % b < b /\ z % b \in Int
      BY <1>1
    <2>2. b * (Rows + 1) = b * Rows + b /\ b * Rows \in Int
      BY <1>1
    <2> HIDE DEF q
    <2>3. q # Rows
      BY <1>1, <1>4, <2>1, <2>2
    <2> QED
      BY <2>3 DEF q
  <1>5. b * (Rows + 1) \in Int
    BY <1>1
  <1> QED
    BY <1>2, <1>3, <1>4, <1>5 DEF b

(* A mark at one place. *)
LEMMA WriteMarkIs ==
    ASSUME NEW f \in File, NEW n \in Int
    PROVE  LET g == WriteMark(f, n)
               at == IF n < 0 THEN 0 ELSE n
           IN  /\ g \in File
               /\ \A i \in Places : g[i] = IF i = at THEN "9" ELSE f[i]
  <1> DEFINE g == WriteMark(f, n)
             at == IF n < 0 THEN 0 ELSE n
  <1>1. 0 \in Places
    <2>1. Place(Rows - 1, 0) = 0
      BY CellIs DEF Place, offset
    <2> QED
      BY <2>1, PlaceInPlaces, CellIs
  <1>2. /\ f \in [Places -> Tokens] /\ "9" \in Tokens
        /\ g = IF n < 0 THEN [f EXCEPT ![0] = "9"]
               ELSE IF n \in Places THEN [f EXCEPT ![n] = "9"] ELSE f
    BY DEF WriteMark, File, Tokens
  <1>3. g = IF at \in Places THEN [f EXCEPT ![at] = "9"] ELSE f
    BY <1>1, <1>2
  <1> HIDE DEF g, at
  <1>4. g \in [Places -> Tokens] /\ \A i \in Places : g[i] = IF i = at THEN "9" ELSE f[i]
    BY <1>2, <1>3
  <1>5. g \in File
    BY <1>4 DEF File
  <1> QED
    BY <1>4, <1>5 DEF g, at

(* Marks at one place or two. *)
LEMMA AddObstacleIs ==
    ASSUME NEW f \in File, NEW a \in Int, NEW b \in Int
    PROVE  LET g == AddObstacle(f, {a, b}) IN
           /\ g \in File
           /\ \A i \in Places : g[i] = f[i] \/ (g[i] = "9" /\ (i \in {a, b} \/ (i = 0 /\ (a < 0 \/ b < 0))))
           /\ \A i \in Places : i \in {a, b} \/ f[i] = "9" => g[i] = "9"
  <1> DEFINE ats == {a, b}
             g == AddObstacle(f, ats)
             c == CHOOSE at \in ats : TRUE
             d == CHOOSE at \in ats : ats \subseteq {c, at}
             once == WriteMark(f, c)
  <1>1. c \in ats
    OBVIOUS
  <1> HIDE DEF c
  <1>2. d \in ats /\ ats = {c, d}
    BY <1>1
  <1> HIDE DEF d
  <1>3. g = WriteMark(once, d)
    BY DEF AddObstacle, c, d
  <1>4. c \in Int /\ d \in Int /\ Places \subseteq Int /\ \A i \in Places : i >= 0
    BY <1>2 DEF Places
  <1>5. /\ once \in File
        /\ \A i \in Places : once[i] = IF i = (IF c < 0 THEN 0 ELSE c) THEN "9" ELSE f[i]
    BY <1>4, WriteMarkIs
  <1>6. /\ g \in File
        /\ \A i \in Places : g[i] = IF i = (IF d < 0 THEN 0 ELSE d) THEN "9" ELSE once[i]
    <2> HIDE DEF once, g
    <2> QED
      BY <1>3, <1>4, <1>5, WriteMarkIs
  <1> HIDE DEF once, g, ats
  <1>7. ASSUME NEW i \in Places
        PROVE  /\ g[i] = f[i] \/ (g[i] = "9" /\ (i \in {a, b} \/ (i = 0 /\ (a < 0 \/ b < 0))))
               /\ i \in {a, b} \/ f[i] = "9" => g[i] = "9"
    <2>1. i \in Int /\ i >= 0
      BY <1>4
    <2>2. /\ once[i] = IF i = (IF c < 0 THEN 0 ELSE c) THEN "9" ELSE f[i]
          /\ g[i] = IF i = (IF d < 0 THEN 0 ELSE d) THEN "9" ELSE once[i]
      BY <1>5, <1>6
    <2>3. /\ i \in {a, b} <=> i = c \/ i = d
          /\ c < 0 \/ d < 0 => a < 0 \/ b < 0
      BY <1>2 DEF ats
    <2> QED
      BY <1>4, <2>1, <2>2, <2>3
  <1> QED
    BY <1>6, <1>7 DEF g, ats

(* Marks take ends of lines and never put one. *)
LEMMA MarksTakeEnds ==
    ASSUME NEW f \in File, NEW g \in File,
           \A i \in Places : g[i] = f[i] \/ g[i] = "9"
    PROVE  /\ RowStarts(g) \subseteq RowStarts(f)
           /\ InPlace(g) \subseteq InPlace(f)
           /\ columnas(g) = Cols + 1 => columnas(f) = Cols + 1
           /\ (\A r \in 0..Rows - 1 : g[LineEnd(r)] = f[LineEnd(r)]) =>
                RowStarts(g) = RowStarts(f) /\ (columnas(f) = Cols + 1 => columnas(g) = Cols + 1)
  <1>1. \A r \in 0..Rows - 1 : g[LineEnd(r)] = "end" => f[LineEnd(r)] = "end"
    BY LineEndApart
  <1>2. \A h \in 0..Rows - 1 : h # 0 => h - 1 \in 0..Rows - 1
    BY CellIs
  <1>3. RowStarts(g) \subseteq RowStarts(f)
    BY <1>1, <1>2 DEF RowStarts
  <1>4. 0 \in 0..Rows - 1
    BY CellIs
  <1>5. ASSUME \A r \in 0..Rows - 1 : g[LineEnd(r)] = f[LineEnd(r)]
        PROVE  RowStarts(g) = RowStarts(f) /\ (columnas(f) = Cols + 1 => columnas(g) = Cols + 1)
    <2>1. RowStarts(g) = RowStarts(f)
      BY <1>2, <1>5 DEF RowStarts
    <2>2. g[LineEnd(0)] = f[LineEnd(0)]
      BY <1>4, <1>5
    <2> QED
      BY <2>1, <2>2, ColumnasIs
  <1>6. columnas(g) = Cols + 1 => columnas(f) = Cols + 1
    BY <1>1, <1>4, ColumnasIs
  <1>7. InPlace(g) \subseteq InPlace(f)
    BY <1>3 DEF InPlace
  <1> QED
    BY <1>3, <1>5, <1>6, <1>7

(* A file grows to the last mark. *)
LEMMA GrownIs ==
    ASSUME NEW z \in Nat, NEW a \in Int, NEW b \in Int
    PROVE  /\ Grown(z, {a, b}) \in Nat /\ z <= Grown(z, {a, b})
           /\ Grown(z, {a, b}) \in {z, a + 1, b + 1}
  <1> DEFINE K == {z, a + 1, b + 1}
  <1>1. Grown(z, {a, b}) = Max(K)
    <2>1. {z} \cup {at + 1 : at \in {a, b}} = K
      OBVIOUS
    <2> QED
      BY <2>1 DEF Grown
  <1>2. \E m \in K : \A k \in K : k <= m
    <2>1. z \in Int /\ a + 1 \in Int /\ b + 1 \in Int
      OBVIOUS
    <2>2. \A u, v, w \in Int : \E m \in {u, v, w} : u <= m /\ v <= m /\ w <= m
      <3> SUFFICES ASSUME NEW u \in Int, NEW v \in Int, NEW w \in Int
                   PROVE  \E m \in {u, v, w} : u <= m /\ v <= m /\ w <= m
        OBVIOUS
      <3>1. \/ (v <= u /\ w <= u) \/ (u <= v /\ w <= v) \/ (u <= w /\ v <= w)
        OBVIOUS
      <3> QED
        BY <3>1
    <2> QED
      BY <2>1, <2>2
  <1>3. Max(K) \in K /\ \A k \in K : k <= Max(K)
    BY <1>2 DEF Max
  <1>4. Max(K) \in K /\ z <= Max(K)
    BY <1>3
  <1> QED
    BY <1>1, <1>4

(* A bump marks one or two cells, next to that of the robot. *)
Step == [x : {-1, 0, 1}, y : {-1, 0, 1}]

LEMMA DirIs ==
    ASSUME NEW s \in Nat
    PROVE  Dir(s) \in Step
  <1>1. s % 8 \in 0..7
    OBVIOUS
  <1>2. \A n \in 0..7 : /\ <<1, 1, 0, -1, -1, -1, 0, 1>>[n + 1] \in {-1, 0, 1}
                        /\ <<0, -1, -1, -1, 0, 1, 1, 1>>[n + 1] \in {-1, 0, 1}
    OBVIOUS
  <1>3. /\ <<1, 1, 0, -1, -1, -1, 0, 1>>[(s % 8) + 1] \in {-1, 0, 1}
        /\ <<0, -1, -1, -1, 0, 1, 1, 1>>[(s % 8) + 1] \in {-1, 0, 1}
    BY <1>1, <1>2
  <1> QED
    BY <1>3 DEF Dir, Step

LEMMA MarksAre ==
    ASSUME NEW s \in 0..7, NEW bumper
    PROVE  \E a, b \in Step : Marks(s, bumper) = {a, b}
  <1> DEFINE side == IF s % 2 = 0 THEN 2 ELSE 1
  <1>1. side \in {1, 2}
    OBVIOUS
  <1>2. /\ Dir(s + 8 - side) \in Step /\ Dir(s + 7) \in Step /\ Dir(s) \in Step
        /\ Dir(s + side) \in Step /\ Dir(s + 1) \in Step /\ Dir(3) \in Step
    <2>1. s \in Nat /\ s + 8 - side \in Nat /\ s + 7 \in Nat /\ s + side \in Nat /\ s + 1 \in Nat
      BY <1>1
    <2> HIDE DEF side
    <2> QED
      BY <2>1, DirIs
  <1>3. Here \in Step
    BY DEF Here, Step
  <1>4. \/ Marks(s, bumper) = {Dir(s + 8 - side)}
        \/ Marks(s, bumper) = {Dir(s + 7), Dir(s)}
        \/ Marks(s, bumper) = {Dir(s + side)}
        \/ Marks(s, bumper) = {Dir(s + 1), IF s = 1 THEN Dir(3) ELSE Dir(s)}
        \/ Marks(s, bumper) = {Dir(s)}
        \/ Marks(s, bumper) = {Here}
    BY DEF Marks
  <1> HIDE DEF side
  <1> QED
    BY <1>2, <1>3, <1>4

(* The marks of a bump make the file g of z2 places of the file f of z:    *)
(* none is lost, and in a file that add_obstacle measures as it is each    *)
(* cell is marked in its place, and the ends of lines are kept but at the  *)
(* side of the map.                                                        *)
MeasuredFile(f, z) == columnas(f) = Cols + 1 /\ filas(f, z) = Rows
FitsIn(z) == z < (Rows + 1) * (Cols + 1)
Made(f, z, c, cells, g, z2) ==
    /\ g \in File /\ z2 \in Nat /\ z <= z2
    /\ \A i \in Places : g[i] = f[i] \/ g[i] = "9"
    /\ \A i \in Places : f[i] = "9" => g[i] = "9"
    /\ MeasuredFile(f, z) => \A p \in cells \cap Cell : g[Place(p.Y, p.X)] = "9"
    /\ MeasuredFile(f, z) /\ c.X \in 1..Cols - 2 =>
         /\ \A r \in 0..Rows - 1 : g[LineEnd(r)] = f[LineEnd(r)]
         /\ FitsIn(z) => FitsIn(z2)
    /\ MeasuredFile(f, z) /\ c.X \in 1..Cols - 2 /\ c.Y \in 1..Rows - 2 =>
         /\ cells \subseteq Cell
         /\ \A p \in Cell : g[Place(p.Y, p.X)] = "9" =>
                              f[Place(p.Y, p.X)] = "9" \/ p \in cells

LEMMA BumpMarksAre ==
    ASSUME NEW f \in File, NEW z \in Nat, NEW c \in Cell, NEW s \in 0..7, NEW bumper,
           NEW cells, cells = {[X |-> c.X + d.y, Y |-> c.Y + d.x] : d \in Marks(s, bumper)},
           NEW ats, ats = Offsets(f, z, cells),
           NEW g, g = AddObstacle(f, ats), NEW y, y = Grown(z, ats)
    PROVE  Made(f, z, c, cells, g, y)
  <1> DEFINE fits == MeasuredFile(f, z)
             P == [X : {c.X - 1, c.X, c.X + 1}, Y : {c.Y - 1, c.Y, c.Y + 1}]
             Off(p) == offset(columnas(f), filas(f, z), p.Y, p.X)
  <1>1. PICK d1 \in Step, d2 \in Step : Marks(s, bumper) = {d1, d2}
    BY MarksAre
  <1>2. PICK p1 \in P, p2 \in P : cells = {p1, p2}
    <2>1. /\ [X |-> c.X + d1.y, Y |-> c.Y + d1.x] \in P
          /\ [X |-> c.X + d2.y, Y |-> c.Y + d2.x] \in P
      BY CellIs DEF Step
    <2>2. cells = {[X |-> c.X + d1.y, Y |-> c.Y + d1.x], [X |-> c.X + d2.y, Y |-> c.Y + d2.x]}
      BY <1>1
    <2> QED
      BY <2>1, <2>2
  <1>3. \A p \in P : /\ p.X \in Int /\ p.Y \in Int /\ p = [X |-> p.X, Y |-> p.Y]
                     /\ p.X <= c.X + 1 /\ c.X - 1 <= p.X /\ p.Y <= c.Y + 1 /\ c.Y - 1 <= p.Y
    BY CellIs
  <1> HIDE DEF P
  <1>4. columnas(f) \in Nat /\ filas(f, z) \in Int
    <2>1. columnas(f) \in Nat /\ columnas(f) > 0
      BY ColumnasIs
    <2> QED
      BY <2>1 DEF filas
  <1>5. Off(p1) \in Int /\ Off(p2) \in Int
    <2>1. p1.X \in Int /\ p1.Y \in Int /\ p2.X \in Int /\ p2.Y \in Int
      BY <1>3
    <2> QED
      BY <1>4, <2>1, CellIs DEF offset
  <1>6. ats = {Off(p1), Off(p2)}
    BY <1>2 DEF Offsets
  <1>7. fits => \A p \in P : Off(p) = Place(p.Y, p.X)
    BY DEF Place, MeasuredFile
  <1> HIDE DEF Off
  <1>8. /\ g \in File
        /\ \A i \in Places : \/ g[i] = f[i]
                              \/ /\ g[i] = "9"
                                 /\ i \in ats \/ (i = 0 /\ (Off(p1) < 0 \/ Off(p2) < 0))
        /\ \A i \in Places : i \in ats \/ f[i] = "9" => g[i] = "9"
    BY <1>5, <1>6, AddObstacleIs
  <1>9. y \in Nat /\ z <= y /\ y \in {z, Off(p1) + 1, Off(p2) + 1}
    BY <1>5, <1>6, GrownIs
  <1>10. ASSUME fits, NEW p \in cells \cap Cell PROVE g[Place(p.Y, p.X)] = "9"
    <2>1. p \in P /\ Place(p.Y, p.X) = Off(p) /\ Off(p) \in ats
      BY <1>2, <1>6, <1>7, <1>10
    <2>2. Place(p.Y, p.X) \in Places
      BY PlaceInPlaces, CellIs
    <2> QED
      BY <1>8, <2>1, <2>2
  <1>11. ASSUME fits, c.X \in 1..Cols - 2
         PROVE  /\ \A r \in 0..Rows - 1 : g[LineEnd(r)] = f[LineEnd(r)]
                /\ FitsIn(z) => FitsIn(y)
    <2>1. \A p \in P : p.X \in Int /\ p.Y \in Int /\ 0 <= p.X /\ p.X <= Cols - 1 /\ -1 <= p.Y
      BY <1>3, <1>11, CellIs
    <2>2. ASSUME NEW r \in 0..Rows - 1 PROVE g[LineEnd(r)] = f[LineEnd(r)]
      <3>1. Place(p1.Y, p1.X) # LineEnd(r) /\ Place(p2.Y, p2.X) # LineEnd(r)
        BY <2>1, LineEndApart
      <3>2. LineEnd(r) \notin ats
        BY <1>6, <1>7, <1>11, <3>1
      <3> QED
        BY <1>8, <3>2, LineEndApart
    <2>3. ASSUME NEW p \in P PROVE Off(p) + 1 < (Rows + 1) * (Cols + 1)
      <3> DEFINE n == Cols + 1
                 a == Rows - p.Y - 1
      <3>1. n \in Nat /\ a \in Int /\ a <= Rows /\ p.X + 1 < n /\ p.X \in Int /\ Rows \in Nat
        BY <2>1, CellIs
      <3>2. Off(p) = n * a + p.X
        BY <1>7, <1>11 DEF Place, offset
      <3>3. (Rows + 1) * (Cols + 1) = n * Rows + n
        BY CellIs
      <3> HIDE DEF n, a
      <3>4. n * (Rows - a) >= 0 /\ n * (Rows - a) = n * Rows - n * a /\ n * a \in Int
            /\ n * Rows \in Int
        BY <3>1
      <3> QED
        BY <3>1, <3>2, <3>3, <3>4
    <2>4. FitsIn(z) => FitsIn(y)
      BY <1>9, <2>3 DEF FitsIn
    <2> QED
      BY <2>2, <2>4
  <1>12. ASSUME fits, c.X \in 1..Cols - 2, c.Y \in 1..Rows - 2
         PROVE  /\ cells \subseteq Cell
                /\ \A p \in Cell : g[Place(p.Y, p.X)] = "9" =>
                                     f[Place(p.Y, p.X)] = "9" \/ p \in cells
    <2>1. \A p \in P : p \in Cell
      BY <1>3, <1>12, CellIs
    <2>2. cells \subseteq Cell
      BY <1>2, <2>1
    <2>3. ASSUME NEW p \in Cell, g[Place(p.Y, p.X)] = "9", f[Place(p.Y, p.X)] # "9"
          PROVE  p \in cells
      <3>1. Place(p.Y, p.X) \in Places
        BY PlaceInPlaces, CellIs
      <3>2. Off(p1) >= 0 /\ Off(p2) >= 0
        <4>1. /\ Off(p1) = Place(p1.Y, p1.X) /\ Off(p2) = Place(p2.Y, p2.X)
              /\ p1 \in Cell /\ p2 \in Cell
          BY <1>7, <1>12, <2>1
        <4>2. Off(p1) \in Places /\ Off(p2) \in Places
          BY <4>1, PlaceInPlaces, CellIs
        <4> QED
          BY <4>2 DEF Places
      <3>3. ASSUME NEW q \in P, Place(p.Y, p.X) = Off(q) PROVE p = q
        <4>1. Place(p.Y, p.X) = Place(q.Y, q.X)
          BY <1>7, <1>12, <3>3
        <4>2. q \in Cell
          BY <2>1
        <4>3. p.Y \in Int /\ p.X \in Int /\ 0 <= p.X /\ p.X <= Cols
          BY CellIs
        <4>4. q.Y \in Int /\ q.X \in Int /\ 0 <= q.X /\ q.X <= Cols
          BY <4>2, CellIs
        <4>5. p.Y = q.Y /\ p.X = q.X
          BY <4>1, <4>3, <4>4, PlacesApart
        <4> QED
          BY <4>2, <4>5, CellIs
      <3>4. Place(p.Y, p.X) \in ats
        BY <1>5, <1>8, <2>3, <3>1, <3>2
      <3> QED
        BY <1>2, <1>6, <3>3, <3>4
    <2> QED
      BY <2>2, <2>3
  <1> QED
    BY <1>8, <1>9, <1>10, <1>11, <1>12 DEF Made

-----------------------------------------------------------------------------
(* A bump: the sector of a way between two cells, and where on a segment   *)
(* the robot may be when it happens.                                       *)

LEMMA HeadingIs ==
    ASSUME NEW p \in Cell, NEW q \in Cell
    PROVE  Sector(Heading(p, q)) \in 0..7
  <1>1. Heading(p, q) \in {0, 45, 90, 135, 180, 225, 270, 315, 360}
    <2> DEFINE dx == Abs(q.X - p.X)
               dy == Abs(q.Y - p.Y)
               turn == IF 70 * dx < 29 * dy THEN 0 ELSE IF 70 * dy < 29 * dx THEN 90 ELSE 45
               ahead == IF q.Y >= p.Y THEN turn ELSE 180 - turn
    <2>1. turn \in {0, 45, 90}
      OBVIOUS
    <2>2. Heading(p, q) = IF q.X <= p.X THEN ahead ELSE 360 - ahead
      BY DEF Heading
    <2> HIDE DEF turn
    <2>3. ahead \in {0, 45, 90, 135, 180}
      BY <2>1
    <2> HIDE DEF ahead
    <2> QED
      BY <2>2, <2>3
  <1>2. \A h \in {0, 45, 90, 135, 180, 225, 270, 315, 360} :
          (2 * h + 45) \div 90 \in {0, 1, 2, 3, 4, 5, 6, 7, 8}
    OBVIOUS
  <1>3. \A n \in {0, 1, 2, 3, 4, 5, 6, 7, 8} : n % 8 \in 0..7
    OBVIOUS
  <1> QED
    BY <1>1, <1>2, <1>3 DEF Sector

(* A point between u and v, rounded, is between 0 and m. *)
LEMMA RoundedIs ==
    ASSUME NEW u \in Int, NEW v \in Int, NEW m \in Int, 0 <= u, u <= m, 0 <= v, v <= m,
           NEW a \in Nat, a > 0, NEW k \in Int, 0 <= k, k <= 2 * a
    PROVE  /\ Rounded(2 * a * u + k * (v - u), 2 * a) \in Int
           /\ 0 <= Rounded(2 * a * u + k * (v - u), 2 * a)
           /\ Rounded(2 * a * u + k * (v - u), 2 * a) <= m
  <1> DEFINE d == 2 * a
             n == 2 * a * u + k * (v - u)
  <1>1. d \in Nat /\ d > 0 /\ n \in Int
    OBVIOUS
  <1>2. n = (d - k) * u + k * v
    OBVIOUS
  <1>3. (d - k) * u >= 0 /\ k * v >= 0
    OBVIOUS
  <1>4. (d - k) * (m - u) >= 0 /\ k * (m - v) >= 0
    OBVIOUS
  <1>5. (d - k) * (m - u) + k * (m - v) = d * m - ((d - k) * u + k * v)
    OBVIOUS
  <1>6. /\ (d - k) * u \in Int /\ k * v \in Int /\ d * m \in Int
        /\ (d - k) * (m - u) \in Int /\ k * (m - v) \in Int
    OBVIOUS
  <1> HIDE DEF d, n
  <1>7. 0 <= n /\ n <= d * m
    BY <1>1, <1>2, <1>3, <1>4, <1>5, <1>6
  <1>8. 2 * d * 0 <= 2 * n + d /\ 2 * n + d < 2 * d * (m + 1)
    BY <1>1, <1>6, <1>7
  <1>9. /\ 0 <= (2 * n + d) \div (2 * d) /\ (2 * n + d) \div (2 * d) <= m
        /\ (2 * n + d) \div (2 * d) \in Int
    <2>1. 2 * n + d \in Int /\ 2 * d \in Nat /\ 2 * d > 0 /\ 0 \in Int
      BY <1>1
    <2> QED
      BY <1>8, <2>1, DivBounds
  <1> QED
    BY <1>9 DEF Rounded, d, n

(* A segment between two cells of the map stays in it. *)
LEMMA SegmentInCells ==
    ASSUME NEW p \in Cell, NEW q \in Cell
    PROVE  SegmentCells(p, q) \subseteq Cell
  <1> DEFINE dx == q.X - p.X
             dy == q.Y - p.Y
             ax == Abs(dx)
             ay == Abs(dy)
             n == Larger(ax, ay)
             cut(k, a) == [X |-> Rounded(2 * a * p.X + k * dx, 2 * a),
                           Y |-> Rounded(2 * a * p.Y + k * dy, 2 * a)]
  <1>1. ASSUME NEW a \in Nat, a > 0, NEW k \in Int, 0 <= k, k <= 2 * a
        PROVE  cut(k, a) \in Cell
    <2>1. /\ Rounded(2 * a * p.X + k * dx, 2 * a) \in Int
          /\ 0 <= Rounded(2 * a * p.X + k * dx, 2 * a)
          /\ Rounded(2 * a * p.X + k * dx, 2 * a) <= Cols - 1
      <3>1. p.X \in Int /\ q.X \in Int /\ Cols - 1 \in Int /\ 0 <= p.X /\ p.X <= Cols - 1
            /\ 0 <= q.X /\ q.X <= Cols - 1
        BY CellIs
      <3> QED
        BY <1>1, <3>1, RoundedIs
    <2>2. /\ Rounded(2 * a * p.Y + k * dy, 2 * a) \in Int
          /\ 0 <= Rounded(2 * a * p.Y + k * dy, 2 * a)
          /\ Rounded(2 * a * p.Y + k * dy, 2 * a) <= Rows - 1
      <3>1. p.Y \in Int /\ q.Y \in Int /\ Rows - 1 \in Int /\ 0 <= p.Y /\ p.Y <= Rows - 1
            /\ 0 <= q.Y /\ q.Y <= Rows - 1
        BY CellIs
      <3> QED
        BY <1>1, <3>1, RoundedIs
    <2> QED
      BY <2>1, <2>2, CellIs
  <1>2. ax \in Nat /\ ay \in Nat /\ n \in Nat
    BY CellIs DEF Abs, Larger
  <1>3. CASE dx = 0 \/ dy = 0
    <2>1. SegmentCells(p, q) = {cut(2 * k, n) : k \in 0..n - 1}
      BY <1>3 DEF SegmentCells
    <2> HIDE DEF cut, n
    <2>2. \A k \in 0..n - 1 : 2 * k \in Int /\ 0 <= 2 * k /\ 2 * k <= 2 * n /\ n > 0
      BY <1>2
    <2>3. \A k \in 0..n - 1 : cut(2 * k, n) \in Cell
      BY <1>1, <1>2, <2>2
    <2> QED
      BY <2>1, <2>3
  <1>4. CASE ~(dx = 0 \/ dy = 0)
    <2>1. SegmentCells(p, q) =
            {cut(k, ax) : k \in 0..2 * ax - 1} \cup {cut(k, ay) : k \in 0..2 * ay - 1}
      BY <1>4 DEF SegmentCells
    <2> HIDE DEF cut, ax, ay
    <2>2. \A k \in 0..2 * ax - 1 : k \in Int /\ 0 <= k /\ k <= 2 * ax /\ ax > 0
      BY <1>2
    <2>3. \A k \in 0..2 * ay - 1 : k \in Int /\ 0 <= k /\ k <= 2 * ay /\ ay > 0
      BY <1>2
    <2>4. \A k \in 0..2 * ax - 1 : cut(k, ax) \in Cell
      BY <1>1, <1>2, <2>2
    <2>5. \A k \in 0..2 * ay - 1 : cut(k, ay) \in Cell
      BY <1>1, <1>2, <2>3
    <2> QED
      BY <2>1, <2>4, <2>5
  <1> QED
    BY <1>3, <1>4

-----------------------------------------------------------------------------
(* Every number has a square root in whole numbers. *)
LEMMA RootExists ==
    ASSUME NEW n \in Nat, NEW m \in Nat, n < (m + 1) * (m + 1)
    PROVE  \E r \in 0..m : r * r <= n /\ n < (r + 1) * (r + 1)
  <1> DEFINE K == {r \in Nat : n < (r + 1) * (r + 1)}
  <1>1. K \in SUBSET Nat /\ m \in K
    OBVIOUS
  <1>2. PICK r \in K : \A k \in K : r <= k
    <2> HIDE DEF K
    <2> QED
      BY <1>1, LeastNat
  <1>3. r \in 0..m /\ n < (r + 1) * (r + 1)
    BY <1>1, <1>2
  <1>4. CASE r = 0
    BY <1>3, <1>4
  <1>5. CASE r # 0
    <2>1. r - 1 \in Nat /\ r - 1 \notin K
      BY <1>2, <1>3, <1>5
    <2>2. ~(n < (r - 1 + 1) * (r - 1 + 1))
      BY <2>1
    <2>3. r - 1 + 1 = r /\ r * r \in Int
      BY <1>3
    <2>4. r * r <= n
      BY <2>2, <2>3
    <2> QED
      BY <1>3, <2>4
  <1> QED
    BY <1>4, <1>5

(* Two cells of the map are at a distance that Roots has. *)
LEMMA DistTyped ==
    ASSUME NEW p \in Cell, NEW t \in Cell
    PROVE  get_dist(p, t) \in Nat
  <1> DEFINE x == p.X - t.X
             y == p.Y - t.Y
             a == Abs(x)
             b == Abs(y)
             n == x * x + y * y
             M == 1000 * (Rows + Cols)
             root(z) == CHOOSE r \in 0..1000 * (Rows + Cols) :
                          r * r <= 1000000 * z /\ 1000000 * z < (r + 1) * (r + 1)
  <1>1. /\ x \in Int /\ y \in Int /\ a \in 0..Cols - 1 /\ b \in 0..Rows - 1
        /\ a * a = x * x /\ b * b = y * y /\ M \in Nat
    BY CellIs DEF Abs
  <1>2. n = a * a + b * b
    BY <1>1
  <1>3. get_dist(p, t) = Roots[n]
    BY DEF get_dist
  <1>4. n \in {c * c + d * d : c \in 0..Cols - 1, d \in 0..Rows - 1}
    BY <1>1, <1>2
  <1>5. Roots[n] = root(n)
    BY <1>4 DEF Roots
  <1>6. n \in Nat /\ 1000000 * n \in Nat /\ 1000000 * n < (M + 1) * (M + 1)
    <2>1. a \in Nat /\ b \in Nat /\ a + b <= Rows + Cols /\ Rows + Cols \in Nat
      BY <1>1, CellIs
    <2> DEFINE c == Rows + Cols
    <2>2. c * c - (a + b) * (a + b) = (c - (a + b)) * (c + (a + b))
      BY <2>1
    <2>3. (c - (a + b)) * (c + (a + b)) >= 0
      BY <2>1
    <2>4. (a + b) * (a + b) = a * a + b * b + 2 * (a * b) /\ a * b >= 0
      BY <2>1
    <2>5. a * a >= 0 /\ b * b >= 0 /\ a * a \in Int /\ b * b \in Int
      BY <2>1
    <2>6. c * c \in Int /\ (a + b) * (a + b) \in Int /\ a * b \in Int
      BY <2>1
    <2>7. n <= c * c /\ n \in Nat
      <3> HIDE DEF n, a, b, c
      <3> QED
        BY <1>2, <2>2, <2>3, <2>4, <2>5, <2>6
    <2>8. (M + 1) * (M + 1) = 1000000 * (c * c) + 2 * M + 1
      <3>1. M = 1000 * c /\ c \in Int
        BY <2>1
      <3> HIDE DEF M, c
      <3> QED
        BY <3>1
    <2> HIDE DEF n, M, c
    <2> QED
      BY <1>1, <2>6, <2>7, <2>8
  <1>7. \E r \in 0..M : r * r <= 1000000 * n /\ 1000000 * n < (r + 1) * (r + 1)
    <2> DEFINE N == 1000000 * n
    <2>1. N \in Nat /\ M \in Nat /\ N < (M + 1) * (M + 1)
      BY <1>1, <1>6
    <2> HIDE DEF n, M, N
    <2>2. \E r \in 0..M : r * r <= N /\ N < (r + 1) * (r + 1)
      BY <2>1, RootExists
    <2> QED
      BY <2>2 DEF N
  <1>8. root(n) \in 0..M
    <2> HIDE DEF n
    <2> QED
      BY <1>7
  <1> HIDE DEF root, n, M
  <1> QED
    BY <1>1, <1>3, <1>5, <1>8

-----------------------------------------------------------------------------
(* The margins are numbers, whatever they were put over. *)
LEMMA MarginTyped ==
    ASSUME NEW s \in Nat, NEW o \in Cell, NEW p \in Cell
    PROVE  margin(s, o, p) \in Nat
  <1> DEFINE dx == Abs(p.X - o.X)
             dy == Abs(p.Y - o.Y)
             next == dx + dy = 1 \/ (dx = 1 /\ dy = 1)
             dist == IF dx = dy /\ ~next THEN dx ELSE dx + dy
             wide == (Margin - dist + 2) * (Margin - dist + 2)
  <1>1. dx \in Int /\ dy \in Int
    BY CellIs DEF Abs
  <1>2. dist \in Int
    <2> HIDE DEF dx, dy
    <2> QED
      BY <1>1
  <1>3. wide \in Nat
    <2>1. Margin - dist + 2 \in Int
      BY <1>2, MarginAssumption
    <2> HIDE DEF dist
    <2>2. \A z \in Int : z * z \in Nat
      OBVIOUS
    <2> QED
      BY <2>1, <2>2
  <1>4. margin(s, o, p) = IF dx > Margin \/ dy > Margin THEN s
                          ELSE Larger(IF next THEN 3 ELSE s, wide)
    BY DEF margin
  <1> HIDE DEF wide, next, dist, dx, dy
  <1> QED
    BY <1>3, <1>4 DEF Larger

(* Cells of the map, by columns. *)
ByColumns(i) == [X |-> (i - 1) \div Rows, Y |-> (i - 1) % Rows]

(* What over of safety_margin is, up to the cell n. *)
IsOver(f, obs, s, p, n) ==
    f = [i \in 0..n |->
          IF i = 0 THEN s[p]
          ELSE IF ByColumns(i) \in obs THEN margin(f[i - 1], ByColumns(i), p) ELSE f[i - 1]]

LEMMA OverExists ==
    ASSUME NEW obs, NEW s, NEW p, NEW n \in Nat
    PROVE  \E f : IsOver(f, obs, s, p, n)
  <1> DEFINE Bad == {m \in Nat : ~\E f : IsOver(f, obs, s, p, m)}
  <1> SUFFICES ASSUME Bad # {} PROVE FALSE
    OBVIOUS
  <1>1. PICK m \in Bad : \A k \in Bad : m <= k
    BY LeastNat
  <1>2. m # 0
    <2>1. IsOver([i \in 0..0 |-> s[p]], obs, s, p, 0)
      BY DEF IsOver
    <2> QED
      BY <1>1, <2>1
  <1>3. PICK f : IsOver(f, obs, s, p, m - 1)
    BY <1>1, <1>2
  <1> DEFINE more(v, i) == IF ByColumns(i) \in obs THEN margin(v, ByColumns(i), p) ELSE v
             g == [i \in 0..m |-> IF i < m THEN f[i] ELSE more(f[m - 1], m)]
  <1>4. IsOver(g, obs, s, p, m)
    <2>1. ASSUME NEW i \in 0..m
          PROVE  g[i] = IF i = 0 THEN s[p] ELSE more(g[i - 1], i)
      <3>1. CASE i < m
        <4>1. i \in 0..m - 1 /\ g[i] = f[i] /\ (i # 0 => g[i - 1] = f[i - 1])
          BY <1>1, <2>1, <3>1
        <4>2. f[i] = IF i = 0 THEN s[p] ELSE more(f[i - 1], i)
          BY <1>3, <4>1 DEF IsOver
        <4> HIDE DEF g, more
        <4> QED
          BY <4>1, <4>2
      <3>2. CASE i = m
        <4>1. g[m - 1] = f[m - 1] /\ m - 1 \in 0..m /\ g[m] = more(f[m - 1], m)
          BY <1>1, <1>2
        <4> HIDE DEF g, more
        <4> QED
          BY <1>1, <1>2, <3>2, <4>1
      <3> QED
        BY <1>1, <3>1, <3>2
    <2>2. g = [i \in 0..m |-> IF i = 0 THEN s[p] ELSE more(g[i - 1], i)]
      <3>1. g = [i \in 0..m |-> g[i]]
        OBVIOUS
      <3> HIDE DEF g, more
      <3> QED
        BY <2>1, <3>1
    <2> QED
      BY <2>2 DEF IsOver
  <1> QED
    BY <1>1, <1>4

LEMMA OverTyped ==
    ASSUME NEW obs \in SUBSET Cell, NEW s \in [Cell -> Nat], NEW p \in Cell, NEW n \in Nat,
           NEW f, IsOver(f, obs, s, p, n)
    PROVE  f[n] \in Nat
  <1> DEFINE Bad == {m \in 0..n : f[m] \notin Nat}
  <1> SUFFICES ASSUME Bad # {} PROVE FALSE
    OBVIOUS
  <1>0. Bad \in SUBSET Nat
    OBVIOUS
  <1>1. PICK m \in Bad : \A k \in Bad : m <= k
    <2> HIDE DEF Bad
    <2> QED
      BY <1>0, LeastNat
  <1>2. f[m] = IF m = 0 THEN s[p]
               ELSE IF ByColumns(m) \in obs THEN margin(f[m - 1], ByColumns(m), p) ELSE f[m - 1]
    BY <1>1 DEF IsOver
  <1>3. m # 0
    BY <1>1, <1>2
  <1>4. f[m - 1] \in Nat
    BY <1>1, <1>3
  <1>5. f[m] \in Nat
    BY <1>2, <1>3, <1>4, MarginTyped
  <1> QED
    BY <1>1, <1>5

LEMMA SafetyMarginTyped ==
    ASSUME NEW obs \in SUBSET Cell, NEW s \in [Cell -> Nat]
    PROVE  safety_margin(obs, s) \in [Cell -> Nat]
  <1> DEFINE n == Rows * Cols
             factor(p) == (CHOOSE f : IsOver(f, obs, s, p, n))[n]
  <1>1. n \in Nat
    BY CellIs
  <1>2. safety_margin(obs, s) =
          IF Margin = 0 THEN s ELSE [p \in Cell |-> IF p \in obs THEN s[p] ELSE factor(p)]
    BY DEF safety_margin, IsOver, ByColumns
  <1> HIDE DEF n
  <1>3. ASSUME NEW p \in Cell PROVE factor(p) \in Nat
    <2>1. PICK g : IsOver(g, obs, s, p, n)
      BY <1>1, OverExists
    <2>2. IsOver(CHOOSE f : IsOver(f, obs, s, p, n), obs, s, p, n)
      BY <2>1
    <2> QED
      BY <1>1, <2>2, OverTyped
  <1> HIDE DEF factor
  <1> QED
    BY <1>2, <1>3

-----------------------------------------------------------------------------
(* The list of open nodes. *)

LEMMA RemoveAtIs ==
    ASSUME NEW s \in Seq(Cell), NEW i \in 1..Len(s)
    PROVE  LET t == RemoveAt(s, i) IN
           /\ t \in Seq(Cell) /\ Len(t) = Len(s) - 1
           /\ \A k \in 1..Len(s) - 1 : t[k] = IF k < i THEN s[k] ELSE s[k + 1]
  <1> DEFINE a == SubSeq(s, 1, i - 1)
             b == SubSeq(s, i + 1, Len(s))
  <1>1. /\ a \in Seq(Cell) /\ Len(a) = i - 1 /\ \A k \in 1..i - 1 : a[k] = s[k]
    OBVIOUS
  <1>2. /\ b \in Seq(Cell) /\ Len(b) = Len(s) - i /\ \A k \in 1..Len(s) - i : b[k] = s[i + k]
    OBVIOUS
  <1> HIDE DEF a, b
  <1>3. RemoveAt(s, i) = a \o b
    BY DEF RemoveAt, a, b
  <1>4. a \o b \in Seq(Cell) /\ Len(a \o b) = Len(s) - 1
    <2>1. Len(s) \in Nat
      OBVIOUS
    <2>2. a \o b \in Seq(Cell)
      BY <1>1, <1>2
    <2>3. Len(a \o b) = Len(a) + Len(b)
      <3>1. a \in Seq(Cell) /\ b \in Seq(Cell)
        BY <1>1, <1>2
      <3> QED
        BY <3>1
    <2> QED
      BY <1>1, <1>2, <2>1, <2>2, <2>3
  <1>5. \A k \in 1..Len(s) - 1 : (a \o b)[k] = IF k < i THEN s[k] ELSE s[k + 1]
    BY <1>1, <1>2
  <1> QED
    BY <1>3, <1>4, <1>5

LEMMA InsertAtIs ==
    ASSUME NEW s \in Seq(Cell), NEW i \in 1..Len(s) + 1, NEW e \in Cell
    PROVE  LET t == InsertAt(s, i, e) IN
           /\ t \in Seq(Cell) /\ Len(t) = Len(s) + 1
           /\ \A k \in 1..Len(s) + 1 :
                t[k] = IF k < i THEN s[k] ELSE IF k = i THEN e ELSE s[k - 1]
  <1> DEFINE a == SubSeq(s, 1, i - 1)
             b == SubSeq(s, i, Len(s))
  <1>1. /\ a \in Seq(Cell) /\ Len(a) = i - 1 /\ \A k \in 1..i - 1 : a[k] = s[k]
    OBVIOUS
  <1>2. /\ b \in Seq(Cell) /\ Len(b) = Len(s) + 1 - i
        /\ \A k \in 1..Len(s) + 1 - i : b[k] = s[i + k - 1]
    OBVIOUS
  <1> HIDE DEF a, b
  <1>3. InsertAt(s, i, e) = a \o <<e>> \o b
    BY DEF InsertAt, a, b
  <1> DEFINE c == a \o <<e>>
  <1>4. /\ c \in Seq(Cell) /\ Len(c) = i
        /\ \A k \in 1..i : c[k] = IF k < i THEN s[k] ELSE e
    BY <1>1
  <1> HIDE DEF c
  <1>5. c \o b \in Seq(Cell) /\ Len(c \o b) = Len(s) + 1
    <2>1. Len(s) \in Nat
      OBVIOUS
    <2>2. c \o b \in Seq(Cell)
      BY <1>2, <1>4
    <2>3. Len(c \o b) = Len(c) + Len(b)
      <3>1. c \in Seq(Cell) /\ b \in Seq(Cell)
        BY <1>2, <1>4
      <3> QED
        BY <3>1
    <2> QED
      BY <1>2, <1>4, <2>1, <2>2, <2>3
  <1>6. \A k \in 1..Len(s) + 1 :
          (c \o b)[k] = IF k < i THEN s[k] ELSE IF k = i THEN e ELSE s[k - 1]
    BY <1>2, <1>4
  <1>7. InsertAt(s, i, e) = c \o b
    BY <1>3 DEF c
  <1> QED
    BY <1>5, <1>6, <1>7

(* The list of open nodes: by F, and no node twice. *)
Ordered(o, n) == \A j, k \in 1..Len(o) : j < k => n[o[j]].F <= n[o[k]].F
Once(o) == \A j, k \in 1..Len(o) : o[j] = o[k] => j = k
Has(o, q) == \E k \in 1..Len(o) : o[k] = q

LEMMA FirstOfIs ==
    ASSUME NEW o \in Seq(Cell), NEW K \in SUBSET (1..Len(o))
    PROVE  /\ FirstOf(K, o) \in 1..Len(o) + 1
           /\ FirstOf(K, o) <= Len(o) => FirstOf(K, o) \in K
           /\ \A k \in K : FirstOf(K, o) <= k
  <1> DEFINE M == K \cup {Len(o) + 1}
  <1>0. Len(o) \in Nat
    OBVIOUS
  <1>1. M \in SUBSET Nat /\ M # {}
    <2>1. \A k \in K : k \in Nat
      OBVIOUS
    <2>2. M \subseteq Nat
      <3>1. Len(o) + 1 \in Nat
        BY <1>0
      <3> QED
        BY <2>1, <3>1
    <2>3. Len(o) + 1 \in M
      OBVIOUS
    <2> HIDE DEF M
    <2> QED
      BY <2>2, <2>3
  <1>2. Min(M) \in M /\ \A k \in M : Min(M) <= k
    <2> HIDE DEF M
    <2> QED
      BY <1>1, MinIs
  <1>3. FirstOf(K, o) = Min(M)
    BY DEF FirstOf
  <1>4. Min(M) \in K \/ Min(M) = Len(o) + 1
    BY <1>2
  <1>5. \A k \in K : k \in 1..Len(o) /\ Min(M) <= k
    BY <1>2
  <1> DEFINE m == Min(M)
             L == Len(o)
  <1>6. L \in Nat /\ (m \in K \/ m = L + 1) /\ \A k \in K : k \in 1..L /\ m <= k
    BY <1>0, <1>4, <1>5
  <1>7. FirstOf(K, o) = m
    BY <1>3
  <1> HIDE DEF m, L
  <1>8. m \in 1..L + 1 /\ (m <= L => m \in K)
    <2>1. CASE m \in K
      <3>1. m \in 1..L
        BY <1>6, <2>1
      <3> QED
        BY <1>6, <2>1, <3>1
    <2>2. CASE m = L + 1
      BY <1>6, <2>2
    <2> QED
      BY <1>6, <2>1, <2>2
  <1> QED
    BY <1>6, <1>7, <1>8 DEF L

(* A node taken off the list leaves the rest in order. *)
LEMMA RemoveFirstIs ==
    ASSUME NEW n, NEW o \in Seq(Cell), NEW p, Ordered(o, n), Once(o)
    PROVE  LET t == RemoveFirst(o, p) IN
           /\ t \in Seq(Cell) /\ Ordered(t, n) /\ Once(t)
           /\ \A q : Has(t, q) <=> Has(o, q) /\ q # p
  <1> DEFINE t == RemoveFirst(o, p)
             I == {k \in 1..Len(o) : o[k] = p}
  <1>1. CASE I = {}
    BY <1>1 DEF RemoveFirst, Has
  <1>2. CASE I # {}
    <2>1. I \in SUBSET Nat
      OBVIOUS
    <2>2. Min(I) \in I
      <3> HIDE DEF I
      <3> QED
        BY <1>2, <2>1, MinIs
    <2>3. SelectInSeq(o, LAMBDA v : v = p) = Min(I)
      BY <1>2 DEF SelectInSeq
    <2>4. PICK i \in 1..Len(o) : o[i] = p /\ t = RemoveAt(o, i)
      BY <2>2, <2>3 DEF RemoveFirst
    <2> HIDE DEF t
    <2>5. /\ t \in Seq(Cell) /\ Len(t) = Len(o) - 1 /\ Len(o) \in Nat
          /\ \A k \in 1..Len(o) - 1 : t[k] = IF k < i THEN o[k] ELSE o[k + 1]
      <3>1. /\ t \in Seq(Cell) /\ Len(t) = Len(o) - 1
            /\ \A k \in 1..Len(o) - 1 : t[k] = IF k < i THEN o[k] ELSE o[k + 1]
        BY <2>4, RemoveAtIs
      <3>2. Len(o) \in Nat
        OBVIOUS
      <3> QED
        BY <3>1, <3>2
    <2> DEFINE from(k) == IF k < i THEN k ELSE k + 1
    <2>6. \A k \in 1..Len(t) : from(k) \in 1..Len(o) /\ from(k) # i /\ t[k] = o[from(k)]
      BY <2>5
    <2>7. \A j, k \in 1..Len(t) : (j < k => from(j) < from(k)) /\ (from(j) = from(k) => j = k)
      BY <2>5
    <2>8. \A k \in 1..Len(o) : k # i => \E j \in 1..Len(t) : from(j) = k
      <3> SUFFICES ASSUME NEW k \in 1..Len(o), k # i PROVE \E j \in 1..Len(t) : from(j) = k
        OBVIOUS
      <3>1. CASE k < i
        <4>1. k \in 1..Len(t) /\ from(k) = k
          BY <2>5, <3>1
        <4> QED
          BY <4>1
      <3>2. CASE ~(k < i)
        <4>1. k - 1 \in 1..Len(t) /\ from(k - 1) = k
          BY <2>5, <3>2
        <4> QED
          BY <4>1
      <3> QED
        BY <3>1, <3>2
    <2> HIDE DEF from
    <2>9. Ordered(t, n)
      BY <2>6, <2>7 DEF Ordered
    <2>10. Once(t)
      BY <2>6, <2>7 DEF Once
    <2>11. ASSUME NEW q PROVE Has(t, q) <=> Has(o, q) /\ q # p
      <3>1. ASSUME Has(t, q) PROVE Has(o, q) /\ q # p
        <4>1. PICK k \in 1..Len(t) : t[k] = q
          BY <3>1 DEF Has
        <4>2. from(k) \in 1..Len(o) /\ from(k) # i /\ o[from(k)] = q
          BY <2>6, <4>1
        <4> QED
          BY <2>4, <4>2 DEF Has, Once
      <3>2. ASSUME Has(o, q), q # p PROVE Has(t, q)
        <4>1. PICK k \in 1..Len(o) : o[k] = q
          BY <3>2 DEF Has
        <4>2. PICK j \in 1..Len(t) : from(j) = k
          BY <2>4, <2>8, <3>2, <4>1
        <4>3. t[j] = q
          BY <2>6, <4>1, <4>2
        <4> QED
          BY <4>3 DEF Has
      <3> QED
        BY <3>1, <3>2
    <2> QED
      BY <2>5, <2>9, <2>10, <2>11 DEF t
  <1> QED
    BY <1>1, <1>2

(* A node that is not in the list is inserted in order. *)
LEMMA InsertOpenIs ==
    ASSUME NEW n \in [Cell -> Node], NEW o \in Seq(Cell), NEW p \in Cell,
           Ordered(o, n), Once(o), ~Has(o, p)
    PROVE  LET t == InsertOpen(o, n, p) IN
           /\ t \in Seq(Cell) /\ Ordered(t, n) /\ Once(t)
           /\ \A q : Has(t, q) <=> Has(o, q) \/ q = p
  <1> DEFINE K == {k \in 1..Len(o) : n[o[k]].F > n[p].F}
             i == FirstOf(K, o)
             t == InsertOpen(o, n, p)
  <1>1. K \in SUBSET (1..Len(o))
    OBVIOUS
  <1> HIDE DEF K
  <1>2. i \in 1..Len(o) + 1 /\ (i <= Len(o) => i \in K) /\ \A k \in K : i <= k
    BY <1>1, FirstOfIs
  <1> HIDE DEF i
  <1>3. t = InsertAt(o, i, p)
    BY DEF InsertOpen, i, K
  <1> HIDE DEF t
  <1>4. /\ t \in Seq(Cell) /\ Len(t) = Len(o) + 1 /\ Len(o) \in Nat
        /\ \A k \in 1..Len(o) + 1 :
             t[k] = IF k < i THEN o[k] ELSE IF k = i THEN p ELSE o[k - 1]
    <2>1. i \in 1..Len(o) + 1
      BY <1>2
    <2>2. /\ InsertAt(o, i, p) \in Seq(Cell) /\ Len(InsertAt(o, i, p)) = Len(o) + 1
          /\ \A k \in 1..Len(o) + 1 :
               InsertAt(o, i, p)[k] = IF k < i THEN o[k] ELSE IF k = i THEN p ELSE o[k - 1]
      BY <2>1, InsertAtIs
    <2>3. Len(o) \in Nat
      OBVIOUS
    <2> QED
      BY <1>3, <2>2, <2>3
  <1> DEFINE from(k) == IF k < i THEN k ELSE k - 1
  <1>5. \A k \in 1..Len(t) : k # i => from(k) \in 1..Len(o) /\ t[k] = o[from(k)]
    BY <1>2, <1>4
  <1>6. i \in 1..Len(t) /\ t[i] = p
    BY <1>2, <1>4
  <1>7. \A j, k \in 1..Len(t) :
           j # i /\ k # i => (j < k => from(j) < from(k)) /\ (from(j) = from(k) => j = k)
    BY <1>2, <1>4
  <1>8. \A k \in 1..Len(o) : \E j \in 1..Len(t) : j # i /\ from(j) = k
    <2> SUFFICES ASSUME NEW k \in 1..Len(o) PROVE \E j \in 1..Len(t) : j # i /\ from(j) = k
      OBVIOUS
    <2>1. CASE k < i
      <3>1. k \in 1..Len(t) /\ k # i /\ from(k) = k
        BY <1>2, <1>4, <2>1
      <3> QED
        BY <3>1
    <2>2. CASE ~(k < i)
      <3>1. k + 1 \in 1..Len(t) /\ k + 1 # i /\ from(k + 1) = k
        BY <1>2, <1>4, <2>2
      <3> QED
        BY <3>1
    <2> QED
      BY <2>1, <2>2
  <1>9. /\ \A k \in 1..Len(o) : k < i => n[o[k]].F <= n[p].F
        /\ \A k \in 1..Len(o) : k >= i => n[p].F <= n[o[k]].F
    <2>1. \A q \in Cell : n[q].F \in Int
      BY DEF Node
    <2>2. \A k \in 1..Len(o) : o[k] \in Cell
      OBVIOUS
    <2>3. \A k \in 1..Len(o) : k \in K <=> n[o[k]].F > n[p].F
      BY DEF K
    <2>4. ASSUME NEW k \in 1..Len(o), k < i PROVE n[o[k]].F <= n[p].F
      <3>1. k \notin K
        BY <1>2, <2>4
      <3>2. ~(n[o[k]].F > n[p].F) /\ n[o[k]].F \in Int /\ n[p].F \in Int
        BY <2>1, <2>2, <2>3, <3>1
      <3> QED
        BY <3>2
    <2>5. ASSUME NEW k \in 1..Len(o), k >= i PROVE n[p].F <= n[o[k]].F
      <3>1. i \in K /\ i \in 1..Len(o)
        BY <1>1, <1>2, <2>5
      <3>2. n[o[i]].F > n[p].F
        BY <2>3, <3>1
      <3>3. k = i \/ n[o[i]].F <= n[o[k]].F
        BY <2>5, <3>1 DEF Ordered
      <3>4. n[o[i]].F \in Int /\ n[p].F \in Int /\ n[o[k]].F \in Int
        BY <2>1, <2>2, <3>1
      <3> QED
        BY <3>2, <3>3, <3>4
    <2> QED
      BY <2>4, <2>5
  <1>10. Ordered(t, n)
    <2> SUFFICES ASSUME NEW j \in 1..Len(t), NEW k \in 1..Len(t), j < k
                 PROVE  n[t[j]].F <= n[t[k]].F
      BY DEF Ordered
    <2>1. CASE j # i /\ k # i
      <3> HIDE DEF from
      <3> QED
        BY <1>5, <1>7, <2>1 DEF Ordered
    <2>2. CASE j = i
      <3>1. k # i /\ from(k) >= i
        BY <1>2, <1>4, <2>2
      <3> HIDE DEF from
      <3>2. from(k) \in 1..Len(o) /\ t[k] = o[from(k)]
        BY <1>5, <3>1
      <3> QED
        BY <1>6, <1>9, <2>2, <3>1, <3>2
    <2>3. CASE k = i
      <3>1. j # i /\ from(j) < i
        BY <1>2, <1>4, <2>3
      <3> HIDE DEF from
      <3>2. from(j) \in 1..Len(o) /\ t[j] = o[from(j)]
        BY <1>5, <3>1
      <3> QED
        BY <1>6, <1>9, <2>3, <3>1, <3>2
    <2> QED
      BY <2>1, <2>2, <2>3
  <1> HIDE DEF from
  <1>11. Once(t)
    <2> SUFFICES ASSUME NEW j \in 1..Len(t), NEW k \in 1..Len(t), t[j] = t[k]
                 PROVE  j = k
      BY DEF Once
    <2>1. CASE j # i /\ k # i
      BY <1>5, <1>7, <2>1 DEF Once
    <2>2. CASE j = i /\ k # i
      BY <1>5, <1>6, <2>2 DEF Has
    <2>3. CASE k = i /\ j # i
      BY <1>5, <1>6, <2>3 DEF Has
    <2> QED
      BY <2>1, <2>2, <2>3
  <1>12. ASSUME NEW q PROVE Has(t, q) <=> Has(o, q) \/ q = p
    <2>1. ASSUME Has(t, q) PROVE Has(o, q) \/ q = p
      BY <1>5, <1>6, <2>1 DEF Has
    <2>2. ASSUME Has(o, q) PROVE Has(t, q)
      <3>1. PICK k \in 1..Len(o) : o[k] = q
        BY <2>2 DEF Has
      <3>2. PICK j \in 1..Len(t) : j # i /\ from(j) = k
        BY <1>8, <3>1
      <3> QED
        BY <1>5, <3>1, <3>2 DEF Has
    <2>3. ASSUME q = p PROVE Has(t, q)
      BY <1>6, <2>3 DEF Has
    <2> QED
      BY <2>1, <2>2, <2>3
  <1> QED
    BY <1>4, <1>10, <1>11, <1>12 DEF t

-----------------------------------------------------------------------------
(* The nodes.  update_vertex may change the parent of a node that others   *)
(* have for a parent: what it leaves sound is not the costs but the links. *)

(* A node that was reached has a parent that was reached, and a way from   *)
(* it without obstacles, unless it is its own.                             *)
Reached(n, q) == n[q].F >= 0
Linked(n) ==
    \A q \in Cell : Reached(n, q) =>
        /\ Reached(n, n[q].parent)
        /\ n[q].parent = q \/ Entered(n[q].parent, q) \cap obstacles = {}

Sound(n, o) ==
    /\ n \in [Cell -> Node] /\ o \in Seq(Cell)
    /\ Ordered(o, n) /\ Once(o)
    /\ \A k \in 1..Len(o) : Reached(n, o[k])
    /\ Linked(n)

LEMMA NodeIs ==
    ASSUME NEW n \in [Cell -> Node], NEW q \in Cell
    PROVE  n[q].G \in Nat /\ n[q].F \in Int /\ n[q].parent \in Cell
  BY DEF Node

(* The node updated may be the parent of others, and is still reached. *)
LEMMA UpdateKeeps ==
    ASSUME S \in [Cell -> Nat], goal \in Cell,
           NEW st, Sound(st.node, st.open), NEW pos \in Cell, Reached(st.node, pos),
           NEW succ \in Cell, succ \notin obstacles, Adjacent(pos, succ)
    PROVE  LET u == UpdateVertex(st, pos, succ) IN
           /\ Sound(u.node, u.open)
           /\ \A q \in Cell : Reached(st.node, q) => Reached(u.node, q)
           /\ \A q \in Cell : q # succ => u.node[q] = st.node[q]
           /\ \/ u = st /\ Reached(st.node, succ)
              \/ /\ u.node[succ].parent \in {pos, st.node[pos].parent}
                 /\ \A q : Has(u.open, q) <=> Has(st.open, q) \/ q = succ
  <1> DEFINE parent == st.node[pos].parent
             sees == LineOfSight(parent, succ)
             from == IF sees THEN parent ELSE pos
             cost == st.node[from].G + get_dist(from, succ) * (IF sees THEN 1 ELSE S[succ])
             reached == st.node[succ].F >= 0
             F == cost + get_dist(succ, goal)
             n == [st.node EXCEPT ![succ] = [G |-> cost, F |-> F, parent |-> from]]
             others == RemoveFirst(st.open, succ)
             u == UpdateVertex(st, pos, succ)
  <1>1. u = IF reached /\ cost >= st.node[succ].G THEN st
            ELSE [node |-> n, open |-> InsertOpen(others, n, succ)]
    BY DEF UpdateVertex
  <1>2. /\ st.node \in [Cell -> Node] /\ st.open \in Seq(Cell)
        /\ Ordered(st.open, st.node) /\ Once(st.open)
        /\ \A k \in 1..Len(st.open) : Reached(st.node, st.open[k])
        /\ Linked(st.node)
    BY DEF Sound
  <1>3. parent \in Cell /\ Reached(st.node, parent)
    BY <1>2, NodeIs DEF Linked
  <1>4. from \in Cell /\ Reached(st.node, from) /\ from \in {pos, parent}
    <2> HIDE DEF parent
    <2> QED
      BY <1>3
  <1>5. Entered(from, succ) \cap obstacles = {}
    <2>1. CASE sees
      <3>1. from = parent
        BY <2>1
      <3>2. \A c \in SegmentCells(parent, succ) : c \notin obstacles
        BY <2>1 DEF LineOfSight, is_obstacle
      <3> HIDE DEF parent, sees
      <3> QED
        BY <3>1, <3>2 DEF Entered
    <2>2. CASE ~sees
      <3>1. from = pos
        BY <2>2
      <3> QED
        BY <3>1 DEF Entered
    <2> QED
      BY <2>1, <2>2
  <1>6. cost \in Nat /\ F \in Nat
    <2>1. get_dist(from, succ) \in Nat /\ get_dist(succ, goal) \in Nat
      BY <1>4, DistTyped
    <2>2. st.node[from].G \in Nat
      BY <1>2, <1>4, NodeIs
    <2> DEFINE factor == IF sees THEN 1 ELSE S[succ]
    <2>3. factor \in Nat
      OBVIOUS
    <2> HIDE DEF factor, from
    <2>4. get_dist(from, succ) * factor \in Nat
      BY <2>1, <2>3
    <2>5. cost = st.node[from].G + get_dist(from, succ) * factor
      BY DEF factor
    <2>6. cost \in Nat
      BY <2>2, <2>4, <2>5
    <2> HIDE DEF cost
    <2> QED
      BY <2>1, <2>6
  <1> HIDE DEF from, cost, F
  <1>7. [G |-> cost, F |-> F, parent |-> from] \in Node
    BY <1>4, <1>6 DEF Node
  <1>8. /\ n \in [Cell -> Node]
        /\ n[succ] = [G |-> cost, F |-> F, parent |-> from]
        /\ \A q \in Cell : q # succ => n[q] = st.node[q]
    BY <1>2, <1>7
  <1> HIDE DEF n
  <1>9. /\ others \in Seq(Cell) /\ Ordered(others, st.node) /\ Once(others)
        /\ \A q : Has(others, q) <=> Has(st.open, q) /\ q # succ
    BY <1>2, RemoveFirstIs
  <1> HIDE DEF others
  <1>10. \A k \in 1..Len(others) : n[others[k]] = st.node[others[k]]
    <2> SUFFICES ASSUME NEW k \in 1..Len(others) PROVE n[others[k]] = st.node[others[k]]
      OBVIOUS
    <2>1. Has(others, others[k]) /\ others[k] \in Cell
      BY <1>9 DEF Has
    <2> QED
      BY <1>8, <1>9, <2>1
  <1>11. Ordered(others, n) /\ ~Has(others, succ)
    BY <1>9, <1>10 DEF Ordered
  <1> DEFINE o == InsertOpen(others, n, succ)
  <1>12. /\ o \in Seq(Cell) /\ Ordered(o, n) /\ Once(o)
         /\ \A q : Has(o, q) <=> Has(others, q) \/ q = succ
    BY <1>8, <1>9, <1>11, InsertOpenIs
  <1> HIDE DEF o
  <1>13. Reached(n, succ)
    BY <1>6, <1>8 DEF Reached
  <1>14. \A q \in Cell : Reached(st.node, q) => Reached(n, q)
    BY <1>8, <1>13 DEF Reached
  <1>15. \A k \in 1..Len(o) : Reached(n, o[k])
    <2> SUFFICES ASSUME NEW k \in 1..Len(o) PROVE Reached(n, o[k])
      OBVIOUS
    <2>1. Has(o, o[k]) /\ o[k] \in Cell
      BY <1>12 DEF Has
    <2>2. o[k] = succ \/ Has(st.open, o[k])
      BY <1>9, <1>12, <2>1
    <2>3. Has(st.open, o[k]) => Reached(st.node, o[k])
      BY <1>2 DEF Has
    <2> QED
      BY <1>13, <1>14, <2>1, <2>2, <2>3
  <1>16. Linked(n)
    <2> SUFFICES ASSUME NEW q \in Cell, Reached(n, q)
                 PROVE  /\ Reached(n, n[q].parent)
                        /\ n[q].parent = q \/ Entered(n[q].parent, q) \cap obstacles = {}
      BY DEF Linked
    <2>1. CASE q = succ
      <3>1. n[q].parent = from
        BY <1>8, <2>1
      <3> QED
        BY <1>4, <1>5, <1>14, <2>1, <3>1
    <2>2. CASE q # succ
      <3>1. n[q] = st.node[q] /\ st.node[q].parent \in Cell
        BY <1>2, <1>8, <2>2, NodeIs
      <3>2. Reached(st.node, q)
        BY <3>1 DEF Reached
      <3> QED
        BY <1>2, <1>14, <3>1, <3>2 DEF Linked
    <2> QED
      BY <2>1, <2>2
  <1>17. Sound(n, o)
    BY <1>8, <1>12, <1>15, <1>16 DEF Sound
  <1>18. CASE u = st /\ reached
    <2>1. Reached(st.node, succ)
      BY <1>18 DEF Reached
    <2> HIDE DEF reached
    <2> QED
      BY <1>18, <2>1 DEF u
  <1>19. CASE u = [node |-> n, open |-> o]
    <2> HIDE DEF u, reached
    <2>1. u.node = n /\ u.open = o
      BY <1>19
    <2>2. u.node[succ].parent = from
      BY <1>8, <2>1
    <2>3. \A q : Has(u.open, q) <=> Has(st.open, q) \/ q = succ
      BY <1>9, <1>12, <2>1
    <2>4. /\ Sound(u.node, u.open)
          /\ \A q \in Cell : Reached(st.node, q) => Reached(u.node, q)
          /\ \A q \in Cell : q # succ => u.node[q] = st.node[q]
      BY <1>8, <1>14, <1>17, <2>1
    <2>5. u.node[succ].parent \in {pos, st.node[pos].parent}
      BY <1>4, <2>2 DEF parent
    <2> HIDE DEF parent
    <2> QED
      BY <2>3, <2>4, <2>5 DEF u
  <1> HIDE DEF u, reached
  <1> QED
    BY <1>1, <1>18, <1>19 DEF o

-----------------------------------------------------------------------------
(* The nodes around pos, one by one. *)
IsUpdate(f, st, pos, n) ==
    f = [k \in 0..n |->
          IF k = 0 THEN st
          ELSE LET succ == get_succesor(pos, k) IN
               IF is_obstacle(succ) \/ Treated(succ, pos) THEN f[k - 1]
               ELSE UpdateVertex(f[k - 1], pos, succ)]

LEMMA UpdateExists ==
    ASSUME NEW st, NEW pos, NEW n \in Nat
    PROVE  \E f : IsUpdate(f, st, pos, n)
  <1> DEFINE Bad == {m \in Nat : ~\E f : IsUpdate(f, st, pos, m)}
  <1> SUFFICES ASSUME Bad # {} PROVE FALSE
    OBVIOUS
  <1>1. PICK m \in Bad : \A k \in Bad : m <= k
    BY LeastNat
  <1>2. m # 0
    <2>1. IsUpdate([k \in 0..0 |-> st], st, pos, 0)
      BY DEF IsUpdate
    <2> QED
      BY <1>1, <2>1
  <1>3. PICK f : IsUpdate(f, st, pos, m - 1)
    BY <1>1, <1>2
  <1> DEFINE more(v, k) == IF is_obstacle(get_succesor(pos, k)) \/ Treated(get_succesor(pos, k), pos)
                           THEN v ELSE UpdateVertex(v, pos, get_succesor(pos, k))
             g == [k \in 0..m |-> IF k < m THEN f[k] ELSE more(f[m - 1], m)]
  <1>4. IsUpdate(g, st, pos, m)
    <2>1. ASSUME NEW k \in 0..m
          PROVE  g[k] = IF k = 0 THEN st ELSE more(g[k - 1], k)
      <3>1. CASE k < m
        <4>1. k \in 0..m - 1 /\ g[k] = f[k] /\ (k # 0 => g[k - 1] = f[k - 1])
          BY <1>1, <2>1, <3>1
        <4>2. f[k] = IF k = 0 THEN st ELSE more(f[k - 1], k)
          BY <1>3, <4>1 DEF IsUpdate
        <4> HIDE DEF g, more
        <4> QED
          BY <4>1, <4>2
      <3>2. CASE k = m
        <4>1. g[m - 1] = f[m - 1] /\ m - 1 \in 0..m /\ g[m] = more(f[m - 1], m)
          BY <1>1, <1>2
        <4> HIDE DEF g, more
        <4> QED
          BY <1>1, <1>2, <3>2, <4>1
      <3> QED
        BY <1>1, <3>1, <3>2
    <2>2. g = [k \in 0..m |-> IF k = 0 THEN st ELSE more(g[k - 1], k)]
      <3>1. g = [k \in 0..m |-> g[k]]
        OBVIOUS
      <3> HIDE DEF g, more
      <3> QED
        BY <2>1, <3>1
    <2> QED
      BY <2>2 DEF IsUpdate
  <1> QED
    BY <1>1, <1>4

(* The nodes around are next to the node. *)
LEMMA AroundIs ==
    ASSUME NEW pos \in Cell, NEW k \in 1..8
    PROVE  LET q == get_succesor(pos, k) IN q \in Cell => Adjacent(pos, q)
  <1>1. \A j \in 1..8 : Around[j][1] \in {-1, 0, 1} /\ Around[j][2] \in {-1, 0, 1}
    BY DEF Around
  <1>2. Around[k][1] \in {-1, 0, 1} /\ Around[k][2] \in {-1, 0, 1}
    BY <1>1
  <1>3. \A d, e \in {-1, 0, 1} : LET q == [X |-> pos.X + d, Y |-> pos.Y + e] IN Adjacent(pos, q)
    BY CellIs DEF Adjacent, Abs
  <1> QED
    BY <1>2, <1>3 DEF get_succesor

(* The eight nodes around are updated one by one. *)
LEMMA AllUpdated ==
    ASSUME S \in [Cell -> Nat], goal \in Cell, NEW st, Sound(st.node, st.open),
           NEW pos \in Cell, Reached(st.node, pos), NEW f, IsUpdate(f, st, pos, 8)
    PROVE  Sound(f[8].node, f[8].open)
  <1> DEFINE Fine(u) == Sound(u.node, u.open) /\ Reached(u.node, pos)
             Bad == {m \in 0..8 : ~Fine(f[m])}
  <1> SUFFICES ASSUME Bad # {} PROVE FALSE
    OBVIOUS
  <1>0. Bad \in SUBSET Nat
    OBVIOUS
  <1>1. PICK m \in Bad : \A k \in Bad : m <= k
    <2> HIDE DEF Bad
    <2> QED
      BY <1>0, LeastNat
  <1> DEFINE succ == get_succesor(pos, m)
  <1>2. f[m] = IF m = 0 THEN st
               ELSE IF is_obstacle(succ) \/ Treated(succ, pos) THEN f[m - 1]
                    ELSE UpdateVertex(f[m - 1], pos, succ)
    BY <1>1 DEF IsUpdate
  <1>3. m # 0
    BY <1>1, <1>2
  <1>4. m \in 1..8 /\ Fine(f[m - 1]) /\ ~Fine(f[m])
    BY <1>1, <1>3
  <1>5. ~is_obstacle(succ) /\ f[m] = UpdateVertex(f[m - 1], pos, succ)
    BY <1>2, <1>3, <1>4
  <1>6. succ \in Cell /\ succ \notin obstacles
    BY <1>5 DEF is_obstacle, valid_pos
  <1>7. Adjacent(pos, succ)
    BY <1>4, <1>6, AroundIs
  <1> HIDE DEF succ
  <1>8. Fine(f[m])
    BY <1>4, <1>5, <1>6, <1>7, UpdateKeeps
  <1> QED
    BY <1>4, <1>8

(* What is left of open. *)
LEMMA SuffixSound ==
    ASSUME NEW n, NEW o, Sound(n, o), NEW i \in 1..Len(o) + 1
    PROVE  Sound(n, SubSeq(o, i, Len(o)))
  <1> DEFINE t == SubSeq(o, i, Len(o))
  <1>1. o \in Seq(Cell) /\ Len(o) \in Nat
    <2>1. o \in Seq(Cell)
      BY DEF Sound
    <2> QED
      BY <2>1
  <1>2. /\ t \in Seq(Cell) /\ Len(t) = Len(o) + 1 - i
        /\ \A k \in 1..Len(o) + 1 - i : t[k] = o[i + k - 1]
    BY <1>1
  <1> HIDE DEF t
  <1>3. \A k \in 1..Len(t) : i + k - 1 \in 1..Len(o) /\ t[k] = o[i + k - 1]
    BY <1>1, <1>2
  <1>4. Ordered(t, n)
    <2> SUFFICES ASSUME NEW j \in 1..Len(t), NEW k \in 1..Len(t), j < k
                 PROVE  n[t[j]].F <= n[t[k]].F
      BY DEF Ordered
    <2>1. i + j - 1 < i + k - 1
      BY <1>1, <1>2
    <2> QED
      BY <1>3, <2>1 DEF Sound, Ordered
  <1>5. Once(t)
    <2> SUFFICES ASSUME NEW j \in 1..Len(t), NEW k \in 1..Len(t), t[j] = t[k] PROVE j = k
      BY DEF Once
    <2>1. i + j - 1 = i + k - 1
      BY <1>3 DEF Sound, Once
    <2> QED
      BY <1>1, <1>2, <2>1
  <1>6. \A k \in 1..Len(t) : Reached(n, t[k])
    BY <1>3 DEF Sound
  <1>7. Sound(n, t)
    BY <1>2, <1>4, <1>5, <1>6 DEF Sound
  <1> QED
    BY <1>7 DEF t

(* The walk back along the parents. *)
IsBack(f, p, n) == f = [k \in 1..n |-> IF k = 1 THEN p ELSE node[f[k - 1]].parent]

LEMMA BackExists ==
    ASSUME NEW p, NEW n \in Nat
    PROVE  \E f : IsBack(f, p, n)
  <1> DEFINE Bad == {m \in Nat : ~\E f : IsBack(f, p, m)}
  <1> SUFFICES ASSUME Bad # {} PROVE FALSE
    OBVIOUS
  <1>1. PICK m \in Bad : \A k \in Bad : m <= k
    BY LeastNat
  <1>2. m # 0
    <2>1. IsBack([k \in 1..0 |-> p], p, 0)
      BY DEF IsBack
    <2> QED
      BY <1>1, <2>1
  <1>3. PICK f : IsBack(f, p, m - 1)
    BY <1>1, <1>2
  <1> DEFINE more(k) == IF k = 1 THEN p ELSE node[f[k - 1]].parent
             g == [k \in 1..m |-> IF k < m THEN f[k] ELSE more(m)]
  <1>4. IsBack(g, p, m)
    <2>1. ASSUME NEW k \in 1..m
          PROVE  g[k] = IF k = 1 THEN p ELSE node[g[k - 1]].parent
      <3>1. CASE k < m
        <4>1. k \in 1..m - 1 /\ g[k] = f[k] /\ (k # 1 => g[k - 1] = f[k - 1])
          BY <1>1, <2>1, <3>1
        <4>2. f[k] = IF k = 1 THEN p ELSE node[f[k - 1]].parent
          BY <1>3, <4>1 DEF IsBack
        <4> HIDE DEF g
        <4> QED
          BY <4>1, <4>2
      <3>2. CASE k = m
        <4>1. (m # 1 => g[m - 1] = f[m - 1]) /\ g[m] = more(m)
          BY <1>1, <1>2
        <4> HIDE DEF g
        <4> QED
          BY <1>1, <1>2, <3>2, <4>1
      <3> QED
        BY <1>1, <3>1, <3>2
    <2>2. g = [k \in 1..m |-> IF k = 1 THEN p ELSE node[g[k - 1]].parent]
      <3>1. g = [k \in 1..m |-> g[k]]
        OBVIOUS
      <3> HIDE DEF g
      <3> QED
        BY <2>1, <3>1
    <2> QED
      BY <2>2 DEF IsBack
  <1> QED
    BY <1>1, <1>4

(* Every node of the walk was reached. *)
LEMMA BackReached ==
    ASSUME node \in [Cell -> Node], Linked(node), NEW p \in Cell, Reached(node, p),
           NEW n \in Nat, NEW f, IsBack(f, p, n)
    PROVE  \A k \in 1..n : f[k] \in Cell /\ Reached(node, f[k])
  <1> DEFINE Bad == {k \in 1..n : ~(f[k] \in Cell /\ Reached(node, f[k]))}
  <1> SUFFICES ASSUME Bad # {} PROVE FALSE
    OBVIOUS
  <1>0. Bad \in SUBSET Nat
    OBVIOUS
  <1>1. PICK m \in Bad : \A k \in Bad : m <= k
    <2> HIDE DEF Bad
    <2> QED
      BY <1>0, LeastNat
  <1>2. m \in 1..n /\ f[m] = IF m = 1 THEN p ELSE node[f[m - 1]].parent
    BY <1>1 DEF IsBack
  <1>3. m # 1
    BY <1>1, <1>2
  <1>4. f[m - 1] \in Cell /\ Reached(node, f[m - 1])
    BY <1>1, <1>2, <1>3
  <1>5. f[m] \in Cell /\ Reached(node, f[m])
    BY <1>2, <1>3, <1>4, NodeIs DEF Linked
  <1> QED
    BY <1>1, <1>5

(* A route is the walk up to where it meets the start, if it does. *)
LEMMA RouteWalk ==
    ASSUME NEW p
    PROVE  LET n == Rows * Cols IN
           /\ n \in Nat
           /\ \E f : \E m \in 1..n + 1 :
                /\ IsBack(f, p, n + 1)
                /\ m <= n => f[m] = start
                /\ \A k \in 1..n : f[k] = start => m <= k
                /\ RouteTo(p) = [k \in 1..m |-> f[k]]
  <1> DEFINE n == Rows * Cols
             f == CHOOSE g : IsBack(g, p, n + 1)
             met == {k \in 1..n : f[k] = start} \cup {n + 1}
             m == Min(met)
  <1>1. n \in Nat
    BY CellIs
  <1>2. RouteTo(p) = [k \in 1..m |-> f[k]]
    BY DEF RouteTo, IsBack
  <1> HIDE DEF n
  <1>3. IsBack(f, p, n + 1)
    BY <1>1, BackExists
  <1> HIDE DEF f
  <1>4. /\ m \in 1..n + 1
        /\ m <= n => f[m] = start
        /\ \A k \in 1..n : f[k] = start => m <= k
    <2>1. met \in SUBSET Nat /\ met # {}
      BY <1>1
    <2>2. m \in met /\ \A k \in met : m <= k
      <3> HIDE DEF met
      <3> QED
        BY <2>1, MinIs
    <2>3. \A k \in met : k \in 1..n + 1 /\ (k <= n => f[k] = start)
      BY <1>1
    <2>4. \A k \in 1..n : f[k] = start => k \in met
      OBVIOUS
    <2> HIDE DEF met, m
    <2> QED
      BY <2>2, <2>3, <2>4
  <1> HIDE DEF m
  <1> QED
    BY <1>1, <1>2, <1>3, <1>4 DEF n

(* A route that meets the start: no node of it but the start is its own    *)
(* parent, or the walk would stay there.                                   *)
LEMMA RouteIs ==
    ASSUME node \in [Cell -> Node], Linked(node), NEW p \in Cell, Reached(node, p)
    PROVE  LET r == RouteTo(p) IN
           /\ r \in Seq(Cell) /\ Len(r) \in Nat /\ Len(r) >= 1 /\ r[1] = p
           /\ Last(r) = start =>
                /\ r[Len(r)] = start
                /\ \A k \in 1..Len(r) - 1 : Entered(r[k + 1], r[k]) \cap obstacles = {}
  <1> DEFINE n == Rows * Cols
             r == RouteTo(p)
  <1>1. n \in Nat
    BY CellIs
  <1>0. PICK f : \E m \in 1..n + 1 :
                    /\ IsBack(f, p, n + 1)
                    /\ m <= n => f[m] = start
                    /\ \A k \in 1..n : f[k] = start => m <= k
                    /\ r = [k \in 1..m |-> f[k]]
    BY RouteWalk
  <1> HIDE DEF n, r
  <1>4. PICK m \in 1..n + 1 :
                    /\ IsBack(f, p, n + 1)
                    /\ m <= n => f[m] = start
                    /\ \A k \in 1..n : f[k] = start => m <= k
                    /\ r = [k \in 1..m |-> f[k]]
    BY <1>0
  <1>2. r = [k \in 1..m |-> f[k]]
    BY <1>4
  <1>3. IsBack(f, p, n + 1)
    BY <1>4
  <1>5. \A k \in 1..n + 1 : f[k] \in Cell /\ Reached(node, f[k])
    BY <1>1, <1>3, BackReached
  <1>6. /\ f[1] = p
        /\ \A k \in 1..n : f[k + 1] = node[f[k]].parent
    BY <1>1, <1>3 DEF IsBack
  <1>7. r \in Seq(Cell) /\ Len(r) = m /\ \A k \in 1..m : r[k] = f[k]
    BY <1>1, <1>2, <1>4, <1>5
  <1>8. ASSUME f[m] = start, NEW k \in 1..m - 1
        PROVE  Entered(f[k + 1], f[k]) \cap obstacles = {}
    <2>1. k \in 1..n /\ f[k] # start /\ k \in 1..n + 1
      BY <1>1, <1>4
    <2>2. f[k + 1] = f[k] \/ Entered(f[k + 1], f[k]) \cap obstacles = {}
      BY <1>5, <1>6, <2>1 DEF Linked
    <2>3. ASSUME f[k + 1] = f[k] PROVE FALSE
      <3> DEFINE Bad == {j \in k..m : f[j] # f[k]}
      <3>1. Bad \in SUBSET Nat /\ m \in Bad
        BY <1>1, <1>4, <1>8, <2>1
      <3>2. PICK j \in Bad : \A i \in Bad : j <= i
        <4> HIDE DEF Bad
        <4> QED
          BY <3>1, LeastNat
      <3>3. j \in k..m /\ j # k /\ f[j] # f[k]
        BY <3>2
      <3>4. j - 1 \in k..m /\ j - 1 \in 1..n /\ j - 1 \notin Bad /\ j - 1 + 1 = j
        BY <1>1, <1>4, <2>1, <3>2, <3>3
      <3>5. f[j - 1] = f[k]
        BY <3>4
      <3>6. f[j] = node[f[j - 1]].parent /\ f[k + 1] = node[f[k]].parent
        BY <1>6, <2>1, <3>4
      <3> QED
        BY <2>3, <3>3, <3>5, <3>6
    <2> QED
      BY <2>2, <2>3
  <1>9. Last(r) = f[m]
    BY <1>1, <1>4, <1>7 DEF Last
  <1>10. /\ Len(r) \in Nat /\ Len(r) >= 1 /\ r[1] = p /\ r[Len(r)] = f[m]
    BY <1>1, <1>4, <1>6, <1>7
  <1>11. ASSUME Last(r) = start
         PROVE  \A k \in 1..Len(r) - 1 : Entered(r[k + 1], r[k]) \cap obstacles = {}
    <2> SUFFICES ASSUME NEW k \in 1..m - 1 PROVE Entered(r[k + 1], r[k]) \cap obstacles = {}
      BY <1>7
    <2>1. k \in 1..m /\ k + 1 \in 1..m
      BY <1>1, <1>4
    <2>2. r[k] = f[k] /\ r[k + 1] = f[k + 1]
      BY <1>7, <2>1
    <2> QED
      BY <1>8, <1>9, <1>11, <2>2
  <1> QED
    BY <1>7, <1>9, <1>10, <1>11 DEF r

-----------------------------------------------------------------------------
SearchInv ==
    /\ obstacles \subseteq Cell /\ S \in [Cell -> Nat]
    /\ Sound(node, open) /\ closed \subseteq Cell
    /\ start \in Cell /\ goal \in Cell
    /\ path \in Seq(Cell)
    /\ result \in {"searching", "found", "none", "hangs"}
    /\ result = "found" => Len(path) >= 1
    /\ RouteIsClear

LEMMA RemainingSound ==
    ASSUME Sound(node, open), NEW pos
    PROVE  Sound(node, Remaining(pos))
  <1> DEFINE K == {k \in 1..Len(open) : node[open[k]].F # node[pos].F}
  <1>1. K \in SUBSET (1..Len(open)) /\ open \in Seq(Cell)
    BY DEF Sound
  <1> HIDE DEF K
  <1>2. FirstOf(K, open) \in 1..Len(open) + 1
    BY <1>1, FirstOfIs
  <1>3. Remaining(pos) = SubSeq(open, FirstOf(K, open), Len(open))
    BY DEF Remaining, K
  <1> QED
    BY <1>2, <1>3, SuffixSound

(* A round of the search keeps it sound, and a route it finds is clear. *)
LEMMA TakeNodeKeeps == SearchInv /\ TakeNode => SearchInv'
  <1> SUFFICES ASSUME SearchInv, TakeNode PROVE SearchInv'
    OBVIOUS
  <1> USE DEF SearchInv
  <1> DEFINE pos == Head(open)
             rest == Remaining(pos)
             route == RouteTo(pos)
             st == [node |-> node, open |-> rest]
             f == CHOOSE g : IsUpdate(g, st, pos, 8)
  <1>1. open \in Seq(Cell) /\ open # <<>> /\ node \in [Cell -> Node] /\ Linked(node)
    BY DEF TakeNode, Sound
  <1>2. pos \in Cell /\ Reached(node, pos)
    <2>1. pos = open[1] /\ 1 \in 1..Len(open)
      BY <1>1
    <2> QED
      BY <1>1, <2>1 DEF Sound
  <1>3. /\ closed' = closed \cup {pos}
        /\ UNCHANGED <<obstacles, S, start, goal>>
        /\ result = "searching"
    BY DEF TakeNode
  <1>4. CASE pos = goal
    <2>1. /\ result' = IF Last(route) = start THEN "found" ELSE "hangs"
          /\ path' = route /\ open' = rest /\ node' = node
      BY <1>4 DEF TakeNode
    <2> HIDE DEF route, rest, pos
    <2>2. /\ route \in Seq(Cell) /\ Len(route) \in Nat /\ Len(route) >= 1 /\ route[1] = pos
          /\ Last(route) = start =>
               /\ route[Len(route)] = start
               /\ \A k \in 1..Len(route) - 1 : Entered(route[k + 1], route[k]) \cap obstacles = {}
      BY <1>1, <1>2, RouteIs DEF route
    <2>3. Sound(node, rest)
      BY RemainingSound DEF rest
    <2>4. RouteIsClear'
      BY <1>3, <1>4, <2>1, <2>2 DEF RouteIsClear
    <2>5. Sound(node, open)'
      <3>1. Sound(node', open')
        BY <2>1, <2>3
      <3> QED
        BY <1>3, <3>1 DEF Sound, Linked, Ordered, Once, Reached
    <2> QED
      BY <1>2, <1>3, <2>1, <2>2, <2>4, <2>5
  <1>5. CASE pos # goal
    <2>1. open' = f[8].open /\ node' = f[8].node /\ result' = result /\ path' = path
      BY <1>5 DEF TakeNode, IsUpdate
    <2> HIDE DEF f
    <2>2. IsUpdate(f, st, pos, 8)
      <3> HIDE DEF st, pos
      <3> QED
        BY UpdateExists DEF f
    <2>3. Sound(node, rest)
      BY RemainingSound
    <2> HIDE DEF pos, rest
    <2>4. Sound(st.node, st.open) /\ Reached(st.node, pos)
      BY <1>2, <2>3
    <2> HIDE DEF st
    <2>5. Sound(f[8].node, f[8].open)
      BY <1>2, <2>2, <2>4, AllUpdated
    <2>6. Sound(node, open)'
      <3>1. Sound(node', open')
        BY <2>1, <2>5
      <3> QED
        BY <1>3, <3>1 DEF Sound, Linked, Ordered, Once, Reached
    <2>7. RouteIsClear' /\ result' # "found"
      BY <1>3, <2>1 DEF RouteIsClear
    <2> QED
      BY <1>2, <1>3, <2>1, <2>6, <2>7
  <1> QED
    BY <1>4, <1>5

LEMMA NoRouteKeeps == SearchInv /\ NoRoute => SearchInv'
  BY DEF SearchInv, NoRoute, Sound, Linked, Ordered, Once, Reached, RouteIsClear

(* The coordinates of the problem, each once. *)
IsRead(f, s, n) ==
    f = [k \in 0..n |->
          IF k = 0 THEN <<>>
          ELSE IF s[k] \in ToSet(f[k - 1]) THEN f[k - 1] ELSE Append(f[k - 1], s[k])]

LEMMA ReadExists ==
    ASSUME NEW s, NEW n \in Nat
    PROVE  \E f : IsRead(f, s, n)
  <1> DEFINE Bad == {m \in Nat : ~\E f : IsRead(f, s, m)}
  <1> SUFFICES ASSUME Bad # {} PROVE FALSE
    OBVIOUS
  <1>1. PICK m \in Bad : \A k \in Bad : m <= k
    BY LeastNat
  <1>2. m # 0
    <2>1. IsRead([k \in 0..0 |-> <<>>], s, 0)
      BY DEF IsRead
    <2> QED
      BY <1>1, <2>1
  <1>3. PICK f : IsRead(f, s, m - 1)
    BY <1>1, <1>2
  <1> DEFINE more(v, k) == IF s[k] \in ToSet(v) THEN v ELSE Append(v, s[k])
             g == [k \in 0..m |-> IF k < m THEN f[k] ELSE more(f[m - 1], m)]
  <1>4. IsRead(g, s, m)
    <2>1. ASSUME NEW k \in 0..m
          PROVE  g[k] = IF k = 0 THEN <<>> ELSE more(g[k - 1], k)
      <3>1. CASE k < m
        <4>1. k \in 0..m - 1 /\ g[k] = f[k] /\ (k # 0 => g[k - 1] = f[k - 1])
          BY <1>1, <2>1, <3>1
        <4>2. f[k] = IF k = 0 THEN <<>> ELSE more(f[k - 1], k)
          BY <1>3, <4>1 DEF IsRead
        <4> HIDE DEF g, more
        <4> QED
          BY <4>1, <4>2
      <3>2. CASE k = m
        <4>1. g[m - 1] = f[m - 1] /\ m - 1 \in 0..m /\ g[m] = more(f[m - 1], m)
          BY <1>1, <1>2
        <4> HIDE DEF g, more
        <4> QED
          BY <1>1, <1>2, <3>2, <4>1
      <3> QED
        BY <1>1, <3>1, <3>2
    <2>2. g = [k \in 0..m |-> IF k = 0 THEN <<>> ELSE more(g[k - 1], k)]
      <3>1. g = [k \in 0..m |-> g[k]]
        OBVIOUS
      <3> HIDE DEF g, more
      <3> QED
        BY <2>1, <3>1
    <2> QED
      BY <2>2 DEF IsRead
  <1> QED
    BY <1>1, <1>4

ReadOf(t, s, m) == t \in Seq(Cell) /\ \A i \in 1..m : Has(t, s[i])

LEMMA ReadMore ==
    ASSUME NEW s \in Seq(Cell), NEW m \in 1..Len(s), NEW t, ReadOf(t, s, m - 1)
    PROVE  ReadOf(IF s[m] \in ToSet(t) THEN t ELSE Append(t, s[m]), s, m)
  <1>1. t \in Seq(Cell) /\ Len(t) \in Nat /\ s[m] \in Cell
    <2>1. t \in Seq(Cell)
      BY DEF ReadOf
    <2> QED
      BY <2>1
  <1>2. \A i \in 1..m : i = m \/ Has(t, s[i])
    BY DEF ReadOf
  <1>3. CASE s[m] \in ToSet(t)
    <2>1. Has(t, s[m])
      BY <1>1, <1>3 DEF ToSet, Has
    <2> QED
      BY <1>1, <1>2, <1>3, <2>1 DEF ReadOf
  <1>4. CASE s[m] \notin ToSet(t)
    <2> DEFINE u == Append(t, s[m])
    <2>1. /\ u \in Seq(Cell) /\ Len(u) = Len(t) + 1 /\ u[Len(t) + 1] = s[m]
          /\ \A k \in 1..Len(t) : u[k] = t[k]
      BY <1>1
    <2> HIDE DEF u
    <2>2. \A q : Has(t, q) => Has(u, q)
      BY <1>1, <2>1 DEF Has
    <2>3. Has(u, s[m])
      BY <1>1, <2>1 DEF Has
    <2>4. ReadOf(u, s, m)
      BY <1>2, <2>1, <2>2, <2>3 DEF ReadOf
    <2> QED
      BY <1>4, <2>4 DEF u
  <1> QED
    BY <1>3, <1>4

(* Each coordinate of the problem is read, that of the robot too. *)
LEMMA UniqueIs ==
    ASSUME NEW s \in Seq(Cell)
    PROVE  Unique(s) \in Seq(Cell) /\ \A i \in 1..Len(s) : Has(Unique(s), s[i])
  <1> DEFINE f == CHOOSE g : IsRead(g, s, Len(s))
  <1>1. Unique(s) = f[Len(s)]
    BY DEF Unique, IsRead
  <1>2. Len(s) \in Nat
    OBVIOUS
  <1>3. IsRead(f, s, Len(s))
    BY <1>2, ReadExists
  <1> HIDE DEF f
  <1> DEFINE Bad == {m \in 0..Len(s) : ~ReadOf(f[m], s, m)}
  <1>4. Bad = {}
    <2> SUFFICES ASSUME Bad # {} PROVE FALSE
      OBVIOUS
    <2>1. Bad \in SUBSET Nat
      BY <1>2
    <2>2. PICK m \in Bad : \A k \in Bad : m <= k
      <3> HIDE DEF Bad
      <3> QED
        BY <2>1, LeastNat
    <2>3. m \in 0..Len(s) /\ ~ReadOf(f[m], s, m)
      BY <2>2
    <2>4. f[m] = IF m = 0 THEN <<>>
                 ELSE IF s[m] \in ToSet(f[m - 1]) THEN f[m - 1] ELSE Append(f[m - 1], s[m])
      BY <1>3, <2>3 DEF IsRead
    <2>5. m # 0
      <3>1. ReadOf(<<>>, s, 0)
        BY DEF ReadOf
      <3> QED
        BY <2>3, <2>4, <3>1
    <2>6. m \in 1..Len(s) /\ m - 1 \in 0..Len(s)
      BY <1>2, <2>3, <2>5
    <2>7. m - 1 \notin Bad
      BY <1>2, <2>2, <2>6
    <2>8. ReadOf(f[m - 1], s, m - 1)
      BY <2>6, <2>7
    <2>9. ReadOf(IF s[m] \in ToSet(f[m - 1]) THEN f[m - 1] ELSE Append(f[m - 1], s[m]), s, m)
      BY <2>6, <2>8, ReadMore
    <2> QED
      BY <2>3, <2>4, <2>5, <2>9
  <1>5. ReadOf(f[Len(s)], s, Len(s))
    BY <1>2, <1>4
  <1> QED
    BY <1>1, <1>5 DEF ReadOf

LEMMA MetasAre ==
    ASSUME NEW p \in Problems, NEW c \in Cell
    PROVE  LET m == Unique(p.before \o <<c>> \o p.after) IN
           m \in Seq(Cell) /\ Has(m, c)
  <1> DEFINE a == p.before
             b == p.after
             s == a \o <<c>> \o b
  <1>1. a \in Seq(Cell) /\ b \in Seq(Cell)
    BY PlannerAssumption
  <1> HIDE DEF a, b
  <1>2. /\ a \o <<c>> \in Seq(Cell) /\ Len(a \o <<c>>) = Len(a) + 1
        /\ (a \o <<c>>)[Len(a) + 1] = c /\ Len(a) \in Nat
    BY <1>1
  <1>3. s \in Seq(Cell) /\ Len(a) + 1 \in 1..Len(s) /\ s[Len(a) + 1] = c
    <2> DEFINE d == a \o <<c>>
    <2>1. d \in Seq(Cell) /\ b \in Seq(Cell) /\ Len(d) = Len(a) + 1 /\ d[Len(a) + 1] = c
          /\ Len(a) \in Nat
      BY <1>1, <1>2
    <2> HIDE DEF d
    <2>2. d \o b \in Seq(Cell)
      BY <2>1
    <2>3. Len(d \o b) = Len(d) + Len(b) /\ Len(b) \in Nat
      BY <2>1
    <2>4. Len(a) + 1 \in 1..Len(d \o b) /\ (d \o b)[Len(a) + 1] = c
      BY <2>1, <2>3
    <2> QED
      BY <2>2, <2>4 DEF d
  <1> HIDE DEF s
  <1>4. Unique(s) \in Seq(Cell) /\ Has(Unique(s), c)
    BY <1>3, UniqueIs
  <1> QED
    BY <1>4 DEF s, a, b

-----------------------------------------------------------------------------
MapInv ==
    /\ file \in File /\ robot \in Cell /\ bumps \in 0..MaxBumps
    /\ size \in Nat /\ Rows * (Cols + 1) <= size
    /\ marked \subseteq Cell
    /\ Measured => \A p \in marked : file[Place(p.Y, p.X)] = "9"

PhaseInv ==
    /\ phase \in {"ask", "pairs", "pair", "moves", "move", "drive", "failed"}
    /\ IF phase = "ask" THEN plan = <<>> ELSE obstacles = ReadObstacles(file)

PairInv ==
    /\ problem \in Problems /\ metas \in Seq(Cell)
    /\ pair \in Nat \X Nat
    /\ phase \in {"pairs", "pair"} =>
          1 <= pair[1] /\ pair[1] < pair[2] /\ Has(metas, robot)
    /\ phase \in {"moves", "move"} => pair[2] \in 1..Len(metas)

Segment == [from : Cell, to : Cell]
RouteInv ==
    /\ plan \in Seq(Segment)
    /\ \A k \in 1..Len(plan) : Entered(plan[k].from, plan[k].to) \cap obstacles = {}

PInv == SearchInv /\ MapInv /\ PhaseInv /\ PairInv /\ RouteInv

(* PInv holds what the runs check. *)
LEMMA PInvImplies == PInv => TypeOK /\ RouteIsClear /\ PlanAvoidsMarks
  <1> SUFFICES ASSUME PInv PROVE TypeOK /\ RouteIsClear /\ PlanAvoidsMarks
    OBVIOUS
  <1> USE DEF PInv
  <1>1. /\ node \in [Cell -> Node] /\ open \in Seq(Cell) /\ Ordered(open, node) /\ Once(open)
        /\ path \in Seq(Cell) /\ closed \subseteq Cell
    BY DEF SearchInv, Sound
  <1>2. ToSet(open) \cup closed \cup ToSet(path) \subseteq Cell
    BY <1>1 DEF ToSet
  <1>3. IsInjective(open)
    BY <1>1 DEF IsInjective, Once
  <1>4. \A k \in 1..Len(open) - 1 : node[open[k]].F <= node[open[k + 1]].F
    <2> SUFFICES ASSUME NEW k \in 1..Len(open) - 1
                 PROVE  node[open[k]].F <= node[open[k + 1]].F
      OBVIOUS
    <2>1. Len(open) \in Nat
      BY <1>1
    <2>2. k \in 1..Len(open) /\ k + 1 \in 1..Len(open) /\ k < k + 1
      BY <2>1
    <2> QED
      BY <1>1, <2>2 DEF Ordered
  <1>5. \A k \in DOMAIN plan : k \in 1..Len(plan) /\ plan[k] \in Segment
    BY DEF RouteInv
  <1>6. TypeOK
    <2>1. \A k \in DOMAIN plan : plan[k].from \in Cell /\ plan[k].to \in Cell
      BY <1>5 DEF Segment
    <2> QED
      BY <1>2, <1>3, <1>4, <2>1 DEF TypeOK, SearchInv, MapInv, PhaseInv
  <1>7. PlanAvoidsMarks
    <2> SUFFICES ASSUME Measured, NEW k \in DOMAIN plan, NEW p \in marked \cap InPlace(file),
                        p \in Entered(plan[k].from, plan[k].to)
                 PROVE  FALSE
      BY DEF PlanAvoidsMarks
    <2>1. phase # "ask"
      BY DEF PhaseInv
    <2>2. p \in ReadObstacles(file)
      BY ReadInPlace DEF MapInv
    <2>3. p \in obstacles
      BY <2>1, <2>2 DEF PhaseInv
    <2> QED
      BY <1>5, <2>3 DEF RouteInv
  <1> QED
    BY <1>6, <1>7 DEF SearchInv

-----------------------------------------------------------------------------
(* The invariant, at the start and when a search begins or is cleared. *)

LEMMA FileOfIs == \A m : FileOf(m) \in File
  BY DEF FileOf, File, Tokens

LEMMA NoneAre == NoNode \in Node /\ NoMargin \in [Cell -> Nat] /\ ~(NoNode.F >= 0)
  <1>1. [X |-> 0, Y |-> 0] \in Cell
    BY CellIs
  <1> QED
    BY <1>1 DEF NoNode, Node, NoMargin

LEMMA EmptySound ==
    ASSUME NEW n \in [Cell -> Node], Linked(n)
    PROVE  Sound(n, <<>>)
  BY DEF Sound, Ordered, Once

LEMMA ResetIs ==
    ASSUME NEW n \in [Cell -> Node]
    PROVE  reset_data(n) \in [Cell -> Node] /\ \A q \in Cell : ~Reached(reset_data(n), q)
  <1>1. ASSUME NEW q \in Cell
        PROVE  reset_data(n)[q] \in Node /\ reset_data(n)[q].F = -1
    <2>1. reset_data(n)[q] = [G |-> 0, F |-> -1, parent |-> n[q].parent]
      BY DEF reset_data
    <2>2. n[q].parent \in Cell /\ -1 \in Int
      BY NodeIs
    <2> QED
      BY <2>1, <2>2 DEF Node
  <1>2. reset_data(n) = [q \in Cell |-> reset_data(n)[q]]
    BY DEF reset_data
  <1> QED
    BY <1>1, <1>2 DEF Reached

(* A search that begins: the node it starts from is its own parent. *)
LEMMA BeginKeeps ==
    ASSUME SearchInv, NEW n \in [Cell -> Node], Linked(n), NEW c \in SUBSET Cell,
           NEW from \in Cell, NEW to \in Cell, BeginSearch(n, c, from, to),
           S' \in [Cell -> Nat], obstacles' = obstacles
    PROVE  SearchInv'
  <1> DEFINE m == [n EXCEPT ![from] = [G |-> 0, F |-> get_dist(from, to), parent |-> from]]
  <1>1. /\ start' = from /\ goal' = to /\ node' = m /\ open' = <<from>> /\ closed' = c
        /\ path' = <<>> /\ result' = "searching"
    BY DEF BeginSearch
  <1>2. get_dist(from, to) \in Nat
    BY DistTyped
  <1>3. /\ m \in [Cell -> Node] /\ m[from].F >= 0 /\ m[from].parent = from
        /\ \A q \in Cell : q # from => m[q] = n[q]
    BY <1>2 DEF Node
  <1> HIDE DEF m
  <1>4. Linked(m)
    <2> SUFFICES ASSUME NEW q \in Cell, Reached(m, q)
                 PROVE  /\ Reached(m, m[q].parent)
                        /\ m[q].parent = q \/ Entered(m[q].parent, q) \cap obstacles = {}
      BY DEF Linked
    <2>1. CASE q = from
      BY <1>3, <2>1 DEF Reached
    <2>2. CASE q # from
      <3>1. m[q] = n[q] /\ n[q].parent \in Cell
        BY <1>3, <2>2, NodeIs
      <3>2. /\ Reached(n, n[q].parent)
            /\ n[q].parent = q \/ Entered(n[q].parent, q) \cap obstacles = {}
        BY <3>1 DEF Linked, Reached
      <3>3. Reached(m, n[q].parent)
        BY <1>3, <3>1, <3>2 DEF Reached
      <3> QED
        BY <3>1, <3>2, <3>3
    <2> QED
      BY <2>1, <2>2
  <1>5. Sound(m, <<from>>)
    <2>1. <<from>> \in Seq(Cell) /\ Len(<<from>>) = 1 /\ <<from>>[1] = from
      OBVIOUS
    <2>2. \A k \in 1..Len(<<from>>) : k = 1
      BY <2>1
    <2>3. Ordered(<<from>>, m) /\ Once(<<from>>)
      BY <2>2 DEF Ordered, Once
    <2> QED
      BY <1>3, <1>4, <2>1, <2>2, <2>3 DEF Sound, Reached
  <1>6. Sound(node, open)'
    <2>1. Sound(node', open')
      BY <1>1, <1>5
    <2> QED
      BY <2>1 DEF Sound, Linked, Ordered, Once, Reached
  <1>7. RouteIsClear'
    BY <1>1 DEF RouteIsClear
  <1>8. path' \in Seq(Cell)
    BY <1>1
  <1> QED
    BY <1>1, <1>6, <1>7, <1>8 DEF SearchInv

(* The data of a search that are put back. *)
LEMMA ClearKeeps ==
    ASSUME SearchInv, NEW n \in [Cell -> Node], \A q \in Cell : ~Reached(n, q),
           node' = n, Clear, result' = "none", UNCHANGED <<start, goal>>,
           S' \in [Cell -> Nat], obstacles' \in SUBSET Cell
    PROVE  SearchInv'
  <1>1. open' = <<>> /\ closed' = {} /\ path' = <<>>
    BY DEF Clear
  <1>2. Sound(node, open)'
    <2>1. node' \in [Cell -> Node] /\ open' \in Seq(Cell) /\ Len(open') = 0
      BY <1>1
    <2>2. \A k \in 1..Len(open') : FALSE
      BY <2>1
    <2>3. \A q \in Cell : ~(node'[q].F >= 0)
      BY DEF Reached
    <2> QED
      BY <2>1, <2>2, <2>3 DEF Sound, Linked, Ordered, Once, Reached
  <1>3. RouteIsClear'
    BY DEF RouteIsClear
  <1>4. path' \in Seq(Cell)
    BY <1>1
  <1> QED
    BY <1>1, <1>2, <1>3, <1>4 DEF SearchInv

(* What does not touch the search. *)
LEMMA SearchStays == SearchInv /\ UNCHANGED searchVars => SearchInv'
  BY DEF SearchInv, searchVars, Sound, Linked, Ordered, Once, Reached, RouteIsClear

LEMMA MapStays == MapInv /\ UNCHANGED <<mapVars, robotVars>> => MapInv'
  BY DEF MapInv, mapVars, robotVars, Measured

LEMMA RouteStays == RouteInv /\ UNCHANGED <<plan, obstacles>> => RouteInv'
  BY DEF RouteInv

LEMMA NextPairIs ==
    ASSUME pair \in Nat \X Nat, 1 <= pair[1], pair[1] < pair[2], metas \in Seq(Cell)
    PROVE  NextPair \in Nat \X Nat /\ 1 <= NextPair[1] /\ NextPair[1] < NextPair[2]
  <1>1. pair[1] \in Nat /\ pair[2] \in Nat
    OBVIOUS
  <1>2. CASE pair[2] < Len(metas)
    <2>1. NextPair = <<pair[1], pair[2] + 1>>
      BY <1>2 DEF NextPair
    <2> QED
      BY <1>1, <2>1
  <1>3. CASE ~(pair[2] < Len(metas))
    <2>1. NextPair = <<pair[1] + 1, pair[1] + 2>>
      BY <1>3 DEF NextPair
    <2> QED
      BY <1>1, <2>1
  <1> QED
    BY <1>2, <1>3

LEMMA InitPInv == Init => PInv
  <1> SUFFICES ASSUME Init PROVE PInv
    OBVIOUS
  <1>1. /\ file \in File /\ size = Rows * (Cols + 1)
        /\ problem \in Problems /\ robot \in Cell /\ bumps = 0 /\ marked = {}
        /\ phase = "ask" /\ metas = <<>> /\ pair = <<1, 2>> /\ plan = <<>>
        /\ obstacles = {} /\ S = NoMargin /\ node = [p \in Cell |-> NoNode]
        /\ open = <<>> /\ closed = {} /\ path = <<>> /\ start = robot /\ goal = robot
        /\ result = "none"
    BY FileOfIs DEF Init
  <1>2. SearchInv
    <2>1. node \in [Cell -> Node] /\ \A q \in Cell : ~Reached(node, q)
      BY <1>1, NoneAre DEF Reached
    <2>2. Linked(node)
      BY <2>1 DEF Linked
    <2>3. Sound(node, open)
      BY <1>1, <2>1, <2>2, EmptySound
    <2>4. path \in Seq(Cell)
      BY <1>1
    <2> QED
      BY <1>1, <2>3, <2>4, NoneAre DEF SearchInv, RouteIsClear
  <1>3. MapInv
    <2>1. Rows * (Cols + 1) \in Nat /\ Rows * (Cols + 1) <= Rows * (Cols + 1)
      BY CellIs
    <2> QED
      BY <1>1, <2>1, PlannerAssumption DEF MapInv
  <1>4. PhaseInv
    BY <1>1 DEF PhaseInv
  <1>5. PairInv
    <2>1. metas \in Seq(Cell)
      BY <1>1
    <2> QED
      BY <1>1, <2>1 DEF PairInv
  <1>6. RouteInv
    <2>1. plan \in Seq(Segment) /\ Len(plan) = 0
      BY <1>1
    <2> QED
      BY <2>1 DEF RouteInv
  <1> QED
    BY <1>2, <1>3, <1>4, <1>5, <1>6 DEF PInv

-----------------------------------------------------------------------------
(* One lemma for each action. *)

LEMMA PInvTypes ==
    PInv => /\ SearchInv /\ MapInv /\ PhaseInv /\ PairInv /\ RouteInv
            /\ node \in [Cell -> Node] /\ Linked(node) /\ closed \in SUBSET Cell
            /\ obstacles \in SUBSET Cell /\ S \in [Cell -> Nat] /\ start \in Cell /\ goal \in Cell
            /\ metas \in Seq(Cell) /\ Len(metas) \in Nat /\ \A k \in 1..Len(metas) : metas[k] \in Cell
            /\ pair[1] \in Nat /\ pair[2] \in Nat
  <1>1. PInv => metas \in Seq(Cell) /\ pair \in Nat \X Nat
    BY DEF PInv, PairInv
  <1> QED
    BY <1>1 DEF PInv, SearchInv, Sound

LEMMA MarginBackTyped ==
    ASSUME S \in [Cell -> Nat], MarginBack
    PROVE  S' \in [Cell -> Nat]
  BY SafetyMarginTyped, ReadInCells DEF MarginBack

LEMMA ReadMapKeeps == PInv /\ ReadMap => PInv'
  <1> SUFFICES ASSUME PInv, ReadMap PROVE PInv'
    OBVIOUS
  <1> USE PInvTypes
  <1>1. /\ phase = "ask" /\ pair' = <<1, 2>> /\ plan' = <<>> /\ node' = [p \in Cell |-> NoNode]
        /\ Clear /\ result' = "none"
        /\ UNCHANGED <<start, goal, mapVars, problem, robotVars>>
        /\ obstacles' = ReadObstacles(file)
        /\ S' = safety_margin(Walls(file), [p \in Cell |-> 1])
        /\ metas' = Unique(problem.before \o <<robot>> \o problem.after)
        /\ phase' \in {"pairs", "failed"}
    BY DEF ReadMap
  <1>2. robot \in Cell /\ problem \in Problems
    BY DEF MapInv, PairInv
  <1>3. MapInv'
    BY <1>1, MapStays
  <1>4. RouteInv'
    <2>1. plan' \in Seq(Segment) /\ Len(plan') = 0
      BY <1>1
    <2> QED
      BY <2>1 DEF RouteInv
  <1>5. SearchInv'
    <2>1. node' \in [Cell -> Node] /\ \A q \in Cell : ~Reached(node', q)
      BY <1>1, NoneAre DEF Reached
    <2>2. S' \in [Cell -> Nat]
      <3>1. [p \in Cell |-> 1] \in [Cell -> Nat]
        OBVIOUS
      <3> QED
        BY <1>1, <3>1, ReadInCells, SafetyMarginTyped
    <2> QED
      BY <1>1, <2>1, <2>2, ReadInCells, ClearKeeps
  <1>6. PhaseInv'
    <2>1. file' = file
      BY <1>1 DEF mapVars
    <2> QED
      BY <1>1, <2>1 DEF PhaseInv
  <1>7. PairInv'
    <2>1. metas' \in Seq(Cell) /\ Has(metas', robot)
      BY <1>1, <1>2, MetasAre
    <2>2. robot' = robot /\ problem' = problem
      BY <1>1 DEF robotVars
    <2>3. Has(metas', robot')
      BY <2>1, <2>2
    <2>4. Has(metas, robot)'
      BY <2>3 DEF Has
    <2> QED
      BY <1>1, <1>2, <2>1, <2>2, <2>4 DEF PairInv
  <1> QED
    BY <1>3, <1>4, <1>5, <1>6, <1>7 DEF PInv

LEMMA SearchPairKeeps == PInv /\ SearchPair => PInv'
  <1> SUFFICES ASSUME PInv, SearchPair PROVE PInv'
    OBVIOUS
  <1> USE PInvTypes
  <1>1. /\ phase = "pairs" /\ pair[2] <= Len(metas) /\ phase' = "pair"
        /\ BeginSearch(node, closed, metas[pair[1]], metas[pair[2]])
        /\ UNCHANGED <<obstacles, S, mapVars, problem, metas, pair, plan, robotVars>>
    BY DEF SearchPair
  <1>2. 1 <= pair[1] /\ pair[1] < pair[2] /\ Has(metas, robot)
    BY <1>1 DEF PairInv
  <1>3. metas[pair[1]] \in Cell /\ metas[pair[2]] \in Cell
    BY <1>1, <1>2
  <1>4. SearchInv'
    BY <1>1, <1>3, BeginKeeps
  <1>5. MapInv' /\ RouteInv'
    BY <1>1, MapStays, RouteStays
  <1>6. PhaseInv'
    BY <1>1 DEF PhaseInv, mapVars
  <1>7. PairInv'
    BY <1>1, <1>2 DEF PairInv, Has, robotVars
  <1> QED
    BY <1>4, <1>5, <1>6, <1>7 DEF PInv

LEMMA SearchOutsideKeeps == PInv /\ SearchOutside => PInv'
  <1> SUFFICES ASSUME PInv, SearchOutside PROVE PInv'
    OBVIOUS
  <1> USE PInvTypes
  <1>1. /\ phase = "pairs" /\ phase' = "failed"
        /\ UNCHANGED <<searchVars, mapVars, problem, metas, pair, plan, robotVars>>
    BY DEF SearchOutside
  <1>2. obstacles' = obstacles
    BY <1>1 DEF searchVars
  <1>3. SearchInv' /\ MapInv' /\ RouteInv'
    BY <1>1, <1>2, SearchStays, MapStays, RouteStays
  <1>4. PhaseInv' /\ PairInv'
    BY <1>1, <1>2 DEF PhaseInv, PairInv, mapVars
  <1> QED
    BY <1>3, <1>4 DEF PInv

LEMMA SkipPairKeeps == PInv /\ SkipPair => PInv'
  <1> SUFFICES ASSUME PInv, SkipPair PROVE PInv'
    OBVIOUS
  <1> USE PInvTypes
  <1>1. /\ phase = "pairs" /\ pair' = NextPair
        /\ UNCHANGED <<searchVars, mapVars, problem, phase, metas, plan, robotVars>>
    BY DEF SkipPair
  <1>2. 1 <= pair[1] /\ pair[1] < pair[2] /\ Has(metas, robot) /\ pair \in Nat \X Nat
    BY <1>1 DEF PairInv
  <1>3. obstacles' = obstacles /\ robot' = robot
    BY <1>1 DEF searchVars, robotVars
  <1>4. SearchInv' /\ MapInv' /\ RouteInv'
    BY <1>1, <1>3, SearchStays, MapStays, RouteStays
  <1>5. PhaseInv'
    BY <1>1, <1>3 DEF PhaseInv, mapVars
  <1>6. PairInv'
    BY <1>1, <1>2, <1>3, NextPairIs DEF PairInv, Has
  <1> QED
    BY <1>4, <1>5, <1>6 DEF PInv

LEMMA SearchingKeeps == PInv /\ Searching => PInv'
  <1> SUFFICES ASSUME PInv, Searching PROVE PInv'
    OBVIOUS
  <1> USE PInvTypes
  <1>1. UNCHANGED <<mapVars, plannerVars, robotVars>>
    BY DEF Searching
  <1>2. SearchInv' /\ obstacles' = obstacles
    <2>1. CASE TakeNode
      BY <2>1, TakeNodeKeeps DEF TakeNode
    <2>2. CASE NoRoute
      BY <2>2, NoRouteKeeps DEF NoRoute
    <2> QED
      BY <2>1, <2>2 DEF Searching, Search
  <1>3. /\ phase' = phase /\ plan' = plan /\ problem' = problem /\ metas' = metas
        /\ pair' = pair /\ robot' = robot
    BY <1>1 DEF plannerVars, robotVars
  <1>4. MapInv' /\ RouteInv'
    BY <1>1, <1>2, <1>3, MapStays, RouteStays
  <1>5. PhaseInv'
    BY <1>1, <1>2, <1>3 DEF PhaseInv, mapVars
  <1>6. PairInv'
    BY <1>3 DEF PairInv, Has
  <1> QED
    BY <1>2, <1>4, <1>5, <1>6 DEF PInv

LEMMA RetryKeeps == PInv /\ Retry => PInv'
  <1> SUFFICES ASSUME PInv, Retry PROVE PInv'
    OBVIOUS
  <1> USE PInvTypes
  <1>1. /\ S' = NoMargin /\ BeginSearch(reset_data(node), {}, start, goal)
        /\ UNCHANGED <<obstacles, mapVars, problem, phase, metas, pair, plan, robotVars>>
    BY DEF Retry
  <1>2. reset_data(node) \in [Cell -> Node] /\ Linked(reset_data(node))
    BY ResetIs DEF Linked
  <1>3. SearchInv'
    <2>1. {} \in SUBSET Cell
      OBVIOUS
    <2> QED
      BY <1>1, <1>2, <2>1, NoneAre, BeginKeeps
  <1>4. MapInv' /\ RouteInv'
    BY <1>1, MapStays, RouteStays
  <1>5. PhaseInv'
    BY <1>1 DEF PhaseInv, mapVars
  <1>6. PairInv'
    BY <1>1 DEF PairInv, Has, robotVars
  <1> QED
    BY <1>3, <1>4, <1>5, <1>6 DEF PInv

LEMMA EndPairKeeps == PInv /\ EndPair => PInv'
  <1> SUFFICES ASSUME PInv, EndPair PROVE PInv'
    OBVIOUS
  <1> USE PInvTypes
  <1>1. /\ phase = "pair" /\ pair' = NextPair /\ MarginBack /\ ClearSearch /\ result' = "none"
        /\ UNCHANGED <<obstacles, start, goal, mapVars, problem, metas, plan, robotVars>>
    BY DEF EndPair
  <1>2. phase' \in {"failed", "pairs"}
    BY DEF EndPair
  <1>3. 1 <= pair[1] /\ pair[1] < pair[2] /\ Has(metas, robot) /\ pair \in Nat \X Nat
    BY <1>1 DEF PairInv
  <1>4. SearchInv'
    <2>1. S' \in [Cell -> Nat]
      BY <1>1, MarginBackTyped
    <2>2. node' = reset_data(node) /\ Clear
      BY <1>1 DEF ClearSearch
    <2>3. obstacles' \in SUBSET Cell
      BY <1>1
    <2> QED
      BY <1>1, <2>1, <2>2, <2>3, ResetIs, ClearKeeps
  <1>5. MapInv' /\ RouteInv'
    BY <1>1, MapStays, RouteStays
  <1>6. PhaseInv'
    BY <1>1, <1>2 DEF PhaseInv, mapVars
  <1>7. PairInv'
    BY <1>1, <1>2, <1>3, NextPairIs DEF PairInv, Has, robotVars
  <1> QED
    BY <1>4, <1>5, <1>6, <1>7 DEF PInv

LEMMA TaskPlanKeeps == PInv /\ TaskPlan => PInv'
  <1> SUFFICES ASSUME PInv, TaskPlan PROVE PInv'
    OBVIOUS
  <1> USE PInvTypes
  <1> DEFINE i == CHOOSE k \in DOMAIN metas : metas[k] = robot
  <1>1. /\ phase = "pairs" /\ phase' \in {"moves", "failed"} /\ pair' = <<i, i>>
        /\ UNCHANGED <<searchVars, mapVars, problem, metas, plan, robotVars>>
    BY DEF TaskPlan, lanzar_taskplanner
  <1>2. i \in 1..Len(metas)
    <2>1. Has(metas, robot)
      BY <1>1 DEF PairInv
    <2>2. \E k \in DOMAIN metas : metas[k] = robot
      BY <2>1 DEF Has
    <2> QED
      BY <2>2
  <1> HIDE DEF i
  <1>3. obstacles' = obstacles
    BY <1>1 DEF searchVars
  <1>4. SearchInv' /\ MapInv' /\ RouteInv'
    BY <1>1, <1>3, SearchStays, MapStays, RouteStays
  <1>5. PhaseInv'
    BY <1>1, <1>3 DEF PhaseInv, mapVars
  <1>6. PairInv'
    BY <1>1, <1>2 DEF PairInv
  <1> QED
    BY <1>4, <1>5, <1>6 DEF PInv

LEMMA ExpandMoveKeeps == PInv /\ ExpandMove => PInv'
  <1> SUFFICES ASSUME PInv, ExpandMove PROVE PInv'
    OBVIOUS
  <1> USE PInvTypes
  <1>1. /\ phase = "moves" /\ phase' = "move"
        /\ UNCHANGED <<obstacles, S, mapVars, problem, metas, plan, robotVars>>
    BY DEF ExpandMove
  <1>2. PICK j \in DOMAIN metas : /\ pair' = <<pair[2], j>>
                                  /\ BeginSearch(node, closed, metas[pair[2]], metas[j])
    BY DEF ExpandMove
  <1>3. pair[2] \in 1..Len(metas) /\ j \in 1..Len(metas)
    BY <1>1 DEF PairInv
  <1>4. SearchInv'
    BY <1>1, <1>2, <1>3, BeginKeeps
  <1>5. MapInv' /\ RouteInv'
    BY <1>1, MapStays, RouteStays
  <1>6. PhaseInv'
    BY <1>1 DEF PhaseInv, mapVars
  <1>7. PairInv'
    BY <1>1, <1>2, <1>3 DEF PairInv
  <1> QED
    BY <1>4, <1>5, <1>6, <1>7 DEF PInv

(* The segments of a route are its nodes, from the start on. *)
LEMMA SegmentsAre ==
    ASSUME NEW p \in Seq(Cell), Len(p) >= 1,
           \A k \in 1..Len(p) - 1 : Entered(p[k + 1], p[k]) \cap obstacles = {}
    PROVE  LET s == [k \in 1..Len(p) - 1 |->
                       [from |-> Reverse(p)[k], to |-> Reverse(p)[k + 1]]] IN
           /\ s \in Seq(Segment)
           /\ \A k \in 1..Len(s) : Entered(s[k].from, s[k].to) \cap obstacles = {}
  <1> DEFINE n == Len(p)
             s == [k \in 1..n - 1 |-> [from |-> Reverse(p)[k], to |-> Reverse(p)[k + 1]]]
  <1>1. n \in Nat /\ n >= 1 /\ \A k \in 1..n : p[k] \in Cell
    OBVIOUS
  <1>2. Reverse(p) = [k \in 1..n |-> p[(n - k) + 1]]
    BY DEF Reverse
  <1> HIDE DEF n
  <1>3. ASSUME NEW k \in 1..n - 1
        PROVE  /\ s[k] = [from |-> p[(n - k) + 1], to |-> p[n - k]]
               /\ n - k \in 1..n - 1 /\ (n - k) + 1 \in 1..n
    <2>1. k \in 1..n /\ k + 1 \in 1..n /\ n - (k + 1) + 1 = n - k
      BY <1>1
    <2>2. Reverse(p)[k] = p[(n - k) + 1] /\ Reverse(p)[k + 1] = p[n - k]
      BY <1>2, <2>1
    <2>3. n - k \in 1..n - 1 /\ (n - k) + 1 \in 1..n
      BY <1>1
    <2> QED
      BY <2>2, <2>3
  <1>4. \A k \in 1..n - 1 : s[k] \in Segment
    <2> SUFFICES ASSUME NEW k \in 1..n - 1 PROVE s[k] \in Segment
      OBVIOUS
    <2>1. s[k] = [from |-> p[(n - k) + 1], to |-> p[n - k]]
      BY <1>3
    <2>2. p[(n - k) + 1] \in Cell /\ p[n - k] \in Cell
      BY <1>1, <1>3
    <2> QED
      BY <2>1, <2>2 DEF Segment
  <1>5. s \in Seq(Segment) /\ Len(s) = n - 1
    <2>1. n - 1 \in Nat /\ s = [k \in 1..n - 1 |-> s[k]]
      BY <1>1
    <2> HIDE DEF s
    <2>2. s \in [1..n - 1 -> Segment]
      BY <1>4, <2>1
    <2> QED
      BY <2>1, <2>2
  <1>6. ASSUME NEW k \in 1..n - 1
        PROVE  Entered(s[k].from, s[k].to) \cap obstacles = {}
    <2>1. s[k].from = p[(n - k) + 1] /\ s[k].to = p[n - k] /\ n - k \in 1..n - 1
      BY <1>3
    <2>2. Entered(p[(n - k) + 1], p[n - k]) \cap obstacles = {}
      BY <2>1 DEF n
    <2> QED
      BY <2>1, <2>2
  <1> HIDE DEF s
  <1>7. \A k \in 1..Len(s) : Entered(s[k].from, s[k].to) \cap obstacles = {}
    BY <1>5, <1>6
  <1> QED
    BY <1>5, <1>7 DEF s, n

LEMMA PlanGrows ==
    ASSUME NEW p \in Seq(Segment), NEW s \in Seq(Segment),
           \A k \in 1..Len(p) : Entered(p[k].from, p[k].to) \cap obstacles = {},
           \A k \in 1..Len(s) : Entered(s[k].from, s[k].to) \cap obstacles = {}
    PROVE  /\ p \o s \in Seq(Segment)
           /\ \A k \in 1..Len(p \o s) :
                Entered((p \o s)[k].from, (p \o s)[k].to) \cap obstacles = {}
  <1>1. /\ p \o s \in Seq(Segment) /\ Len(p \o s) = Len(p) + Len(s)
        /\ Len(p) \in Nat /\ Len(s) \in Nat
    OBVIOUS
  <1>2. ASSUME NEW k \in 1..Len(p \o s)
        PROVE  Entered((p \o s)[k].from, (p \o s)[k].to) \cap obstacles = {}
    <2>1. CASE k <= Len(p)
      <3>1. k \in 1..Len(p) /\ (p \o s)[k] = p[k]
        BY <1>1, <2>1
      <3> QED
        BY <3>1
    <2>2. CASE ~(k <= Len(p))
      <3>1. k - Len(p) \in 1..Len(s) /\ (p \o s)[k] = s[k - Len(p)]
        BY <1>1, <2>2
      <3> QED
        BY <3>1
    <2> QED
      BY <2>1, <2>2
  <1> QED
    BY <1>1, <1>2

LEMMA EndMoveKeeps == PInv /\ EndMove => PInv'
  <1> SUFFICES ASSUME PInv, EndMove PROVE PInv'
    OBVIOUS
  <1> USE PInvTypes
  <1> DEFINE s == [k \in 1..Len(path) - 1 |->
                     [from |-> Reverse(path)[k], to |-> Reverse(path)[k + 1]]]
  <1>1. /\ phase = "move" /\ phase' = "moves" /\ MarginBack /\ result' = "none"
        /\ UNCHANGED <<obstacles, start, goal, mapVars, problem, metas, pair, robotVars>>
    BY DEF EndMove
  <1>2. S' \in [Cell -> Nat]
    BY <1>1, MarginBackTyped
  <1>3. SearchInv' /\ RouteInv'
    <2>1. CASE result = "found"
      <3>1. plan' = plan \o s /\ Clear /\ node' = reset_data(node)
        BY <2>1 DEF EndMove, ClearSearch
      <3>2. obstacles' \in SUBSET Cell
        BY <1>1
      <3>3. SearchInv'
        BY <1>1, <1>2, <3>1, <3>2, ResetIs, ClearKeeps
      <3>4. /\ path \in Seq(Cell) /\ Len(path) >= 1
            /\ \A k \in 1..Len(path) - 1 : Entered(path[k + 1], path[k]) \cap obstacles = {}
        BY <2>1 DEF SearchInv, RouteIsClear
      <3>5. s \in Seq(Segment) /\ \A k \in 1..Len(s) : Entered(s[k].from, s[k].to) \cap obstacles = {}
        BY <3>4, SegmentsAre
      <3> HIDE DEF s
      <3>6. /\ plan' \in Seq(Segment)
            /\ \A k \in 1..Len(plan') : Entered(plan'[k].from, plan'[k].to) \cap obstacles = {}
        BY <3>1, <3>5, PlanGrows DEF RouteInv
      <3>7. RouteInv'
        BY <1>1, <3>6 DEF RouteInv
      <3> QED
        BY <3>3, <3>7
    <2>2. CASE result # "found"
      <3>1. UNCHANGED <<plan, open, closed, path, node>>
        BY <2>2 DEF EndMove
      <3>2. SearchInv'
        BY <1>1, <1>2, <3>1 DEF SearchInv, Sound, Linked, Ordered, Once, Reached, RouteIsClear
      <3> QED
        BY <1>1, <3>1, <3>2, RouteStays
    <2> QED
      BY <2>1, <2>2
  <1>4. MapInv'
    BY <1>1, MapStays
  <1>5. PhaseInv' 
    <2>1. RouteInv'
      BY <1>3
    <2> QED
      BY <1>1 DEF PhaseInv, mapVars
  <1>6. PairInv'
    BY <1>1 DEF PairInv
  <1> QED
    BY <1>3, <1>4, <1>5, <1>6 DEF PInv

LEMMA EndPlanKeeps == PInv /\ EndPlan => PInv'
  <1> SUFFICES ASSUME PInv, EndPlan PROVE PInv'
    OBVIOUS
  <1> USE PInvTypes
  <1>1. /\ phase = "moves" /\ phase' = "drive"
        /\ UNCHANGED <<searchVars, mapVars, problem, metas, pair, plan, robotVars>>
    BY DEF EndPlan
  <1>2. obstacles' = obstacles
    BY <1>1 DEF searchVars
  <1>3. SearchInv' /\ MapInv' /\ RouteInv'
    BY <1>1, <1>2, SearchStays, MapStays, RouteStays
  <1>4. PhaseInv' /\ PairInv'
    BY <1>1, <1>2 DEF PhaseInv, PairInv, mapVars
  <1> QED
    BY <1>3, <1>4 DEF PInv

LEMMA DriveKeeps == PInv /\ Drive => PInv'
  <1> SUFFICES ASSUME PInv, Drive PROVE PInv'
    OBVIOUS
  <1> USE PInvTypes
  <1>1. /\ phase = "drive" /\ plan # <<>> /\ robot' = Head(plan).to /\ plan' = Tail(plan)
        /\ UNCHANGED <<searchVars, mapVars, problem, phase, metas, pair, bumps, marked>>
    BY DEF Drive
  <1>2. obstacles' = obstacles
    BY <1>1 DEF searchVars
  <1>3. plan \in Seq(Segment)
    BY DEF RouteInv
  <1>4. /\ Head(plan) \in Segment /\ Tail(plan) \in Seq(Segment)
        /\ Len(Tail(plan)) = Len(plan) - 1 /\ Len(plan) \in Nat
        /\ \A k \in 1..Len(plan) - 1 : Tail(plan)[k] = plan[k + 1]
    BY <1>1, <1>3
  <1>5. RouteInv'
    <2>1. \A k \in 1..Len(plan') : /\ k + 1 \in 1..Len(plan) /\ plan'[k] = plan[k + 1]
      BY <1>1, <1>4
    <2>2. \A k \in 1..Len(plan') : Entered(plan'[k].from, plan'[k].to) \cap obstacles = {}
      BY <2>1 DEF RouteInv
    <2> QED
      BY <1>1, <1>2, <1>4, <2>2 DEF RouteInv
  <1>6. MapInv'
    <2>1. robot' \in Cell
      BY <1>1, <1>4 DEF Segment
    <2> QED
      BY <1>1, <2>1 DEF MapInv, mapVars, Measured
  <1>7. SearchInv' /\ PhaseInv' /\ PairInv'
    BY <1>1, <1>2, SearchStays DEF PhaseInv, PairInv, mapVars
  <1> QED
    BY <1>5, <1>6, <1>7 DEF PInv

(* What a bump does to the map. *)
Marked ==
    /\ robot' \in Cell
    /\ bumps < MaxBumps /\ bumps' = bumps + 1
    /\ \E cells : /\ marked' = marked \cup (cells \cap Cell)
                  /\ Made(file, size, robot', cells, file', size')

LEMMA BumpMarks == PInv /\ Bump => Marked
  <1> SUFFICES ASSUME PInv, Bump PROVE Marked
    OBVIOUS
  <1> USE PInvTypes
  <1> DEFINE to == Head(plan).to
             s == Sector(Heading(robot, to))
  <1>1. plan # <<>> /\ bumps < MaxBumps /\ bumps' = bumps + 1
    BY DEF Bump
  <1>2. PICK cell \in SegmentCells(robot, to) \ {to}, bumper \in 0..7 :
          LET cells == MarkedCells(cell, Heading(robot, to), bumper)
              ats == Offsets(file, size, cells)
          IN  /\ robot' = cell
              /\ file' = AddObstacle(file, ats)
              /\ size' = Grown(size, ats)
              /\ marked' = marked \cup (cells \cap Cell)
    BY DEF Bump
  <1>3. robot \in Cell /\ file \in File /\ size \in Nat /\ to \in Cell
    <2>1. plan \in Seq(Segment)
      BY DEF RouteInv
    <2>2. Head(plan) \in Segment
      BY <1>1, <2>1
    <2> QED
      BY <2>2 DEF MapInv, Segment
  <1> HIDE DEF to
  <1>4. cell \in Cell
    BY <1>2, <1>3, SegmentInCells
  <1>5. s \in 0..7
    BY <1>3, HeadingIs
  <1> DEFINE cells == {[X |-> cell.X + d.y, Y |-> cell.Y + d.x] : d \in Marks(s, bumper)}
             ats == Offsets(file, size, cells)
  <1>6. MarkedCells(cell, Heading(robot, to), bumper) = cells
    BY DEF MarkedCells
  <1>7. /\ robot' = cell /\ file' = AddObstacle(file, ats) /\ size' = Grown(size, ats)
        /\ marked' = marked \cup (cells \cap Cell)
    BY <1>2, <1>6
  <1> HIDE DEF s, cells, ats
  <1>8. Made(file, size, cell, cells, file', size')
    <2>1. /\ cells = {[X |-> cell.X + d.y, Y |-> cell.Y + d.x] : d \in Marks(s, bumper)}
          /\ ats = Offsets(file, size, cells)
      BY DEF cells, ats
    <2> QED
      BY <1>3, <1>4, <1>5, <1>7, <2>1, BumpMarksAre
  <1> QED
    BY <1>1, <1>4, <1>7, <1>8 DEF Marked

(* A file that is measured as it is after a mark was so before it. *)
LEMMA MeasuredIs ==
    /\ MapInv => (Measured <=> columnas(file) = Cols + 1 /\ FitsIn(size))
    /\ MapInv /\ Marked =>
         /\ Measured' <=> columnas(file') = Cols + 1 /\ FitsIn(size')
         /\ Measured' => Measured
  <1>1. \A f, z : columnas(f) = Cols + 1 /\ z \in Nat /\ Rows * (Cols + 1) <= z =>
                    (filas(f, z) = Rows <=> z < (Rows + 1) * (Cols + 1))
    BY FilasIs DEF filas
  <1>2. MapInv => (Measured <=> columnas(file) = Cols + 1 /\ FitsIn(size))
    BY <1>1 DEF MapInv, Measured, FitsIn
  <1>3. ASSUME MapInv, Marked
        PROVE  /\ Measured' <=> columnas(file') = Cols + 1 /\ FitsIn(size')
               /\ Measured' => Measured
    <2>1. /\ size \in Nat /\ size' \in Nat /\ size <= size' /\ Rows * (Cols + 1) <= size
          /\ Rows * (Cols + 1) \in Int /\ (Rows + 1) * (Cols + 1) \in Int
      BY <1>3, CellIs DEF MapInv, Marked, Made
    <2>2. Rows * (Cols + 1) <= size' /\ (FitsIn(size') => FitsIn(size))
      BY <2>1 DEF FitsIn
    <2>3. Measured' <=> columnas(file') = Cols + 1 /\ FitsIn(size')
      BY <1>1, <2>1, <2>2 DEF Measured, FitsIn
    <2>4. columnas(file') = Cols + 1 => columnas(file) = Cols + 1
      BY <1>3, MarksTakeEnds DEF MapInv, Marked, Made
    <2> QED
      BY <1>2, <1>3, <2>2, <2>3, <2>4
  <1> QED
    BY <1>2, <1>3

(* Each cell that was marked stays so. *)
LEMMA MarksStay ==
    ASSUME MapInv, Marked, Measured'
    PROVE  marked' \subseteq Cell /\ \A p \in marked' : file'[Place(p.Y, p.X)] = "9"
  <1>1. Measured /\ marked \subseteq Cell /\ \A p \in marked : file[Place(p.Y, p.X)] = "9"
    BY MeasuredIs DEF MapInv
  <1>2. PICK cells : /\ marked' = marked \cup (cells \cap Cell)
                     /\ \A p \in cells \cap Cell : file'[Place(p.Y, p.X)] = "9"
    BY <1>1 DEF Marked, Made, Measured, MeasuredFile
  <1>3. \A p \in marked : file'[Place(p.Y, p.X)] = "9"
    <2>1. \A p \in marked : Place(p.Y, p.X) \in Places
      BY <1>1, PlaceInPlaces, CellIs
    <2> QED
      BY <1>1, <2>1 DEF Marked, Made
  <1> QED
    BY <1>1, <1>2, <1>3

LEMMA BumpKeeps == PInv /\ Bump => PInv'
  <1> SUFFICES ASSUME PInv, Bump PROVE PInv'
    OBVIOUS
  <1> USE PInvTypes
  <1>1. phase' = "ask" /\ plan' = <<>> /\ UNCHANGED <<searchVars, problem, metas, pair>>
    BY DEF Bump
  <1>2. Marked
    BY BumpMarks
  <1>3. MapInv'
    <2>1. bumps \in Nat /\ bumps <= MaxBumps /\ MaxBumps \in Nat /\ bumps + 1 \in 0..MaxBumps
      BY <1>2, PlannerAssumption DEF MapInv, Marked, Made
    <2>2. bumps' \in 0..MaxBumps
      BY <1>2, <2>1 DEF Marked
    <2>3. Measured' => \A p \in marked' : file'[Place(p.Y, p.X)] = "9"
      BY <1>2, MarksStay
    <2>4. marked' \subseteq Cell
      BY <1>2 DEF MapInv, Marked, Made
    <2>5. Rows * (Cols + 1) <= size'
      <3>1. Rows * (Cols + 1) \in Int
        BY CellIs
      <3> QED
        BY <1>2, <3>1 DEF MapInv, Marked, Made
    <2> QED
      BY <1>2, <2>2, <2>3, <2>4, <2>5 DEF MapInv, Marked, Made
  <1>4. RouteInv'
    <2>1. plan' \in Seq(Segment) /\ Len(plan') = 0
      BY <1>1
    <2> QED
      BY <2>1 DEF RouteInv
  <1>5. SearchInv' /\ PhaseInv' /\ PairInv'
    BY <1>1, SearchStays DEF PhaseInv, PairInv
  <1> QED
    BY <1>3, <1>4, <1>5 DEF PInv

(* Every step keeps PInv. *)
LEMMA PStep == PInv /\ [Next]_vars => PInv'
  <1> SUFFICES ASSUME PInv, [Next]_vars PROVE PInv'
    OBVIOUS
  <1>1. CASE ReadMap
    BY <1>1, ReadMapKeeps
  <1>2. CASE SearchPair
    BY <1>2, SearchPairKeeps
  <1>3. CASE SkipPair
    BY <1>3, SkipPairKeeps
  <1>14. CASE SearchOutside
    BY <1>14, SearchOutsideKeeps
  <1>4. CASE Searching
    BY <1>4, SearchingKeeps
  <1>5. CASE Retry
    BY <1>5, RetryKeeps
  <1>6. CASE EndPair
    BY <1>6, EndPairKeeps
  <1>7. CASE TaskPlan
    BY <1>7, TaskPlanKeeps
  <1>8. CASE ExpandMove
    BY <1>8, ExpandMoveKeeps
  <1>9. CASE EndMove
    BY <1>9, EndMoveKeeps
  <1>10. CASE EndPlan
    BY <1>10, EndPlanKeeps
  <1>11. CASE Drive
    BY <1>11, DriveKeeps
  <1>12. CASE Bump
    BY <1>12, BumpKeeps
  <1>13. CASE UNCHANGED vars
    <2>1. /\ UNCHANGED <<searchVars, mapVars, robotVars, plan, obstacles>>
          /\ phase' = phase /\ metas' = metas /\ pair' = pair /\ problem' = problem
          /\ robot' = robot
      BY <1>13 DEF vars, searchVars, plannerVars, robotVars
    <2>2. SearchInv' /\ MapInv' /\ RouteInv'
      BY <2>1, SearchStays, MapStays, RouteStays DEF PInv
    <2>3. PhaseInv' /\ PairInv'
      BY <2>1 DEF PInv, PhaseInv, PairInv, Has, mapVars
    <2> QED
      BY <2>2, <2>3 DEF PInv
  <1> QED
    BY <1>1, <1>2, <1>3, <1>4, <1>5, <1>6, <1>7, <1>8, <1>9, <1>10, <1>11, <1>12, <1>13,
       <1>14 DEF Next, Planner

(* Only a bump sends the robot from its way back to the planner. *)
LEMMA OnlyBumps == [Next]_vars /\ Bumped => Bump
  <1> SUFFICES ASSUME [Next]_vars, phase = "drive", phase' = "ask" PROVE Bump
    BY DEF Bumped
  <1>1. ~ReadMap /\ ~SearchPair /\ ~SearchOutside /\ ~SkipPair /\ ~EndPair /\ ~TaskPlan
    BY DEF ReadMap, SearchPair, SearchOutside, SkipPair, EndPair, TaskPlan
  <1>2. ~Retry /\ ~ExpandMove /\ ~EndMove /\ ~EndPlan /\ ~Drive
    BY DEF Retry, ExpandMove, EndMove, EndPlan, Drive
  <1>3. ~Searching /\ ~UNCHANGED vars
    BY DEF Searching, plannerVars, vars
  <1> QED
    BY <1>1, <1>2, <1>3 DEF Next, Planner

-----------------------------------------------------------------------------
(* The open nodes stay ordered by F and each at most once, nodes, routes   *)
(* and plans stay in the map, and the factors of the margin are numbers,   *)
(* in maps of any size and whatever the problem.                           *)
THEOREM TypeCorrect == Spec => []TypeOK
  BY InitPInv, PStep, PInvImplies, PTL DEF Spec

(* A route that is found goes from the start to the goal past no obstacle, *)
(* for every map, margin and history of earlier searches: update_vertex    *)
(* may change the parent of any open node and the chain search walks back  *)
(* is never broken.                                                        *)
THEOREM RoutesAreClear == Spec => []RouteIsClear
  BY InitPInv, PStep, PInvImplies, PTL DEF Spec

(* No plan enters a cell that a bump has marked before it was made, for    *)
(* any map and any number of bumps, as long as add_obstacle measures the   *)
(* file as it is: in every row that no line without an end is behind.      *)
THEOREM PlansAvoidMarks == Spec => []PlanAvoidsMarks
  BY InitPInv, PStep, PInvImplies, PTL DEF Spec

(* add_obstacle takes no end of a line and adds no line unless the robot   *)
(* is at a side of the map, and loses no mark, whatever the size of the    *)
(* map: no two cells and no cell and end of line share an offset.          *)
THEOREM MarksKeepTheMap == Spec => MarkKeepsMap
  <1> DEFINE Kept ==
        /\ robot'.X \in 1..Cols - 2 => Measured' /\ InPlace(file) \subseteq InPlace(file')
        /\ robot'.X \in 1..Cols - 2 /\ robot'.Y \in 1..Rows - 2 /\ InPlace(file) = Cell =>
              ReadObstacles(file') = ReadObstacles(file) \cup marked'
        /\ Measured' => marked' \cap InPlace(file') \subseteq ReadObstacles(file')
  <1>1. ASSUME PInv, [Next]_vars, Bumped, Measured PROVE Kept
    <2>1. Marked /\ MapInv
      BY <1>1, OnlyBumps, BumpMarks DEF PInv
    <2>2. PICK cells : /\ marked' = marked \cup (cells \cap Cell)
                       /\ Made(file, size, robot', cells, file', size')
      BY <2>1 DEF Marked
    <2>3. MeasuredFile(file, size)
      BY <1>1 DEF Measured, MeasuredFile
    <2>4. Measured' => marked' \cap InPlace(file') \subseteq ReadObstacles(file')
      BY <2>1, MarksStay, ReadInPlace
    <2>5. ASSUME robot'.X \in 1..Cols - 2
          PROVE  Measured' /\ InPlace(file) \subseteq InPlace(file')
      <3>1. columnas(file) = Cols + 1 /\ FitsIn(size')
        BY <1>1, <2>1, <2>2, <2>5, <2>3, MeasuredIs DEF Made
      <3>2. RowStarts(file') = RowStarts(file) /\ columnas(file') = Cols + 1
        BY <2>1, <2>2, <2>5, <2>3, <3>1, MarksTakeEnds DEF MapInv, Made
      <3> QED
        BY <2>1, <3>1, <3>2, MeasuredIs DEF InPlace
    <2>6. ASSUME robot'.X \in 1..Cols - 2, robot'.Y \in 1..Rows - 2, InPlace(file) = Cell
          PROVE  ReadObstacles(file') = ReadObstacles(file) \cup marked'
      <3>1. Measured' /\ InPlace(file') = Cell
        BY <2>5, <2>6 DEF InPlace
      <3>2. \A p \in Cell : /\ p \in ReadObstacles(file) <=> file[Place(p.Y, p.X)] = "9"
                            /\ p \in ReadObstacles(file') <=> file'[Place(p.Y, p.X)] = "9"
        BY <2>6, <3>1, ReadInPlace
      <3>3. ASSUME NEW p \in Cell, file[Place(p.Y, p.X)] = "9"
            PROVE  file'[Place(p.Y, p.X)] = "9"
        BY <2>2, <3>3, PlaceInPlaces, CellIs DEF Made
      <3>4. \A p \in marked' : p \in Cell /\ file'[Place(p.Y, p.X)] = "9"
        BY <2>1, <3>1, MarksStay
      <3>5. \A p \in Cell : file'[Place(p.Y, p.X)] = "9" =>
                              file[Place(p.Y, p.X)] = "9" \/ p \in marked'
        BY <2>2, <2>6, <2>3 DEF Made
      <3> QED
        BY <3>2, <3>3, <3>4, <3>5, ReadInCells
    <2> QED
      BY <2>4, <2>5, <2>6
  <1>2. PInv /\ [Next]_vars => [Bumped /\ Measured => Kept]_vars
    <2> HIDE DEF Kept
    <2> QED
      BY <1>1
  <1> QED
    BY InitPInv, PStep, <1>2, PTL DEF Spec, MarkKeepsMap

-----------------------------------------------------------------------------
(* How a search ends.  Apart is about the nodes a set c of closed nodes    *)
(* leaves open, Listed says that the nodes reached are in one or the other. *)

Apart(u, c, P) ==
    \A q \in Cell : Has(u.open, q) => q \notin c /\ (q = start \/ u.node[q].parent \in P)
Listed(u, c) == \A q \in Cell : Reached(u.node, q) => q \in c \/ Has(u.open, q)

(* What the update of the nodes around pos leaves: the nodes of c as they  *)
(* were, the open nodes outside it and with their parents in P, and, when  *)
(* every node that was reached is in one of them, so are those around pos. *)
LEMMA AllListed ==
    ASSUME S \in [Cell -> Nat], goal \in Cell, NEW st, Sound(st.node, st.open),
           NEW pos \in Cell, Reached(st.node, pos), NEW f, IsUpdate(f, st, pos, 8),
           NEW c, c = closed \cup {pos},
           NEW P, pos \in P, st.node[pos].parent \in P, Apart(st, c, P)
    PROVE  LET u == f[8] IN
           /\ \A q \in Cell : q \in c => u.node[q] = st.node[q]
           /\ Apart(u, c, P)
           /\ Listed(st, c) =>
                /\ Listed(u, c)
                /\ \A q \in Cell : Has(st.open, q) => Has(u.open, q)
                /\ \A k \in 1..8 : LET q == get_succesor(pos, k) IN
                     q \in Cell \ obstacles => q \in c \/ Has(u.open, q)
  <1> DEFINE A(u) == /\ Sound(u.node, u.open) /\ Reached(u.node, pos)
                     /\ \A q \in Cell : q \in c => u.node[q] = st.node[q]
                     /\ Apart(u, c, P)
                     /\ \A q \in Cell : Has(st.open, q) => Has(u.open, q)
             B(u, m) == /\ Listed(u, c)
                        /\ \A k \in 1..m : LET q == get_succesor(pos, k) IN
                             q \in Cell \ obstacles => q \in c \/ Has(u.open, q)
             Fine(m) == A(f[m]) /\ (Listed(st, c) => B(f[m], m))
             Bad == {m \in 0..8 : ~Fine(m)}
  <1>1. Bad = {}
    <2> SUFFICES ASSUME Bad # {} PROVE FALSE
      OBVIOUS
    <2>0. Bad \in SUBSET Nat
      OBVIOUS
    <2>1. PICK m \in Bad : \A k \in Bad : m <= k
      <3> HIDE DEF Bad
      <3> QED
        BY <2>0, LeastNat
    <2> DEFINE succ == get_succesor(pos, m)
               old == f[m - 1]
    <2>2. f[m] = IF m = 0 THEN st
                 ELSE IF is_obstacle(succ) \/ Treated(succ, pos) THEN old
                      ELSE UpdateVertex(old, pos, succ)
      BY <2>1 DEF IsUpdate
    <2>3. m # 0
      <3>1. Fine(0) \/ f[0] # st
        <4> HIDE DEF Fine
        <4> SUFFICES ASSUME f[0] = st PROVE Fine(0)
          OBVIOUS
        <4>1. A(st)
          OBVIOUS
        <4>2. Listed(st, c) => B(st, 0)
          OBVIOUS
        <4> HIDE DEF A, B
        <4> QED
          BY <4>1, <4>2 DEF Fine
      <3> HIDE DEF Fine
      <3> QED
        BY <2>1, <2>2, <3>1
    <2>4. m \in 1..8 /\ m - 1 \in 0..8 /\ m - 1 \notin Bad
      <3>1. m \in 0..8
        BY <2>1
      <3>2. m \in 1..8 /\ m - 1 \in 0..8 /\ m - 1 < m
        BY <2>3, <3>1
      <3> HIDE DEF Bad
      <3> QED
        BY <2>1, <3>2
    <2>5. A(old) /\ (Listed(st, c) => B(old, m - 1))
      BY <2>4
    <2>6. Treated(succ, pos) <=> succ \in c
      BY DEF Treated
    <2> HIDE DEF old
    <2>7. CASE is_obstacle(succ) \/ succ \in c
      <3>1. f[m] = old
        BY <2>2, <2>3, <2>6, <2>7
      <3>2. ASSUME B(old, m - 1) PROVE B(old, m)
        <4> SUFFICES ASSUME NEW k \in 1..m, get_succesor(pos, k) \in Cell \ obstacles
                     PROVE  get_succesor(pos, k) \in c \/ Has(old.open, get_succesor(pos, k))
          BY <3>2
        <4>1. CASE k = m
          BY <2>7, <4>1 DEF is_obstacle, valid_pos
        <4>2. CASE k # m
          <5>1. k \in 1..m - 1
            BY <2>4, <4>2
          <5> QED
            BY <3>2, <5>1
        <4> QED
          BY <4>1, <4>2
      <3> HIDE DEF A, B
      <3>3. Fine(m)
        BY <2>5, <3>1, <3>2
      <3> HIDE DEF Fine
      <3> QED
        BY <2>1, <3>3
    <2>8. CASE ~is_obstacle(succ) /\ succ \notin c
      <3>1. f[m] = UpdateVertex(old, pos, succ)
        BY <2>2, <2>3, <2>6, <2>8
      <3>2. succ \in Cell /\ succ \notin obstacles
        BY <2>8 DEF is_obstacle, valid_pos
      <3>3. Adjacent(pos, succ)
        BY <2>4, <3>2, AroundIs
      <3> HIDE DEF succ
      <3> DEFINE u == UpdateVertex(old, pos, succ)
      <3>4. /\ Sound(u.node, u.open)
            /\ \A q \in Cell : Reached(old.node, q) => Reached(u.node, q)
            /\ \A q \in Cell : q # succ => u.node[q] = old.node[q]
            /\ \/ u = old /\ Reached(old.node, succ)
               \/ /\ u.node[succ].parent \in {pos, old.node[pos].parent}
                  /\ \A q : Has(u.open, q) <=> Has(old.open, q) \/ q = succ
        BY <2>5, <3>2, <3>3, UpdateKeeps
      <3> HIDE DEF u
      <3>5. pos \in c /\ old.node[pos].parent \in P
        BY <2>5
      <3>6. A(u)
        <4>1. Sound(u.node, u.open) /\ Reached(u.node, pos)
          BY <2>5, <3>4
        <4>2. \A q \in Cell : q \in c => u.node[q] = st.node[q]
          BY <2>5, <2>8, <3>4 DEF succ
        <4>3. \A q \in Cell : Has(st.open, q) => Has(u.open, q)
          BY <2>5, <3>4
        <4>4. Apart(u, c, P)
          <5> SUFFICES ASSUME NEW q \in Cell, Has(u.open, q)
                       PROVE  q \notin c /\ (q = start \/ u.node[q].parent \in P)
            BY DEF Apart
          <5>1. CASE u = old
            BY <2>5, <5>1 DEF Apart
          <5>2. CASE u # old /\ q = succ
            <6>1. u.node[succ].parent \in {pos, old.node[pos].parent}
              BY <3>4, <5>2
            <6>2. succ \notin c
              BY <2>8 DEF succ
            <6> QED
              BY <3>5, <5>2, <6>1, <6>2
          <5>3. CASE u # old /\ q # succ
            <6>1. Has(old.open, q) /\ u.node[q] = old.node[q]
              BY <3>4, <5>3
            <6> QED
              BY <2>5, <6>1 DEF Apart
          <5> QED
            BY <5>1, <5>2, <5>3
        <4> QED
          BY <4>1, <4>2, <4>3, <4>4
      <3>7. ASSUME B(old, m - 1) PROVE B(u, m)
        <4>1. \A q \in Cell : Has(old.open, q) => Has(u.open, q)
          BY <3>4
        <4>2. Has(u.open, succ)
          <5>1. CASE u = old /\ Reached(old.node, succ)
            <6>1. succ \in c \/ Has(old.open, succ)
              BY <3>2, <3>7, <5>1 DEF Listed
            <6>2. succ \notin c
              BY <2>8 DEF succ
            <6> QED
              BY <5>1, <6>1, <6>2
          <5> QED
            BY <3>4, <5>1
        <4>3. Listed(u, c)
          <5> SUFFICES ASSUME NEW q \in Cell, Reached(u.node, q) PROVE q \in c \/ Has(u.open, q)
            BY DEF Listed
          <5>1. CASE q # succ
            <6>1. Reached(old.node, q)
              BY <3>4, <5>1 DEF Reached
            <6> QED
              BY <3>7, <4>1, <6>1 DEF Listed
          <5> QED
            BY <4>2, <5>1
        <4>4. ASSUME NEW k \in 1..m, get_succesor(pos, k) \in Cell \ obstacles
              PROVE  get_succesor(pos, k) \in c \/ Has(u.open, get_succesor(pos, k))
          <5>1. CASE k = m
            BY <4>2, <5>1 DEF succ
          <5>2. CASE k # m
            <6>1. k \in 1..m - 1
              BY <2>4, <5>2
            <6> QED
              BY <3>7, <4>1, <4>4, <6>1
          <5> QED
            BY <5>1, <5>2
        <4> QED
          BY <4>3, <4>4
      <3> HIDE DEF A, B
      <3>8. f[m] = u
        BY <3>1 DEF u
      <3>9. Fine(m)
        BY <2>5, <3>6, <3>7, <3>8
      <3> HIDE DEF Fine
      <3> QED
        BY <2>1, <3>9
    <2> QED
      BY <2>7, <2>8
  <1>2. Fine(8)
    <2> HIDE DEF Fine
    <2> QED
      BY <1>1
  <1> QED
    BY <1>2

(* The nodes around a node are all those next to it. *)
LEMMA AroundAll ==
    ASSUME NEW pos \in Cell, NEW q \in Cell, Adjacent(pos, q), q # pos
    PROVE  \E k \in 1..8 : q = get_succesor(pos, k)
  <1> DEFINE dx == q.X - pos.X
             dy == q.Y - pos.Y
  <1>1. /\ dx \in {-1, 0, 1} /\ dy \in {-1, 0, 1} /\ ~(dx = 0 /\ dy = 0)
        /\ q = [X |-> pos.X + dx, Y |-> pos.Y + dy]
    BY CellIs DEF Adjacent, Abs
  <1> HIDE DEF dx, dy
  <1>2. \A k \in 1..8 : get_succesor(pos, k)
                        = [X |-> pos.X + Around[k][1], Y |-> pos.Y + Around[k][2]]
    BY DEF get_succesor
  <1>3. \E k \in 1..8 : Around[k][1] = dx /\ Around[k][2] = dy
    BY <1>1 DEF Around
  <1> QED
    BY <1>1, <1>2, <1>3

(* The map has at most Rows * Cols cells. *)
LEMMA CellsAre == IsFiniteSet(Cell) /\ Cardinality(Cell) <= Rows * Cols
  <1> DEFINE n == Rows * Cols
             f == [p \in Cell |-> Rows * p.X + p.Y]
  <1>1. n \in Nat
    BY CellIs
  <1>2. ASSUME NEW p \in Cell PROVE f[p] \in 0..n - 1
    <2>1. p.X \in Int /\ 0 <= p.X /\ p.X <= Cols - 1 /\ p.Y \in Int /\ 0 <= p.Y /\ p.Y <= Rows - 1
      BY CellIs
    <2>2. 0 <= Rows * p.X /\ Rows * p.X <= Rows * (Cols - 1) /\ Rows * p.X \in Int
      BY <2>1, CellIs
    <2>3. Rows * (Cols - 1) = n - Rows /\ Rows \in Nat
      BY CellIs
    <2> HIDE DEF n
    <2> DEFINE N == Rows * p.X
    <2>4. N \in Int /\ 0 <= N /\ N <= n - Rows
      BY <2>2, <2>3
    <2> HIDE DEF N
    <2>5. N + p.Y \in 0..n - 1
      BY <1>1, <2>1, <2>3, <2>4
    <2> QED
      BY <2>5 DEF N
  <1>3. ASSUME NEW p \in Cell, NEW q \in Cell, f[p] = f[q] PROVE p = q
    <2>1. /\ p.X \in Int /\ q.X \in Int /\ p.Y \in Int /\ q.Y \in Int
          /\ 0 <= p.Y /\ p.Y <= Rows - 1 /\ 0 <= q.Y /\ q.Y <= Rows - 1
          /\ p = [X |-> p.X, Y |-> p.Y] /\ q = [X |-> q.X, Y |-> q.Y]
      BY CellIs
    <2>2. Rows * (p.X - q.X) = q.Y - p.Y
      BY <1>3, <2>1, CellIs
    <2>3. -Rows < Rows * (p.X - q.X) /\ Rows * (p.X - q.X) < Rows
      BY <2>1, <2>2, CellIs
    <2>4. p.X - q.X = 0
      BY <2>1, <2>3, CellIs, SmallMultiple
    <2>5. Rows * 0 = 0
      BY CellIs
    <2> HIDE DEF f
    <2>6. p.X = q.X /\ p.Y = q.Y
      BY <2>1, <2>2, <2>4, <2>5
    <2> QED
      BY <2>1, <2>6
  <1>4. IsFiniteSet(0..n - 1) /\ Cardinality(0..n - 1) <= n
    <2> HIDE DEF n
    <2>1. n - 1 \in Int /\ 0 \in Int
      BY <1>1
    <2>2. IsFiniteSet(0..n - 1) /\ Cardinality(0..n - 1) = IF 0 > n - 1 THEN 0 ELSE n - 1 - 0 + 1
      BY <2>1, FS_Interval
    <2> QED
      BY <1>1, <2>2
  <1>5. f \in Injection(Cell, 0..n - 1)
    <2>1. f \in [Cell -> 0..n - 1]
      BY <1>2
    <2> HIDE DEF f
    <2> QED
      BY <1>3, <2>1 DEF Injection, IsInjective
  <1> HIDE DEF f
  <1>6. IsFiniteSet(Cell) /\ Cardinality(Cell) <= Cardinality(0..n - 1)
    BY <1>4, <1>5, FS_Injection
  <1>7. Cardinality(Cell) \in Nat /\ Cardinality(0..n - 1) \in Nat
    BY <1>4, <1>6, FS_CardinalityType
  <1> HIDE DEF n
  <1>8. Cardinality(Cell) <= n
    BY <1>1, <1>4, <1>6, <1>7
  <1> QED
    BY <1>6, <1>8 DEF n

(* The nodes taken in this search, each with the parents it has before it  *)
(* on the way to the start: what search closed before it did not take.     *)
Ranked(T, d) ==
    \A q \in T : /\ d[q] \in Nat /\ d[q] < Cardinality(T)
                 /\ q = start \/ (node[q].parent \in T /\ d[node[q].parent] < d[q])
ParentIn(T, q) == q = start \/ node[q].parent \in T
Underway ==
    /\ \A k \in 1..Len(open) : open[k] \notin closed
    /\ node[start].parent = start
    /\ \E T \in SUBSET closed : \E d :
         /\ Ranked(T, d)
         /\ start \in T \/ open = <<start>>
         /\ \A k \in 1..Len(open) : ParentIn(T, open[k])

(* What is taken and ranked is reached, and its parents are taken before. *)
LEMMA TakenAre ==
    ASSUME NEW T \in SUBSET Cell, NEW pos \in Cell, pos \notin T
    PROVE  /\ IsFiniteSet(T) /\ Cardinality(T) \in Nat
           /\ Cardinality(T \cup {pos}) = Cardinality(T) + 1
           /\ Cardinality(T) + 1 <= Rows * Cols
  <1>1. IsFiniteSet(T) /\ IsFiniteSet(T \cup {pos})
        /\ Cardinality(T \cup {pos}) = Cardinality(T) + 1
    BY CellsAre, FS_Subset, FS_AddElement
  <1>2. Cardinality(T) \in Nat /\ Cardinality(T \cup {pos}) \in Nat /\ Cardinality(Cell) \in Nat
    BY <1>1, CellsAre, FS_CardinalityType
  <1>3. T \cup {pos} \in SUBSET Cell
    OBVIOUS
  <1>4. Cardinality(T \cup {pos}) <= Cardinality(Cell)
    BY <1>3, CellsAre, FS_Subset
  <1> DEFINE n == Rows * Cols
  <1>5. n \in Nat /\ Cardinality(Cell) <= n
    BY CellIs, CellsAre
  <1> HIDE DEF n
  <1>6. Cardinality(T) + 1 <= n
    BY <1>1, <1>2, <1>4, <1>5
  <1> QED
    BY <1>1, <1>2, <1>6 DEF n

(* A walk from a node whose parent was taken meets the start, in fewer     *)
(* steps than there are cells: every step is to a node taken earlier.      *)
LEMMA RouteMeets ==
    ASSUME NEW T \in SUBSET Cell, NEW d, Ranked(T, d), NEW pos \in Cell, pos \notin T,
           ParentIn(T, pos)
    PROVE  Last(RouteTo(pos)) = start
  <1> DEFINE n == Rows * Cols
             r == RouteTo(pos)
             N == Cardinality(T)
  <1>1. n \in Nat /\ N \in Nat /\ N + 1 <= n
    <2>1. n \in Nat
      BY CellIs
    <2>2. N \in Nat /\ N + 1 <= n
      BY TakenAre
    <2> HIDE DEF n, N
    <2> QED
      BY <2>1, <2>2
  <1>2. PICK f : \E m \in 1..n + 1 :
                    /\ IsBack(f, pos, n + 1)
                    /\ m <= n => f[m] = start
                    /\ \A k \in 1..n : f[k] = start => m <= k
                    /\ r = [k \in 1..m |-> f[k]]
    BY RouteWalk
  <1> HIDE DEF n, r
  <1>3. PICK m \in 1..n + 1 :
                    /\ IsBack(f, pos, n + 1)
                    /\ m <= n => f[m] = start
                    /\ \A k \in 1..n : f[k] = start => m <= k
                    /\ r = [k \in 1..m |-> f[k]]
    BY <1>2
  <1>4. /\ f[1] = pos
        /\ \A k \in 1..n : f[k + 1] = node[f[k]].parent
    BY <1>1, <1>3 DEF IsBack
  <1>5. \A q \in T : /\ d[q] \in Nat /\ d[q] <= N - 1
                     /\ q = start \/ (node[q].parent \in T /\ d[node[q].parent] <= d[q] - 1)
    <2> SUFFICES ASSUME NEW q \in T
                 PROVE /\ d[q] \in Nat /\ d[q] <= N - 1
                       /\ q = start \/ (node[q].parent \in T /\ d[node[q].parent] <= d[q] - 1)
      OBVIOUS
    <2>1. /\ d[q] \in Nat /\ d[q] < N
          /\ q = start \/ (node[q].parent \in T /\ d[node[q].parent] < d[q])
      BY DEF Ranked
    <2>2. node[q].parent \in T => d[node[q].parent] \in Nat
      BY DEF Ranked
    <2> HIDE DEF N
    <2> QED
      BY <1>1, <2>1, <2>2
  <1> HIDE DEF N
  <1>6. \E k \in 1..n : f[k] = start
    <2> SUFFICES ASSUME \A k \in 1..n : f[k] # start PROVE FALSE
      OBVIOUS
    <2> DEFINE Near(k) == node[f[k]].parent \in T /\ d[node[f[k]].parent] <= N - k
               Bad == {k \in 1..n : ~Near(k)}
    <2>1. Bad = {}
      <3> SUFFICES ASSUME Bad # {} PROVE FALSE
        OBVIOUS
      <3>0. Bad \in SUBSET Nat
        OBVIOUS
      <3>1. PICK j \in Bad : \A k \in Bad : j <= k
        <4> HIDE DEF Bad
        <4> QED
          BY <3>0, LeastNat
      <3>2. j \in 1..n /\ ~Near(j)
        BY <3>1
      <3>3. CASE j = 1
        <4>1. node[pos].parent \in T
          <5>1. pos # start
            BY <1>1, <1>4
          <5> QED
            BY <5>1 DEF ParentIn
        <4>2. d[node[pos].parent] <= N - 1
          BY <1>5, <4>1
        <4> QED
          BY <1>4, <3>2, <3>3, <4>1, <4>2
      <3>4. CASE j # 1
        <4>1. j - 1 \in 1..n /\ j - 1 < j /\ j - 1 + 1 = j
          <5>1. j \in 1..n
            BY <3>2
          <5> QED
            BY <1>1, <3>4, <5>1
        <4>2. Near(j - 1)
          <5> HIDE DEF Near
          <5>1. j - 1 \notin Bad
            <6> HIDE DEF Bad
            <6> QED
              BY <3>1, <4>1
          <5> QED
            BY <4>1, <5>1
        <4> DEFINE q == f[j]
        <4>3. q = node[f[j - 1]].parent
          BY <1>4, <4>1
        <4>4. q \in T /\ d[q] <= N - (j - 1) /\ q # start
          BY <3>2, <4>2, <4>3
        <4> HIDE DEF q
        <4>5. d[q] \in Nat /\ node[q].parent \in T /\ d[node[q].parent] <= d[q] - 1
              /\ d[node[q].parent] \in Nat
          BY <1>5, <4>4
        <4>6. d[node[q].parent] <= N - j
          BY <1>1, <3>2, <4>4, <4>5
        <4>7. Near(j)
          BY <4>5, <4>6 DEF q
        <4> HIDE DEF Near
        <4> QED
          BY <3>2, <4>7
      <3> QED
        BY <3>3, <3>4
    <2>2. n \in 1..n
      BY <1>1
    <2>3. Near(n)
      <3> HIDE DEF Near
      <3> QED
        BY <2>1, <2>2
    <2>4. d[node[f[n]].parent] \in Nat
      BY <1>5, <2>3
    <2> QED
      BY <1>1, <2>3, <2>4
  <1>7. m \in 1..n /\ f[m] = start
    BY <1>1, <1>3, <1>6
  <1>8. Last(r) = f[m]
    <2>1. Len(r) = m /\ r[m] = f[m]
      BY <1>3, <1>7
    <2> QED
      BY <2>1 DEF Last
  <1> QED
    BY <1>7, <1>8 DEF r

Seen(q) == q \in closed \/ Has(open, q)
Complete ==
    /\ Seen(start)
    /\ \A q \in Cell : Reached(node, q) => Seen(q)
    /\ \A p \in closed, q \in Cell \ obstacles : Adjacent(p, q) => Seen(q)

(* A search begins with the start open alone. *)
LEMMA BeginUnderway ==
    ASSUME NEW n \in [Cell -> Node], NEW c \in SUBSET Cell, NEW from \in Cell, NEW to \in Cell,
           BeginSearch(n, c, from, to), from \notin c
    PROVE  /\ Underway'
           /\ c = {} /\ (\A q \in Cell : ~Reached(n, q)) => Complete'
  <1> DEFINE m == [n EXCEPT ![from] = [G |-> 0, F |-> get_dist(from, to), parent |-> from]]
  <1>1. /\ start' = from /\ node' = m /\ open' = <<from>> /\ closed' = c
    BY DEF BeginSearch
  <1>2. /\ m[from].parent = from
        /\ \A q \in Cell : q # from => m[q] = n[q]
    OBVIOUS
  <1> HIDE DEF m
  <1>3. Len(open') = 1 /\ open'[1] = from /\ \A k \in 1..Len(open') : k = 1
    BY <1>1
  <1>4. Underway'
    <2>1. \A k \in 1..Len(open') : open'[k] \notin closed'
      BY <1>1, <1>3
    <2>2. node'[start'].parent = start'
      BY <1>1, <1>2
    <2>3. /\ {} \in SUBSET closed'
          /\ \A q \in {} : /\ n[q] \in Nat /\ n[q] < Cardinality({})
                           /\ q = start' \/ (node'[q].parent \in {} /\ n[node'[q].parent] < n[q])
          /\ open' = <<start'>>
          /\ \A k \in 1..Len(open') : open'[k] = start'
      BY <1>1, <1>3
    <2> QED
      BY <2>1, <2>2, <2>3 DEF Underway, Ranked, ParentIn
  <1>5. ASSUME c = {}, \A q \in Cell : ~Reached(n, q) PROVE Complete'
    <2>1. \A q \in Cell : node'[q].F >= 0 => q = from
      BY <1>1, <1>2, <1>5 DEF Reached
    <2>2. \E k \in 1..Len(open') : open'[k] = from
      BY <1>3
    <2> QED
      BY <1>1, <1>5, <2>1, <2>2 DEF Complete, Seen, Has, Reached
  <1> QED
    BY <1>4, <1>5

(* The list without the node taken and its equals. *)
LEMMA RemainingIs ==
    ASSUME Sound(node, open), open # <<>>
    PROVE  LET pos == Head(open)
               rest == Remaining(pos)
           IN  /\ \A q : Has(rest, q) => Has(open, q) /\ q # pos
               /\ ~(Len(rest) < Len(open) - 1) => \A q : Has(open, q) => q = pos \/ Has(rest, q)
  <1> DEFINE pos == Head(open)
             rest == Remaining(pos)
             K == {k \in 1..Len(open) : node[open[k]].F # node[pos].F}
             i == FirstOf(K, open)
  <1>1. open \in Seq(Cell) /\ Once(open)
    BY DEF Sound
  <1>2. Len(open) \in Nat /\ Len(open) >= 1 /\ pos = open[1]
    BY <1>1
  <1>3. K \in SUBSET (1..Len(open)) /\ 1 \notin K
    BY <1>2
  <1>4. rest = SubSeq(open, i, Len(open))
    BY DEF Remaining
  <1> HIDE DEF K, pos, rest
  <1>5. i \in 1..Len(open) + 1 /\ i # 1
    <2>1. i \in 1..Len(open) + 1 /\ (i <= Len(open) => i \in K)
      BY <1>1, <1>3, FirstOfIs
    <2> HIDE DEF i
    <2> QED
      BY <1>2, <1>3, <2>1
  <1> HIDE DEF i
  <1>6. /\ Len(rest) = Len(open) + 1 - i
        /\ \A k \in 1..Len(open) + 1 - i : rest[k] = open[i + k - 1]
    BY <1>1, <1>4, <1>5
  <1>7. ASSUME NEW q, Has(rest, q) PROVE Has(open, q) /\ q # pos
    <2>1. PICK k \in 1..Len(rest) : rest[k] = q
      BY <1>7 DEF Has
    <2>2. i + k - 1 \in 1..Len(open) /\ i + k - 1 # 1 /\ open[i + k - 1] = q /\ 1 \in 1..Len(open)
      BY <1>2, <1>5, <1>6, <2>1
    <2> QED
      BY <1>1, <1>2, <2>2 DEF Has, Once
  <1>8. ASSUME ~(Len(rest) < Len(open) - 1), NEW q, Has(open, q) PROVE q = pos \/ Has(rest, q)
    <2>1. i = 2 /\ Len(rest) = Len(open) - 1
      BY <1>2, <1>5, <1>6, <1>8
    <2>2. PICK k \in 1..Len(open) : open[k] = q
      BY <1>8 DEF Has
    <2>3. CASE k = 1
      BY <1>2, <2>2, <2>3
    <2>4. CASE k # 1
      <3>1. k - 1 \in 1..Len(rest) /\ k - 1 \in 1..Len(open) + 1 - i /\ i + (k - 1) - 1 = k
        BY <1>2, <2>1, <2>2, <2>4
      <3>2. rest[k - 1] = q
        BY <1>6, <2>2, <3>1
      <3> QED
        BY <3>1, <3>2 DEF Has
    <2> QED
      BY <2>3, <2>4
  <1> QED
    BY <1>7, <1>8 DEF rest, pos

(* What is in the list is listed. *)
LEMMA HasIs == \A o : (\A k \in 1..Len(o) : Has(o, o[k]))
  BY DEF Has

(* A round closes a node that was not closed, and its route, if it has one *)
(* yet, meets the start.                                                   *)
LEMMA TakeNodeGoes ==
    ASSUME SearchInv, TakeNode, Underway
    PROVE  /\ closed' # closed /\ result' # "hangs"
           /\ result' = "searching" =>
                /\ Underway'
                /\ goal \notin closed => goal' \notin closed'
                /\ Complete /\ ~dropped' => Complete'
  <1> DEFINE pos == Head(open)
             rest == Remaining(pos)
             route == RouteTo(pos)
             st == [node |-> node, open |-> rest]
             f == CHOOSE g : IsUpdate(g, st, pos, 8)
             c == closed \cup {pos}
  <1>1. /\ open \in Seq(Cell) /\ open # <<>> /\ node \in [Cell -> Node] /\ Linked(node)
        /\ Once(open) /\ S \in [Cell -> Nat] /\ goal \in Cell /\ start \in Cell /\ closed \subseteq Cell
        /\ Sound(node, open)
    BY DEF TakeNode, SearchInv, Sound
  <1>2. /\ pos \in Cell /\ Reached(node, pos) /\ pos = open[1] /\ 1 \in 1..Len(open)
    <2>1. pos = open[1] /\ 1 \in 1..Len(open)
      BY <1>1
    <2> QED
      BY <1>1, <2>1 DEF Sound
  <1>3. /\ closed' = c /\ result = "searching"
        /\ UNCHANGED <<obstacles, S, start, goal>>
    BY DEF TakeNode
  <1>4. PICK T \in SUBSET closed : \E d :
          /\ Ranked(T, d)
          /\ start \in T \/ open = <<start>>
          /\ \A k \in 1..Len(open) : ParentIn(T, open[k])
    BY DEF Underway
  <1>5. PICK d : /\ Ranked(T, d)
                 /\ start \in T \/ open = <<start>>
                 /\ \A k \in 1..Len(open) : ParentIn(T, open[k])
    BY <1>4
  <1>6. /\ pos \notin closed /\ pos \notin T /\ T \in SUBSET Cell /\ ParentIn(T, pos)
        /\ \A k \in 1..Len(open) : open[k] \notin closed
        /\ node[start].parent = start
    BY <1>1, <1>2, <1>5 DEF Underway
  <1>7. /\ \A q : Has(rest, q) => Has(open, q) /\ q # pos
        /\ ~(Len(rest) < Len(open) - 1) => \A q : Has(open, q) => q = pos \/ Has(rest, q)
    BY <1>1, RemainingIs
  <1>8. ~dropped' => ~(Len(rest) < Len(open) - 1)
    BY DEF TakeNode
  <1>9. CASE pos = goal
    <2>1. result' = IF Last(route) = start THEN "found" ELSE "hangs"
      BY <1>9 DEF TakeNode
    <2>2. Last(route) = start
      BY <1>2, <1>5, <1>6, RouteMeets
    <2> QED
      BY <1>3, <1>6, <2>1, <2>2
  <1>10. CASE pos # goal
    <2>1. open' = f[8].open /\ node' = f[8].node /\ result' = result
      BY <1>10 DEF TakeNode, IsUpdate
    <2> DEFINE P == T \cup {pos}
    <2> HIDE DEF f
    <2>2. IsUpdate(f, st, pos, 8)
      <3> HIDE DEF st, pos
      <3> QED
        BY UpdateExists DEF f
    <2>3. Sound(node, rest)
      BY <1>1, RemainingSound
    <2> HIDE DEF pos, rest
    <2>4. node[pos].parent \in P /\ pos \in P /\ start \in P /\ P \subseteq c
      <3>1. pos = start \/ node[pos].parent \in T
        BY <1>6 DEF ParentIn
      <3>2. start \in T \/ start = pos
        BY <1>2, <1>5
      <3> QED
        BY <1>6, <3>1, <3>2
    <2>5. Apart(st, c, P)
      <3> SUFFICES ASSUME NEW q \in Cell, Has(rest, q)
                   PROVE  q \notin c /\ (q = start \/ node[q].parent \in P)
        BY DEF Apart
      <3>1. Has(open, q) /\ q # pos
        BY <1>7
      <3>2. q \notin closed /\ ParentIn(T, q)
        BY <1>5, <1>6, <3>1 DEF Has
      <3> QED
        BY <3>1, <3>2 DEF ParentIn
    <2>6. Sound(st.node, st.open) /\ Reached(st.node, pos) /\ st.node = node /\ st.open = rest
      BY <1>2, <2>3
    <2> HIDE DEF st, P
    <2> DEFINE u == f[8]
    <2>7. /\ \A q \in Cell : q \in c => u.node[q] = st.node[q]
          /\ Apart(u, c, P)
          /\ Listed(st, c) =>
               /\ Listed(u, c)
               /\ \A q \in Cell : Has(st.open, q) => Has(u.open, q)
               /\ \A k \in 1..8 : LET q == get_succesor(pos, k) IN
                    q \in Cell \ obstacles => q \in c \/ Has(u.open, q)
      <3>1. st.node[pos].parent \in P /\ pos \in P
        BY <2>4, <2>6
      <3>2. c = closed \cup {pos}
        OBVIOUS
      <3>3. S \in [Cell -> Nat] /\ goal \in Cell /\ pos \in Cell
        BY <1>1, <1>2
      <3> HIDE DEF c, u
      <3>4. /\ \A q \in Cell : q \in c => f[8].node[q] = st.node[q]
            /\ Apart(f[8], c, P)
            /\ Listed(st, c) =>
                 /\ Listed(f[8], c)
                 /\ \A q \in Cell : Has(st.open, q) => Has(f[8].open, q)
                 /\ \A k \in 1..8 : LET q == get_succesor(pos, k) IN
                      q \in Cell \ obstacles => q \in c \/ Has(f[8].open, q)
        BY <2>2, <2>5, <2>6, <3>1, <3>2, <3>3, AllListed, SMTT(60)
      <3> QED
        BY <3>4 DEF u
    <2>8. Sound(u.node, u.open)
      BY <1>1, <1>2, <2>2, <2>6, AllUpdated
    <2> HIDE DEF u
    <2>9. node' = u.node /\ open' = u.open
      BY <2>1 DEF u
    <2>10. u.open \in Seq(Cell) /\ \A k \in 1..Len(u.open) : u.open[k] \in Cell /\ Has(u.open, u.open[k])
      <3>1. u.open \in Seq(Cell)
        BY <2>8 DEF Sound
      <3> QED
        BY <3>1, HasIs
    <2>11. \A q \in Cell : q \in c => node'[q] = node[q]
      BY <2>6, <2>7, <2>9
    <2>12. P \subseteq Cell
      BY <1>2, <1>6 DEF P
    <2>13. Underway'
      <3> DEFINE e == [q \in P |-> IF q # pos THEN d[q]
                                   ELSE IF pos = start THEN 0 ELSE d[node[pos].parent] + 1]
      <3>1. Cardinality(T) \in Nat /\ Cardinality(P) = Cardinality(T) + 1
        BY <1>2, <1>6, TakenAre DEF P
      <3>2. \A q \in T : /\ d[q] \in Nat /\ d[q] < Cardinality(T) /\ e[q] = d[q] /\ q \in P /\ q # pos
                         /\ q = start \/ (node[q].parent \in T /\ d[node[q].parent] < d[q])
        BY <1>5, <1>6 DEF Ranked, P
      <3>3. pos = start => e[pos] = 0
        BY <2>4
      <3>4. pos # start => node[pos].parent \in T /\ e[pos] = d[node[pos].parent] + 1
        BY <1>6, <2>4 DEF ParentIn
      <3> HIDE DEF e
      <3>5. ASSUME NEW q \in P
            PROVE  /\ e[q] \in Nat /\ e[q] < Cardinality(P)
                   /\ q = start \/ (node[q].parent \in P /\ e[node[q].parent] < e[q])
        <4>1. CASE q \in T
          <5>1. e[q] = d[q] /\ d[q] \in Nat /\ d[q] < Cardinality(T)
            BY <3>2, <4>1
          <5>2. q = start \/ (node[q].parent \in P /\ e[node[q].parent] < e[q])
            BY <3>2, <4>1
          <5> QED
            BY <3>1, <5>1, <5>2
        <4>2. CASE q = pos /\ pos = start
          BY <3>1, <3>3, <4>2
        <4>3. CASE q = pos /\ pos # start
          <5> DEFINE r == node[pos].parent
          <5>1. r \in T /\ e[pos] = d[r] + 1
            BY <3>4, <4>3
          <5> HIDE DEF r
          <5>2. d[r] \in Nat /\ d[r] < Cardinality(T) /\ e[r] = d[r] /\ r \in P
            BY <3>2, <5>1
          <5>3. e[pos] \in Nat /\ e[pos] < Cardinality(P) /\ e[r] < e[pos]
            BY <3>1, <5>1, <5>2
          <5> QED
            BY <4>3, <5>2, <5>3 DEF r
        <4> QED
          BY <4>1, <4>2, <4>3 DEF P
      <3>6. \A q \in P : node'[q] = node[q]
        BY <2>4, <2>11, <2>12
      <3>7. \A q \in P : /\ e[q] \in Nat /\ e[q] < Cardinality(P)
                         /\ q = start' \/ (node'[q].parent \in P /\ e[node'[q].parent] < e[q])
        BY <1>3, <3>5, <3>6
      <3>8. \A k \in 1..Len(open') :
              open'[k] \notin closed' /\ (open'[k] = start' \/ node'[open'[k]].parent \in P)
        BY <1>3, <2>7, <2>9, <2>10 DEF Apart
      <3>9. node'[start'].parent = start' /\ start' \in P /\ P \in SUBSET closed'
        BY <1>3, <1>6, <2>4, <3>6
      <3> HIDE DEF c
      <3> QED
        BY <3>7, <3>8, <3>9 DEF Underway, Ranked, ParentIn
    <2>14. goal \notin closed => goal' \notin closed'
      BY <1>3, <1>10 DEF pos
    <2>15. ASSUME Complete, ~dropped' PROVE Complete'
      <3>1. \A q : Has(open, q) => q = pos \/ Has(rest, q)
        BY <1>7, <1>8, <2>15
      <3>2. Listed(st, c)
        BY <2>6, <2>15, <3>1 DEF Listed, Complete, Seen
      <3>3. /\ Listed(u, c)
            /\ \A q \in Cell : Has(rest, q) => Has(u.open, q)
            /\ \A k \in 1..8 : LET q == get_succesor(pos, k) IN
                 q \in Cell \ obstacles => q \in c \/ Has(u.open, q)
        BY <2>6, <2>7, <3>2
      <3> DEFINE Now(q) == q \in c \/ Has(u.open, q)
      <3>4. \A q \in Cell : Seen(q) => Now(q)
        BY <3>1, <3>3 DEF Seen
      <3>5. Now(start)
        BY <1>1, <2>4
      <3>6. \A q \in Cell : Reached(u.node, q) => Now(q)
        BY <3>3 DEF Listed
      <3>7. ASSUME NEW p \in c, NEW q \in Cell \ obstacles, Adjacent(p, q) PROVE Now(q)
        <4>1. CASE p \in closed
          BY <2>15, <3>4, <3>7, <4>1 DEF Complete
        <4>2. CASE p = pos /\ q # pos
          <5>1. PICK k \in 1..8 : q = get_succesor(pos, k)
            BY <1>2, <3>7, <4>2, AroundAll
          <5> QED
            BY <3>3, <5>1
        <4>3. CASE q = pos
          BY <4>3
        <4> QED
          BY <4>1, <4>2, <4>3
      <3>8. \A q : Seen(q)' <=> Now(q)
        BY <1>3, <2>9 DEF Seen, Has
      <3> HIDE DEF Now, c
      <3>9. Seen(start)'
        BY <1>3, <3>5, <3>8 DEF Seen, Has
      <3>10. \A q \in Cell : Reached(node, q)' => Seen(q)'
        BY <2>9, <3>6, <3>8 DEF Reached
      <3>11. \A p \in closed', q \in Cell \ obstacles' : Adjacent(p, q) => Seen(q)'
        BY <1>3, <3>7, <3>8
      <3> QED
        BY <3>9, <3>10, <3>11 DEF Complete
    <2> QED
      BY <1>3, <1>6, <2>1, <2>13, <2>14, <2>15
  <1> QED
    BY <1>9, <1>10

-----------------------------------------------------------------------------
(* The invariant of how searches end, action by action. *)

(* A search that started on cleared data: of a pair, or a second one. *)
Fresh == phase = "pair" \/ (phase = "move" /\ retried)
EndInv ==
    /\ phase \in {"pairs", "moves"} => ~retried
    /\ phase = "pairs" => closed = {} /\ \A q \in Cell : ~Reached(node, q)
    /\ phase = "moves" => metas[pair[2]] \notin closed
    /\ phase = "move" => goal = metas[pair[2]]
    /\ result = "searching" => phase \in {"pair", "move"} /\ Underway
    /\ Fresh /\ result \in {"searching", "none"} => goal \notin closed /\ (~dropped => Complete)
    /\ phase \in {"pair", "move"} /\ result = "none" => open = <<>>

LEMMA ReadMapEnds == PInv /\ EndInv /\ ReadMap => EndInv'
  <1> SUFFICES ASSUME ReadMap PROVE EndInv'
    OBVIOUS
  <1>1. phase' \in {"pairs", "failed"}
    BY DEF ReadMap
  <1>2. /\ closed' = {} /\ retried' = FALSE /\ node' = [p \in Cell |-> NoNode]
        /\ result' = "none"
    BY DEF ReadMap, Clear
  <1>3. \A q \in Cell : ~(node'[q].F >= 0)
    BY <1>2, NoneAre
  <1> QED
    BY <1>1, <1>2, <1>3 DEF EndInv, Fresh, Reached

LEMMA SearchPairEnds == PInv /\ EndInv /\ SearchPair => EndInv'
  <1> SUFFICES ASSUME PInv, EndInv, SearchPair PROVE EndInv'
    OBVIOUS
  <1>1. /\ phase = "pairs" /\ phase' = "pair"
        /\ BeginSearch(node, closed, metas[pair[1]], metas[pair[2]])
    BY DEF SearchPair
  <1>2. closed = {} /\ \A q \in Cell : ~Reached(node, q)
    BY <1>1 DEF EndInv
  <1>3. metas[pair[1]] \in Cell /\ metas[pair[2]] \in Cell
    <2>1. 1 <= pair[1] /\ pair[1] < pair[2] /\ pair[2] <= Len(metas)
      BY <1>1, PInvTypes DEF PairInv, SearchPair
    <2> QED
      BY <2>1, PInvTypes
  <1>4. Underway' /\ Complete'
    BY <1>1, <1>2, <1>3, PInvTypes, BeginUnderway
  <1>5. closed' = {} /\ result' = "searching"
    BY <1>1, <1>2 DEF BeginSearch
  <1> QED
    BY <1>1, <1>4, <1>5 DEF EndInv

LEMMA SearchingEnds == PInv /\ EndInv /\ Searching => EndInv'
  <1> SUFFICES ASSUME PInv, EndInv, Searching PROVE EndInv'
    OBVIOUS
  <1>1. /\ phase' = phase /\ metas' = metas /\ pair' = pair /\ retried' = retried
    BY DEF Searching, plannerVars
  <1>2. result = "searching" /\ goal' = goal /\ start' = start
    BY DEF Searching, Search, TakeNode, NoRoute
  <1>3. phase \in {"pair", "move"} /\ Underway
    BY <1>2 DEF EndInv
  <1>4. Fresh' <=> Fresh
    BY <1>1 DEF Fresh
  <1>5. CASE TakeNode
    <2>1. /\ closed' # closed /\ result' # "hangs"
          /\ result' = "searching" =>
               /\ Underway'
               /\ goal \notin closed => goal' \notin closed'
               /\ Complete /\ ~dropped' => Complete'
      BY <1>3, <1>5, PInvTypes, TakeNodeGoes
    <2>2. result' \in {"searching", "found", "hangs"} /\ (~dropped' => ~dropped)
      BY <1>2, <1>5 DEF TakeNode
    <2>3. phase' \in {"pair", "move"} /\ (phase' = "move" => goal' = metas'[pair'[2]])
      BY <1>1, <1>2, <1>3 DEF EndInv
    <2>4. Fresh /\ result' = "searching" => goal' \notin closed' /\ (~dropped' => Complete')
      BY <1>2, <2>1, <2>2 DEF EndInv
    <2>5. result' # "none"
      BY <2>2
    <2> QED
      BY <1>4, <2>1, <2>3, <2>4, <2>5 DEF EndInv
  <1>6. CASE NoRoute
    <2>1. /\ result' = "none" /\ open = <<>>
          /\ UNCHANGED <<obstacles, node, open, closed, start, goal, dropped>>
      BY <1>6 DEF NoRoute
    <2>2. Complete => Complete'
      BY <2>1 DEF Complete, Seen, Has, Reached
    <2>3. phase' \in {"pair", "move"} /\ (phase' = "move" => goal' = metas'[pair'[2]])
      BY <1>1, <1>2, <1>3 DEF EndInv
    <2>4. Fresh => goal' \notin closed' /\ (~dropped' => Complete')
      BY <1>2, <2>1, <2>2 DEF EndInv
    <2>5. open' = <<>>
      BY <2>1
    <2> QED
      BY <1>4, <2>1, <2>3, <2>4, <2>5 DEF EndInv
  <1> QED
    BY <1>5, <1>6 DEF Searching, Search

LEMMA RetryEnds == PInv /\ EndInv /\ Retry => EndInv'
  <1> SUFFICES ASSUME PInv, EndInv, Retry PROVE EndInv'
    OBVIOUS
  <1>1. /\ phase \in {"pair", "move"} /\ UNCHANGED <<phase, metas, pair>>
        /\ BeginSearch(reset_data(node), {}, start, goal)
    BY DEF Retry
  <1>2. reset_data(node) \in [Cell -> Node] /\ \A q \in Cell : ~Reached(reset_data(node), q)
    BY PInvTypes, ResetIs
  <1>3. Underway' /\ Complete'
    <2>1. {} \in SUBSET Cell /\ start \notin {}
      OBVIOUS
    <2> QED
      BY <1>1, <1>2, <2>1, PInvTypes, BeginUnderway
  <1>4. closed' = {} /\ result' = "searching" /\ goal' = goal
    BY <1>1 DEF BeginSearch
  <1> QED
    BY <1>1, <1>3, <1>4 DEF EndInv

LEMMA EndPairEnds == PInv /\ EndInv /\ EndPair => EndInv'
  <1> SUFFICES ASSUME PInv, EndInv, EndPair PROVE EndInv'
    OBVIOUS
  <1>1. phase' \in {"failed", "pairs"}
    BY DEF EndPair
  <1>2. retried' = FALSE /\ closed' = {} /\ node' = reset_data(node) /\ result' = "none"
    BY DEF EndPair, MarginBack, ClearSearch, Clear
  <1>3. \A q \in Cell : ~(node'[q].F >= 0)
    BY <1>2, PInvTypes, ResetIs DEF Reached
  <1> QED
    BY <1>1, <1>2, <1>3 DEF EndInv, Fresh, Reached

LEMMA ExpandMoveEnds == PInv /\ EndInv /\ ExpandMove => EndInv'
  <1> SUFFICES ASSUME PInv, EndInv, ExpandMove PROVE EndInv'
    OBVIOUS
  <1>1. phase = "moves" /\ phase' = "move" /\ retried' = retried /\ metas' = metas
    BY DEF ExpandMove
  <1>2. PICK j \in DOMAIN metas : /\ pair' = <<pair[2], j>>
                                  /\ BeginSearch(node, closed, metas[pair[2]], metas[j])
    BY DEF ExpandMove
  <1>3. metas[pair[2]] \in Cell /\ metas[j] \in Cell
    <2>1. pair[2] \in 1..Len(metas) /\ j \in 1..Len(metas)
      BY <1>1, PInvTypes DEF PairInv
    <2> QED
      BY <2>1, PInvTypes
  <1>4. metas[pair[2]] \notin closed /\ ~retried
    BY <1>1 DEF EndInv
  <1>5. Underway'
    BY <1>2, <1>3, <1>4, PInvTypes, BeginUnderway
  <1>6. goal' = metas'[pair'[2]] /\ result' = "searching"
    <2>1. goal' = metas[j] /\ result' = "searching" /\ pair'[2] = j
      BY <1>2 DEF BeginSearch
    <2> QED
      BY <1>1, <2>1
  <1>7. ~Fresh'
    BY <1>1, <1>4 DEF Fresh
  <1> QED
    BY <1>1, <1>5, <1>6, <1>7 DEF EndInv

LEMMA EndMoveEnds == PInv /\ EndInv /\ EndMove => EndInv'
  <1> SUFFICES ASSUME PInv, EndInv, EndMove PROVE EndInv'
    OBVIOUS
  <1>1. /\ phase = "move" /\ phase' = "moves" /\ retried' = FALSE
        /\ UNCHANGED <<metas, pair>> /\ result' = "none"
    BY DEF EndMove, MarginBack
  <1>2. metas[pair[2]] \notin closed'
    <2>1. CASE result = "found"
      BY <2>1 DEF EndMove, ClearSearch, Clear
    <2>2. CASE result # "found"
      <3>1. result = "none" /\ retried /\ closed' = closed
        BY <2>2 DEF EndMove
      <3>2. goal \notin closed /\ goal = metas[pair[2]]
        BY <1>1, <3>1 DEF EndInv, Fresh
      <3> QED
        BY <3>1, <3>2
    <2> QED
      BY <2>1, <2>2
  <1> QED
    BY <1>1, <1>2 DEF EndInv, Fresh

(* Actions that leave the search alone. *)
LEMMA EndsElsewhere ==
    ASSUME PInv, EndInv, SearchOutside \/ SkipPair \/ TaskPlan \/ EndPlan \/ Drive \/ Bump
    PROVE  EndInv'
  <1>1. UNCHANGED <<searchVars, metas, retried>>
    BY DEF SearchOutside, SkipPair, TaskPlan, EndPlan, Drive, Bump
  <1>2. UNCHANGED <<node, closed, result>>
    BY <1>1 DEF searchVars
  <1>3. \/ phase = "pairs" /\ phase' \in {"pairs", "moves", "failed"}
        \/ phase \in {"moves", "drive"} /\ phase' \in {"drive", "ask"}
    BY DEF SearchOutside, SkipPair, TaskPlan, EndPlan, Drive, Bump, lanzar_taskplanner
  <1> QED
    BY <1>1, <1>2, <1>3 DEF EndInv, Fresh, Reached

LEMMA EndsStutter == PInv /\ EndInv /\ UNCHANGED vars => EndInv'
  <1> SUFFICES ASSUME EndInv, UNCHANGED vars PROVE EndInv'
    OBVIOUS
  <1>1. /\ UNCHANGED <<phase, retried, closed, node, metas, pair, goal, start, open, result>>
        /\ UNCHANGED <<dropped, obstacles>>
    BY DEF vars, searchVars, plannerVars
  <1> QED
    BY <1>1 DEF EndInv, Fresh, Reached, Underway, Ranked, ParentIn, Complete, Seen, Has

(* Every step keeps EndInv, given PInv. *)
LEMMA EndStep == PInv /\ EndInv /\ [Next]_vars => EndInv'
  <1> SUFFICES ASSUME PInv, EndInv, [Next]_vars PROVE EndInv'
    OBVIOUS
  <1>1. CASE ReadMap
    BY <1>1, ReadMapEnds
  <1>2. CASE SearchPair
    BY <1>2, SearchPairEnds
  <1>3. CASE Searching
    BY <1>3, SearchingEnds
  <1>4. CASE Retry
    BY <1>4, RetryEnds
  <1>5. CASE EndPair
    BY <1>5, EndPairEnds
  <1>6. CASE ExpandMove
    BY <1>6, ExpandMoveEnds
  <1>7. CASE EndMove
    BY <1>7, EndMoveEnds
  <1>8. CASE SearchOutside \/ SkipPair \/ TaskPlan \/ EndPlan \/ Drive \/ Bump
    BY <1>8, EndsElsewhere
  <1>9. CASE UNCHANGED vars
    BY <1>9, EndsStutter
  <1> QED
    BY <1>1, <1>2, <1>3, <1>4, <1>5, <1>6, <1>7, <1>8, <1>9 DEF Next, Planner

LEMMA InitEndInv == Init => EndInv
  <1> SUFFICES ASSUME Init PROVE EndInv
    OBVIOUS
  <1>1. phase = "ask" /\ result = "none"
    BY DEF Init
  <1> QED
    BY <1>1 DEF EndInv, Fresh

(* Closed nodes and open ones are all there is, and open is empty. *)
LEMMA EndInvFails == PInv /\ EndInv => FailsOnlyAfterDrop
  <1> SUFFICES ASSUME PInv, EndInv, Fresh, result = "none", ~dropped
               PROVE  Separated(start, goal)
    BY DEF FailsOnlyAfterDrop, Fresh
  <1>1. Complete /\ goal \notin closed /\ open = <<>> /\ closed \in SUBSET Cell
    BY PInvTypes DEF EndInv, Fresh
  <1>2. \A q : Seen(q) => q \in closed
    <2>1. \A q : ~Has(open, q)
      BY <1>1 DEF Has
    <2> QED
      BY <2>1 DEF Seen
  <1>3. closed \in SUBSET (Cell \ {goal}) /\ start \in closed
    BY <1>1, <1>2 DEF Complete
  <1>4. \A p \in closed, q \in Cell \ (closed \cup obstacles) : ~Adjacent(p, q)
    BY <1>1, <1>2 DEF Complete
  <1> QED
    BY <1>3, <1>4 DEF Separated

(* A round of a search is TakeNode. *)
LEMMA RoundTakes == PInv /\ EndInv /\ [Next]_vars /\ Round => TakeNode \/ UNCHANGED vars
  <1> SUFFICES ASSUME [Next]_vars, Round PROVE TakeNode \/ UNCHANGED vars
    OBVIOUS
  <1>1. phase \in {"pair", "move"} /\ phase' = phase /\ result = "searching" /\ open # <<>>
    BY DEF Round
  <1>2. ~ReadMap /\ ~SearchPair /\ ~SearchOutside /\ ~SkipPair /\ ~EndPair /\ ~TaskPlan
    BY <1>1 DEF ReadMap, SearchPair, SearchOutside, SkipPair, EndPair, TaskPlan
  <1>3. ~Retry /\ ~ExpandMove /\ ~EndMove /\ ~EndPlan /\ ~Drive /\ ~Bump /\ ~NoRoute
    BY <1>1 DEF Retry, ExpandMove, EndMove, EndPlan, Drive, Bump, NoRoute
  <1> QED
    BY <1>2, <1>3 DEF Next, Planner, Searching, Search

(* A search that starts on cleared data and takes nodes one at a time is   *)
(* complete, for every map, margin and pair of cells: what it closed has   *)
(* no way out but obstacles, whatever update_vertex leaves unexpanded.     *)
THEOREM FailuresAreDrops == Spec => []FailsOnlyAfterDrop
  BY InitPInv, PStep, InitEndInv, EndStep, EndInvFails, PTL DEF Spec

(* Every round of every search closes a node more, on stale data too, and  *)
(* the walk along the parents that GSIsearch.cpp calls an endless loop     *)
(* meets the start within as many steps as the map has cells.              *)
THEOREM SearchesEnd == Spec => SearchEnds
  <1>1. PInv /\ EndInv /\ [Next]_vars => [Round => closed' # closed /\ result' # "hangs"]_vars
    <2> SUFFICES ASSUME PInv, EndInv, TakeNode, Round
                 PROVE  closed' # closed /\ result' # "hangs"
      BY RoundTakes
    <2>1. Underway
      BY DEF EndInv, Round
    <2> QED
      BY <2>1, PInvTypes, TakeNodeGoes
  <1> QED
    BY InitPInv, PStep, InitEndInv, EndStep, <1>1, PTL DEF Spec, SearchEnds
=============================================================================
