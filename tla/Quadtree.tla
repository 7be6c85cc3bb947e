------------------------------ MODULE Quadtree ------------------------------
(***************************************************************************)
(* The tree of a spatial index: which cell a point is in, and which cells  *)
(* a query reaches.  laz_indexbuild.c and laz_index.c each have their half *)
(* of it and have to agree on every edge.                                  *)
(*                                                                         *)
(* Coordinates are integers, in a unit fine enough for the halvings of a   *)
(* cell.  A point's and a query's are doubles and exact; the box and the   *)
(* midpoints are floats, rounded to MantissaBits bits, ties to even.       *)
(*                                                                         *)
(* A query is a rectangle, and a circle in it where `radius` is positive.  *)
(***************************************************************************)
EXTENDS Integers, SequencesExt

CONSTANTS MantissaBits,  \* bits of a float's significand (24)
          MaxLevels,     \* levels a tree may have (15)
          CellSize       \* how wide a leaf is

ASSUME TreeAssumption ==
    /\ MantissaBits \in Nat \ {0}
    /\ MaxLevels \in Nat
    /\ CellSize \in Nat \ {0}

Larger(a, b)  == IF a > b THEN a ELSE b
Smaller(a, b) == IF a < b THEN a ELSE b

-----------------------------------------------------------------------------
(* Single precision. *)

\* 2^n, by doubling.
Power(n) ==
    LET power[k \in 0..n] == IF k = 0 THEN 1 ELSE 2 * power[k - 1] IN power[n]

\* How many bits n has, which is how often it can be halved before it is 0.
Bits(n) == Cardinality({k \in 0..29 : 2^k <= n})

\* n in whole multiples of `unit`, to the nearest, a tie to the even one.
Nearest(n, unit) ==
    LET up == \/ 2 * (n % unit) > unit
              \/ 2 * (n % unit) = unit /\ (n \div unit) % 2 = 1
    IN  unit * (n \div unit + (IF up THEN 1 ELSE 0))

Rounded(n) ==
    IF Bits(n) <= MantissaBits THEN n ELSE Nearest(n, Power(Bits(n) - MantissaBits))

F32(n) == IF n < 0 THEN -Rounded(-n) ELSE Rounded(n)

\* Halving is exact.
Mid(low, high) == F32(low + high) \div 2

-----------------------------------------------------------------------------
(* Setting a tree up. *)

\* (I32)(v / cell_size), which cuts towards zero.
Trunc(v) == IF v >= 0 THEN v \div CellSize ELSE -((-v) \div CellSize)

\* Out to whole cells.
LowEdge(v) ==
    F32(CellSize * IF v >= 0 THEN F32(Trunc(v)) ELSE F32(F32(Trunc(v)) - 1))
HighEdge(v) ==
    F32(CellSize * IF v >= 0 THEN F32(F32(Trunc(v)) + 1) ELSE F32(Trunc(v)))

\* U32_QUANTIZE of a width in cells.
CellsAcross(low, high) ==
    IF high < low THEN 0 ELSE (2 * F32(high - low) + CellSize) \div (2 * CellSize)

\* Out again to 2^levels cells, the larger half of the slack below.
Widened(low, high, slack) ==
    <<F32(low - F32(CellSize * (slack - slack \div 2))),
      F32(high + F32(CellSize * (slack \div 2)))>>

SquareTree(box, wide, tall, levels) ==
    LET x == Widened(box.x0, box.x1, Power(levels) - wide)
        y == Widened(box.y0, box.y1, Power(levels) - tall)
    IN  [ok     |-> wide > 0 /\ tall > 0 /\ levels <= MaxLevels,
         levels |-> levels,
         box    |-> [x0 |-> x[1], x1 |-> x[2], y0 |-> y[1], y1 |-> y[2]]]

\* laz_indexbuilder_setup over the extent of the points.
TreeOver(extent) ==
    LET box  == [x0 |-> LowEdge(extent.x0), x1 |-> HighEdge(extent.x1),
                 y0 |-> LowEdge(extent.y0), y1 |-> HighEdge(extent.y1)]
        wide == CellsAcross(box.x0, box.x1)
        tall == CellsAcross(box.y0, box.y1)
    IN  SquareTree(box, wide, tall, Bits(Larger(wide, tall) - 1))

-----------------------------------------------------------------------------
(* Cells.  Those of a level follow those of the level above it. *)

\* laz_index_level_offsets: a level has four times as many cells as the one above.
LevelOffset(level) ==
    LET offset[l \in 0..level] == IF l = 0 THEN 0 ELSE 4 * offset[l - 1] + 1
    IN  offset[level]

LevelOf(cell) == CHOOSE level \in 0..MaxLevels :
                     /\ LevelOffset(level) <= cell
                     /\ level < MaxLevels => cell < LevelOffset(level + 1)

LevelIndex(cell) == cell - LevelOffset(LevelOf(cell))

\* Of a cell that is not the root.
Parent(cell) == LevelOffset(LevelOf(cell) - 1) + LevelIndex(cell) \div 4

\* The cells a cell lies in, its parent first and the root last.
Ancestors(cell) ==
    LET up[k \in 0..LevelOf(cell)] == IF k = 0 THEN cell ELSE Parent(up[k - 1])
    IN  [k \in 1..LevelOf(cell) |-> up[k]]

\* The four children of a cell's parent, in order.
Siblings(cell) ==
    [k \in 1..4 |-> LevelOffset(LevelOf(cell)) + 4 * (LevelIndex(cell) \div 4) + k - 1]

\* Child k of a box: bit 0 is the upper half in x, bit 1 that in y.
Quarter(box, k) ==
    [x0 |-> IF k % 2 = 0 THEN box.x0 ELSE Mid(box.x0, box.x1),
     x1 |-> IF k % 2 = 0 THEN Mid(box.x0, box.x1) ELSE box.x1,
     y0 |-> IF k \div 2 = 0 THEN box.y0 ELSE Mid(box.y0, box.y1),
     y1 |-> IF k \div 2 = 0 THEN Mid(box.y0, box.y1) ELSE box.y1]

QuarterOf(box, p) ==
    (IF p.x < Mid(box.x0, box.x1) THEN 0 ELSE 1) + (IF p.y < Mid(box.y0, box.y1) THEN 0 ELSE 2)

\* A cell with its place in its level, and its children.
Root(tree) == [at |-> 0, box |-> tree.box]

Child(node, k) == [at |-> 4 * node.at + k, box |-> Quarter(node.box, k)]

\* build_cell_index: the leaf a point falls in.
Leaf(tree, p) ==
    LET path[l \in 0..tree.levels] ==
            IF l = 0 THEN Root(tree) ELSE Child(path[l - 1], QuarterOf(path[l - 1].box, p))
    IN  LevelOffset(tree.levels) + path[tree.levels].at

-----------------------------------------------------------------------------
(* Queries. *)

\* Whether a rectangle reaches child k of a box, which has its lower edge and
\* not its upper one.
Reaches(q, box, k) ==
    /\ IF k % 2 = 0 THEN q.x0 < Mid(box.x0, box.x1) ELSE q.x1 > Mid(box.x0, box.x1)
    /\ IF k \div 2 = 0 THEN q.y0 < Mid(box.y0, box.y1) ELSE q.y1 > Mid(box.y0, box.y1)

Square(n) == n * n

Distance(low, high, c) == IF high < c THEN c - high ELSE IF low > c THEN low - c ELSE 0

\* circle_meets_cell.
CircleMeets(q, box) ==
    Square(Distance(box.x0, box.x1, q.cx)) + Square(Distance(box.y0, box.y1, q.cy))
        < Square(q.radius)

Misses(q, box) ==
    q.x1 <= box.x0 \/ q.x0 > box.x1 \/ q.y1 <= box.y0 \/ q.y0 > box.y1

Interior(tree, subdivided, l, node) ==
    l < tree.levels /\ LevelOffset(l) + node.at \in subdivided

Reached(q, node) == {Child(node, k) : k \in {c \in 0..3 : Reaches(q, node.box, c)}}

Taken(tree, subdivided, q, l, node) ==
    ~Interior(tree, subdivided, l, node) /\ (q.radius > 0 => CircleMeets(q, node.box))

\* quadtree_intersect: the cells a query reaches.  The descent is done level
\* by level; the order of the hits is lost in the merge of their runs.
Hits(tree, subdivided, q) ==
    LET visited[l \in 0..tree.levels] ==
            IF l = 0 THEN {Root(tree)}
            ELSE UNION {Reached(q, n) : n \in {m \in visited[l - 1] : Interior(tree, subdivided, l - 1, m)}}
        hits(l) == {n \in visited[l] : Taken(tree, subdivided, q, l, n)}
    IN  IF Misses(q, tree.box) THEN {}
        ELSE UNION {{LevelOffset(l) + n.at : n \in hits(l)} : l \in 0..tree.levels}

-----------------------------------------------------------------------------
(* Choosing from a sequence and sorting one.  They stand for what loops and   *)
(* qsort make of an array.                                                    *)

\* What s has at some places, in order.
Picked(s, places) ==
    LET picked[k \in 0..Len(s)] ==
            IF k = 0 THEN <<>>
            ELSE IF k \in places THEN Append(picked[k - 1], s[k]) ELSE picked[k - 1]
    IN  picked[Len(s)]

\* Where k goes among what is in order so far: in front of the first it is before.
Place(order, k, before) ==
    CHOOSE at \in 1..(Len(order) + 1) :
        /\ \A i \in 1..(at - 1) : ~before[k][order[i]]
        /\ at <= Len(order) => before[k][order[at]]

Placed(order, k, before) == InsertAt(order, Place(order, k, before), k)

\* 1..n in the order that `before` puts them in.
Order(n, before) ==
    LET order[k \in 0..n] == IF k = 0 THEN <<>> ELSE Placed(order[k - 1], k, before)
    IN  order[n]

\* s in that order.
Arranged(s, before) ==
    LET order == Order(Len(s), before) IN [i \in 1..Len(s) |-> s[order[i]]]

-----------------------------------------------------------------------------
(* Runs of consecutive points. *)

Run(start, end) == [start |-> start, end |-> end]

RunBefore(a, b) == a.start < b.start \/ (a.start = b.start /\ a.end < b.end)

ByStart(runs) ==
    Arranged(runs, [i \in DOMAIN runs |-> [j \in DOMAIN runs |-> RunBefore(runs[i], runs[j])]])

\* One turn of laz_index_coalesce.
Joined(list, next, threshold) ==
    IF next.start - Last(list).end > threshold THEN Append(list, next)
    ELSE [list EXCEPT ![Len(list)].end = Larger(@, next.end)]

\* laz_index_coalesce: put in order, and joined where no more than the
\* threshold apart.
Coalesce(runs, threshold) ==
    IF Len(runs) < 2 THEN runs
    ELSE LET sorted == ByStart(runs)
             list[k \in 1..Len(runs)] ==
                 IF k = 1 THEN <<sorted[1]>> ELSE Joined(list[k - 1], sorted[k], threshold)
         IN  list[Len(runs)]
=============================================================================
