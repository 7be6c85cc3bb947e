---------------------------- MODULE RegionReader ----------------------------
(***************************************************************************)
(* Region queries: the index as laz_index.c reads it, and the queries of   *)
(* reader.py and cpylaz_reader.c over it.                                  *)
(*                                                                         *)
(* The index of a file is the one IndexBuilder wrote, or one that was      *)
(* found beside the file and may say anything.  Points are read and        *)
(* seeked to as PointSource promises.  A query's generator is driven by    *)
(* one caller, who does not move the reader in between.                    *)
(***************************************************************************)
EXTENDS IndexBuilder

CONSTANTS Regions,      \* what may be asked for
          Beside,       \* files with the index that is found beside them
          MergeGap,     \* MERGE_THRESHOLD (1000)
          WITHIN_BLOCK  \* points a query by arrays looks through at once

ASSUME ReaderAssumption ==
    /\ MergeGap \in Nat
    /\ WITHIN_BLOCK \in Nat \ {0}

\* A circle comes with the rectangle around it.
ASSUME RegionsAssumption ==
    /\ Regions \subseteq [circle : BOOLEAN, x0 : Int, y0 : Int, x1 : Int, y1 : Int,
                          cx : Int, cy : Int, radius : Int]
    /\ \A q \in Regions :
           IF q.circle THEN /\ q.x0 = q.cx - q.radius /\ q.x1 = q.cx + q.radius
                            /\ q.y0 = q.cy - q.radius /\ q.y1 = q.cy + q.radius
           ELSE q.radius = 0

\* The numbers in an index are unsigned, but for those of its cells.
ASSUME BesideAssumption ==
    \A given \in Beside :
        /\ given[1] \in Seq([x : Int, y : Int])
        /\ given[2].own = FALSE
        /\ given[2].kind = "lax" =>
               /\ given[2].levels \in Nat
               /\ given[2].cells \in Seq([index : Int, runs : Seq([start : Nat, end : Nat])])

VARIABLES looked,   \* whether an index was looked for
          ix,       \* the SpatialIndex
          region,   \* the query under way
          spans,    \* the spans it has to look through, the first perhaps in part
          begun,    \* whether the first one has been seeked to
          got       \* the points it has handed out

queryVars == <<looked, ix, region, spans, begun, got>>
vars == <<buildVars, queryVars>>

-----------------------------------------------------------------------------
(* Reading an index. *)

\* sort_cells: in order, each with its first entry.
sort_cells(cells) ==
    LET first == {c \in DOMAIN cells : \A b \in 1..(c - 1) : cells[b].index # cells[c].index}
    IN  ByIndex(Picked(cells, first))

\* What interval_read and quadtree_manage_cell refuse.
Readable(data) ==
    /\ data.kind = "lax"
    /\ data.levels <= MaxLevels
    /\ \A c \in DOMAIN data.cells :
           /\ data.cells[c].index \in 0..(LevelOffset(data.levels + 1) - 1)
           /\ \A r \in DOMAIN data.cells[c].runs :
                  data.cells[c].runs[r].start <= data.cells[c].runs[r].end

\* The ancestors of a cell are marked, up to one that is already.
MarkedUp(bits, up) ==
    bits \cup {up[k] : k \in {n \in DOMAIN up : \A m \in 1..n : up[m] \notin bits}}

\* quadtree_manage_cell.
quadtree_manage_cell(bits, cell) == MarkedUp(bits \ {cell}, Ancestors(cell))

Subdivided(cells) ==
    LET bits[c \in 0..Len(cells)] ==
            IF c = 0 THEN {} ELSE quadtree_manage_cell(bits[c - 1], cells[c].index)
    IN  bits[Len(cells)]

\* laz_index_read, of what can be read.
laz_index_read(data) ==
    [kind |-> "index", own |-> data.own, levels |-> data.levels, box |-> data.box,
     cells |-> sort_cells(data.cells), subdivided |-> Subdivided(sort_cells(data.cells))]

-----------------------------------------------------------------------------
(* Asking it. *)

\* A mutant: the runs of the cells are not put in order.
merge_hits_in_turn(runs, used) == runs

\* merge_hits: one cell's runs are left as they are.
merge_hits(runs, used) == IF used < 2 THEN runs ELSE Coalesce(runs, MergeGap)

CellRuns(cells) == FlattenSeq([c \in DOMAIN cells |-> cells[c].runs])

Chosen(cells) == merge_hits(CellRuns(cells), Len(cells))

\* laz_index_intersect_rectangle and laz_index_intersect_circle.
Intervals(index_, q) ==
    LET hits == Hits(index_, index_.subdivided, q)
        hit  == {c \in DOMAIN index_.cells : index_.cells[c].index \in hits}
    IN  IF q.x0 > q.x1 \/ q.y0 > q.y1 THEN <<>> ELSE Chosen(Picked(index_.cells, hit))

\* A mutant: an interval past the last point is clamped like the others.
Clamped_past_the_end(intervals, num_points) ==
    [k \in DOMAIN intervals |->
        Run(intervals[k].start, Smaller(intervals[k].end + 1, num_points))]

\* The intervals as half-open spans of points the file has.
Clamped(intervals, num_points) ==
    LET kept == Picked(intervals, {k \in DOMAIN intervals : intervals[k].start < num_points})
    IN  [k \in DOMAIN kept |-> Run(kept[k].start, Smaller(kept[k].end + 1, num_points))]

Empty(q) == q.circle /\ q.radius = 0

\* _region: the spans to look through.
SpansOf(found, q) ==
    IF Empty(q) THEN <<>>
    ELSE IF found = None THEN <<Run(0, Len(file))>>
    ELSE Clamped(Intervals(found, q), Len(file))

\* point_inside.
Inside(q, p) ==
    IF q.radius > 0 THEN Square(p.x - q.cx) + Square(p.y - q.cy) < Square(q.radius)
    ELSE p.x >= q.x0 /\ p.x < q.x1 /\ p.y >= q.y0 /\ p.y < q.y1

\* The points of a span that a query selects, in file order.
Selected(q, from, to) ==
    Picked([k \in 1..(to - from) |-> from + k - 1],
           {k \in 1..(to - from) : Inside(q, file[from + k])})

-----------------------------------------------------------------------------
(* The methods of Reader. *)

\* spatial_index: looked for once; what cannot be read raises, the first time.
Refused == ~looked /\ lax # None /\ ~Readable(lax)

FoundNow == IF looked THEN ix ELSE IF lax = None THEN None ELSE laz_index_read(lax)

Look ==
    /\ looked' = TRUE
    /\ ix' = IF Refused THEN None ELSE FoundNow

\* An inside-out rectangle and a negative radius are refused before anything else.
Valid(q) == IF q.circle THEN q.radius >= 0 ELSE q.x0 <= q.x1 /\ q.y0 <= q.y1

\* points_within, which does not read yet.
PointsWithin(q) ==
    /\ builder = Idle
    /\ region = None
    /\ Valid(q)
    /\ Look
    /\ region' = IF Refused THEN None ELSE q
    /\ spans' = IF Refused THEN <<>> ELSE SpansOf(FoundNow, q)
    /\ begun' = FALSE
    /\ got' = <<>>
    /\ UNCHANGED buildVars

From == IF begun THEN index ELSE Head(spans).start

\* _points_in up to the next point or the end of a span: a seek if the span is
\* new, then read_within.
Advance ==
    LET hits == Selected(region, From, Head(spans).end)
    IN  IF hits = <<>>
        THEN index' = Head(spans).end /\ begun' = FALSE /\ spans' = Tail(spans) /\ got' = got
        ELSE index' = Head(hits) + 1 /\ begun' = TRUE /\ spans' = spans /\ got' = Append(got, Head(hits))

ReadWithin ==
    /\ builder = Idle
    /\ spans # <<>>
    /\ Advance
    /\ UNCHANGED <<file, builder, lax, looked, ix, region>>

\* The blocks a span is looked through in.
Blocks(span) ==
    [b \in 1..((span.end - span.start + WITHIN_BLOCK - 1) \div WITHIN_BLOCK) |->
        Run(span.start + (b - 1) * WITHIN_BLOCK,
            Smaller(span.end, span.start + b * WITHIN_BLOCK))]

\* arrays_within: a block is seeked to and read whole, and the last one is
\* where the reader stays.
Gathered(q, blocks) ==
    /\ got' = FlattenSeq([b \in DOMAIN blocks |-> Selected(q, blocks[b].start, blocks[b].end)])
    /\ index' = IF blocks = <<>> THEN index ELSE Last(blocks).end

BlocksOf(all) == FlattenSeq([s \in DOMAIN all |-> Blocks(all[s])])

ArraysWithin(q) ==
    /\ builder = Idle
    /\ region = None
    /\ Valid(q)
    /\ Look
    /\ region' = IF Refused THEN None ELSE q
    /\ IF Refused THEN got' = <<>> /\ index' = index
       ELSE Gathered(q, BlocksOf(SpansOf(FoundNow, q)))
    /\ spans' = <<>>
    /\ begun' = FALSE
    /\ UNCHANGED <<file, builder, lax>>

\* What a query gave is let go of, or its generator in the middle of it.
Drop ==
    /\ region # None
    /\ region' = None
    /\ spans' = <<>>
    /\ begun' = FALSE
    /\ got' = <<>>
    /\ UNCHANGED <<buildVars, looked, ix>>

\* build_spatial_index, once.
Build ==
    /\ ~lax.own
    /\ region = None
    /\ BuildNext
    /\ UNCHANGED queryVars

Init ==
    /\ \E given \in (Files \X {None}) \cup Beside : file = given[1] /\ lax = given[2]
    /\ BuildInit
    /\ looked = FALSE
    /\ ix = None
    /\ region = None
    /\ spans = <<>>
    /\ begun = FALSE
    /\ got = <<>>

Next ==
    \/ Build
    \/ ReadWithin
    \/ Drop
    \/ \E q \in Regions : PointsWithin(q) \/ ArraysWithin(q)

Spec == Init /\ [][Next]_vars

-----------------------------------------------------------------------------
(* Properties. *)

Covers(cell, i) == \E r \in DOMAIN cell.runs : i \in cell.runs[r].start..cell.runs[r].end

\* Every point added is in a run of its leaf, or of a cell its leaf has been
\* merged into (laz_indexbuild.c:229, 332, 420): what else a query would lose.
PointsAreCovered ==
    builder.phase # "idle" =>
        \A i \in 0..(index - 1) : \E c \in DOMAIN builder.cells :
            /\ Covers(builder.cells[c], i)
            /\ LET leaf == Leaf(builder.tree, file[i + 1])
               IN  builder.cells[c].index \in {leaf} \cup Range(Ancestors(leaf))

Lengths(runs) ==
    LET Longer(sum, run) == sum + run.end - run.start + 1 IN FoldLeft(Longer, 0, runs)

\* However the cells are merged, they stay in ascending order, so that they can
\* be searched, and none lies in another, which would hide the outer one's runs
\* from every query (laz_indexbuild.c:362); no point is counted twice or
\* forgotten, and a cell's runs have room for its points, are in order and
\* further apart than the gap that joins them (laz_indexbuild.c:257, 268).
CellsHoldTheirPoints ==
    builder.phase # "idle" =>
        /\ \A c, d \in DOMAIN builder.cells : c < d =>
               /\ builder.cells[c].index < builder.cells[d].index
               /\ builder.cells[c].index \notin Range(Ancestors(builder.cells[d].index))
        /\ LET Count(sum, cell) == sum + cell.full IN FoldLeft(Count, 0, builder.cells) = index
        /\ \A c \in DOMAIN builder.cells :
               /\ builder.cells[c].full \in
                      Len(builder.cells[c].runs)..Lengths(builder.cells[c].runs)
               /\ \A r \in 2..Len(builder.cells[c].runs) :
                      builder.cells[c].runs[r].start - builder.cells[c].runs[r - 1].end > RunGap

WithCell(cells, index_) == CHOOSE c \in DOMAIN cells : cells[c].index = index_

\* Where the four siblings are that are all cells.
Groups(cells) ==
    LET indices == {cells[c].index : c \in DOMAIN cells}
        whole   == {i \in indices \ {0} : Range(Siblings(i)) \subseteq indices}
    IN  {[k \in 1..4 |-> WithCell(cells, Siblings(i)[k])] : i \in whole}

\* Coarsening goes on until no four siblings are left that hold fewer points
\* than asked for, whatever the order its passes meet them in; and no cell
\* above the leaves holds as many (laz_indexbuild.c:332).
CoarseningIsDone ==
    builder.phase = "complete" /\ builder.minimum # 0 =>
        /\ \A g \in Groups(builder.cells) : FullOf(builder.cells, g) >= builder.minimum
        /\ \A c \in DOMAIN builder.cells :
               LevelOf(builder.cells[c].index) < builder.tree.levels =>
                   builder.cells[c].full < builder.minimum

\* The smallest gap of all closed up, the way laszip takes them.
OneJoined(cells) ==
    LET first == CHOOSE g \in GapsOf(cells) : \A h \in GapsOf(cells) \ {g} : GapBefore(g, h)
    IN  [cells EXCEPT ![first.cell].runs =
            SubSeq(@, 1, first.at - 2) \o <<Run(@[first.at - 1].start, @[first.at].end)>>
                \o SubSeq(@, first.at + 1, Len(@))]

OneByOne(cells, most) ==
    LET after[n \in 0..NumRuns(cells)] == IF n = 0 THEN cells ELSE OneJoined(after[n - 1])
    IN  after[Larger(NumRuns(cells) - most, 0)]

\* As many runs are left as were asked for, but one for each cell, and they
\* are those that joining the smallest gaps one at a time leaves, though all
\* are marked at once (laz_indexbuild.c:415-419).
SmallestGapsGo ==
    builder.phase = "complete" /\ builder.asked # 0 =>
        LET most == IF builder.asked < 0 THEN -builder.asked * Len(builder.coarse) ELSE builder.asked
        IN  builder.cells = OneByOne(builder.coarse, Larger(most, Len(builder.coarse)))

\* A point in a box, with its edges.
InBox(p, box) == box.x0 <= p.x /\ p.x <= box.x1 /\ box.y0 <= p.y /\ p.y <= box.y1

\* Whether rounding has left the points in the box of their tree: where a leaf is
\* narrower than the digits of a float it may not, and a query misses them.
HasItsPoints(points) ==
    points # <<>> /\ TreeOver(Extent(points)).ok =>
        \A i \in 1..Len(points) : InBox(points[i], TreeOver(Extent(points)).box)

\* With an index a query selects the same points as without, in file order
\* (reader.py:951-953), and has handed out the first of them at any time.  An
\* index of other points may miss some.
QueryIsAFilteredScan ==
    region # None /\ (ix = None \/ ix.own) =>
        /\ IsPrefix(got, Selected(region, 0, Len(file)))
        /\ spans = <<>> => got = Selected(region, 0, Len(file))

\* Whatever an index says, no query decodes towards points the file does not
\* have, or hands out one that is outside its region (reader.py:913-919).
SpansStayInTheFile ==
    /\ \A s \in DOMAIN spans : spans[s].start <= spans[s].end /\ spans[s].end <= Len(file)
    /\ region # None => \A k \in DOMAIN got : Inside(region, file[got[k] + 1])

\* An index that is there but cannot be read is not ignored (reader.py:849-851).
UnreadableIsNotIgnored == region # None /\ lax # None => Readable(lax)
=============================================================================
