---------------------------- MODULE IndexBuilder ----------------------------
(***************************************************************************)
(* Building a spatial index: laz_indexbuild.c, driven by build_index       *)
(* (cpylaz_reader.c) and build_spatial_index (reader.py).                  *)
(*                                                                         *)
(* The points of a file go one by one into the leaves of a quadtree, as    *)
(* runs of consecutive indices; then groups of sibling cells with few      *)
(* points are merged into their parents, and the runs with the smallest    *)
(* gaps before them are joined.  Memory does not run out here.             *)
(***************************************************************************)
EXTENDS Quadtree

CONSTANTS Files,      \* the files to index: sequences of points
          Minimums,   \* what minimum_points may be
          Maximums,   \* what maximum_intervals may be
          RunGap,     \* _RUN_GAP (1000)
          CountWord,  \* 2^32, as the number of runs is kept in
          IndexWord   \* 2^32, as a narrow index keeps the points' indices in

ASSUME BuilderAssumption ==
    /\ Files \subseteq Seq([x : Int, y : Int])
    /\ Minimums \subseteq Nat
    /\ Maximums \subseteq Int
    /\ RunGap \in Nat
    /\ CountWord \in Nat \ {0}
    /\ IndexWord \in Nat \ {0}

VARIABLES file,     \* the points of the file
          index,    \* the reader's index
          builder,  \* the LazIndexBuilder
          lax       \* the index there is for the file

buildVars == <<file, index, builder, lax>>

None == [kind |-> "none", own |-> FALSE]

Idle == [phase |-> "idle"]

Building(tree) ==
    [phase |-> "adding", tree |-> tree, cells |-> <<>>, last_index |-> -1, last_cell |-> 0]

-----------------------------------------------------------------------------
(* Adding points. *)

\* cell_position: where a cell is, or would be put.
Halved(cells, cell, part) ==
    LET mid == part.low + (part.high - part.low) \div 2
    IN  IF part.low >= part.high THEN part
        ELSE IF cells[mid + 1].index < cell THEN [part EXCEPT !.low = mid + 1]
        ELSE [part EXCEPT !.high = mid]

Position(cells, cell) ==
    LET part[k \in 0..Len(cells)] ==
            IF k = 0 THEN [low |-> 0, high |-> Len(cells)]
            ELSE Halved(cells, cell, part[k - 1])
    IN  part[Len(cells)].low + 1

IsAt(cells, at, cell) == at <= Len(cells) /\ cells[at].index = cell

\* A mutant: a run is not carried on across the largest gap allowed.
Extended_below_the_gap(cell, i) ==
    IF i - Last(cell.runs).end >= RunGap
    THEN [cell EXCEPT !.full = @ + 1, !.runs = Append(@, Run(i, i))]
    ELSE [cell EXCEPT !.full = @ + 1, !.runs[Len(cell.runs)].end = i]

\* A point carries on its cell's last run or starts another.
Extended(cell, i) ==
    IF i - Last(cell.runs).end > RunGap
    THEN [cell EXCEPT !.full = @ + 1, !.runs = Append(@, Run(i, i))]
    ELSE [cell EXCEPT !.full = @ + 1, !.runs[Len(cell.runs)].end = i]

NewCell(cell, i) == [index |-> cell, full |-> 1, runs |-> <<Run(i, i)>>]

Into(b, cell, i, at) ==
    [b EXCEPT !.last_index = cell, !.last_cell = at, !.cells[at] = Extended(@, i)]

\* A mutant: where a new cell was put is not remembered.
Sought_unremembered(b, cell, i, at) ==
    IF IsAt(b.cells, at, cell) THEN Into(b, cell, i, at)
    ELSE [b EXCEPT !.cells = InsertAt(@, at, NewCell(cell, i))]

\* Point i into the cell that was found, or is to be put, at `at`.
Sought(b, cell, i, at) ==
    IF IsAt(b.cells, at, cell) THEN Into(b, cell, i, at)
    ELSE [b EXCEPT !.last_index = cell, !.last_cell = at,
                   !.cells = InsertAt(@, at, NewCell(cell, i))]

\* laz_indexbuilder_add: the cell of the last point is not searched for.
laz_indexbuilder_add(b, cell, i) ==
    IF b.last_index = cell THEN Into(b, cell, i, b.last_cell)
    ELSE Sought(b, cell, i, Position(b.cells, cell))

-----------------------------------------------------------------------------
(* Coarsening. *)

FullOf(cells, at) == cells[at[1]].full + cells[at[2]].full + cells[at[3]].full + cells[at[4]].full

RunsOf(cells, at) ==
    cells[at[1]].runs \o cells[at[2]].runs \o cells[at[3]].runs \o cells[at[4]].runs

\* cells_merge.
cells_merge(cells, at) ==
    [index |-> Parent(cells[at[1]].index), full |-> FullOf(cells, at),
     runs |-> Coalesce(RunsOf(cells, at), RunGap)]

\* All four siblings are there, and hold too few points between them.
Mergeable(pass, group, at, minimum) ==
    /\ \A k \in 1..4 : IsAt(pass.cells, at[k], group[k]) /\ at[k] \notin pass.dropped
    /\ FullOf(pass.cells, at) < minimum

Merged(pass, group, at, minimum) ==
    IF Mergeable(pass, group, at, minimum)
    THEN [cells |-> [pass.cells EXCEPT ![at[1]] = cells_merge(pass.cells, at)],
          dropped |-> pass.dropped \cup {at[2], at[3], at[4]}]
    ELSE pass

\* The turn of cell i in a pass: the searches are made in the array as it is,
\* in which a parent already stands where its first child was.
Turn(pass, i, minimum) ==
    IF i \in pass.dropped \/ LevelOf(pass.cells[i].index) = 0 THEN pass
    ELSE LET group == Siblings(pass.cells[i].index)
         IN  Merged(pass, group, [k \in 1..4 |-> Position(pass.cells, group[k])], minimum)

ByIndex(cells) ==
    Arranged(cells, [c \in DOMAIN cells |->
                        [d \in DOMAIN cells |-> cells[c].index < cells[d].index]])

Kept(cells, dropped) == Picked(cells, DOMAIN cells \ dropped)

\* What a pass leaves: cells_drop and the sort.
Swept(pass) ==
    IF pass.dropped = {} THEN pass.cells
    ELSE ByIndex(Kept(pass.cells, pass.dropped))

Pass(cells, minimum) ==
    LET pass[i \in 0..Len(cells)] ==
            IF i = 0 THEN [cells |-> cells, dropped |-> {}] ELSE Turn(pass[i - 1], i, minimum)
    IN  Swept(pass[Len(cells)])

\* A mutant: one pass is all there is.
coarsen_cells_once(cells, minimum) == Pass(cells, minimum)

\* coarsen_cells: passes until one changes nothing.  One that does drops three
\* cells, so there are not more than a third as many as there are cells.
coarsen_cells(cells, minimum) ==
    LET after[n \in 0..Len(cells)] ==
            IF n = 0 THEN cells ELSE Pass(after[n - 1], minimum)
    IN  after[Len(cells) \div 3]

\* Nothing is coarsened where no minimum is asked for.
Coarsened(cells, minimum) ==
    IF minimum = 0 THEN cells ELSE coarsen_cells(cells, minimum)

-----------------------------------------------------------------------------
(* Joining runs. *)

NumRuns(cells) ==
    LET Count(sum, cell) == sum + Len(cell.runs) IN FoldLeft(Count, 0, cells)

\* The gaps between the runs of each cell.
GapsOf(cells) ==
    UNION {{[gap |-> cells[c].runs[at].start - cells[c].runs[at - 1].end,
             cell |-> c, at |-> at] : at \in 2..Len(cells[c].runs)} : c \in DOMAIN cells}

\* gap_cmp.
GapBefore(g, h) ==
    \/ g.gap < h.gap
    \/ g.gap = h.gap /\ g.cell < h.cell
    \/ g.gap = h.gap /\ g.cell = h.cell /\ g.at < h.at

\* A mutant: the largest gaps go first.
Smallest_is_largest(gaps, many) ==
    {g \in gaps : Cardinality({h \in gaps : GapBefore(g, h)}) < many}

\* The smallest gaps, so many of them.
Smallest(gaps, many) == {g \in gaps : Cardinality({h \in gaps : GapBefore(h, g)}) < many}

Close(kept, run, marked) ==
    IF marked THEN [kept EXCEPT ![Len(kept)].end = run.end] ELSE Append(kept, run)

\* Each cell closed up, a marked run joining the one before it.
Closed(runs, marked) ==
    LET kept[at \in 1..Len(runs)] ==
            IF at = 1 THEN <<runs[1]>> ELSE Close(kept[at - 1], runs[at], at \in marked)
    IN  kept[Len(runs)]

JoinedAt(cells, gaps) ==
    [c \in DOMAIN cells |->
        [cells[c] EXCEPT !.runs = Closed(@, {g.at : g \in {h \in gaps : h.cell = c}})]]

\* merge_intervals.
merge_intervals(cells, maximum) ==
    IF NumRuns(cells) <= Larger(maximum, Len(cells)) THEN cells
    ELSE JoinedAt(cells, Smallest(GapsOf(cells), NumRuns(cells) - Larger(maximum, Len(cells))))

\* A negative count is that many per cell.
MaximumFor(cells, asked) ==
    IF asked < 0 THEN ((-asked) * Len(cells)) % CountWord ELSE asked

MergedDown(cells, maximum) ==
    IF maximum = 0 THEN cells ELSE merge_intervals(cells, maximum)

\* laz_indexbuilder_complete, with the cells as coarsening leaves them.
laz_indexbuilder_complete(cells, asked) == MergedDown(cells, MaximumFor(cells, asked))

-----------------------------------------------------------------------------
(* Writing it out. *)

\* needs_wide_intervals.
Wide(cells) == \E c \in DOMAIN cells : \E r \in DOMAIN cells[c].runs :
                   cells[c].runs[r].end > IndexWord - 1

\* A run as it is written.
Packed(run, wide) ==
    IF wide THEN run ELSE Run(run.start % IndexWord, run.end % IndexWord)

PackedCell(cell, wide) ==
    [index |-> cell.index, runs |-> [r \in DOMAIN cell.runs |-> Packed(cell.runs[r], wide)]]

\* laz_indexbuilder_serialize.  `own` says whose points it is of.
Serialized(tree, cells) ==
    [kind |-> "lax", own |-> TRUE, levels |-> tree.levels, box |-> tree.box,
     cells |-> [c \in DOMAIN cells |-> PackedCell(cells[c], Wide(cells))]]

-----------------------------------------------------------------------------
(* build_spatial_index: a pass for the extent of the points, then one that  *)
(* adds them.                                                               *)

Extent(points) ==
    [x0 |-> Min({points[i].x : i \in DOMAIN points}), x1 |-> Max({points[i].x : i \in DOMAIN points}),
     y0 |-> Min({points[i].y : i \in DOMAIN points}), y1 |-> Max({points[i].y : i \in DOMAIN points})]

BuildInit == index = 0 /\ builder = Idle

\* laz_indexbuilder_setup; a tree it refuses leaves the reader at the start.
Setup ==
    /\ builder = Idle
    /\ file # <<>>
    /\ index' = 0
    /\ LET tree == TreeOver(Extent(file))
       IN  builder' = IF tree.ok THEN Building(tree) ELSE Idle
    /\ UNCHANGED <<file, lax>>

\* One turn of build_index: a point is read and added.
Add ==
    /\ builder.phase = "adding"
    /\ index < Len(file)
    /\ builder' = laz_indexbuilder_add(builder, Leaf(builder.tree, file[index + 1]), index)
    /\ index' = index + 1
    /\ UNCHANGED <<file, lax>>

\* The builder with its cells coarsened.  What it was asked for and what the
\* coarsening left are kept for the properties only.
Completed(b, cells, minimum, asked) ==
    [phase |-> "complete", tree |-> b.tree, cells |-> laz_indexbuilder_complete(cells, asked),
     coarse |-> cells, minimum |-> minimum, asked |-> asked]

Complete ==
    /\ builder.phase = "adding"
    /\ index = Len(file)
    /\ \E minimum \in Minimums, asked \in Maximums :
           builder' = Completed(builder, Coarsened(builder.cells, minimum), minimum, asked)
    /\ UNCHANGED <<file, index, lax>>

\* The index is written beside the file.
Serialize ==
    /\ builder.phase = "complete"
    /\ lax' = Serialized(builder.tree, builder.cells)
    /\ builder' = Idle
    /\ UNCHANGED <<file, index>>

BuildNext == Setup \/ Add \/ Complete \/ Serialize
=============================================================================
