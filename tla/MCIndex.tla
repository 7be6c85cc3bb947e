------------------------------ MODULE MCIndex ------------------------------
(***************************************************************************)
(* Files and queries for TLC.  A leaf is four units across.                *)
(***************************************************************************)
EXTENDS RegionReader

At(x, y) == [x |-> x, y |-> y]

\* Four leaves of one quadrant, on the split, and one leaf far from them.
Corners == {At(0, 0), At(5, 1), At(1, 4), At(4, 4)}
Places  == Corners \cup {At(12, 12)}

\* Sixteen points line by line, each in a leaf of its own.  From -7 on they fill
\* a tree of two levels; from -8 on the box is one leaf wider, and has three.
Lines(from) ==
    [k \in 1..16 |-> At(4 * ((k - 1) % 4) + from, 4 * ((k - 1) \div 4) + from)]

AllFiles ==
    [1..5 -> Corners] \cup [1..4 -> Places] \cup [1..6 -> {At(0, 0), At(5, 1)}]
        \cup {Lines(-7), Reverse(Lines(-7)), Lines(-8) \o <<At(-7, -5), At(7, -8), At(-8, -8)>>,
              Lines(-7) \o <<At(-7, -5), At(5, -7), At(-6, -6)>>, <<>>}

Rect(x0, y0, x1, y1) ==
    [circle |-> FALSE, x0 |-> x0, y0 |-> y0, x1 |-> x1, y1 |-> y1, cx |-> 0, cy |-> 0, radius |-> 0]

Circle(cx, cy, r) ==
    [circle |-> TRUE, x0 |-> cx - r, y0 |-> cy - r, x1 |-> cx + r, y1 |-> cy + r,
     cx |-> cx, cy |-> cy, radius |-> r]

AllRegions ==
    {Rect(0, 0, 4, 4), Rect(4, 0, 8, 5), Rect(-8, -8, 16, 16), Rect(4, 4, 4, 9), Rect(12, 1, 13, 13),
     Rect(-9, -9, -7, 0), Circle(4, 4, 1), Circle(2, 2, 3), Circle(12, 8, 4), Circle(0, 0, 0)}

\* Indexes of other points: the root alone with runs past the end and out of
\* order, a cell stated twice over a cell that lies in it, and three that
\* cannot be read.
Lax(levels, cells) ==
    [kind |-> "lax", own |-> FALSE, levels |-> levels,
     box |-> [x0 |-> 0, x1 |-> 8, y0 |-> 0, y1 |-> 8], cells |-> cells]

Cell(index_, runs) == [index |-> index_, runs |-> runs]

OddIndexes ==
    {Lax(0, <<Cell(0, <<Run(2, 9), Run(0, 1), Run(9, 9)>>)>>),
     Lax(2, <<Cell(6, <<Run(3, 3)>>), Cell(1, <<Run(0, 3)>>), Cell(6, <<Run(0, 0)>>)>>),
     Lax(1, <<Cell(1, <<Run(0, 9)>>), Cell(4, <<Run(1, 20), Run(30, 40)>>)>>)}

BadIndexes ==
    {[kind |-> "short", own |-> FALSE], Lax(1, <<Cell(5, <<Run(0, 0)>>)>>),
     Lax(1, <<Cell(1, <<Run(1, 0)>>)>>), Lax(16, <<>>)}

FewFiles == {<<At(0, 0), At(5, 1), At(12, 12)>>}

\* But for those further out, a tree's box has the points of its file.
ASSUME FilesFit == \A points \in AllFiles \cup FewFiles : MantissaBits = 24 => HasItsPoints(points)

Given == FewFiles \X (OddIndexes \cup BadIndexes)

Nothing == {}

\* What maximum_intervals is: no maximum, one for all cells, one for each.
SomeMaximums == {0, 3, -1}

\* Points further out than a float has digits for.
FarFiles == [1..2 -> {At(44, 0), At(47, 0), At(56, 0)}]

FarRegions == {Rect(40, 0, 48, 4), Rect(48, 0, 56, 4)}
=============================================================================
