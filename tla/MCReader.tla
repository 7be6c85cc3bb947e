------------------------------ MODULE MCReader ------------------------------
(***************************************************************************)
(* Files for TLC to open a ChunkReader on: every container, every fate of  *)
(* the chunk table, whole, cut short or lying.                             *)
(***************************************************************************)
EXTENDS ChunkReader

Table(deltas, sizes) ==
    [kind |-> "entries", deltas |-> deltas, sizes |-> sizes, totals |-> Sums(0, sizes),
     behind |-> 0]
Lost(how)  == [Table(<<>>, <<>>) EXCEPT !.kind = how]

\* A file with everything about it that follows from the rest filled in.
Built(compressor, base, counts, size, table, tail) ==
    LET code   == IF compressor = "none" THEN 0 ELSE 1
        first  == base + IF compressor \in {"chunked", "layered"} THEN 1 ELSE 0
        starts == Sums(first, [c \in DOMAIN counts |-> counts[c] + code])
        end    == starts[Len(counts)] + tail
    IN  [compressor |-> compressor, base |-> base, counts |-> counts,
         firsts |-> Sums(0, counts), starts |-> starts, chunk_size |-> size,
         table |-> [table EXCEPT !.behind = end],
         strays |-> [p \in 0 .. end |-> [Lost("unreadable") EXCEPT !.behind = end]],
         seekable |-> TRUE, end |-> end]

\* The same, but for what a position read out of the points leads to.
Straying(f, table) ==
    [f EXCEPT !.strays = [p \in 0 .. f.end |-> [table EXCEPT !.behind = f.end]]]

Honest(counts) == Table([c \in DOMAIN counts |-> counts[c] + 1], counts)
Piped(f) == [f EXCEPT !.seekable = FALSE]

Two   == <<2, 2, 1>>
Mixed == <<1, 3, 2>>

Flat == {Built("none", 1, <<5>>, U32_MAX, Lost("unreadable"), 2),
         Built("pointwise", 1, <<5>>, U32_MAX, Lost("unreadable"), 2)}

FixedTables == {Honest(Two), Table(<<>>, <<>>), Lost("interrupted"), Lost("unreadable")}

IntactFiles ==
    Flat
    \cup {Built(k, 1, Two, 2, t, 2) : k \in {"chunked", "layered"}, t \in FixedTables}
    \cup {Built(k, 1, Mixed, U32_MAX, Honest(Mixed), 2) : k \in {"chunked", "layered"}}
    \cup {Built("chunked", 1, <<5>>, 5, t, 2) : t \in {Honest(<<5>>), Lost("interrupted")}}
    \cup {Piped(Built("chunked", 1, Two, 2, Honest(Two), 2))}

\* The same, the end of the file lost together with the table behind it: the
\* table position then points at nothing, which reads as a table of no chunks.
TruncatedFiles ==
    {Built("none", 1, <<5>>, U32_MAX, Lost("unreadable"), -2),
     Built("pointwise", 1, <<5>>, U32_MAX, Lost("unreadable"), -2)}
    \cup {Built("chunked", 1, Two, 2, t, cut) :
            t \in {Table(<<>>, <<>>), Lost("interrupted")}, cut \in {-1, -3, -4}}
    \cup {Built("chunked", 1, Mixed, U32_MAX, Table(<<>>, <<>>), -3)}

\* Adaptive files whose table there is no getting at: through a pipe, or of a
\* writer that was interrupted, where what is taken for a position the second
\* time leads nowhere either.
TablelessFiles ==
    {Piped(Built("chunked", 1, Mixed, U32_MAX, Honest(Mixed), 2))}
    \cup {Straying(Built("chunked", 1, Mixed, U32_MAX, Lost("interrupted"), 2),
                   Lost(how)) : how \in {"interrupted", "unreadable", "misplaced"}}

\* Files whose tables state no boundary the points do not have.
HonestFiles == IntactFiles \cup TruncatedFiles \cup TablelessFiles
               \cup {Built("chunked", 1, Two, 2, Lost("misplaced"), 2)}

\* Chunks behind a table that is wrong: fixed ones, which say so by nothing at
\* all or by a delta that does not move forward, and adaptive ones.
LyingFiles ==
    {Built(k, 1, Two, 2, Table(d, [i \in DOMAIN d |-> 2]), 2) :
        k \in {"chunked", "layered"},
        d \in {<<3, 4, 2>>, <<2, 3, 3>>, <<3, 3>>, <<4>>, <<3, 3, 3, 1>>,
               <<3, 0, 2>>, <<-1, 3, 3>>}}
    \cup {Built("chunked", 1, Mixed, U32_MAX, t, 2) :
        t \in {Table(<<2, 4>>, <<1, 3>>), Table(<<2, 4, 3>>, <<0, 3, 2>>),
               Table(<<3, 3, 3>>, <<2, 2, 2>>), Lost("unreadable")}}

\* Whole points behind a table whose last entry does not move forward.
SalvagedFiles == {Built("chunked", 1, Two, 2, Table(<<3, 3, 0>>, Two), 2)}

\* Adaptive files with bytes behind the points, one with a corrupt table.
AdaptiveFiles ==
    {Built("chunked", 1, Mixed, U32_MAX, Honest(Mixed), 2),
     Built("chunked", 1, Mixed, U32_MAX, Table(<<2, 0, 3>>, Mixed), 4)}

\* Layered files that end in front of their first point, or inside their second
\* chunk.
ShortFiles ==
    {Built("layered", 1, Two, 2, Lost("interrupted"), -8),
     Built("layered", 1, Two, 2, Lost("interrupted"), -3)}

\* An adaptive file of an interrupted writer whose first point, taken for a
\* position, lies past the end, where there is a table of no chunks.
StrayFiles ==
    {Straying(Built("chunked", 1, Mixed, U32_MAX, Lost("interrupted"), 2),
              Table(<<>>, <<>>))}

FlawedFiles == AdaptiveFiles \cup ShortFiles \cup StrayFiles
=============================================================================
