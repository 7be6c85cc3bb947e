----------------------------- MODULE RoundTrip -----------------------------
(***************************************************************************)
(* A file from its writer to its reader: ChunkWriter writes it, is done    *)
(* with it, fails or is dropped, and ChunkReader opens what is on the disk *)
(* then, which is what a crash leaves as well.                             *)
(*                                                                         *)
(* FileOf is the one thing said here about the two: how the units on the   *)
(* disk look to a reader, which knows a file by where its chunks start,    *)
(* what its table says and where it ends.                                  *)
(***************************************************************************)
EXTENDS Overlays

CONSTANTS Layouts, Preface, U32_MAX, ALLOC, FILE_BUF_SIZE, Rooms, Seeks, MaxPoints,
          GROWTH, Gaps, MaxIndex, MaxCount, MaxChunks,
          Remains,    \* how what is missing of a table, or is none, reads
          Sought(_)   \* where a reader seeks to, by what became of the writer

VARIABLES layout, wp, state, index, offered, written, wout,   \* the writer's
          file, rp, rindex, pc, left, goal, done, out,        \* the reader's
          opened    \* whether the file is the reader's now

ASSUME TripAssumption ==
    /\ U32_MAX \in Nat \ {0, 1}
    /\ \A l \in Layouts : /\ l.compressor \in {"none", "pointwise", "chunked", "layered"}
                         /\ l.chunk_size \in 0 .. U32_MAX
                         /\ l.seekable \in BOOLEAN
    /\ Preface \in Seq(Seq(STRING \cup Int)) /\ Len(Preface) > 0
    /\ \A i \in DOMAIN Preface : Preface[i][1] \notin {"raw", "encoded"}
    /\ ALLOC \in Nat \ {0} /\ FILE_BUF_SIZE \in Nat \ {0}
    /\ Rooms \subseteq Nat /\ Seeks \subseteq Nat /\ MaxPoints \in Nat
    /\ GROWTH \in Nat \ {0} /\ Gaps \subseteq Nat /\ Remains \subseteq Int
    /\ \A s \in {"done", "failed", "dropped"} : Sought(s) \subseteq Nat

writers == <<layout, wp, state, index, offered, written, wout>>
readers == <<file, rp, rindex, pc, left, goal, done, out>>
vars    == <<writers, readers, opened>>

Writer == INSTANCE ChunkWriter WITH out <- wout, Ooms <- {}
Reader == INSTANCE ChunkReader WITH index <- rindex, Files <- {}, Counts <- {},
                               Targets <- {}

Base == Writer!Base

\* The points on the way to the disk, as the chunks they are laid out in: full
\* ones and what is left over, or those the caller closed and the open one.
CountsOf ==
    LET size == wp.chunk_size
        n    == Len(written)
        open == n - Reader!Sums(0, wp.chunk_sizes)[Len(wp.chunk_sizes)]
    IN  IF ~Writer!Chunked(layout) THEN <<n>>
        ELSE IF size = U32_MAX
        THEN wp.chunk_sizes \o (IF open > 0 THEN <<open>> ELSE <<>>)
        ELSE [c \in 1 .. (n + size - 1) \div size |->
                IF c * size <= n THEN size ELSE n - (c - 1) * size]

\* The table that starts at position `at`; the end of the file reads as zeros.
\* Rows that are not there read as anything, here as `remains`.
TableAt(disk, at, remains) ==
    LET n == IF at + 2 <= Len(disk) THEN disk[at + 2][2] ELSE 0
        there(i) == at + 2 + i <= Len(disk)
        deltas == [i \in 1 .. n |-> IF there(i) THEN disk[at + 2 + i][2] ELSE remains]
        sizes  == [i \in 1 .. n |->
                     IF there(i) /\ wp.chunk_size = U32_MAX
                     THEN disk[at + 2 + i][3] ELSE 1]
    IN  [kind |-> "entries", deltas |-> deltas, sizes |-> sizes,
         totals |-> Reader!Sums(0, sizes), behind |-> Len(disk)]

NoTable(disk, kind) == [kind |-> kind, deltas |-> <<>>, sizes |-> <<>>,
                        totals |-> Reader!Sums(0, <<>>), behind |-> Len(disk)]

\* Bytes of a point, taken for the position of a table: one before the file
\* begins, one past its end, where a table of no chunks is read, or one in it.
Stray(disk, remains) ==
    NoTable(disk, IF remains < 0 THEN "misplaced"
                  ELSE IF remains = 0 THEN "entries" ELSE "unreadable")

\* What the position in front of the points leads to.  Behind a pipe it is the
\* last thing in the file, if the writer got there: else a point is.
TableOf(disk, remains) ==
    LET placed == disk[Base + 1][2]
        last   == disk[Len(disk)]
    IN  IF ~Writer!Chunked(layout) THEN NoTable(disk, "unreadable")
        ELSE IF placed = Base THEN NoTable(disk, "interrupted")
        ELSE IF placed # -1 THEN TableAt(disk, placed, remains)
        ELSE IF last[1] = "position" /\ last[2] # -1 THEN TableAt(disk, last[2], remains)
        ELSE Stray(disk, remains)

FileOf(disk, remains) ==
    LET l    == layout
        base == IF Writer!Chunked(l) THEN Base + 1 ELSE Base
        code == IF Writer!Compressed(l) THEN 1 ELSE 0
    IN  [compressor |-> l.compressor, base |-> Base, counts |-> CountsOf,
         firsts |-> Reader!Sums(0, CountsOf),
         starts |-> Reader!Sums(base, [c \in DOMAIN CountsOf |-> CountsOf[c] + code]),
         chunk_size |-> wp.chunk_size, table |-> TableOf(disk, remains),
         strays |-> [p \in 0 .. Len(disk) |-> Stray(disk, remains)],
         seekable |-> TRUE, end |-> Len(disk)]

-----------------------------------------------------------------------------
Init == /\ Writer!Init
        /\ opened = FALSE
        /\ file = <<>> /\ rp = <<>> /\ out = <<>>
        /\ rindex = 0 /\ pc = "idle" /\ left = 0 /\ goal = 0 /\ done = 0

Write == ~opened /\ Writer!Next /\ UNCHANGED <<readers, opened>>

\* A file is opened once its writer is through with it, or gone, and if its
\* header got to the disk and points were written to it.
Open ==
    LET disk == wp.outstream.disk
    IN  /\ ~opened /\ state # "open"
        /\ Len(disk) > Base /\ written # <<>>
        /\ \E remains \in Remains : file' = FileOf(disk, remains)
        /\ opened' = TRUE
        /\ rp' = Reader!Opened(file') /\ out' = Reader!Nothing
        /\ UNCHANGED <<writers, rindex, pc, left, goal, done>>

\* A caller who reads, and seeks to points the file has.
Read == /\ opened
        /\ \/ Reader!Reader_read
           \/ \E t \in Sought(state) : t < Len(written) /\ Reader!Reader_seek(t)
           \/ Reader!PassOver
           \/ Reader!SeekDone
        /\ UNCHANGED <<writers, opened>>

Next == Write \/ Open \/ Read

Spec == Init /\ [][Next]_vars

-----------------------------------------------------------------------------
(* What is right about it. *)

Finished == opened /\ state = "done"

\* What done() returned for is a file as the reader expects it: the boundaries
\* its table states are the ones its chunks have (write_chunk_table,
\* decode_chunk_table).
FinishedFilesAreIntact == Finished => Reader!IsFile(file) /\ Reader!Intact(file)

\* A table that was begun on the disk and not got to the end of: the position in
\* front of the points is patched before the rows are written
\* (write_chunk_table), and rows that are not there decode like any others.
TableCut ==
    LET disk   == wp.outstream.disk
        placed == disk[Base + 1][2]
    IN  /\ Writer!Chunked(layout) /\ placed \notin {-1, Base}
        /\ placed + 2 <= Len(disk) /\ Len(disk) < placed + 2 + disk[placed + 2][2]

\* The position of a table did not get to the disk: it points at itself, or the
\* pipe ends in something else, which reads as no table.
TableLost == file.table.kind \in {"interrupted", "unreadable"}

\* Whatever became of the writer, the reader hands out the points that were
\* written, in their order, and no garbage in place of one of them.  Boundaries
\* that vary are in the table and nowhere else, so nothing is said of those if
\* it is cut, nor if it is lost: the first call is refused then, but the one
\* after it looks for the table among the points, and hands out garbage under
\* index 0 if it finds one there (read_chunk_table).  Where chunks are of one
\* size "the table is a convenience" (TestChunkTableRecovery).
HandsOutWhatWasWritten ==
    opened /\ (Reader!Adaptive(file) => ~TableCut /\ ~TableLost)
    /\ out.kind = "point" /\ out.index < Len(written)
        => out.point = written[out.index + 1]

\* The points whose chunks are on the disk.
OnDisk == {i \in 1 .. Len(written) :
             \E c \in DOMAIN file.counts : /\ file.firsts[c - 1] < i /\ i <= file.firsts[c]
                                            /\ file.starts[c] <= file.end}

\* Reading on succeeds for a point that is there.  Boundaries that vary are in
\* the table and nowhere else.
ReadsOn == opened /\ ~TableCut /\ Reader!InStep /\ rp.ok /\ wp.chunk_size # U32_MAX
           /\ rindex + 1 \in OnDisk /\ Reader!Reader_read => rp'.ok /\ ~rp'.failed

\* Every point of a finished file can be read, and seeked to, from wherever the
\* reader has got to (laz_writepoint_done; open_next_chunk's verification, the
\* jumps of laz_readpoint_seek).
FinishedFilesReadOn ==
    [][Finished =>
         /\ Reader!Reader_read /\ rindex < Len(written) => rp'.ok
         /\ \A t \in Sought(state) :
                t < Len(written) /\ Reader!Reader_seek(t) => rp'.ok
         /\ Reader!PassOver => rp'.ok]_vars

\* Where chunks are of one size, the points whose chunks were closed before the
\* writer was interrupted are there to be read, table or no table
\* (laz_writepoint_done: "a reader has to reconstruct one"), if the placeholder
\* in front of them says so.
WhatIsThereIsReadable == [][layout.seekable => ReadsOn]_vars

\* The same of a pipe, whose placeholder says that the position is at the end.
PipesReadOn == [][~layout.seekable => ReadsOn]_vars
=============================================================================
