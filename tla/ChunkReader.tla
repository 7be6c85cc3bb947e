---------------------------- MODULE ChunkReader ----------------------------
(***************************************************************************)
(* The point reader: laz_readpoint.c (chunk transitions, the chunk table,  *)
(* seeking) and the PointReader binding over it (cpylaz_reader.c: the      *)
(* index, bulk reads, seeks whose skipping runs with the GIL released).    *)
(*                                                                         *)
(* `file` is chosen once and never changes; it says where the real chunks  *)
(* start, how many points each holds, what the chunk table states and      *)
(* where the file ends.  `rp` is the LazReadPoint with the part of the     *)
(* stream it uses, and every operator below maps one to the next as the C  *)
(* function of that name does.                                             *)
(*                                                                         *)
(* Bytes are abstracted to positions.  A point is a number; whether a read *)
(* yields the point the file holds there or garbage is decided by two      *)
(* ghost fields, the position the decoder was started at (origin) and how  *)
(* many points it has decoded since (decoded): a decoder that was started  *)
(* anywhere but at the start of a chunk, or has run past the end of its    *)
(* chunk, decodes garbage.  A chunk of n points occupies n + 1 units, so   *)
(* that no position inside it is the end of it.                            *)
(*                                                                         *)
(* Left out: allocation failure, the item readers' own state, the index    *)
(* builder, and the conversion of a point between formats.                 *)
(***************************************************************************)
EXTENDS Integers, Sequences, Functions, FiniteSetsExt

CONSTANTS Files,     \* the files a reader may be opened on, see IsFile
          U32_MAX,   \* the largest U32, which is also "adaptive" and "not read yet"
          GROWTH,    \* chunks a table built while reading grows by, 256 in the code
          Targets,   \* the indices a caller seeks to
          Counts,    \* the counts a caller hands read_into
          Gaps,      \* how far a garbage decode may move the stream
          MaxIndex,  \* bound: calls are made up to this index,
          MaxCount,  \* while chunk_count is at most this
          MaxChunks  \* and while no chunk past this one was opened

VARIABLES file,      \* the file, constant
          rp,        \* LazReadPoint and its stream
          index,     \* ReaderObject.index
          pc,        \* "idle", or inside the loop of "seek" or "read_into"
          left,      \* points that loop has still to decode
          goal,      \* the target of the seek
          done,      \* points read_into has decoded so far
          out        \* what the last call, or step of read_into, handed out

vars == <<file, rp, index, pc, left, goal, done, out>>

GARBAGE == -1
NULL    == <<>>      \* an array not allocated: a function with no index

Nothing == [kind |-> "nothing", index |-> 0, point |-> GARBAGE]
Failure == [kind |-> "error",   index |-> 0, point |-> GARBAGE]
Handed(i, p) == [kind |-> "point", index |-> i, point |-> p]

-----------------------------------------------------------------------------
(* The file. *)

Chunks(f)   == 0 .. Len(f.counts) - 1
Total(f)    == f.firsts[Len(f.counts)]
DataEnd(f)  == f.starts[Len(f.counts)]
Chunked(f)  == f.compressor \in {"chunked", "layered"}
Compressed(f) == f.compressor # "none"
Adaptive(f) == Chunked(f) /\ f.chunk_size = U32_MAX
ChunksStart(f) == f.starts[0]

\* The table as it comes out of the decoder and the running sums over it.
Sums(first, deltas) ==
    LET sum[i \in 0 .. Len(deltas)] ==
            IF i = 0 THEN first ELSE sum[i - 1] + deltas[i]
    IN  [i \in 0 .. Len(deltas) |-> sum[i]]

\* What a position leads to that is taken for a table's: whether it points at
\* itself, before the file, at what is no table or at one, the entries of that,
\* and where the stream is left when as much has been read as can be.
IsTable(t) ==
    /\ t.kind \in {"interrupted", "misplaced", "unreadable", "entries"}
    /\ t.deltas \in Seq(Int) /\ t.sizes \in Seq(0 .. U32_MAX)
    /\ Len(t.deltas) < U32_MAX   \* more entries than the table has bytes
    /\ Len(t.sizes) = Len(t.deltas)
    /\ t.totals \in [0 .. Len(t.sizes) -> Nat]
    /\ t.totals[0] = 0
    /\ \A i \in DOMAIN t.sizes : t.totals[i] = t.totals[i - 1] + t.sizes[i]
    /\ t.behind \in Nat

IsFile(f) ==
    /\ f.compressor \in {"none", "pointwise", "chunked", "layered"}
    /\ f.seekable \in BOOLEAN
    /\ f.counts \in Seq(Nat) /\ Len(f.counts) >= 1
    /\ \A c \in 1 .. Len(f.counts) : f.counts[c] >= 1
    /\ f.firsts = Sums(0, f.counts)
    /\ f.starts = Sums(f.base + (IF Chunked(f) THEN 1 ELSE 0),
                       [c \in DOMAIN f.counts |->
                            f.counts[c] + (IF Compressed(f) THEN 1 ELSE 0)])
    /\ ~Chunked(f) => Len(f.counts) = 1
    /\ f.chunk_size \in Nat
    /\ f.base \in Nat /\ f.end \in Nat /\ f.base < f.end
    /\ IsTable(f.table)
    /\ DOMAIN f.strays = 0 .. f.end
    /\ \A p \in 0 .. f.end : IsTable(f.strays[p])
    /\ Chunked(f) /\ ~Adaptive(f) =>
         /\ f.chunk_size \in 1 .. U32_MAX - 1
         /\ \A c \in 1 .. Len(f.counts) - 1 : f.counts[c] = f.chunk_size
         /\ f.counts[Len(f.counts)] <= f.chunk_size

\* What the eight bytes at position p lead to if they are taken for the table's:
\* in front of the chunks they are, elsewhere they are bytes of a point, of the
\* table or of what follows it, and off the end of the file zeros.
PositionAt(f, p) ==
    IF p = f.base THEN f.table ELSE f.strays[IF p \in DOMAIN f.strays THEN p ELSE f.end]

ASSUME FilesAssumption == /\ U32_MAX \in Nat \ {0, 1}
                          /\ GROWTH \in Nat \ {0}
                          /\ \A f \in Files : IsFile(f)
                          /\ Targets \subseteq Nat
                          /\ Counts \subseteq Nat
                          /\ Gaps \subseteq Nat

\* What a function of the reader goes on to do if the call before it worked.
Then(s, Op(_)) == IF s.ok THEN Op(s) ELSE s

-----------------------------------------------------------------------------
(* The stream, as far as the point reader sees it. *)

SeekStream(s, position) ==
    IF s.failed THEN [s EXCEPT !.ok = FALSE]
    ELSE IF position < 0 THEN [s EXCEPT !.ok = FALSE, !.failed = TRUE]
    ELSE [s EXCEPT !.tell = position, !.eof = FALSE]

\* Whether a decoder started at s.origin is still inside a real chunk, and which.
InChunk(f, s) == {c \in Chunks(f) : /\ f.starts[c] = s.origin
                                    /\ s.decoded < f.counts[c + 1]}

-----------------------------------------------------------------------------
(* laz_readpoint_setup and laz_readpoint_init. *)

Opened(f) ==
    [readers |-> IF Compressed(f) THEN "NULL" ELSE "raw",
     chunk_size    |-> IF Chunked(f) THEN f.chunk_size ELSE U32_MAX,
     chunk_count   |-> IF Chunked(f) THEN f.chunk_size
                       ELSE IF Compressed(f) THEN U32_MAX ELSE 0,
     current_chunk |-> 0,
     number_chunks |-> IF Chunked(f) THEN U32_MAX ELSE 0,
     tabled_chunks |-> 0,
     chunk_totals  |-> NULL,
     chunk_starts  |-> NULL,
     point_start   |-> IF Compressed(f) THEN 0 ELSE f.base,
     tell |-> f.base, eof |-> FALSE, failed |-> FALSE, measured |-> FALSE,
     origin |-> f.base, decoded |-> 0,
     warning |-> FALSE, point |-> GARBAGE, ok |-> TRUE]

-----------------------------------------------------------------------------
(* The chunk table. *)

\* A mutant: the first chunk taken to start wherever the stream got to.
start_growable_table_here(s, chunks_start) ==
    [s EXCEPT !.number_chunks = GROWTH,
              !.chunk_starts  = [i \in {0} |-> s.tell],
              !.tabled_chunks = 1]

start_growable_table(s, chunks_start) ==
    [s EXCEPT !.number_chunks = GROWTH,
              !.chunk_starts  = [i \in {0} |-> chunks_start],
              !.tabled_chunks = 1]

\* A table placed before the file begins is one the file object refuses to
\* seek to.  The deltas are decoded one and all; accumulating them stops at
\* the first that does not move forward, which is accumulated already.
decode_chunk_table(table, s, chunks_start) ==
    LET n       == Len(table.deltas)
        starts  == Sums(chunks_start, table.deltas)
        stuck   == {i \in 1 .. n : table.deltas[i] <= 0}
        behind  == [s EXCEPT !.tell = table.behind]
        adopted == [behind EXCEPT
                      !.number_chunks = n,
                      !.chunk_totals  = IF s.chunk_size = U32_MAX
                                        THEN table.totals ELSE NULL,
                      !.chunk_starts  = starts,
                      !.tabled_chunks = n + 1]
    IN  IF s.failed \/ table.kind = "misplaced" THEN SeekStream(s, -1)
        ELSE IF table.kind = "unreadable" THEN [behind EXCEPT !.ok = FALSE]
        ELSE IF stuck = {} THEN adopted
        ELSE [adopted EXCEPT
                !.ok = FALSE,
                !.chunk_starts = [i \in 0 .. n |->
                    IF i <= Min(stuck) THEN starts[i] ELSE table.deltas[i]]]

recover_chunk_table(s, chunks_start) ==
    LET kept == [s EXCEPT !.chunk_totals = NULL, !.ok = TRUE, !.warning = TRUE]
        deltas == [i \in 1 .. s.tabled_chunks - 1 |-> s.chunk_starts[i]]
    IN  IF s.chunk_size = U32_MAX
        THEN [s EXCEPT !.chunk_totals = NULL, !.ok = FALSE]
        ELSE IF s.number_chunks = U32_MAX
        THEN start_growable_table(kept, chunks_start)
        ELSE IF s.chunk_starts # NULL
        THEN [kept EXCEPT !.chunk_starts = Sums(s.chunk_starts[0], deltas)]
        ELSE kept

\* The position is read from wherever the stream is: an attempt that failed and
\* left number_chunks at U32_MAX, which only that of an adaptive file does, is
\* followed by another from where it stopped, and that one takes bytes of the
\* first point, say, for the position of a table and what follows for points.
read_chunk_table(f, s) ==
    LET table == PositionAt(f, s.tell)
        here  == IF s.tell + 1 > f.end THEN [s EXCEPT !.tell = f.end, !.eof = TRUE]
                 ELSE [s EXCEPT !.tell = @ + 1]
        chunks_start == here.tell
        usable(t) == IF t.ok THEN t ELSE recover_chunk_table(t, chunks_start)
    IN  IF table.kind = "interrupted" THEN
            IF s.chunk_size = U32_MAX THEN [here EXCEPT !.ok = FALSE]
            ELSE [start_growable_table(here, chunks_start) EXCEPT !.warning = TRUE]
        ELSE IF ~f.seekable THEN
            IF s.chunk_size = U32_MAX THEN [here EXCEPT !.ok = FALSE]
            ELSE [here EXCEPT !.number_chunks = 0, !.tabled_chunks = 0]
        ELSE Then(usable(decode_chunk_table(table, here, chunks_start)),
                  LAMBDA t : SeekStream(t, chunks_start))

chunk_is_tabled(s, i) == s.chunk_totals # NULL /\ i < s.number_chunks

init_dec(f, s) ==
    LET first(t) == [t EXCEPT !.current_chunk = 0,
                              !.chunk_size = IF chunk_is_tabled(t, 0)
                                             THEN t.chunk_totals[1] ELSE @]
        started(t) == [t EXCEPT !.point_start = t.tell, !.readers = "NULL"]
    IN  IF s.number_chunks # U32_MAX THEN started(s)
        ELSE Then(read_chunk_table(f, s), LAMBDA t : started(first(t)))

-----------------------------------------------------------------------------
(* Reading. *)

\* Two mutants of at_tabled_start: asked before the chunk is left, and never.
at_tabled_start_early(s, chunk) ==
    chunk < s.tabled_chunks => s.chunk_starts[chunk - 1] = s.tell

\* Whether the decoder stands where the table says the next chunk starts.
at_tabled_start(s, chunk) ==
    chunk < s.tabled_chunks => s.chunk_starts[chunk] = s.tell

\* A mutant of note_chunk_start: the table never grows.
note_chunk_start_ungrown(s) ==
    [s EXCEPT !.tabled_chunks = @ + 1,
              !.chunk_starts  = [i \in 0 .. s.tabled_chunks |->
                  IF i < s.tabled_chunks THEN s.chunk_starts[i] ELSE s.point_start]]

\* No or incomplete chunk table: it is built while reading.
note_chunk_start(s) ==
    [s EXCEPT !.number_chunks = IF s.current_chunk >= @ THEN @ + GROWTH ELSE @,
              !.tabled_chunks = @ + 1,
              !.chunk_starts  = [i \in 0 .. s.tabled_chunks |->
                  IF i < s.tabled_chunks THEN s.chunk_starts[i] ELSE s.point_start]]

size_from_table(s) ==
    IF chunk_is_tabled(s, s.current_chunk)
    THEN [s EXCEPT !.chunk_size = s.chunk_totals[s.current_chunk + 1]
                                  - s.chunk_totals[s.current_chunk]]
    ELSE s

open_next_chunk(f, s) ==
    LET next == IF s.point_start # 0 THEN s.current_chunk + 1 ELSE s.current_chunk
        noted(t) == IF t.current_chunk = t.tabled_chunks THEN note_chunk_start(t)
                    ELSE size_from_table(t)
    IN  IF s.point_start # 0 /\ ~at_tabled_start(s, next)
        THEN [s EXCEPT !.ok = FALSE]
        ELSE Then(init_dec(f, [s EXCEPT !.current_chunk = next]),
                  LAMBDA t : [noted(t) EXCEPT !.chunk_count = 0])

\* What decoding one point does to the stream and the decoder.  Where the bytes
\* are not a chunk's, the stream moves by some gap, past the raw record if it is
\* a first point, and what comes out is garbage.
decode_coded(f, s, gap, first) ==
    LET inside  == InChunk(f, s)
        c       == CHOOSE x \in inside : TRUE
        after   == IF inside = {} THEN s.tell + gap + (IF first THEN 1 ELSE 0)
                   ELSE IF s.decoded + 1 = f.counts[c + 1] THEN f.starts[c + 1]
                   ELSE s.origin + s.decoded + 1
    IN  IF s.eof \/ after > f.end
        THEN [s EXCEPT !.eof = TRUE, !.tell = f.end,
                       !.readers = "compressed", !.point = GARBAGE]
        ELSE [s EXCEPT !.readers = "compressed", !.tell = after,
                       !.decoded = @ + 1,
                       !.point = IF inside = {} THEN GARBAGE
                                 ELSE f.firsts[c] + s.decoded]

\* A layered chunk is taken in whole with its first point: the raw record, the
\* count and the sizes of the layers, which read as zeros off the end of the
\* file, and the layers, unless they cannot fit in what is left of it.  The
\* first time that is asked the stream is measured, by a seek to its end and
\* back, which clears eof.
load_chunk(f, s, gap, lucky) ==
    LET inside  == InChunk(f, s)
        c       == CHOOSE x \in inside : TRUE
        after   == IF inside = {} THEN s.tell + 2 + gap ELSE f.starts[c + 1]
        unsized == s.tell + 2 > f.end
        refused == /\ f.seekable /\ ~unsized
                   /\ after > f.end \/ (inside = {} /\ ~lucky)
        short   == unsized \/ after > f.end
        measured == [s EXCEPT !.measured = f.seekable,
                              !.eof = IF f.seekable /\ ~s.measured THEN FALSE
                                      ELSE s.eof \/ (short /\ ~refused)]
    IN  IF refused THEN [measured EXCEPT !.ok = FALSE, !.tell = s.tell + 2]
        ELSE [measured EXCEPT
                !.readers = "compressed",
                !.tell = IF short THEN f.end ELSE after,
                !.decoded = @ + 1,
                !.point = IF s.eof \/ s.tell + 1 > f.end \/ inside = {} THEN GARBAGE
                          ELSE f.firsts[c] + s.decoded]

\* A further point of it comes out of the layers, which say so if they run out;
\* those of some other bytes may or may not.
decode_layered(f, s, lucky) ==
    LET inside == InChunk(f, s)
        c      == CHOOSE x \in inside : TRUE
    IN  [s EXCEPT !.decoded = @ + 1,
                  !.ok = IF inside = {} THEN lucky ELSE f.starts[c + 1] <= f.end,
                  !.point = IF inside = {} THEN GARBAGE ELSE f.firsts[c] + s.decoded]

\* The first point of a chunk starts the decoder.
decode_point(f, s, gap, lucky) ==
    LET first == s.readers = "NULL"
        d     == IF first THEN [s EXCEPT !.origin = s.tell, !.decoded = 0] ELSE s
    IN  IF f.compressor # "layered" THEN decode_coded(f, d, gap, first)
        ELSE IF first THEN load_chunk(f, d, gap, lucky)
        ELSE decode_layered(f, d, lucky)

\* A mutant: the end of the file goes unnoticed.
point_is_whole_always(s) == [s EXCEPT !.ok = TRUE]

\* Whether the last point came out of the file and not off the end of it.
point_is_whole(s) == [s EXCEPT !.ok = ~s.eof]

\* A raw record is wherever the stream stands.
read_raw(f, s) ==
    LET at == s.tell - f.base
    IN  IF s.eof \/ s.tell + 1 > f.end
        THEN [s EXCEPT !.eof = TRUE, !.tell = f.end, !.point = GARBAGE]
        ELSE [s EXCEPT !.tell = @ + 1,
                       !.decoded = IF at \in 0 .. Total(f) THEN at + 1 ELSE 0,
                       !.point = IF at \in 0 .. Total(f) - 1 THEN at ELSE GARBAGE]

laz_readpoint_read(f, s, gap, lucky) ==
    LET begun == [s EXCEPT !.ok = TRUE]
        opened == IF s.chunk_count = s.chunk_size THEN open_next_chunk(f, begun) ELSE begun
        decoded(t) == decode_point(f, [t EXCEPT !.chunk_count = (@ + 1) % (U32_MAX + 1)],
                                   gap, lucky)
    IN  IF ~Compressed(f) THEN point_is_whole(read_raw(f, begun))
        ELSE IF s.chunk_totals # NULL /\ ~chunk_is_tabled(s, s.current_chunk)
        THEN [begun EXCEPT !.ok = FALSE]
        ELSE Then(Then(opened, decoded), point_is_whole)

-----------------------------------------------------------------------------
(* Seeking: everything laz_readpoint_seek does before its loop, and how    *)
(* many points the loop then has to pass over.                             *)

search_chunk_table(s, i, lower, upper) ==
    LET at == {k \in lower .. upper - 1 : k = lower \/ s.chunk_totals[k] <= i}
    IN  Max(at)

\* A mutant: the points already read of the chunk left behind still count.
jump_to_chunk_counting(f, s, chunk) ==
    Then(SeekStream([s EXCEPT !.current_chunk = chunk], s.chunk_starts[chunk]),
         LAMBDA t : init_dec(f, t))

jump_to_chunk(f, s, chunk) ==
    LET there == SeekStream([s EXCEPT !.current_chunk = chunk], s.chunk_starts[chunk])
    IN  Then(Then(there, LAMBDA t : init_dec(f, t)),
             LAMBDA t : [t EXCEPT !.chunk_count = 0])

seek_by_table(f, s, current, target) ==
    LET tabled == chunk_is_tabled(s, 0)
        chunk  == IF tabled THEN search_chunk_table(s, target, 0, s.number_chunks)
                  ELSE (target \div s.chunk_size) % (U32_MAX + 1)
        sized  == IF tabled
                  THEN [s EXCEPT !.chunk_size = s.chunk_totals[chunk + 1]
                                                - s.chunk_totals[chunk]]
                  ELSE s
        within == IF tabled THEN target - s.chunk_totals[chunk]
                  ELSE target % s.chunk_size
        last   == s.tabled_chunks - 1
        known  == IF s.current_chunk < last THEN jump_to_chunk(f, sized, last)
                  ELSE sized
        ahead  == (known.chunk_size * (chunk - known.current_chunk)
                   - known.chunk_count) % (U32_MAX + 1)
    IN  IF chunk >= s.tabled_chunks
        THEN [state |-> known, delta |-> within + ahead]
        ELSE IF s.current_chunk # chunk \/ current > target
        THEN [state |-> jump_to_chunk(f, sized, chunk), delta |-> within]
        ELSE [state |-> sized, delta |-> target - current]

\* A mutant: the distance is from where the reader was, not from the start.
seek_from_start_relative(f, s, current, target) ==
    LET back == Then(SeekStream(s, s.point_start), LAMBDA t : init_dec(f, t))
    IN  [state |-> IF current <= target THEN s ELSE back,
         delta |-> target - current]

\* With no table there is only the start of the points to go back to.
seek_from_start(f, s, current, target) ==
    LET back == Then(SeekStream(s, s.point_start), LAMBDA t : init_dec(f, t))
    IN  IF current > target
        THEN [state |-> back, delta |-> target]
        ELSE [state |-> s, delta |-> target - current]

laz_readpoint_seek(f, s, current, target) ==
    LET begun  == [s EXCEPT !.ok = TRUE]
        opened == IF begun.point_start # 0 THEN begun
                  ELSE Then(init_dec(f, begun), LAMBDA t : [t EXCEPT !.chunk_count = 0])
        stop(t) == [state |-> t, delta |-> 0]
    IN  IF ~f.seekable THEN stop([begun EXCEPT !.ok = FALSE])
        ELSE IF ~Compressed(f)
        THEN stop(IF current = target THEN begun
                  ELSE SeekStream(begun, begun.point_start + target))
        ELSE IF ~opened.ok THEN stop(opened)
        ELSE IF opened.chunk_starts # NULL
        THEN seek_by_table(f, opened, current, target)
        ELSE seek_from_start(f, opened, current, target)

-----------------------------------------------------------------------------
(* PointReader. *)

\* The bounds on what a caller does; chunk_count starts out at chunk_size.
Bounded == /\ index <= MaxIndex
           /\ rp.point_start = 0 \/ rp.chunk_count <= MaxCount
           /\ rp.current_chunk <= MaxChunks

Init == /\ file \in Files
        /\ rp = Opened(file)
        /\ index = 0
        /\ pc = "idle" /\ left = 0 /\ goal = 0 /\ done = 0
        /\ out = Nothing

\* Whether a call of the core worked and the file object still answers.
Worked(s) == s.ok /\ ~s.failed

reader_next == \E gap \in Gaps, lucky \in BOOLEAN :
                   rp' = laz_readpoint_read(file, rp, gap, lucky)

\* A mutant: the index advances before the read is known to have worked.
Reader_read_early ==
    /\ pc = "idle" /\ Bounded
    /\ reader_next
    /\ out' = IF Worked(rp') THEN Handed(index, rp'.point) ELSE Failure
    /\ index' = index + 1
    /\ UNCHANGED <<file, pc, left, goal, done>>

\* read(), and one point of bounds(), build_index() and read_within(), which
\* advance the index as they go.
Reader_read ==
    /\ pc = "idle" /\ Bounded
    /\ reader_next
    /\ IF Worked(rp')
       THEN out' = Handed(index, rp'.point) /\ index' = index + 1
       ELSE out' = Failure /\ UNCHANGED index
    /\ UNCHANGED <<file, pc, left, goal, done>>

\* seek(), up to its loop.
Reader_seek(target) ==
    /\ pc = "idle" /\ Bounded
    /\ LET plan == laz_readpoint_seek(file, rp, index, target)
       IN  /\ rp' = plan.state
           /\ IF rp'.ok
              THEN pc' = "seek" /\ left' = plan.delta /\ goal' = target /\ UNCHANGED out
              ELSE out' = Failure /\ UNCHANGED <<pc, left, goal>>
    /\ UNCHANGED <<file, index, done>>

\* One turn of that loop: a point decoded to be passed over.
PassOver ==
    /\ pc = "seek" /\ left > 0
    /\ reader_next
    /\ IF rp'.ok
       THEN left' = left - 1 /\ UNCHANGED <<pc, goal, out>>
       ELSE pc' = "idle" /\ left' = 0 /\ goal' = 0 /\ out' = Failure
    /\ UNCHANGED <<file, index, done>>

SeekDone ==
    /\ pc = "seek" /\ left = 0
    /\ IF rp.failed THEN out' = Failure /\ UNCHANGED index
       ELSE out' = Nothing /\ index' = goal
    /\ pc' = "idle" /\ goal' = 0
    /\ UNCHANGED <<file, rp, left, done>>

\* read_into() and checksum(): the index follows once the loop is over.
Reader_read_into(count) ==
    /\ pc = "idle" /\ Bounded
    /\ pc' = "read_into" /\ left' = count
    /\ UNCHANGED <<file, rp, index, goal, done, out>>

ReadIntoStep ==
    /\ pc = "read_into" /\ left > 0
    /\ reader_next
    /\ IF Worked(rp')
       THEN /\ out' = Handed(index + done, rp'.point)
            /\ done' = done + 1 /\ left' = left - 1
            /\ UNCHANGED <<index, pc>>
       ELSE /\ out' = Failure
            /\ index' = index + done
            /\ pc' = "idle" /\ done' = 0 /\ left' = 0
    /\ UNCHANGED <<file, goal>>

\* A mutant: the index does not follow the points of the loop.
ReadIntoDone_left_behind ==
    /\ pc = "read_into" /\ left = 0
    /\ pc' = "idle" /\ done' = 0
    /\ UNCHANGED <<file, rp, index, left, goal, out>>

ReadIntoDone ==
    /\ pc = "read_into" /\ left = 0
    /\ index' = index + done
    /\ pc' = "idle" /\ done' = 0
    /\ UNCHANGED <<file, rp, left, goal, out>>

Next == \/ Reader_read
        \/ \E t \in Targets : Reader_seek(t)
        \/ PassOver
        \/ SeekDone
        \/ \E n \in Counts : Reader_read_into(n)
        \/ ReadIntoStep
        \/ ReadIntoDone

Spec == Init /\ [][Next]_vars

\* A loop of the core runs to its end: nothing else runs in this reader's
\* thread until the call has returned.
Fairness == WF_vars(PassOver) /\ WF_vars(SeekDone)
            /\ WF_vars(ReadIntoStep) /\ WF_vars(ReadIntoDone)
FairSpec == Spec /\ Fairness

-----------------------------------------------------------------------------
(* What is right about it. *)

\* The type invariant: the reader's state as the structs of laz_readpoint.h
\* and cpylaz_reader.c hold it.
TypeOK ==
    /\ file \in Files
    /\ rp.readers \in {"raw", "NULL", "compressed"}
    /\ rp.chunk_size \in 0 .. U32_MAX
    /\ rp.chunk_count \in 0 .. U32_MAX
    /\ {rp.current_chunk, rp.number_chunks, rp.tabled_chunks} \subseteq Nat
    /\ {rp.tell, rp.origin, rp.decoded, rp.point_start} \subseteq Nat
    /\ \A i \in DOMAIN rp.chunk_starts : rp.chunk_starts[i] \in Int
    /\ {rp.eof, rp.failed, rp.measured, rp.warning, rp.ok} \subseteq BOOLEAN
    /\ {index, left, goal, done} \subseteq Nat
    /\ pc \in {"idle", "seek", "read_into"}

\* Whatever the table says and however often it is read, given up, rebuilt or
\* grown, both chunk arrays hold what later calls index them by: a start for
\* each tabled chunk, inside the number_chunks + 1 entries allocated, and a
\* total for each chunk chunk_is_tabled lets through, chunk_totals being never
\* grown.  And a seek that divides by the chunk size does not divide by zero.
ArraysInBounds ==
    /\ 0 .. rp.tabled_chunks - 1 \subseteq DOMAIN rp.chunk_starts
    /\ rp.tabled_chunks <= rp.number_chunks + 1
    /\ rp.chunk_totals # NULL => DOMAIN rp.chunk_totals = 0 .. rp.number_chunks
    /\ ~chunk_is_tabled(rp, 0) => rp.chunk_size # 0

\* A table that states the boundaries the points have, or, where those are
\* implied by a fixed size, states none or cannot be read.  (What has the file
\* object raise fails every call after it.)
TableIsTrue(f) ==
    \/ ~Chunked(f)
    \/ /\ f.table.kind = "entries"
       /\ f.starts = Sums(ChunksStart(f), f.table.deltas)
       /\ Adaptive(f) => f.table.sizes = f.counts
    \/ /\ ~Adaptive(f) /\ f.table.kind # "misplaced"
       /\ f.table.kind = "entries" => f.table.deltas = <<>>

\* All points are there, behind a header: at the very start of a stream points
\* would be taken for points not begun, whose point_start is 0.  A table that
\* cannot be done without is in a file that can go and get it.
Intact(f) == /\ f.base # 0 /\ f.end >= DataEnd(f) /\ TableIsTrue(f)
             /\ Adaptive(f) => f.seekable

\* How many points lie before the one the core would decode next.
Position ==
    IF ~Compressed(file) THEN rp.tell - file.base
    ELSE file.firsts[rp.current_chunk] + (IF rp.readers = "NULL" THEN 0 ELSE rp.decoded)

\* The core and the binding agree on where the reader is.
InStep == /\ ~rp.eof /\ ~rp.failed
          /\ rp.current_chunk \in DOMAIN file.firsts
          /\ Position = IF pc = "seek" THEN goal - left ELSE index + done

\* Whatever reads, seeks and failures came before, a point handed out under an
\* index the file has is the point with that index, never garbage and never a
\* neighbour (Reader_read, Reader_read_into, laz_readpoint_seek).
HandsOutItsIndex ==
    out.kind = "point" /\ out.index < Total(file) => out.point = out.index

\* Whatever the table says, a point is handed out of a chunk only if the
\* decoder was started where the table says that chunk starts
\* (open_next_chunk's verification, the jumps of laz_readpoint_seek).
StandsWhereTabled ==
    out.kind = "point" /\ rp.current_chunk < rp.tabled_chunks
        => rp.chunk_starts[rp.current_chunk] = rp.point_start

\* Every start in the table, decoded, rebuilt from an interrupted file or
\* adopted and then extended, is where that chunk begins (decode_chunk_table,
\* open_next_chunk): what seeks jump by and chunk_starts returns.
StartsAreBoundaries ==
    Intact(file) => \A i \in DOMAIN rp.chunk_starts \cap Chunks(file) :
        rp.chunk_starts[i] = file.starts[i]

\* A fixed-size file whose points are all there, and whose table was given up
\* for a warning, still reads whole: no call fails for a point it has
\* (recover_chunk_table; tests/test_reading.py, TestChunkTableRecovery).
WarnedFilesReadWhole ==
    rp.warning /\ ~Adaptive(file) /\ file.end >= DataEnd(file)
    /\ out.kind = "error" => index >= Total(file)

\* A point handed out of an adaptive file lies in a chunk the table states a
\* size for: past the last of them, and without a table, reading refuses
\* (the check at the head of laz_readpoint_read).
AdaptivePointsAreTabled ==
    out.kind = "point" /\ Adaptive(file) => out.index < Total(file)

\* Nothing is handed out of an adaptive file without a table that says where
\* its chunks are, however often it is asked for: its boundaries are not
\* recoverable (recover_chunk_table, laz_readpoint_read).
AdaptivePointsNeedTheTable ==
    out.kind = "point" /\ Adaptive(file) => rp.chunk_totals # NULL

\* A seek that fails leaves the reader's own count where the decoder stands,
\* as a bulk read that fails does: the next seek works out its distance from
\* it (Reader_seek; the comment that closes Reader_checksum).
FailedSeeksKeepStep ==
    [][InStep /\ (PassOver \/ \E t \in Targets : Reader_seek(t))
       /\ ~rp'.ok /\ ~rp'.eof /\ ~rp'.failed
       /\ rp'.current_chunk \in Chunks(file)
         => Position' = index']_vars

\* In an intact file, while the reader is in step, no call fails for a point
\* the file has: not the read of it, not the seek to it, not a point passed
\* over on the way (open_next_chunk's verification, the table checks).
PointsAreReachable ==
    [][Intact(file) /\ InStep =>
         /\ Reader_read /\ index < Total(file) => rp'.ok
         /\ ReadIntoStep /\ index + done < Total(file) => rp'.ok
         /\ PassOver /\ goal < Total(file) => rp'.ok
         /\ file.seekable => \A t \in Targets : Reader_seek(t) => rp'.ok]_vars

\* The reader stays in step with its own index for as long as nothing has
\* failed and it has not run off the end (Reader_seek, Reader_read_into).
StaysInStep ==
    Intact(file) /\ index + done < Total(file) /\ goal <= Total(file)
        => InStep

\* A seek to a point an intact file has gets there, however many chunks lie
\* in between and whether or not there is a table to jump by
\* (laz_readpoint_seek's loop, Reader_seek).
SeeksArrive ==
    (pc = "seek" /\ Intact(file) /\ goal < Total(file) /\ InStep)
        ~> (pc = "idle" /\ out = Nothing /\ InStep)

\* The reader implements the abstract cursor: points in order, moved only by
\* a seek that succeeded, and never by an operation that failed.
Source == INSTANCE PointSource WITH total <- Total(file), next <- index + done
ImplementsPointSource == Source!Spec
=============================================================================
