---------------------------- MODULE ChunkWriter ----------------------------
(***************************************************************************)
(* The point writer: laz_writepoint.c (chunks, the chunk table, the        *)
(* position in front of the points) and the PointWriter binding over it    *)
(* (cpylaz_writer.c), writing through the buffered stream of FileSink.     *)
(*                                                                         *)
(* `wp` is the LazWritePoint with the stream under it, and every operator  *)
(* below maps one to the next as the C function of that name does.         *)
(*                                                                         *)
(* A byte of the stream is a unit here: a point stored raw, a point        *)
(* encoded, the end of a pointwise arithmetic stream, a layered chunk's    *)
(* point count, a position, and the parts of the table.  An encoded point  *)
(* is put when it is encoded, as though the encoder kept nothing back: no  *)
(* one else puts anything until the chunk is closed.  A chunk of n points  *)
(* is n + 1 units either way.                                              *)
(*                                                                         *)
(* Memory runs out where `Ooms` says it may: seeding the first point of a  *)
(* chunk ("start"), creating a model while encoding one ("encode"),        *)
(* growing a layer's buffer ("layer"), growing the arrays of the table     *)
(* ("table") and setting up the compressor of the table ("ic").            *)
(*                                                                         *)
(* Left out: the item writers' own state, the conversion of a point        *)
(* between formats, and the running header fields.                         *)
(***************************************************************************)
EXTENDS Overlays

CONSTANTS Layouts,        \* containers to write: compressor, chunk size, seekable
          Preface,          \* what is in the file before the points
          U32_MAX,        \* the largest U32, which is also "adaptive"
          ALLOC,          \* entries the table starts with, 1024 in the code
          FILE_BUF_SIZE,  \* what the output stream buffers
          Rooms, Seeks,   \* how much the file object takes before it raises
          Ooms,           \* where memory may run out
          MaxPoints       \* bound: this many points are offered

ASSUME WriterAssumption ==
    /\ U32_MAX \in Nat \ {0}
    /\ \A l \in Layouts : /\ l.compressor \in {"none", "pointwise", "chunked", "layered"}
                         /\ l.chunk_size \in 0 .. U32_MAX
                         /\ l.seekable \in BOOLEAN
    /\ Preface \in Seq(Seq(STRING \cup Int)) /\ Len(Preface) > 0
    /\ \A i \in DOMAIN Preface : Preface[i][1] \notin {"raw", "encoded"}
    /\ ALLOC \in Nat \ {0} /\ FILE_BUF_SIZE \in Nat \ {0}
    /\ Rooms \subseteq Nat /\ Seeks \subseteq Nat /\ MaxPoints \in Nat
    /\ Ooms \subseteq {"start", "encode", "layer", "table", "ic"}

VARIABLES layout,   \* the container, constant
          wp,       \* LazWritePoint and its stream
          state,    \* "open" while WriterObject.ready, then how it was spent
          index,    \* WriterObject.index
          offered,  \* points offered so far, which numbers them
          written,  \* the numbers of the points write() returned for
          out       \* what the last call came to: "none", "ok" or "error"

wvars == <<layout, wp, state, index, offered, written, out>>

Sink == INSTANCE FileSink WITH sink <- wp.outstream, Byte <- {}, Lengths <- {},
                               MaxPos <- 0

-----------------------------------------------------------------------------
(* The container. *)

Chunked(l)  == l.compressor \in {"chunked", "layered"}
Compressed(l) == l.compressor # "none"
Layered(l)  == l.compressor = "layered"

\* The points start behind what the caller wrote before.
Base == Len(Preface)

Put(w, unit) == [w EXCEPT !.outstream = Sink!fileout_put_bytes(@, <<unit>>)]
PutAll(w, units) == [w EXCEPT !.outstream = Sink!fileout_put_bytes(@, units)]

\* laz_writepoint_setup and laz_writepoint_init: room is kept in front of the
\* first chunk for the position of the table.
Opened(l, room, seeks) ==
    LET stream == Sink!laz_outstream_new_file(Preface, l.seekable, room, seeks)
        here   == IF l.seekable THEN stream.pos ELSE -1
        w == [chunk_size |-> IF Chunked(l) /\ l.chunk_size # 0
                             THEN l.chunk_size ELSE U32_MAX,
              chunk_count |-> 0, number_chunks |-> 0, alloced_chunks |-> 0,
              chunk_sizes |-> <<>>, chunk_bytes |-> <<>>,
              chunk_start_position |-> 0, chunk_table_start_position |-> 0,
              writers |-> IF Compressed(l) THEN "NULL" ELSE "raw",
              layers |-> <<>>, layers_failed |-> FALSE,
              outstream |-> stream, ok |-> TRUE]
        placed == Put([w EXCEPT !.chunk_table_start_position = here], <<"position", here>>)
    IN  IF Chunked(l)
        THEN [placed EXCEPT !.chunk_start_position = placed.outstream.pos]
        ELSE w

-----------------------------------------------------------------------------
(* Chunks. *)

Refused(w) == [w EXCEPT !.ok = FALSE]

\* A mutant: what there is of the layers is laid out all the same.
close_chunk_regardless(l, w) ==
    IF ~Layered(l) THEN Put(w, <<"end">>)
    ELSE PutAll(Put(w, <<"count", w.chunk_count>>), w.layers)

\* Ends the open chunk on the stream.  A layered chunk is only now laid out; a
\* layer that could not grow is one whose size no longer says what it holds.
close_chunk(l, w) ==
    LET counted == Put(w, <<"count", w.chunk_count>>)
    IN  IF ~Layered(l) THEN Put(w, <<"end">>)
        ELSE IF w.layers_failed THEN Refused(counted)
        ELSE PutAll(counted, w.layers)

add_chunk_to_table(w, oom) ==
    LET full  == w.number_chunks = w.alloced_chunks
        here  == w.outstream.pos
        grown == IF ~full THEN w
                 ELSE [w EXCEPT !.alloced_chunks =
                         IF w.alloced_chunks = 0 THEN ALLOC ELSE 2 * w.alloced_chunks]
    IN  IF full /\ oom = "table" THEN Refused(w)
        ELSE [grown EXCEPT
                !.chunk_sizes = IF w.chunk_size = U32_MAX
                                THEN Append(@, w.chunk_count) ELSE @,
                !.chunk_bytes = Append(@, (here - w.chunk_start_position) % (U32_MAX + 1)),
                !.chunk_start_position = here,
                !.number_chunks = @ + 1]

\* A mutant: the next chunk goes on with the writers of the one before.
close_and_record_unseeded(l, w, oom) ==
    LET recorded == add_chunk_to_table(close_chunk(l, w), oom)
    IN  IF ~recorded.ok THEN recorded ELSE [recorded EXCEPT !.chunk_count = 0]

\* Leaves the writer at the head of a chunk: the next point goes out raw.
close_and_record(l, w, oom) ==
    LET closed   == close_chunk(l, w)
        recorded == add_chunk_to_table(closed, oom)
    IN  IF ~closed.ok THEN closed
        ELSE IF ~recorded.ok THEN recorded
        ELSE [recorded EXCEPT !.writers = "NULL", !.chunk_count = 0]

SeekTo(w, position) ==
    [w EXCEPT !.outstream = Sink!fileout_seek(@, position),
              !.ok = Sink!fileout_seek_ok(w.outstream, position)]

\* The table: version, count, and a row for each chunk.
Rows(w) ==
    [i \in 1 .. w.number_chunks |->
        IF w.chunk_size = U32_MAX THEN <<"row", w.chunk_bytes[i], w.chunk_sizes[i]>>
        ELSE <<"row", w.chunk_bytes[i]>>]

\* A mutant: no seek forward again, past the points.
write_chunk_table_over(w, oom) ==
    LET here   == w.outstream.pos
        patched == IF w.chunk_table_start_position = -1 THEN w
                   ELSE Put(SeekTo(w, w.chunk_table_start_position), <<"position", here>>)
    IN  PutAll(patched, <<<<"version">>, <<"chunks", w.number_chunks>>>> \o Rows(w))

\* Where the stream can seek, the position goes in front of the points before
\* the table itself is written; elsewhere it goes behind the table.
write_chunk_table(w, oom) ==
    LET here    == w.outstream.pos
        back    == SeekTo(w, w.chunk_table_start_position)
        patched == SeekTo(Put(back, <<"position", here>>), here)
        ahead   == IF w.chunk_table_start_position = -1 THEN w
                   ELSE IF ~back.ok THEN back ELSE patched
        counted == PutAll(ahead, <<<<"version">>, <<"chunks", w.number_chunks>>>>)
        rows    == PutAll(counted, Rows(w))
    IN  IF ~ahead.ok THEN ahead
        ELSE IF w.number_chunks > 0 /\ oom = "ic" THEN Refused(counted)
        ELSE IF w.chunk_table_start_position = -1 THEN Put(rows, <<"position", here>>)
        ELSE rows

-----------------------------------------------------------------------------
(* Points. *)

\* Every call of the core ends by asking whether the file object has raised.
Checked(w) == IF w.outstream.failed THEN Refused(w) ELSE w

\* One point into the writers of the open chunk; a layered writer keeps it
\* until the chunk is closed.
encode(l, w, p, oom) ==
    LET unit == IF oom = "encode" THEN <<"half", p>> ELSE <<"encoded", p>>
        put  == IF ~Layered(l) THEN Put(w, unit)
                ELSE IF oom = "layer" \/ w.layers_failed
                THEN [w EXCEPT !.layers_failed = TRUE]
                ELSE [w EXCEPT !.layers = Append(@, unit)]
    IN  IF oom = "encode" THEN Refused(put) ELSE put

\* The first point of a chunk is stored raw and seeds the compressed writers.
start(w, p, oom) ==
    LET seeded == Put(w, <<"raw", p>>)
    IN  IF oom = "start" THEN Refused(seeded)
        ELSE [seeded EXCEPT !.writers = "compressed", !.layers = <<>>]

\* A mutant: the chunk is closed one point late.
laz_writepoint_write_late(l, w, p, oom) ==
    LET begun  == [w EXCEPT !.ok = TRUE]
        closed == IF Compressed(l) /\ w.chunk_count > w.chunk_size
                  THEN close_and_record(l, begun, oom) ELSE begun
        counted == IF Compressed(l) THEN [closed EXCEPT !.chunk_count = @ + 1] ELSE closed
    IN  Checked(IF counted.writers = "raw" THEN Put(counted, <<"raw", p>>)
                ELSE IF counted.writers = "NULL" THEN start(counted, p, oom)
                ELSE encode(l, counted, p, oom))

laz_writepoint_write(l, w, p, oom) ==
    LET begun  == [w EXCEPT !.ok = TRUE]
        closed == IF Compressed(l) /\ w.chunk_count = w.chunk_size
                  THEN close_and_record(l, begun, oom) ELSE begun
        counted == IF Compressed(l) THEN [closed EXCEPT !.chunk_count = @ + 1] ELSE closed
    IN  IF ~closed.ok THEN closed
        ELSE Checked(IF counted.writers = "raw" THEN Put(counted, <<"raw", p>>)
                     ELSE IF counted.writers = "NULL" THEN start(counted, p, oom)
                     ELSE encode(l, counted, p, oom))

\* A mutant: the file object is not asked whether it failed.
laz_writepoint_chunk_unchecked(l, w, oom) ==
    IF ~Chunked(l) \/ w.chunk_size # U32_MAX THEN Refused(w)
    ELSE IF w.writers # "compressed" THEN [w EXCEPT !.ok = TRUE]
    ELSE close_and_record(l, [w EXCEPT !.ok = TRUE], oom)

\* Only a chunk of a size that varies may be closed early, and one nothing was
\* written to is not a chunk.
laz_writepoint_chunk(l, w, oom) ==
    LET closed == close_and_record(l, [w EXCEPT !.ok = TRUE], oom)
    IN  IF ~Chunked(l) \/ w.chunk_size # U32_MAX THEN Refused(w)
        ELSE IF w.writers # "compressed" THEN [w EXCEPT !.ok = TRUE]
        ELSE IF ~closed.ok THEN closed
        ELSE Checked(closed)

Flushed(w) == [w EXCEPT !.outstream = Sink!fileout_flush(@)]

laz_writepoint_done(l, w, oom) ==
    LET begun    == [w EXCEPT !.ok = TRUE]
        closed   == IF w.writers = "compressed" THEN close_chunk(l, begun) ELSE begun
        recorded == IF w.writers = "compressed" /\ Chunked(l)
                    THEN add_chunk_to_table(closed, oom) ELSE closed
        tabled   == IF Chunked(l) THEN write_chunk_table(recorded, oom) ELSE recorded
    IN  IF ~closed.ok THEN closed
        ELSE IF ~recorded.ok THEN recorded
        ELSE IF ~tabled.ok THEN tabled
        ELSE Checked(Flushed(tabled))

-----------------------------------------------------------------------------
(* PointWriter. *)

Init == \E room \in Rooms, seeks \in Seeks :
          /\ layout \in Layouts
          /\ wp = Opened(layout, room, seeks)
          /\ state = IF wp.outstream.failed THEN "failed" ELSE "open"
          /\ index = 0 /\ offered = 0 /\ written = <<>>
          /\ out = IF wp.outstream.failed THEN "error" ELSE "none"

Outcome(w) == IF w.ok THEN "ok" ELSE "error"

\* write(), and one point of write_from(), which stops at the first to fail.
Writer_write ==
    \E oom \in Ooms \cup {"no"} :
      /\ state = "open" /\ offered < MaxPoints
      /\ wp' = laz_writepoint_write(layout, wp, offered, oom)
      /\ offered' = offered + 1
      /\ IF wp'.ok THEN index' = index + 1 /\ written' = Append(written, offered)
                   ELSE UNCHANGED <<index, written>>
      /\ out' = Outcome(wp')
      /\ UNCHANGED <<layout, state>>

Writer_chunk ==
    \E oom \in Ooms \cup {"no"} :
      /\ state = "open"
      /\ wp' = laz_writepoint_chunk(layout, wp, oom)
      /\ out' = Outcome(wp')
      /\ UNCHANGED <<layout, state, index, offered, written>>

\* Whatever happens the writer is spent.
Writer_done ==
    \E oom \in Ooms \cup {"no"} :
      /\ state = "open"
      /\ wp' = laz_writepoint_done(layout, wp, oom)
      /\ out' = Outcome(wp')
      /\ state' = IF wp'.ok THEN "done" ELSE "failed"
      /\ UNCHANGED <<layout, index, offered, written>>

\* write(), chunk() and done() of a writer that is spent.
Refuse ==
    /\ state \in {"done", "failed"}
    /\ out' = "error"
    /\ UNCHANGED <<layout, wp, state, index, offered, written>>

\* The writer is collected: the stream flushes what it still holds.
Dropped ==
    /\ state # "dropped"
    /\ wp' = [wp EXCEPT !.outstream = Sink!fileout_destroy(@)]
    /\ state' = "dropped" /\ out' = "none"
    /\ UNCHANGED <<layout, index, offered, written>>

Next == Writer_write \/ Writer_chunk \/ Writer_done \/ Refuse \/ Dropped

Spec == Init /\ [][Next]_wvars

-----------------------------------------------------------------------------
(* What is right about it. *)

TypeOK ==
    /\ layout \in Layouts
    /\ wp.writers \in {"NULL", "raw", "compressed"}
    /\ wp.chunk_count \in 0 .. wp.chunk_size
    /\ wp.chunk_size \in 1 .. U32_MAX
    /\ wp.number_chunks \in 0 .. wp.alloced_chunks
    /\ wp.chunk_bytes \in [1 .. wp.number_chunks -> 0 .. U32_MAX]
    /\ wp.chunk_sizes \in [1 .. (IF wp.chunk_size = U32_MAX THEN wp.number_chunks ELSE 0)
                             -> 1 .. U32_MAX]
    /\ wp.chunk_start_position \in Nat
    /\ wp.chunk_table_start_position \in Nat \cup {-1}
    /\ wp.ok \in BOOLEAN /\ wp.layers_failed \in BOOLEAN
    /\ state \in {"open", "done", "failed", "dropped"}
    /\ index = Len(written) /\ index <= offered
    /\ out \in {"none", "ok", "error"}

\* How a file is read: the points among some units, and what a whole chunk is.
Points(units) ==
    LET got[i \in 0 .. Len(units)] ==
            IF i = 0 THEN <<>>
            ELSE IF units[i][1] \in {"raw", "encoded"} THEN Append(got[i - 1], units[i][2])
            ELSE got[i - 1]
    IN  got[Len(units)]

IsChunk(l, units) ==
    LET n == Len(units) - 1
    IN  /\ n >= 1
        /\ units[1][1] = "raw"
        /\ IF Layered(l)
           THEN units[2] = <<"count", n>> /\ \A i \in 3 .. n + 1 : units[i][1] = "encoded"
           ELSE units[n + 1] = <<"end">> /\ \A i \in 2 .. n : units[i][1] = "encoded"

\* Where the table says the i-th chunk starts; the table starts at `at`.
StartOf(disk, at, i) ==
    LET begin[k \in 1 .. i] ==
            IF k = 1 THEN Base + 1 ELSE begin[k - 1] + disk[at + 1 + k][2]
    IN  begin[i]

TablePosition(disk) ==
    IF disk[Base + 1] = <<"position", -1>> THEN disk[Len(disk)][2] ELSE disk[Base + 1][2]

\* Every chunk lies where the table puts it and holds as many points as it is
\* bound to.  What a point that failed left behind may follow the last one.
ReadsByTable(l, disk) ==
    LET at     == TablePosition(disk)
        n      == disk[at + 2][2]
        chunk(i) == SubSeq(disk, StartOf(disk, at, i) + 1, StartOf(disk, at, i + 1))
        adaptive == l.chunk_size \in {0, U32_MAX}
    IN  /\ at + 2 <= Len(disk)
        /\ disk[at + 1] = <<"version">> /\ disk[at + 2][1] = "chunks"
        /\ \A i \in 1 .. n : disk[at + 2 + i][1] = "row"
        /\ StartOf(disk, at, n + 1) <= at
        /\ \A i \in 1 .. n :
              /\ IsChunk(l, chunk(i))
              /\ LET held == Len(chunk(i)) - 1
                 IN  IF adaptive THEN disk[at + 2 + i][3] = held
                     ELSE IF i < n THEN held = l.chunk_size ELSE held <= l.chunk_size

ReadsBack(l, disk) ==
    IF Chunked(l) THEN ReadsByTable(l, disk)
    ELSE IF Compressed(l) /\ Len(disk) > Base
    THEN IsChunk(l, SubSeq(disk, Base + 1, Len(disk)))
    ELSE \A i \in Base + 1 .. Len(disk) : disk[i][1] = "raw"

\* The part of the file its points are read from.
PointArea(l, disk) ==
    LET at == TablePosition(disk)
    IN  IF Chunked(l) THEN SubSeq(disk, Base + 1, StartOf(disk, at, disk[at + 2][2] + 1))
        ELSE SubSeq(disk, Base + 1, Len(disk))

\* A file done() returned for holds every point write() returned for, in
\* order, in whole chunks, at the boundaries the table on the disk states, be
\* the table's position in front of the points or behind it, and however the
\* calls of chunk() and the buffer of the stream fell (laz_writepoint_done,
\* close_and_record, write_chunk_table).
FinishedFilesReadBack ==
    state = "done" => /\ ReadsBack(layout, wp.outstream.disk)
                      /\ Points(PointArea(layout, wp.outstream.disk)) = written

\* The call in which the file object raises never returns as though it had
\* worked, which would leave the exception pending behind it
\* (laz_writepoint_write, _chunk and _done, which all ask last).
ReportsFailures ==
    [][~wp.outstream.failed /\ wp'.outstream.failed /\ state' # "dropped"
         => out' = "error"]_wvars

\* What is in the file is final but for the position in front of the points,
\* and that too where the file cannot be gone back in (write_chunk_table).
OnlyThePlaceholderIsPatched ==
    [][LET disk == wp.outstream.disk
       IN  \A i \in DOMAIN disk : /\ i \in DOMAIN wp'.outstream.disk
                                  /\ wp'.outstream.disk[i] # disk[i]
                                       => i = Base + 1 /\ layout.seekable]_wvars

\* Whenever the writer is interrupted, the file says either that there is no
\* table or where it is, and then every point is in front of it already: the
\* position never gets to the file before the points do (write_chunk_table,
\* fileout_seek).
InterruptedFilesSaySo ==
    LET disk == wp.outstream.disk
    IN  Chunked(layout) /\ layout.seekable /\ Len(disk) > Base =>
          LET placed == disk[Base + 1]
          IN  \/ placed = <<"position", Base>>
              \/ /\ placed[1] = "position" /\ placed[2] <= Len(disk)
                 /\ Points(SubSeq(disk, 1, placed[2])) = written

=============================================================================
