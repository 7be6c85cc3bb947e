-------------------------- MODULE RoundTripProofs --------------------------
(***************************************************************************)
(* Proofs about the way there and back: what laz_writepoint_done returned  *)
(* for is a file as ChunkReader takes files to be (FinishedFilesAreRead),  *)
(* so that what ChunkReaderProofs shows of such files holds of it: it      *)
(* hands back the points it was written with, and all of them.             *)
(*                                                                         *)
(* WrittenFileProofs knows what is on the disk of a finished writer, as    *)
(* units: the boundaries of the chunks, the rows of the table and where    *)
(* the table is.  The rest is that FileOf sees the same chunks in it:      *)
(* Charted states what is needed of the disk, the lemmas Charted... give   *)
(* the fields of the file one by one, and Delivered is the invariant that  *)
(* carries the writer's over the opening.  Received adds that the reader   *)
(* behind it is one the reader's proofs are about.                         *)
(***************************************************************************)
EXTENDS RoundTrip, TLAPS

WP == INSTANCE WrittenFileProofs WITH out <- wout, Ooms <- {}

\* The files the reader's proofs are about here.
Summed   == {Reader!Sums(first, d) : first \in Int, d \in Seq(Int)}
Tables   == [kind : {"interrupted", "misplaced", "unreadable", "entries"},
             deltas : Seq(Int), sizes : Seq(0 .. U32_MAX),
             totals : UNION {[0 .. n -> Nat] : n \in Nat}, behind : Nat]
Readable == {f \in [compressor : {"none", "pointwise", "chunked", "layered"},
                    base : Nat, counts : Seq(Nat), firsts : Summed, starts : Summed,
                    chunk_size : Nat, table : Tables,
                    strays : UNION {[0 .. n -> Tables] : n \in Nat},
                    seekable : BOOLEAN, end : Nat] :
               Reader!IsFile(f) /\ Reader!Total(f) <= MaxPoints}

RP == INSTANCE ChunkReaderProofs WITH index <- rindex, Files <- Readable, Counts <- {},
                                       Targets <- Nat

\* What the writer's proofs and the reader's assume, of this pair.
LEMMA SameFile ==
    /\ Reader!GARBAGE = RP!GARBAGE /\ Reader!NULL = RP!NULL
    /\ Reader!Nothing = RP!Nothing /\ Reader!Failure = RP!Failure
    /\ \A i, p : Reader!Handed(i, p) = RP!Handed(i, p)
    /\ \A first, d : Reader!Sums(first, d) = RP!Sums(first, d)
    /\ \A f : /\ Reader!Chunks(f) = RP!Chunks(f) /\ Reader!Total(f) = RP!Total(f)
              /\ Reader!DataEnd(f) = RP!DataEnd(f) /\ Reader!ChunksStart(f) = RP!ChunksStart(f)
              /\ Reader!Chunked(f) = RP!Chunked(f) /\ Reader!Compressed(f) = RP!Compressed(f)
              /\ Reader!Adaptive(f) = RP!Adaptive(f)
    /\ \A f, q : Reader!PositionAt(f, q) = RP!PositionAt(f, q)
BY DEF Reader!GARBAGE, RP!GARBAGE, Reader!NULL, RP!NULL, Reader!Nothing, RP!Nothing,
       Reader!Failure, RP!Failure, Reader!Handed, RP!Handed, Reader!Sums, RP!Sums,
       Reader!Chunks, RP!Chunks, Reader!Total, RP!Total, Reader!DataEnd, RP!DataEnd,
       Reader!ChunksStart, RP!ChunksStart, Reader!Chunked, RP!Chunked, Reader!Compressed,
       RP!Compressed, Reader!Adaptive, RP!Adaptive, Reader!PositionAt, RP!PositionAt

LEMMA SameTruth ==
    \A f : Reader!IsFile(f) = RP!IsFile(f) /\ Reader!Intact(f) = RP!Intact(f)
<1>0. \A t : Reader!IsTable(t) = RP!IsTable(t)
  BY ONLY DEF Reader!IsTable, RP!IsTable
<1>1. \A f : Reader!IsFile(f) = RP!IsFile(f)
  BY ONLY <1>0 DEF Reader!IsFile, RP!IsFile, Reader!Chunked, RP!Chunked, Reader!Compressed,
              RP!Compressed, Reader!Adaptive, RP!Adaptive, Reader!Sums, RP!Sums
<1>2. \A f : Reader!Intact(f) = RP!Intact(f)
  BY ONLY SameFile DEF Reader!Intact, RP!Intact, Reader!TableIsTrue, RP!TableIsTrue
<1> QED BY <1>1, <1>2

LEMMA TheirAssumptions ==
    /\ U32_MAX \in Nat \ {0}
    /\ \A l \in Layouts : /\ l.compressor \in {"none", "pointwise", "chunked", "layered"}
                         /\ l.chunk_size \in 0 .. U32_MAX
                         /\ l.seekable \in BOOLEAN
    /\ Preface \in Seq(Seq(STRING \cup Int)) /\ Len(Preface) > 0
    /\ \A i \in DOMAIN Preface : Preface[i][1] \notin {"raw", "encoded"}
    /\ ALLOC \in Nat \ {0} /\ FILE_BUF_SIZE \in Nat \ {0}
    /\ Rooms \subseteq Nat /\ Seeks \subseteq Nat /\ MaxPoints \in Nat
    /\ {} \subseteq {"start", "encode", "layer", "table", "ic"}
    /\ U32_MAX \in Nat \ {0, 1} /\ GROWTH \in Nat \ {0} /\ {} \subseteq Nat
    /\ \A f \in Readable : RP!IsFile(f)
    /\ Nat \subseteq Nat
    /\ Gaps \subseteq Nat
BY TripAssumption, SameTruth DEF Readable

-----------------------------------------------------------------------------
(* The writer is the one the writer's proofs are about. *)

LEMMA SameContainer ==
    /\ Writer!Base = WP!Base /\ Base = WP!Base
    /\ \A l : /\ Writer!Chunked(l) = WP!Chunked(l)
              /\ Writer!Compressed(l) = WP!Compressed(l)
              /\ Writer!Layered(l) = WP!Layered(l)
BY DEF Base, Writer!Base, WP!Base, Writer!Chunked, WP!Chunked, Writer!Compressed,
       WP!Compressed, Writer!Layered, WP!Layered

LEMMA SameSink ==
    /\ \A s, u : /\ Writer!Sink!fileout_emit(s, u) = WP!Sink!fileout_emit(s, u)
                 /\ Writer!Sink!fileout_flush(s) = WP!Sink!fileout_flush(s)
                 /\ Writer!Sink!fileout_put_bytes(s, u) = WP!Sink!fileout_put_bytes(s, u)
                 /\ Writer!Sink!fileout_seek(s, u) = WP!Sink!fileout_seek(s, u)
                 /\ Writer!Sink!fileout_seek_ok(s, u) = WP!Sink!fileout_seek_ok(s, u)
                 /\ Writer!Sink!fileout_destroy(s) = WP!Sink!fileout_destroy(s)
    /\ \A d, b, r, k : Writer!Sink!laz_outstream_new_file(d, b, r, k)
                         = WP!Sink!laz_outstream_new_file(d, b, r, k)
<1>1. \A s, u : Writer!Sink!fileout_emit(s, u) = WP!Sink!fileout_emit(s, u)
  BY ONLY DEF Writer!Sink!fileout_emit, WP!Sink!fileout_emit, Writer!Sink!Overlay,
              WP!Sink!Overlay, Writer!Sink!Longer, WP!Sink!Longer
<1>2. \A s : Writer!Sink!fileout_flush(s) = WP!Sink!fileout_flush(s)
  BY ONLY <1>1 DEF Writer!Sink!fileout_flush, WP!Sink!fileout_flush
<1>3. \A s, u : Writer!Sink!fileout_put_bytes(s, u) = WP!Sink!fileout_put_bytes(s, u)
  BY ONLY <1>1, <1>2 DEF Writer!Sink!fileout_put_bytes, WP!Sink!fileout_put_bytes
<1>4. \A s, u : Writer!Sink!fileout_seek(s, u) = WP!Sink!fileout_seek(s, u)
  BY ONLY <1>2 DEF Writer!Sink!fileout_seek, WP!Sink!fileout_seek
<1>5. \A s, u : Writer!Sink!fileout_seek_ok(s, u) = WP!Sink!fileout_seek_ok(s, u)
  BY ONLY <1>4 DEF Writer!Sink!fileout_seek_ok, WP!Sink!fileout_seek_ok
<1>6. \A s : Writer!Sink!fileout_destroy(s) = WP!Sink!fileout_destroy(s)
  BY ONLY <1>2 DEF Writer!Sink!fileout_destroy, WP!Sink!fileout_destroy
<1>7. \A d, b, r, k : Writer!Sink!laz_outstream_new_file(d, b, r, k)
                        = WP!Sink!laz_outstream_new_file(d, b, r, k)
  BY ONLY DEF Writer!Sink!laz_outstream_new_file, WP!Sink!laz_outstream_new_file
<1> QED BY ONLY <1>1, <1>2, <1>3, <1>4, <1>5, <1>6, <1>7

LEMMA SamePuts ==
    \A w, u : Writer!Put(w, u) = WP!Put(w, u) /\ Writer!PutAll(w, u) = WP!PutAll(w, u)
BY SameSink DEF Writer!Put, WP!Put, Writer!PutAll, WP!PutAll

LEMMA SameOpened ==
    \A l, room, seeks : Writer!Opened(l, room, seeks) = WP!Opened(l, room, seeks)
<1> SUFFICES ASSUME NEW l, NEW room, NEW seeks
             PROVE  Writer!Opened(l, room, seeks) = WP!Opened(l, room, seeks)
  OBVIOUS
<1> DEFINE Fields(b, k, s) ==
             [chunk_size |-> IF b /\ l.chunk_size # 0 THEN l.chunk_size ELSE U32_MAX,
              chunk_count |-> 0, number_chunks |-> 0, alloced_chunks |-> 0,
              chunk_sizes |-> <<>>, chunk_bytes |-> <<>>,
              chunk_start_position |-> 0, chunk_table_start_position |-> 0,
              writers |-> IF k THEN "NULL" ELSE "raw",
              layers |-> <<>>, layers_failed |-> FALSE, outstream |-> s, ok |-> TRUE]
           From(b, w, placed) ==
             IF b THEN [placed EXCEPT !.chunk_start_position = placed.outstream.pos] ELSE w
           Here(s) == IF l.seekable THEN s.pos ELSE -1
           Marked(w, s) == [w EXCEPT !.chunk_table_start_position = Here(s)]
           sw == Writer!Sink!laz_outstream_new_file(Preface, l.seekable, room, seeks)
           sp == WP!Sink!laz_outstream_new_file(Preface, l.seekable, room, seeks)
           fw == Fields(Writer!Chunked(l), Writer!Compressed(l), sw)
           fp == Fields(WP!Chunked(l), WP!Compressed(l), sp)
           pw == Writer!Put(Marked(fw, sw), <<"position", Here(sw)>>)
           pp == WP!Put(Marked(fp, sp), <<"position", Here(sp)>>)
<1>1. Writer!Opened(l, room, seeks) = From(Writer!Chunked(l), fw, pw)
  BY ONLY DEF Writer!Opened
<1>2. WP!Opened(l, room, seeks) = From(WP!Chunked(l), fp, pp)
  BY ONLY DEF WP!Opened
<1>3. Writer!Chunked(l) = WP!Chunked(l) /\ Writer!Compressed(l) = WP!Compressed(l) /\ sw = sp
  BY SameContainer, SameSink
<1> HIDE DEF Fields, From, Marked, Here, sw, sp
<1>4. fw = fp
  BY ONLY <1>3
<1> HIDE DEF fw, fp
<1>5. pw = pp
  BY ONLY <1>3, <1>4, SamePuts
<1> HIDE DEF pw, pp
<1>6. From(Writer!Chunked(l), fw, pw) = From(WP!Chunked(l), fp, pp)
  BY ONLY <1>3, <1>4, <1>5
<1> QED BY ONLY <1>1, <1>2, <1>6

LEMMA SameChunks ==
    /\ \A w : Writer!Refused(w) = WP!Refused(w)
    /\ \A l, w : Writer!close_chunk(l, w) = WP!close_chunk(l, w)
    /\ \A w, oom : Writer!add_chunk_to_table(w, oom) = WP!add_chunk_to_table(w, oom)
<1>1. \A w : Writer!Refused(w) = WP!Refused(w)
  BY DEF Writer!Refused, WP!Refused
<1>2. \A l, w : Writer!close_chunk(l, w) = WP!close_chunk(l, w)
  BY <1>1, SameContainer, SamePuts DEF Writer!close_chunk, WP!close_chunk
<1>3. \A w, oom : Writer!add_chunk_to_table(w, oom) = WP!add_chunk_to_table(w, oom)
  BY <1>1 DEF Writer!add_chunk_to_table, WP!add_chunk_to_table
<1> QED BY <1>1, <1>2, <1>3

LEMMA SameRecording ==
    \A l, w, oom : Writer!close_and_record(l, w, oom) = WP!close_and_record(l, w, oom)
BY SameChunks DEF Writer!close_and_record, WP!close_and_record

LEMMA SameTable ==
    \A w, oom : Writer!write_chunk_table(w, oom) = WP!write_chunk_table(w, oom)
<1>1. \A w, p : Writer!SeekTo(w, p) = WP!SeekTo(w, p)
  BY SameSink DEF Writer!SeekTo, WP!SeekTo
<1>2. \A w : Writer!Rows(w) = WP!Rows(w)
  BY DEF Writer!Rows, WP!Rows
<1> QED BY <1>1, <1>2, SameChunks, SamePuts DEF Writer!write_chunk_table, WP!write_chunk_table

LEMMA SameCalls ==
    /\ \A l, w, p, oom : Writer!laz_writepoint_write(l, w, p, oom)
                           = WP!laz_writepoint_write(l, w, p, oom)
    /\ \A l, w, oom : /\ Writer!laz_writepoint_chunk(l, w, oom)
                             = WP!laz_writepoint_chunk(l, w, oom)
                      /\ Writer!laz_writepoint_done(l, w, oom)
                             = WP!laz_writepoint_done(l, w, oom)
<1>1. \A w : Writer!Checked(w) = WP!Checked(w) /\ Writer!Flushed(w) = WP!Flushed(w)
  BY SameChunks, SameSink DEF Writer!Checked, WP!Checked, Writer!Flushed, WP!Flushed
<1>2. /\ \A l, w, p, oom : Writer!encode(l, w, p, oom) = WP!encode(l, w, p, oom)
      /\ \A w, p, oom : Writer!start(w, p, oom) = WP!start(w, p, oom)
  <2>1. \A w : Writer!Refused(w) = WP!Refused(w)
    BY SameChunks
  <2>2. ASSUME NEW l, NEW w, NEW p, NEW oom
        PROVE  Writer!encode(l, w, p, oom) = WP!encode(l, w, p, oom)
    BY ONLY <2>1, SameContainer, SamePuts DEF Writer!encode, WP!encode
  <2>3. ASSUME NEW w, NEW p, NEW oom
        PROVE  Writer!start(w, p, oom) = WP!start(w, p, oom)
    BY ONLY <2>1, SamePuts DEF Writer!start, WP!start
  <2> QED BY <2>2, <2>3
<1>3. \A l, w, p, oom : Writer!laz_writepoint_write(l, w, p, oom)
                         = WP!laz_writepoint_write(l, w, p, oom)
  <2> SUFFICES ASSUME NEW l, NEW w, NEW p, NEW oom
               PROVE  Writer!laz_writepoint_write(l, w, p, oom)
                        = WP!laz_writepoint_write(l, w, p, oom)
    OBVIOUS
  <2> DEFINE begun == [w EXCEPT !.ok = TRUE]
             full == WP!Compressed(l) /\ w.chunk_count = w.chunk_size
             closed == IF full THEN WP!close_and_record(l, begun, oom) ELSE begun
             counted == IF WP!Compressed(l) THEN [closed EXCEPT !.chunk_count = @ + 1]
                        ELSE closed
             x == WP!Put(counted, <<"raw", p>>)
             y == WP!start(counted, p, oom)
             z == WP!encode(l, counted, p, oom)
             put == IF counted.writers = "raw" THEN x
                    ELSE IF counted.writers = "NULL" THEN y ELSE z
  <2>1. WP!laz_writepoint_write(l, w, p, oom)
          = IF ~closed.ok THEN closed ELSE WP!Checked(put)
    BY ONLY DEF WP!laz_writepoint_write
  <2>2. /\ Writer!Compressed(l) = WP!Compressed(l)
        /\ Writer!close_and_record(l, begun, oom) = WP!close_and_record(l, begun, oom)
    BY SameContainer, SameRecording
  <2>3. /\ Writer!Put(counted, <<"raw", p>>) = x /\ Writer!start(counted, p, oom) = y
        /\ Writer!encode(l, counted, p, oom) = z /\ Writer!Checked(put) = WP!Checked(put)
    BY <1>1, <1>2, SamePuts
  <2>4. Writer!laz_writepoint_write(l, w, p, oom)
          = IF ~closed.ok THEN closed ELSE Writer!Checked(put)
    <3>1. closed = IF Writer!Compressed(l) /\ w.chunk_count = w.chunk_size
                   THEN Writer!close_and_record(l, begun, oom) ELSE begun
      BY ONLY <2>2
    <3>2. counted = IF Writer!Compressed(l) THEN [closed EXCEPT !.chunk_count = @ + 1]
                    ELSE closed
      BY ONLY <2>2
    <3> HIDE DEF closed, counted, x, y, z
    <3> QED BY ONLY <2>3, <3>1, <3>2 DEF Writer!laz_writepoint_write
  <2> HIDE DEF closed, put
  <2> QED BY ONLY <2>1, <2>3, <2>4
<1>4. \A l, w, oom : Writer!laz_writepoint_chunk(l, w, oom) = WP!laz_writepoint_chunk(l, w, oom)
  BY <1>1, SameChunks, SameContainer, SameRecording
     DEF Writer!laz_writepoint_chunk, WP!laz_writepoint_chunk
<1>5. \A l, w, oom : Writer!laz_writepoint_done(l, w, oom) = WP!laz_writepoint_done(l, w, oom)
  BY <1>1, SameChunks, SameContainer, SameTable
     DEF Writer!laz_writepoint_done, WP!laz_writepoint_done
<1> QED BY <1>3, <1>4, <1>5

LEMMA SameWriter ==
    /\ Writer!Init <=> WP!Init
    /\ Writer!Next <=> WP!Next
<1>0. \A w : Writer!Outcome(w) = WP!Outcome(w)
  BY DEF Writer!Outcome, WP!Outcome
<1>1. Writer!Init <=> WP!Init
  BY SameOpened DEF Writer!Init, WP!Init
<1>2. Writer!Writer_write <=> WP!Writer_write
  BY <1>0, SameCalls DEF Writer!Writer_write, WP!Writer_write
<1>3. Writer!Writer_chunk <=> WP!Writer_chunk
  BY <1>0, SameCalls DEF Writer!Writer_chunk, WP!Writer_chunk
<1>4. Writer!Writer_done <=> WP!Writer_done
  BY <1>0, SameCalls DEF Writer!Writer_done, WP!Writer_done
<1>5. Writer!Refuse <=> WP!Refuse
  BY DEF Writer!Refuse, WP!Refuse
<1>6. Writer!Dropped <=> WP!Dropped
  BY SameSink DEF Writer!Dropped, WP!Dropped
<1> QED BY <1>1, <1>2, <1>3, <1>4, <1>5, <1>6 DEF Writer!Next, WP!Next
-----------------------------------------------------------------------------
(* The reader is the one the reader's proofs are about. *)

LEMMA SameReaderTables ==
    /\ \A s, p : Reader!SeekStream(s, p) = RP!SeekStream(s, p)
    /\ \A s, i : Reader!chunk_is_tabled(s, i) = RP!chunk_is_tabled(s, i)
    /\ \A f, s : Reader!init_dec(f, s) = RP!init_dec(f, s)
<1>1. \A s, p : Reader!SeekStream(s, p) = RP!SeekStream(s, p)
  BY ONLY DEF Reader!SeekStream, RP!SeekStream
<1>2. \A s, i : Reader!chunk_is_tabled(s, i) = RP!chunk_is_tabled(s, i)
  BY ONLY SameFile DEF Reader!chunk_is_tabled, RP!chunk_is_tabled
<1>3. \A s, c : Reader!start_growable_table(s, c) = RP!start_growable_table(s, c)
  BY ONLY DEF Reader!start_growable_table, RP!start_growable_table
<1>4. ASSUME NEW table, NEW s, NEW c
      PROVE  Reader!decode_chunk_table(table, s, c) = RP!decode_chunk_table(table, s, c)
  <2> DEFINE n == Len(table.deltas)
             stuck == {i \in 1 .. n : table.deltas[i] <= 0}
             behind == [s EXCEPT !.tell = table.behind]
             adopted(starts, null) ==
               [behind EXCEPT !.number_chunks = n,
                              !.chunk_totals = IF s.chunk_size = U32_MAX
                                               THEN table.totals ELSE null,
                              !.chunk_starts = starts,
                              !.tabled_chunks = n + 1]
             From(starts, null, least, astray) ==
               IF s.failed \/ table.kind = "misplaced" THEN astray
               ELSE IF table.kind = "unreadable" THEN [behind EXCEPT !.ok = FALSE]
               ELSE IF stuck = {} THEN adopted(starts, null)
               ELSE [adopted(starts, null) EXCEPT
                       !.ok = FALSE,
                       !.chunk_starts = [i \in 0 .. n |->
                           IF i <= least THEN starts[i] ELSE table.deltas[i]]]
             sw == Reader!Sums(c, table.deltas)
             sp == RP!Sums(c, table.deltas)
  <2>1. Reader!decode_chunk_table(table, s, c)
          = From(sw, Reader!NULL, Reader!Min(stuck), Reader!SeekStream(s, -1))
    BY ONLY DEF Reader!decode_chunk_table
  <2>2. RP!decode_chunk_table(table, s, c)
          = From(sp, RP!NULL, RP!Min(stuck), RP!SeekStream(s, -1))
    BY ONLY DEF RP!decode_chunk_table
  <2>3. Reader!Min(stuck) = RP!Min(stuck)
    BY ONLY DEF Reader!Min, RP!Min
  <2> HIDE DEF stuck, From
  <2>4. sw = sp /\ Reader!NULL = RP!NULL /\ Reader!SeekStream(s, -1) = RP!SeekStream(s, -1)
    BY ONLY <1>1, SameFile
  <2> HIDE DEF sw, sp
  <2> QED BY ONLY <2>1, <2>2, <2>3, <2>4
<1>5. \A s, c : Reader!recover_chunk_table(s, c) = RP!recover_chunk_table(s, c)
  BY ONLY <1>3, SameFile DEF Reader!recover_chunk_table, RP!recover_chunk_table
<1>6. ASSUME NEW f, NEW s PROVE Reader!read_chunk_table(f, s) = RP!read_chunk_table(f, s)
  <2> DEFINE here == IF s.tell + 1 > f.end THEN [s EXCEPT !.tell = f.end, !.eof = TRUE]
                     ELSE [s EXCEPT !.tell = @ + 1]
             at == here.tell
             From(table, g, u, z) ==
               IF table.kind = "interrupted"
               THEN IF s.chunk_size = U32_MAX THEN [here EXCEPT !.ok = FALSE]
                    ELSE [g EXCEPT !.warning = TRUE]
               ELSE IF ~f.seekable
               THEN IF s.chunk_size = U32_MAX THEN [here EXCEPT !.ok = FALSE]
                    ELSE [here EXCEPT !.number_chunks = 0, !.tabled_chunks = 0]
               ELSE IF u.ok THEN z ELSE u
             usable(d, e) == IF d.ok THEN d ELSE e
             tw == Reader!PositionAt(f, s.tell)
             tp == RP!PositionAt(f, s.tell)
             dw == Reader!decode_chunk_table(tw, here, at)
             dp == RP!decode_chunk_table(tp, here, at)
             uw == usable(dw, Reader!recover_chunk_table(dw, at))
             up == usable(dp, RP!recover_chunk_table(dp, at))
             gw == Reader!start_growable_table(here, at)
             gp == RP!start_growable_table(here, at)
  <2>1. Reader!read_chunk_table(f, s) = From(tw, gw, uw, Reader!SeekStream(uw, at))
    BY ONLY DEF Reader!read_chunk_table, Reader!Then
  <2>2. RP!read_chunk_table(f, s) = From(tp, gp, up, RP!SeekStream(up, at))
    BY ONLY DEF RP!read_chunk_table, RP!Then
  <2>3. tw = tp
    BY SameFile
  <2> HIDE DEF From, at, here, usable, tw, tp
  <2>4. dw = dp /\ gw = gp
    BY ONLY <1>3, <1>4, <2>3
  <2> HIDE DEF dw, dp, gw, gp
  <2>5. uw = up
    BY ONLY <1>5, <2>4
  <2> HIDE DEF uw, up
  <2>6. Reader!SeekStream(uw, at) = RP!SeekStream(up, at)
    BY ONLY <1>1, <2>5
  <2> QED BY ONLY <2>1, <2>2, <2>3, <2>4, <2>5, <2>6
<1>7. ASSUME NEW f, NEW s PROVE Reader!init_dec(f, s) = RP!init_dec(f, s)
  <2> DEFINE first(t, b) == [t EXCEPT !.current_chunk = 0,
                                      !.chunk_size = IF b THEN t.chunk_totals[1] ELSE @]
             started(t) == [t EXCEPT !.point_start = t.tell, !.readers = "NULL"]
             From(t, b) == IF s.number_chunks # U32_MAX THEN started(s)
                           ELSE IF t.ok THEN started(first(t, b)) ELSE t
             tw == Reader!read_chunk_table(f, s)
             tp == RP!read_chunk_table(f, s)
  <2>1. Reader!init_dec(f, s) = From(tw, Reader!chunk_is_tabled(tw, 0))
    BY ONLY DEF Reader!init_dec, Reader!Then
  <2>2. RP!init_dec(f, s) = From(tp, RP!chunk_is_tabled(tp, 0))
    BY ONLY DEF RP!init_dec, RP!Then
  <2>3. tw = tp
    BY <1>6
  <2> HIDE DEF From, tw, tp
  <2>4. Reader!chunk_is_tabled(tw, 0) = RP!chunk_is_tabled(tp, 0)
    BY ONLY <1>2, <2>3
  <2> QED BY ONLY <2>1, <2>2, <2>3, <2>4
<1> QED BY ONLY <1>1, <1>2, <1>7

LEMMA SameReads ==
    \A f, s, gap, lucky : Reader!laz_readpoint_read(f, s, gap, lucky)
                            = RP!laz_readpoint_read(f, s, gap, lucky)
<1>1. /\ \A s, i : Reader!at_tabled_start(s, i) = RP!at_tabled_start(s, i)
      /\ \A s : Reader!note_chunk_start(s) = RP!note_chunk_start(s)
      /\ \A s : Reader!size_from_table(s) = RP!size_from_table(s)
  BY ONLY SameReaderTables DEF Reader!at_tabled_start, RP!at_tabled_start,
     Reader!note_chunk_start, RP!note_chunk_start, Reader!size_from_table, RP!size_from_table
<1>2. \A f, s : Reader!open_next_chunk(f, s) = RP!open_next_chunk(f, s)
  BY ONLY <1>1, SameReaderTables DEF Reader!open_next_chunk, RP!open_next_chunk,
                                    Reader!Then, RP!Then
<1>3. \A f, s : Reader!InChunk(f, s) = RP!InChunk(f, s)
  BY ONLY SameFile DEF Reader!InChunk, RP!InChunk
<1>4. \A f, s, gap, first : Reader!decode_coded(f, s, gap, first) = RP!decode_coded(f, s, gap, first)
  BY ONLY DEF Reader!decode_coded, RP!decode_coded, Reader!InChunk, RP!InChunk,
              Reader!Chunks, RP!Chunks, Reader!GARBAGE, RP!GARBAGE
<1>5. \A f, s, gap, lucky : Reader!load_chunk(f, s, gap, lucky) = RP!load_chunk(f, s, gap, lucky)
  BY ONLY DEF Reader!load_chunk, RP!load_chunk, Reader!InChunk, RP!InChunk,
              Reader!Chunks, RP!Chunks, Reader!GARBAGE, RP!GARBAGE
<1>6. \A f, s, lucky : Reader!decode_layered(f, s, lucky) = RP!decode_layered(f, s, lucky)
  BY ONLY <1>3, SameFile DEF Reader!decode_layered, RP!decode_layered
<1>7. \A f, s, gap, lucky : Reader!decode_point(f, s, gap, lucky) = RP!decode_point(f, s, gap, lucky)
  BY ONLY <1>4, <1>5, <1>6 DEF Reader!decode_point, RP!decode_point
<1>8. \A s : Reader!point_is_whole(s) = RP!point_is_whole(s)
  BY ONLY DEF Reader!point_is_whole, RP!point_is_whole
<1>9. \A f, s : Reader!read_raw(f, s) = RP!read_raw(f, s)
  BY ONLY SameFile DEF Reader!read_raw, RP!read_raw
<1> SUFFICES ASSUME NEW f, NEW s, NEW gap, NEW lucky
             PROVE  Reader!laz_readpoint_read(f, s, gap, lucky)
                      = RP!laz_readpoint_read(f, s, gap, lucky)
  OBVIOUS
<1> DEFINE begun == [s EXCEPT !.ok = TRUE]
           Opening(t) == IF s.chunk_count = s.chunk_size THEN t ELSE begun
           Counting(t) == [t EXCEPT !.chunk_count = (@ + 1) % (U32_MAX + 1)]
           Going(t, u) == IF t.ok THEN u ELSE t
           From(k, lost, raw, t, u) ==
             IF ~k THEN raw
             ELSE IF lost THEN [begun EXCEPT !.ok = FALSE]
             ELSE Going(t, u)
           Tableless(null, b) == s.chunk_totals # null /\ ~b
           ow == Opening(Reader!open_next_chunk(f, begun))
           op == Opening(RP!open_next_chunk(f, begun))
           dw == Going(ow, Reader!decode_point(f, Counting(ow), gap, lucky))
           dp == Going(op, RP!decode_point(f, Counting(op), gap, lucky))
           lw == Tableless(Reader!NULL, Reader!chunk_is_tabled(s, s.current_chunk))
           lp == Tableless(RP!NULL, RP!chunk_is_tabled(s, s.current_chunk))
           rw == Reader!point_is_whole(Reader!read_raw(f, begun))
           rr == RP!point_is_whole(RP!read_raw(f, begun))
<1>10. Reader!laz_readpoint_read(f, s, gap, lucky)
         = From(Reader!Compressed(f), lw, rw, dw, Reader!point_is_whole(dw))
  BY ONLY DEF Reader!laz_readpoint_read, Reader!Then
<1>11. RP!laz_readpoint_read(f, s, gap, lucky)
         = From(RP!Compressed(f), lp, rr, dp, RP!point_is_whole(dp))
  BY ONLY DEF RP!laz_readpoint_read, RP!Then
<1> HIDE DEF begun, Opening, Counting, Going, From, Tableless
<1>12. ow = op /\ lw = lp /\ rw = rr
  BY ONLY <1>2, <1>8, <1>9, SameFile, SameReaderTables
<1> HIDE DEF ow, op, lw, lp, rw, rr
<1>13. dw = dp
  BY ONLY <1>7, <1>12
<1> HIDE DEF dw, dp
<1>14. Reader!point_is_whole(dw) = RP!point_is_whole(dp) /\ Reader!Compressed(f) = RP!Compressed(f)
  BY ONLY <1>8, <1>13, SameFile
<1> QED BY ONLY <1>10, <1>11, <1>12, <1>13, <1>14

LEMMA SameSeeks ==
    \A f, s, c, t : Reader!laz_readpoint_seek(f, s, c, t) = RP!laz_readpoint_seek(f, s, c, t)
<1>1. \A s, i, l, u : Reader!search_chunk_table(s, i, l, u) = RP!search_chunk_table(s, i, l, u)
  BY ONLY DEF Reader!search_chunk_table, RP!search_chunk_table, Reader!Max, RP!Max
<1>2. \A f, s, c : Reader!jump_to_chunk(f, s, c) = RP!jump_to_chunk(f, s, c)
  BY ONLY SameReaderTables DEF Reader!jump_to_chunk, RP!jump_to_chunk, Reader!Then, RP!Then
<1>3. \A f, s, c, t : Reader!seek_by_table(f, s, c, t) = RP!seek_by_table(f, s, c, t)
  BY ONLY <1>1, <1>2, SameReaderTables DEF Reader!seek_by_table, RP!seek_by_table
<1>4. \A f, s, c, t : Reader!seek_from_start(f, s, c, t) = RP!seek_from_start(f, s, c, t)
  BY ONLY SameReaderTables DEF Reader!seek_from_start, RP!seek_from_start, Reader!Then, RP!Then
<1> SUFFICES ASSUME NEW f, NEW s, NEW c, NEW t
             PROVE  Reader!laz_readpoint_seek(f, s, c, t) = RP!laz_readpoint_seek(f, s, c, t)
  OBVIOUS
<1> DEFINE begun == [s EXCEPT !.ok = TRUE]
           Opening(u) == IF begun.point_start # 0 THEN begun
                         ELSE IF u.ok THEN [u EXCEPT !.chunk_count = 0] ELSE u
           stop(u) == [state |-> u, delta |-> 0]
           From(k, there, u, tabled, plan, other) ==
             IF ~f.seekable THEN stop([begun EXCEPT !.ok = FALSE])
             ELSE IF ~k THEN stop(IF c = t THEN begun ELSE there)
             ELSE IF ~u.ok THEN stop(u)
             ELSE IF tabled THEN plan ELSE other
           Tabled(u, null) == u.chunk_starts # null
           at == begun.point_start + t
           ow == Opening(Reader!init_dec(f, begun))
           op == Opening(RP!init_dec(f, begun))
<1>5. Reader!laz_readpoint_seek(f, s, c, t)
        = From(Reader!Compressed(f), Reader!SeekStream(begun, at), ow, Tabled(ow, Reader!NULL),
               Reader!seek_by_table(f, ow, c, t), Reader!seek_from_start(f, ow, c, t))
  BY ONLY DEF Reader!laz_readpoint_seek, Reader!Then
<1>6. RP!laz_readpoint_seek(f, s, c, t)
        = From(RP!Compressed(f), RP!SeekStream(begun, at), op, Tabled(op, RP!NULL),
               RP!seek_by_table(f, op, c, t), RP!seek_from_start(f, op, c, t))
  BY ONLY DEF RP!laz_readpoint_seek, RP!Then
<1> HIDE DEF begun, Opening, stop, From, Tabled, at
<1>7. /\ ow = op /\ Reader!Compressed(f) = RP!Compressed(f)
      /\ Reader!SeekStream(begun, at) = RP!SeekStream(begun, at) /\ Reader!NULL = RP!NULL
  BY ONLY SameFile, SameReaderTables
<1> HIDE DEF ow, op
<1>8. /\ Reader!seek_by_table(f, ow, c, t) = RP!seek_by_table(f, op, c, t)
      /\ Reader!seek_from_start(f, ow, c, t) = RP!seek_from_start(f, op, c, t)
      /\ Tabled(ow, Reader!NULL) = Tabled(op, RP!NULL)
  BY ONLY <1>3, <1>4, <1>7
<1> QED BY ONLY <1>5, <1>6, <1>7, <1>8

LEMMA SameReader ==
    /\ \A f : Reader!Opened(f) = RP!Opened(f)
    /\ Reader!Reader_read <=> RP!Reader_read
    /\ \A t : Reader!Reader_seek(t) <=> RP!Reader_seek(t)
    /\ Reader!PassOver <=> RP!PassOver
    /\ Reader!SeekDone <=> RP!SeekDone
<1>1. \A f : Reader!Opened(f) = RP!Opened(f)
  BY ONLY SameFile DEF Reader!Opened, RP!Opened
<1>2. /\ Reader!Bounded <=> RP!Bounded
      /\ Reader!reader_next <=> RP!reader_next
      /\ \A s : Reader!Worked(s) = RP!Worked(s)
  BY ONLY SameReads DEF Reader!Bounded, RP!Bounded, Reader!reader_next, RP!reader_next,
                        Reader!Worked, RP!Worked
<1>3. Reader!Reader_read <=> RP!Reader_read
  BY ONLY <1>2, SameFile DEF Reader!Reader_read, RP!Reader_read
<1>4. \A t : Reader!Reader_seek(t) <=> RP!Reader_seek(t)
  BY ONLY <1>2, SameFile, SameSeeks DEF Reader!Reader_seek, RP!Reader_seek
<1>5. Reader!PassOver <=> RP!PassOver
  BY ONLY <1>2, SameFile DEF Reader!PassOver, RP!PassOver
<1>6. Reader!SeekDone <=> RP!SeekDone
  BY ONLY SameFile DEF Reader!SeekDone, RP!SeekDone
<1> QED BY ONLY <1>1, <1>3, <1>4, <1>5, <1>6

-----------------------------------------------------------------------------
(* Sums, and a division. *)

\* What adds up step by step is the sum.
LEMMA AddsUp ==
    ASSUME NEW first, NEW d, NEW n \in Nat, Len(d) = n, NEW g, RP!InSteps(g, first, d, n)
    PROVE  Reader!Sums(first, d) = g
<1>1. g = RP!Sums(first, d)
  BY TheirAssumptions, RP!SumsOfSteps
<1> QED BY <1>1, SameFile

LEMMA Divides ==
    ASSUME NEW s \in Nat \ {0}, NEW q \in Nat, NEW x \in Nat, q * s <= x, x < (q + 1) * s
    PROVE  x \div s = q
OBVIOUS

LEMMA Multiples ==
    ASSUME NEW s \in Nat, NEW m \in Nat, NEW n \in Nat
    PROVE  /\ m * s \in Nat /\ (m + 1) * s = m * s + s
           /\ m <= n => m * s <= n * s
OBVIOUS

\* Nothing adds up to nothing.
LEMMA NoSum == Reader!Sums(0, <<>>) = [i \in 0 .. 0 |-> 0]
<1> DEFINE g == [i \in 0 .. 0 |-> 0]
<1>1. g = [i \in 0 .. 0 |-> g[i]] /\ g[0] = 0 /\ Len(<<>>) = 0 /\ 0 \in Nat
  OBVIOUS
<1>2. \A i \in 1 .. 0 : g[i] = g[i - 1] + <<>>[i]
  OBVIOUS
<1> HIDE DEF g
<1>3. RP!InSteps(g, 0, <<>>, 0)
  BY ONLY <1>1, <1>2 DEF RP!InSteps
<1>4. Reader!Sums(0, <<>>) = g
  BY ONLY <1>1, <1>3, AddsUp
<1> QED BY <1>4 DEF g

\* No table is a table without rows.
LEMMA NoTableIsATable ==
    ASSUME NEW disk, Len(disk) \in Nat,
           NEW kind \in {"interrupted", "misplaced", "unreadable", "entries"}
    PROVE  Reader!IsTable(NoTable(disk, kind)) /\ NoTable(disk, kind) \in Tables
<1> DEFINE t == NoTable(disk, kind)
           sum == Reader!Sums(0, <<>>)
           end == Len(disk)
<1>1. sum = [i \in 0 .. 0 |-> 0]
  BY NoSum
<1>2. /\ sum \in [0 .. 0 -> Nat] /\ sum[0] = 0
      /\ sum \in UNION {[0 .. m -> Nat] : m \in Nat}
  BY ONLY <1>1
<1>3. t = [kind |-> kind, deltas |-> <<>>, sizes |-> <<>>, totals |-> sum, behind |-> end]
  BY DEF NoTable
<1>4. /\ <<>> \in Seq(Int) /\ <<>> \in Seq(0 .. U32_MAX) /\ Len(<<>>) = 0
      /\ DOMAIN <<>> = 1 .. 0 /\ 0 < U32_MAX
  BY TheirAssumptions
<1> HIDE DEF t, sum, end
<1>5. /\ t.kind = kind /\ t.deltas = <<>> /\ t.sizes = <<>> /\ t.totals = sum
      /\ t.behind = end
  BY ONLY <1>3
<1>6. end \in Nat
  BY DEF end
<1>7. \A i \in DOMAIN t.sizes : t.totals[i] = t.totals[i - 1] + t.sizes[i]
  BY ONLY <1>4, <1>5
<1>8. Reader!IsTable(t)
  BY <1>2, <1>4, <1>5, <1>6, <1>7 DEF Reader!IsTable
<1>9. t \in Tables
  BY <1>2, <1>3, <1>4, <1>6 DEF Tables
<1> QED BY <1>8, <1>9 DEF t

\* So is what bytes of a point lead to.
LEMMA StraysAreTables ==
    ASSUME NEW disk, Len(disk) \in Nat, NEW remains, NEW strays,
           strays = [p \in 0 .. Len(disk) |-> Stray(disk, remains)]
    PROVE  /\ strays \in UNION {[0 .. n -> Tables] : n \in Nat}
           /\ DOMAIN strays = 0 .. Len(disk)
           /\ \A p \in 0 .. Len(disk) : Reader!IsTable(strays[p])
<1> DEFINE kind == IF remains < 0 THEN "misplaced"
                   ELSE IF remains = 0 THEN "entries" ELSE "unreadable"
           stray == Stray(disk, remains)
           end == Len(disk)
<1>1. kind \in {"interrupted", "misplaced", "unreadable", "entries"}
  OBVIOUS
<1> HIDE DEF kind
<1>2. stray = NoTable(disk, kind)
  BY DEF Stray, kind
<1> HIDE DEF stray
<1>3. Reader!IsTable(stray) /\ stray \in Tables
  BY <1>1, <1>2, NoTableIsATable
<1>4. strays = [p \in 0 .. end |-> stray] /\ end \in Nat
  BY DEF stray
<1> HIDE DEF end
<1>5. strays \in [0 .. end -> Tables]
  BY ONLY <1>3, <1>4
<1>6. /\ strays \in UNION {[0 .. n -> Tables] : n \in Nat} /\ DOMAIN strays = 0 .. end
      /\ \A p \in 0 .. end : Reader!IsTable(strays[p])
  BY ONLY <1>3, <1>4, <1>5
<1> QED BY ONLY <1>6 DEF end

\* What FileOf makes is a record of what the fields of a file are.
Framed(f) ==
    /\ f = [compressor |-> f.compressor, base |-> f.base, counts |-> f.counts,
            firsts |-> f.firsts, starts |-> f.starts, chunk_size |-> f.chunk_size,
            table |-> f.table, strays |-> f.strays,
            seekable |-> f.seekable, end |-> f.end]
    /\ f.table = [kind |-> f.table.kind, deltas |-> f.table.deltas, sizes |-> f.table.sizes,
                  totals |-> f.table.totals, behind |-> f.table.behind]
    /\ f.strays \in UNION {[0 .. n -> Tables] : n \in Nat}

LEMMA FramedIsReadable ==
    ASSUME NEW f, Reader!IsFile(f), Framed(f), Reader!Total(f) <= MaxPoints
    PROVE  f \in Readable
<1> DEFINE code == IF Reader!Compressed(f) THEN 1 ELSE 0
           units == [c \in DOMAIN f.counts |-> f.counts[c] + code]
           n == Len(f.counts)
<1>1. /\ f.compressor \in {"none", "pointwise", "chunked", "layered"}
      /\ f.seekable \in BOOLEAN /\ f.counts \in Seq(Nat)
      /\ f.firsts = Reader!Sums(0, f.counts)
      /\ f.starts = Reader!Sums(f.base + (IF Reader!Chunked(f) THEN 1 ELSE 0), units)
      /\ f.table.kind \in {"interrupted", "misplaced", "unreadable", "entries"}
      /\ f.table.deltas \in Seq(Int) /\ f.table.sizes \in Seq(0 .. U32_MAX)
      /\ f.table.totals \in [0 .. Len(f.table.sizes) -> Nat] /\ f.table.behind \in Nat
      /\ f.chunk_size \in Nat /\ f.base \in Nat /\ f.end \in Nat
  BY DEF Reader!IsFile, Reader!IsTable
<1>2. f.counts \in Seq(Int)
  <2>1. Nat \in SUBSET Int
    OBVIOUS
  <2> QED BY ONLY <1>1, <2>1, TheirAssumptions, WP!WiderSeqs
<1>3. units \in Seq(Int)
  <2>1. n \in Nat /\ DOMAIN f.counts = 1 .. n /\ \A c \in 1 .. n : f.counts[c] \in Int
    BY ONLY <1>2
  <2>2. code \in Int
    OBVIOUS
  <2> HIDE DEF code, n
  <2>3. units \in [1 .. n -> Int]
    BY ONLY <2>1, <2>2
  <2> HIDE DEF units
  <2> QED BY ONLY <2>1, <2>3
<1>4. f.base + (IF Reader!Chunked(f) THEN 1 ELSE 0) \in Int /\ 0 \in Int
  BY ONLY <1>1
<1>5. f.firsts \in Summed /\ f.starts \in Summed
  <2> HIDE DEF units
  <2> QED BY ONLY <1>1, <1>2, <1>3, <1>4 DEF Summed
<1>6. f.table.totals \in UNION {[0 .. m -> Nat] : m \in Nat}
  <2>1. Len(f.table.sizes) \in Nat
    BY ONLY <1>1
  <2> QED BY ONLY <1>1, <2>1
<1>7. f \in [compressor : {"none", "pointwise", "chunked", "layered"},
             base : Nat, counts : Seq(Nat), firsts : Summed, starts : Summed,
             chunk_size : Nat, table : Tables,
             strays : UNION {[0 .. m -> Tables] : m \in Nat},
             seekable : BOOLEAN, end : Nat]
  <2> DEFINE kinds == {"interrupted", "misplaced", "unreadable", "entries"}
             sums == UNION {[0 .. m -> Nat] : m \in Nat}
             table == [kind |-> f.table.kind, deltas |-> f.table.deltas,
                       sizes |-> f.table.sizes, totals |-> f.table.totals,
                       behind |-> f.table.behind]
             astray == UNION {[0 .. m -> Tables] : m \in Nat}
             names == {"none", "pointwise", "chunked", "layered"}
             seqs == Seq(Nat)
             g == [compressor |-> f.compressor, base |-> f.base, counts |-> f.counts,
                   firsts |-> f.firsts, starts |-> f.starts, chunk_size |-> f.chunk_size,
                   table |-> f.table, strays |-> f.strays,
                   seekable |-> f.seekable, end |-> f.end]
  <2>1. f.table.kind \in kinds /\ f.table.totals \in sums
    BY ONLY <1>1, <1>6
  <2> HIDE DEF kinds, sums
  <2>2. table \in [kind : kinds, deltas : Seq(Int), sizes : Seq(0 .. U32_MAX),
                  totals : sums, behind : Nat]
    BY ONLY <1>1, <2>1
  <2>3. f.table = table /\ f = g /\ f.strays \in astray
    BY ONLY Framed(f) DEF Framed
  <2> HIDE DEF table, g, astray
  <2>4. f.table \in Tables
    BY ONLY <2>2, <2>3 DEF Tables, kinds, sums
  <2>5. f.compressor \in names /\ f.counts \in seqs
    BY ONLY <1>1
  <2> HIDE DEF names, seqs
  <2>6. g \in [compressor : names, base : Nat, counts : seqs, firsts : Summed, starts : Summed,
               chunk_size : Nat, table : Tables, strays : astray,
               seekable : BOOLEAN, end : Nat]
    BY ONLY <1>1, <1>5, <2>3, <2>4, <2>5 DEF g
  <2> QED BY ONLY <2>3, <2>6 DEF names, seqs, astray
<1> QED BY <1>7 DEF Readable

-----------------------------------------------------------------------------
(* How a finished file in chunks looks to a reader. *)

\* The n chunks of the file lie between the boundaries b, and the table says so.
Charted(b, n) ==
    LET disk == wp.outstream.disk
        at   == b[n + 1]
        size == wp.chunk_size
        held(i) == b[i + 1] - b[i] - 1
    IN  /\ n \in Nat \ {0} /\ b \in [1 .. n + 1 -> Nat] /\ b[1] = Base + 1
        /\ Base \in Nat \ {0} /\ U32_MAX \in Nat
        /\ Len(disk) \in Nat /\ at + 2 + n <= Len(disk)
        /\ Len(written) = at - (Base + 1) - n
        /\ \/ disk[Base + 1][2] = at
           \/ disk[Base + 1][2] = -1 /\ disk[Len(disk)] = <<"position", at>>
        /\ disk[at + 2][2] = n
        /\ size \in 1 .. U32_MAX
        /\ wp.chunk_sizes \in Seq(1 .. U32_MAX)
        /\ size = U32_MAX => Len(wp.chunk_sizes) = n
        /\ \A i \in 1 .. n :
              /\ held(i) \in 1 .. U32_MAX /\ disk[at + 2 + i][2] = held(i) + 1
              /\ IF size = U32_MAX
                 THEN disk[at + 2 + i][3] = held(i) /\ wp.chunk_sizes[i] = held(i)
                 ELSE held(i) <= size /\ (i < n => held(i) = size)

LEMMA FinishedFileIsCharted ==
    ASSUME written \in Seq(Nat), written # <<>>, Writer!Chunked(layout),
           WP!Filed(layout, wp, written)
    PROVE  \E b, n : Charted(b, n)
<1>1. WP!Chunked(layout) /\ WP!Base = Base
  BY SameContainer
<1>2. PICK b, n : WP!Charted(wp, written, b, n)
  BY <1>1, TheirAssumptions, WP!FiledCharts
<1> DEFINE disk == wp.outstream.disk
           at == b[n + 1]
<1>3. /\ n \in Nat \ {0} /\ b \in [1 .. n + 1 -> Nat] /\ disk \in Seq(WP!Unit)
      /\ WP!Leads(disk, at)
  BY <1>2 DEF WP!Charted
<1>4. Base \in Nat \ {0} /\ U32_MAX \in Nat
  BY TripAssumption DEF Base, Writer!Base
<1>5. Len(disk) \in Nat
  BY ONLY <1>3
<1>6. \/ disk[Base + 1][2] = at
      \/ disk[Base + 1][2] = -1 /\ disk[Len(disk)] = <<"position", at>>
  <2> HIDE DEF disk, at
  <2> QED BY ONLY <1>1, <1>3 DEF WP!Leads, WP!Position
<1>7. Charted(b, n)
  BY <1>1, <1>2, <1>4, <1>5, <1>6 DEF Charted, WP!Charted
<1> QED BY <1>7

\* The points up to each boundary, as a running sum over the chunks.
Upto(b, n) == [i \in 0 .. n |-> b[i + 1] - (Base + 1) - i]

LEMMA ChartedSums ==
    ASSUME NEW b, NEW n, Charted(b, n)
    PROVE  LET a == Upto(b, n)
           IN  /\ a = [i \in 0 .. n |-> a[i]] /\ a \in [0 .. n -> Nat]
               /\ a[0] = 0 /\ a[n] = Len(written) /\ n <= Len(written)
               /\ \A i \in 1 .. n : a[i] = a[i - 1] + (b[i + 1] - b[i] - 1)
               /\ wp.chunk_size # U32_MAX =>
                     \A i \in 0 .. n - 1 : a[i] = i * wp.chunk_size
<1> DEFINE a == Upto(b, n)
           size == wp.chunk_size
           held(i) == b[i + 1] - b[i] - 1
           T == {i \in 0 .. n : a[i] \in Nat /\ a[i] >= i}
           R == {i \in 0 .. n - 1 : a[i] = i * size}
<1>1. /\ n \in Nat \ {0} /\ b \in [1 .. n + 1 -> Nat] /\ b[1] = Base + 1 /\ Base \in Nat
      /\ Len(written) = b[n + 1] - (Base + 1) - n /\ size \in Nat
      /\ \A i \in 1 .. n : held(i) \in 1 .. U32_MAX
      /\ U32_MAX \in Nat
  <2>1. /\ n \in Nat \ {0} /\ b \in [1 .. n + 1 -> Nat] /\ b[1] = Base + 1
        /\ Base \in Nat \ {0} /\ Len(written) = b[n + 1] - (Base + 1) - n
        /\ size \in 1 .. U32_MAX /\ \A i \in 1 .. n : held(i) \in 1 .. U32_MAX
        /\ U32_MAX \in Nat
    BY DEF Charted
  <2> HIDE DEF held, size
  <2> QED BY ONLY <2>1
<1>says. size # U32_MAX => \A i \in 1 .. n : i < n => held(i) = size
  BY DEF Charted
<1>2. a = [i \in 0 .. n |-> a[i]] /\ \A i \in 0 .. n : a[i] = b[i + 1] - (Base + 1) - i
  BY DEF Upto
<1> HIDE DEF a, size
<1>3. a[0] = 0 /\ a[n] = Len(written)
  <2>1. 0 \in 0 .. n /\ n \in 0 .. n /\ 0 + 1 = 1
    BY ONLY <1>1
  <2>2. a[0] = b[1] - (Base + 1) - 0 /\ a[n] = b[n + 1] - (Base + 1) - n
    BY ONLY <1>2, <2>1
  <2> QED BY ONLY <1>1, <2>2
<1>4. ASSUME NEW i \in 1 .. n PROVE a[i] = a[i - 1] + held(i) /\ held(i) \in 1 .. U32_MAX
  <2>1. i - 1 \in 0 .. n /\ i \in 0 .. n /\ (i - 1) + 1 = i /\ i \in 1 .. n + 1 /\ i + 1 \in 1 .. n + 1
    BY ONLY <1>1
  <2>2. b[i] \in Nat /\ b[i + 1] \in Nat
    BY ONLY <1>1, <2>1
  <2>3. a[i] = b[i + 1] - (Base + 1) - i /\ a[i - 1] = b[i] - (Base + 1) - (i - 1)
    BY ONLY <1>2, <2>1
  <2>4. held(i) \in 1 .. U32_MAX
    BY ONLY <1>1
  <2>5. a[i] = a[i - 1] + held(i)
    <3> DEFINE p == b[i]
               q == b[i + 1]
    <3>1. p \in Nat /\ q \in Nat /\ i \in Nat /\ Base \in Nat
      BY ONLY <1>1, <2>2
    <3> HIDE DEF p, q
    <3>2. q - (Base + 1) - i = (p - (Base + 1) - (i - 1)) + (q - p - 1)
      BY ONLY <3>1
    <3> QED BY ONLY <2>3, <3>2 DEF p, q
  <2> QED BY ONLY <2>4, <2>5
<1> HIDE DEF held
<1>5. 0 .. n \subseteq T
  <2>1. 0 \in T
    BY ONLY <1>1, <1>3
  <2>2. ASSUME NEW i \in 1 .. n, i - 1 \in T PROVE i \in T
    <3>1. a[i - 1] \in Nat /\ a[i - 1] >= i - 1
      BY ONLY <2>2
    <3>3. i \in Nat /\ held(i) \in 1 .. U32_MAX /\ U32_MAX \in Nat
      BY ONLY <1>1, <1>4
    <3>4. a[i] = a[i - 1] + held(i)
      BY ONLY <1>4
    <3>2. a[i] \in Nat /\ a[i] >= i
      BY ONLY <3>1, <3>3, <3>4
    <3> QED BY <3>2
  <2>3. n \in Nat
    BY <1>1
  <2> HIDE DEF T
  <2> QED BY ONLY <2>1, <2>2, <2>3, TheirAssumptions, WP!UpTo
<1>6. a \in [0 .. n -> Nat] /\ n <= Len(written)
  <2>1. \A i \in 0 .. n : a[i] \in Nat /\ a[i] >= i
    BY ONLY <1>5
  <2>2. n \in 0 .. n
    BY ONLY <1>1
  <2> QED BY ONLY <1>1, <1>2, <1>3, <2>1, <2>2
<1>7. ASSUME size # U32_MAX PROVE \A i \in 0 .. n - 1 : a[i] = i * size
  <2> DEFINE m == n - 1
  <2>1. 0 \in R /\ m \in Nat
    BY ONLY <1>1, <1>3
  <2>2. ASSUME NEW i \in 1 .. m, i - 1 \in R PROVE i \in R
    <3>1. i \in 1 .. n /\ i < n /\ i \in 0 .. n - 1 /\ i - 1 \in Nat /\ (i - 1) + 1 = i
      BY ONLY <1>1
    <3>2. a[i] = (i - 1) * size + size
      BY <1>4, <1>7, <1>says, <2>2, <3>1
    <3>3. i * size = (i - 1) * size + size
      BY ONLY <1>1, <3>1, Multiples
    <3> QED BY <3>1, <3>2, <3>3
  <2> HIDE DEF R, m
  <2>3. 0 .. m \subseteq R
    BY ONLY <2>1, <2>2, TheirAssumptions, WP!UpTo
  <2> QED BY <2>3 DEF R, m
<1> QED BY <1>2, <1>3, <1>4, <1>6, <1>7 DEF a, size, held
\* What each chunk holds, the units it takes, and what the table states of it.
Held(b, n)  == [i \in 1 .. n |-> b[i + 1] - b[i] - 1]
Units(b, n) == [i \in 1 .. n |-> Held(b, n)[i] + 1]
Ones(n)     == [i \in 1 .. n |-> 1]
Sizes(b, n) == IF wp.chunk_size = U32_MAX THEN Held(b, n) ELSE Ones(n)

LEMMA ChartedCounts ==
    ASSUME NEW b, NEW n, Charted(b, n), Writer!Chunked(layout)
    PROVE  CountsOf = Held(b, n)
<1> DEFINE a == Upto(b, n)
           size == wp.chunk_size
           held(i) == b[i + 1] - b[i] - 1
           sizes == wp.chunk_sizes
           m == Len(written)
<1>1. /\ n \in Nat \ {0} /\ U32_MAX \in Nat /\ size \in 1 .. U32_MAX
      /\ sizes \in Seq(1 .. U32_MAX) /\ (size = U32_MAX => Len(sizes) = n)
      /\ \A i \in 1 .. n : held(i) \in 1 .. U32_MAX
  BY DEF Charted
<1>says. \A i \in 1 .. n : IF size = U32_MAX THEN sizes[i] = held(i)
                           ELSE held(i) <= size /\ (i < n => held(i) = size)
  BY DEF Charted
<1>2. /\ a = [i \in 0 .. n |-> a[i]] /\ a \in [0 .. n -> Nat] /\ a[0] = 0 /\ a[n] = m
      /\ \A i \in 1 .. n : a[i] = a[i - 1] + held(i)
      /\ size # U32_MAX => \A i \in 0 .. n - 1 : a[i] = i * size
  BY ChartedSums
<1>3. Held(b, n) = [i \in 1 .. n |-> held(i)]
  BY DEF Held
<1> HIDE DEF a, held, m
<1>4. CASE size = U32_MAX
  <2>1. \A i \in 1 .. n : sizes[i] = held(i)
    BY ONLY <1>says, <1>4
  <2>2. Reader!Sums(0, sizes) = a
    <3>1. n \in Nat /\ Len(sizes) = n /\ \A i \in 1 .. n : a[i] = a[i - 1] + sizes[i]
      BY ONLY <1>1, <1>2, <1>4, <2>1
    <3>2. a = [i \in 0 .. n |-> a[i]] /\ a[0] = 0
      BY ONLY <1>2
    <3>3. RP!InSteps(a, 0, sizes, n)
      BY ONLY <3>1, <3>2 DEF RP!InSteps
    <3> HIDE DEF sizes
    <3> QED BY ONLY <3>1, <3>3, AddsUp
  <2>3. m - Reader!Sums(0, sizes)[Len(sizes)] = 0
    BY ONLY <1>1, <1>2, <1>4, <2>2
  <2>4. CountsOf = sizes \o <<>>
    <3> DEFINE open == m - Reader!Sums(0, sizes)[Len(sizes)]
    <3>1. ~(open > 0)
      BY ONLY <2>3
    <3>2. CountsOf = sizes \o (IF open > 0 THEN <<open>> ELSE <<>>)
      BY ONLY <1>4, Writer!Chunked(layout) DEF CountsOf, m
    <3> HIDE DEF open
    <3> QED BY ONLY <3>1, <3>2
  <2>5. sizes \o <<>> = sizes
    BY ONLY <1>1
  <2>6. sizes = [i \in 1 .. n |-> held(i)]
    <3>1. DOMAIN sizes = 1 .. n /\ sizes = [i \in DOMAIN sizes |-> sizes[i]]
      BY ONLY <1>1, <1>4
    <3> QED BY ONLY <2>1, <3>1
  <2> QED BY <1>3, <2>4, <2>5, <2>6
<1>5. CASE size # U32_MAX
  <2> DEFINE k == n - 1
             q == k * size
  <2>1. n - 1 \in Nat /\ k \in Nat /\ n = k + 1 /\ size \in Nat \ {0} /\ n \in 1 .. n /\ k \in 0 .. n - 1
    BY ONLY <1>1
  <2> HIDE DEF k
  <2>2. q \in Nat /\ n * size = q + size /\ (n + 1) * size = (q + size) + size
    <3>1. n * size = k * size + size /\ k * size \in Nat
      BY ONLY <2>1, Multiples
    <3>2. (n + 1) * size = n * size + size
      BY ONLY <1>1, <2>1, Multiples
    <3> QED BY ONLY <3>1, <3>2
  <2>3. m = q + held(n) /\ held(n) \in 1 .. size
    <3>1. a[n] = a[k] + held(n) /\ a[k] = k * size
      <4>1. n - 1 = k
        BY ONLY <2>1
      <4> QED BY ONLY <1>2, <1>5, <2>1, <4>1
    <3>2. held(n) <= size /\ held(n) \in 1 .. U32_MAX
      BY ONLY <1>1, <1>says, <1>5, <2>1
    <3>3. m = q + held(n)
      BY ONLY <1>2, <3>1
    <3> HIDE DEF q
    <3> QED BY ONLY <1>1, <3>2, <3>3
  <2> HIDE DEF q
  <2>4. (m + size - 1) \div size = n
    <3> DEFINE x == m + size - 1
    <3>1. x \in Nat /\ n * size <= x /\ x < (n + 1) * size
      BY ONLY <2>1, <2>2, <2>3
    <3> HIDE DEF x
    <3>2. x \div size = n
      BY ONLY <1>1, <2>1, <3>1, Divides
    <3> QED BY <3>2 DEF x
  <2>5. ASSUME NEW c \in 1 .. n
        PROVE  held(c) = IF c * size <= m THEN size ELSE m - (c - 1) * size
    <3>1. CASE c = n
      <4>1. c * size = q + size /\ (c - 1) * size = q
        BY ONLY <2>1, <2>2, <3>1 DEF q
      <4>2. held(c) = held(n)
        BY <3>1
      <4> QED BY ONLY <2>1, <2>2, <2>3, <4>1, <4>2
    <3>2. CASE c # n
      <4>1. c \in Nat /\ c <= k /\ c < n
        BY ONLY <2>1, <3>2
      <4>2. c * size <= k * size /\ c * size \in Nat
        BY ONLY <2>1, <4>1, Multiples
      <4>3. c * size <= m
        BY ONLY <2>1, <2>2, <2>3, <4>2 DEF q
      <4>4. held(c) = size
        BY ONLY <1>says, <1>5, <4>1
      <4> QED BY ONLY <4>3, <4>4
    <3> QED BY ONLY <3>1, <3>2
  <2>6. CountsOf = [c \in 1 .. (m + size - 1) \div size |->
                      IF c * size <= m THEN size ELSE m - (c - 1) * size]
    BY <1>5 DEF CountsOf, m
  <2> QED BY <1>3, <2>4, <2>5, <2>6
<1> QED BY <1>4, <1>5
\* What the table states is what the chunks come to.
LEMMA ChartedTable ==
    ASSUME NEW b, NEW n, Charted(b, n), Writer!Chunked(layout), NEW remains,
           NEW t, t = TableOf(wp.outstream.disk, remains)
    PROVE  t = [kind |-> "entries", deltas |-> Units(b, n), sizes |-> Sizes(b, n),
                totals |-> Reader!Sums(0, Sizes(b, n)), behind |-> Len(wp.outstream.disk)]
<1> DEFINE disk == wp.outstream.disk
           at == b[n + 1]
           held(i) == b[i + 1] - b[i] - 1
           size == wp.chunk_size
           last == Len(disk)
           there(i) == at + 2 + i <= last
           d == [i \in 1 .. n |-> IF there(i) THEN disk[at + 2 + i][2] ELSE remains]
           z == [i \in 1 .. n |-> IF there(i) /\ size = U32_MAX THEN disk[at + 2 + i][3] ELSE 1]
<1>1. /\ n \in Nat \ {0} /\ Base \in Nat /\ b \in [1 .. n + 1 -> Nat] /\ b[1] = Base + 1
      /\ last \in Nat /\ at + 2 + n <= last
      /\ \/ disk[Base + 1][2] = at
         \/ disk[Base + 1][2] = -1 /\ disk[last] = <<"position", at>>
      /\ disk[at + 2][2] = n
      /\ \A i \in 1 .. n : disk[at + 2 + i][2] = held(i) + 1
      /\ \A i \in 1 .. n : size = U32_MAX => disk[at + 2 + i][3] = held(i)
  BY DEF Charted
<1>2. at \in Nat /\ at > Base
  <2>1. LET a == Upto(b, n) IN a[n] = Len(written) /\ n <= Len(written) /\ a \in [0 .. n -> Nat]
    BY ChartedSums
  <2>2. Upto(b, n)[n] = at - (Base + 1) - n /\ Upto(b, n)[n] \in Nat
    BY <1>1, <2>1 DEF Upto
  <2>3. n + 1 \in 1 .. n + 1
    BY <1>1
  <2>4. at \in Nat
    BY ONLY <1>1, <2>3
  <2>5. n \in Nat /\ Base \in Nat
    BY ONLY <1>1
  <2> HIDE DEF at
  <2> QED BY ONLY <2>2, <2>4, <2>5
<1>a. at \in Nat /\ last \in Nat /\ n \in Nat /\ at + 2 + n <= last
  BY ONLY <1>1, <1>2
<1>3. (\A i \in 1 .. n : there(i)) /\ at + 2 <= last
  <2> HIDE DEF at, last
  <2> QED BY ONLY <1>a
<1>5. t = TableAt(disk, at, remains)
  <2>1. at # Base /\ at # -1 /\ Base # -1
    <3>1. Base \in Nat /\ at > Base
      BY ONLY <1>1, <1>2
    <3> HIDE DEF at
    <3> QED BY ONLY <1>a, <3>1
  <2>2. CASE disk[Base + 1][2] = at
    BY ONLY <2>1, <2>2, Writer!Chunked(layout), t = TableOf(disk, remains) DEF TableOf
  <2>3. CASE disk[Base + 1][2] = -1 /\ disk[last] = <<"position", at>>
    BY ONLY <2>1, <2>3, Writer!Chunked(layout), t = TableOf(disk, remains) DEF TableOf
  <2>4. disk[Base + 1][2] = at \/ (disk[Base + 1][2] = -1 /\ disk[last] = <<"position", at>>)
    BY ONLY <1>1
  <2> HIDE DEF disk, at, last
  <2> QED BY ONLY <2>2, <2>3, <2>4
<1>6. t = [kind |-> "entries", deltas |-> d, sizes |-> z, totals |-> Reader!Sums(0, z),
           behind |-> last]
  BY ONLY <1>1, <1>3, <1>5 DEF TableAt
<1>b. last = Len(wp.outstream.disk)
  OBVIOUS
<1> HIDE DEF disk, at, last, size
<1>7. d = [i \in 1 .. n |-> held(i) + 1]
  BY ONLY <1>1, <1>3
<1>8. z = IF size = U32_MAX THEN [i \in 1 .. n |-> held(i)] ELSE [i \in 1 .. n |-> 1]
  BY ONLY <1>1, <1>3
<1> HIDE DEF d, z, there
<1>9. /\ Held(b, n) = [i \in 1 .. n |-> held(i)]
      /\ \A i \in 1 .. n : Held(b, n)[i] = held(i)
  BY DEF Held
<1>10. d = Units(b, n)
  BY ONLY <1>7, <1>9 DEF Units
<1>11. z = Sizes(b, n)
  BY ONLY <1>8, <1>9 DEF size, Sizes, Ones
<1> QED BY ONLY <1>6, <1>10, <1>11, <1>b
\* The points and units of each chunk, and the table's sizes, summed up.
LEMMA ChartedTotals ==
    ASSUME NEW b, NEW n, Charted(b, n)
    PROVE  /\ Held(b, n) \in Seq(1 .. U32_MAX) /\ Len(Held(b, n)) = n
           /\ DOMAIN Held(b, n) = 1 .. n
           /\ Units(b, n) \in Seq(Int) /\ Len(Units(b, n)) = n
           /\ Ones(n) \in Seq({1}) /\ Len(Ones(n)) = n
           /\ Reader!Sums(0, Held(b, n)) = Upto(b, n)
           /\ Reader!Sums(0, Ones(n)) = [i \in 0 .. n |-> i]
           /\ Reader!Sums(Base + 1, Units(b, n))[0] = Base + 1
           /\ Reader!Sums(Base + 1, Units(b, n))[n] = b[n + 1]
<1> DEFINE held == Held(b, n)
           ones == Ones(n)
           units == Units(b, n)
           a == Upto(b, n)
           g == [i \in 0 .. n |-> b[i + 1]]
           o == [i \in 0 .. n |-> i]
<1>1. /\ n \in Nat \ {0} /\ Base \in Nat /\ b \in [1 .. n + 1 -> Nat] /\ b[1] = Base + 1
      /\ U32_MAX \in Nat
      /\ \A i \in 1 .. n : b[i + 1] - b[i] - 1 \in 1 .. U32_MAX
  BY DEF Charted
<1>2. /\ held = [i \in 1 .. n |-> b[i + 1] - b[i] - 1]
      /\ \A i \in 1 .. n : held[i] = b[i + 1] - b[i] - 1
  BY DEF Held
<1>3. /\ a = [i \in 0 .. n |-> a[i]] /\ a[0] = 0
      /\ \A i \in 1 .. n : a[i] = a[i - 1] + (b[i + 1] - b[i] - 1)
  BY ChartedSums
<1> HIDE DEF held, a
<1>4. held \in Seq(1 .. U32_MAX) /\ Len(held) = n /\ DOMAIN held = 1 .. n
  <2> DEFINE e(i) == b[i + 1] - b[i] - 1
             S == 1 .. U32_MAX
  <2>1. \A i \in 1 .. n : e(i) \in S
    BY <1>1
  <2>2. held = [i \in 1 .. n |-> e(i)]
    BY <1>2
  <2>3. n \in Nat
    BY <1>1
  <2> HIDE DEF e, S
  <2>4. LET q == [i \in 1 .. n |-> e(i)] IN q \in Seq(S) /\ Len(q) = n /\ DOMAIN q = 1 .. n
    BY ONLY <2>1, <2>3
  <2> QED BY <2>2, <2>4 DEF S
<1>5. /\ units \in Seq(Int) /\ Len(units) = n /\ ones \in Seq({1}) /\ Len(ones) = n
      /\ \A i \in 1 .. n : units[i] = held[i] + 1 /\ ones[i] = 1
  <2>1. \A i \in 1 .. n : held[i] \in Int
    BY ONLY <1>1, <1>4
  <2>2. n \in Nat
    BY <1>1
  <2>3. units = [i \in 1 .. n |-> held[i] + 1] /\ ones = [i \in 1 .. n |-> 1]
    BY DEF Units, Ones, held
  <2> HIDE DEF units, ones
  <2> QED BY ONLY <2>1, <2>2, <2>3
<1> HIDE DEF units, ones
<1>6. Reader!Sums(0, held) = a
  <2>1. RP!InSteps(a, 0, held, n)
    BY ONLY <1>2, <1>3 DEF RP!InSteps
  <2>2. n \in Nat
    BY <1>1
  <2> QED BY ONLY <1>4, <2>1, <2>2, AddsUp
<1>7. Reader!Sums(0, ones) = o
  <2>1. RP!InSteps(o, 0, ones, n)
    BY ONLY <1>1, <1>5 DEF RP!InSteps
  <2>2. n \in Nat
    BY <1>1
  <2> HIDE DEF o
  <2> QED BY ONLY <1>5, <2>1, <2>2, AddsUp
<1>8. Reader!Sums(Base + 1, units) = g
  <2>1. ASSUME NEW i \in 1 .. n PROVE g[i] = g[i - 1] + units[i]
    <3>1. /\ i \in 0 .. n /\ i - 1 \in 0 .. n /\ (i - 1) + 1 = i
          /\ i \in 1 .. n + 1 /\ i + 1 \in 1 .. n + 1
      BY ONLY <1>1
    <3>2. b[i] \in Nat /\ b[i + 1] \in Nat /\ units[i] = (b[i + 1] - b[i] - 1) + 1
      BY ONLY <1>1, <1>2, <1>5, <3>1
    <3>3. g[i] = b[i + 1] /\ g[i - 1] = b[i]
      BY ONLY <3>1
    <3> QED BY ONLY <3>2, <3>3
  <2>2. g = [i \in 0 .. n |-> g[i]] /\ g[0] = Base + 1
    BY ONLY <1>1
  <2>3. n \in Nat
    BY <1>1
  <2> HIDE DEF g
  <2>4. RP!InSteps(g, Base + 1, units, n)
    BY ONLY <2>1, <2>2 DEF RP!InSteps
  <2> QED BY ONLY <1>5, <2>3, <2>4, AddsUp
<1>9. g[0] = Base + 1 /\ g[n] = b[n + 1]
  BY ONLY <1>1
<1> HIDE DEF g, o
<1>10. o = [i \in 0 .. n |-> i]
  BY DEF o
<1> QED BY <1>4, <1>5, <1>6, <1>7, <1>8, <1>9, <1>10 DEF held, units, ones, a
LEMMA ChartedFile ==
    ASSUME NEW b, NEW n, Charted(b, n), Writer!Chunked(layout), Len(written) < U32_MAX,
           NEW remains, NEW f, f = FileOf(wp.outstream.disk, remains)
    PROVE  /\ Reader!IsFile(f) /\ Reader!Intact(f) /\ Reader!Total(f) = Len(written)
           /\ Len(written) <= MaxPoints => f \in Readable
<1> DEFINE held == Held(b, n)
           ones == Ones(n)
           units == Units(b, n)
           size == wp.chunk_size
           sizes == Sizes(b, n)
           a == Upto(b, n)
           at == b[n + 1]
           end == Len(wp.outstream.disk)
           starts == Reader!Sums(Base + 1, units)
           totals == Reader!Sums(0, sizes)
           kind == layout.compressor
           table == [kind |-> "entries", deltas |-> units, sizes |-> sizes, totals |-> totals,
                     behind |-> end]
           strays == [p \in 0 .. end |-> Stray(wp.outstream.disk, remains)]
<1>1. kind \in {"chunked", "layered"} /\ Writer!Compressed(layout)
  BY DEF Writer!Chunked, Writer!Compressed
<1>2. CountsOf = held
  BY ChartedCounts
<1>3. TableOf(wp.outstream.disk, remains) = table
  BY ChartedTable
<1>4. /\ held \in Seq(1 .. U32_MAX) /\ Len(held) = n /\ DOMAIN held = 1 .. n
      /\ units \in Seq(Int) /\ Len(units) = n
      /\ ones \in Seq({1}) /\ Len(ones) = n
      /\ Reader!Sums(0, held) = a /\ Reader!Sums(0, ones) = [i \in 0 .. n |-> i]
      /\ starts[0] = Base + 1 /\ starts[n] = at
  BY ChartedTotals
<1>5. /\ n \in Nat \ {0} /\ Base \in Nat \ {0} /\ U32_MAX \in Nat /\ size \in 1 .. U32_MAX
      /\ end \in Nat /\ at + 2 + n <= end
      /\ \A i \in 1 .. n : held[i] = b[i + 1] - b[i] - 1
      /\ b \in [1 .. n + 1 -> Nat] /\ Len(written) = at - (Base + 1) - n
  BY DEF Charted, Held
<1>says. size # U32_MAX => \A i \in 1 .. n : held[i] <= size /\ (i < n => held[i] = size)
  BY DEF Charted, Held
<1>6. /\ a \in [0 .. n -> Nat] /\ a[0] = 0 /\ n <= Len(written) /\ Len(written) < U32_MAX
      /\ \A i \in 1 .. n : a[i] = a[i - 1] + (b[i + 1] - b[i] - 1)
  BY ChartedSums
<1>all. a[n] = Len(written)
  BY ChartedSums
<1>7. f = [compressor |-> kind, base |-> Base, counts |-> held, firsts |-> a,
           starts |-> starts, chunk_size |-> size, table |-> table, strays |-> strays,
           seekable |-> TRUE, end |-> end]
  <2>1. [c \in DOMAIN held |-> held[c] + 1] = units
    BY <1>4 DEF Units
  <2> HIDE DEF held, units, table, strays, a, starts, end, kind
  <2>2. f = [compressor |-> kind, base |-> Base, counts |-> held,
             firsts |-> Reader!Sums(0, held),
             starts |-> Reader!Sums(Base + 1, [c \in DOMAIN held |-> held[c] + 1]),
             chunk_size |-> size, table |-> table, strays |-> strays,
             seekable |-> TRUE, end |-> end]
    BY ONLY <1>1, <1>2, <1>3, Writer!Chunked(layout), f = FileOf(wp.outstream.disk, remains)
       DEF FileOf, kind, end, strays
  <2> QED BY ONLY <1>4, <2>1, <2>2 DEF starts
<1>8. /\ held \in Seq(Nat) /\ \A c \in 1 .. n : held[c] >= 1
      /\ sizes \in Seq(0 .. U32_MAX) /\ Len(sizes) = n /\ DOMAIN sizes = 1 .. n
  <2>1. \A c \in 1 .. n : held[c] \in 1 .. U32_MAX
    BY DEF Charted, Held
  <2>2. held \in Seq(1 .. U32_MAX) /\ Len(held) = n /\ ones \in Seq({1}) /\ Len(ones) = n
    BY <1>4
  <2>3. sizes = IF size = U32_MAX THEN held ELSE ones
    BY DEF Sizes
  <2>4. n \in Nat /\ U32_MAX \in Nat /\ 1 \in 0 .. U32_MAX /\ 1 .. U32_MAX \subseteq 0 .. U32_MAX
        /\ 1 .. U32_MAX \subseteq Nat
    <3>1. n \in Nat /\ U32_MAX \in Nat \ {0}
      BY ONLY <1>5, TripAssumption
    <3> QED BY ONLY <3>1
  <2> HIDE DEF held, ones, sizes, size
  <2>5. ones \in Seq(0 .. U32_MAX) /\ held \in Seq(0 .. U32_MAX) /\ held \in Seq(Nat)
    BY ONLY <2>2, <2>4, TheirAssumptions, WP!WiderSeqs
  <2> QED BY ONLY <2>1, <2>2, <2>3, <2>4, <2>5
<1>9. /\ totals \in [0 .. n -> Nat] /\ totals[0] = 0
      /\ \A i \in 1 .. n : totals[i] = totals[i - 1] + sizes[i]
  <2>1. CASE size = U32_MAX
    <3>1. sizes = held /\ totals = a
      BY <1>4, <2>1 DEF Sizes
    <3> HIDE DEF sizes, totals, held, a
    <3> QED BY ONLY <1>5, <1>6, <3>1
  <2>2. CASE size # U32_MAX
    <3>1. sizes = ones /\ totals = [i \in 0 .. n |-> i]
      BY <1>4, <2>2 DEF Sizes
    <3>2. \A i \in 1 .. n : ones[i] = 1
      BY DEF Ones
    <3>3. n \in Nat
      BY <1>5
    <3> HIDE DEF sizes, totals, ones
    <3> QED BY ONLY <3>1, <3>2, <3>3
  <2> QED BY <2>1, <2>2
<1>10. Base < end /\ at <= end /\ at > Base
  <2> HIDE DEF at, end
  <2>1. at \in Nat
    BY ONLY <1>5 DEF at
  <2> QED BY ONLY <1>5, <1>6, <2>1
<1>stray. /\ strays \in UNION {[0 .. m -> Tables] : m \in Nat} /\ DOMAIN strays = 0 .. end
          /\ \A p \in 0 .. end : Reader!IsTable(strays[p])
  <2>1. Len(wp.outstream.disk) \in Nat
    BY ONLY <1>5 DEF end
  <2>2. strays = [p \in 0 .. Len(wp.outstream.disk) |-> Stray(wp.outstream.disk, remains)]
    BY ONLY DEF strays, end
  <2> HIDE DEF strays
  <2> QED BY ONLY <2>1, <2>2, StraysAreTables DEF end
<1> HIDE DEF held, ones, units, size, sizes, a, at, end, starts, totals, kind, strays
<1>11. /\ f.compressor = kind /\ f.base = Base /\ f.counts = held /\ f.firsts = a
       /\ f.starts = starts /\ f.chunk_size = size /\ f.seekable = TRUE /\ f.end = end
       /\ f.table.kind = "entries" /\ f.table.deltas = units /\ f.table.sizes = sizes
       /\ f.table.totals = totals /\ f.table.behind = end /\ f.strays = strays
  BY ONLY <1>7
<1>12. Reader!Chunked(f) /\ Reader!Compressed(f) /\ (Reader!Adaptive(f) <=> size = U32_MAX)
  BY ONLY <1>1, <1>11 DEF Reader!Chunked, Reader!Compressed, Reader!Adaptive
<1>13. Reader!Sums(Base + 1, [c \in DOMAIN held |-> held[c] + 1]) = starts
  BY ONLY <1>4 DEF starts, units, held, Units
<1>14. Reader!IsFile(f)
  <2>1. Reader!Sums(0, held) = a
    BY <1>4
  <2>2. Len(held) = n /\ n >= 1 /\ n < U32_MAX /\ Len(units) = n
    <3>1. Len(written) \in Int
      BY ONLY <1>5, <1>10 DEF at
    <3> QED BY ONLY <1>4, <1>5, <1>6, <3>1
  <2>3. size # U32_MAX =>
          /\ size \in 1 .. U32_MAX - 1
          /\ \A c \in 1 .. n - 1 : held[c] = size
          /\ held[n] <= size
    BY ONLY <1>5, <1>says
  <2>4. size \in Nat
    BY ONLY <1>5
  <2>5. units \in Seq(Int)
    BY <1>4
  <2>6. f.starts = Reader!Sums(f.base + (IF Reader!Chunked(f) THEN 1 ELSE 0),
                     [c \in DOMAIN f.counts |-> f.counts[c] + (IF Reader!Compressed(f) THEN 1 ELSE 0)])
    BY ONLY <1>11, <1>12, <1>13
  <2>7. /\ f.compressor \in {"none", "pointwise", "chunked", "layered"} /\ f.seekable \in BOOLEAN
        /\ f.counts \in Seq(Nat) /\ Len(f.counts) >= 1
        /\ \A c \in 1 .. Len(f.counts) : f.counts[c] >= 1
        /\ f.firsts = Reader!Sums(0, f.counts)
    BY ONLY <1>1, <1>8, <1>11, <2>1, <2>2
  <2>8. /\ f.table.kind \in {"interrupted", "misplaced", "unreadable", "entries"}
        /\ f.table.deltas \in Seq(Int) /\ f.table.sizes \in Seq(0 .. U32_MAX)
        /\ Len(f.table.deltas) < U32_MAX /\ Len(f.table.sizes) = Len(f.table.deltas)
        /\ f.table.behind \in Nat
    BY ONLY <1>5, <1>8, <1>11, <2>2, <2>5
  <2>9. /\ f.table.totals \in [0 .. Len(f.table.sizes) -> Nat] /\ f.table.totals[0] = 0
        /\ \A i \in DOMAIN f.table.sizes :
              f.table.totals[i] = f.table.totals[i - 1] + f.table.sizes[i]
    BY ONLY <1>8, <1>9, <1>11
  <2>10. f.chunk_size \in Nat /\ f.base \in Nat /\ f.end \in Nat /\ f.base < f.end
    BY ONLY <1>5, <1>10, <1>11, <2>4
  <2>11. ~Reader!Adaptive(f) =>
           /\ f.chunk_size \in 1 .. U32_MAX - 1
           /\ \A c \in 1 .. Len(f.counts) - 1 : f.counts[c] = f.chunk_size
           /\ f.counts[Len(f.counts)] <= f.chunk_size
    BY ONLY <1>11, <1>12, <2>2, <2>3
  <2>12. Reader!IsTable(f.table)
    BY ONLY <2>8, <2>9 DEF Reader!IsTable
  <2>13. DOMAIN f.strays = 0 .. f.end /\ \A p \in 0 .. f.end : Reader!IsTable(f.strays[p])
    BY ONLY <1>11, <1>stray
  <2> QED BY ONLY <1>12, <2>6, <2>7, <2>10, <2>11, <2>12, <2>13 DEF Reader!IsFile
<1>15. Reader!Intact(f)
  <2>1. Reader!DataEnd(f) = at
    BY ONLY <1>4, <1>11 DEF Reader!DataEnd
  <2>2. Reader!ChunksStart(f) = Base + 1
    BY ONLY <1>4, <1>11 DEF Reader!ChunksStart
  <2>3. f.starts = Reader!Sums(Reader!ChunksStart(f), f.table.deltas)
    BY ONLY <1>11, <2>2 DEF starts
  <2>4. Reader!Adaptive(f) => f.table.sizes = f.counts
    BY ONLY <1>11, <1>12 DEF sizes, Sizes, size, held
  <2>5. Reader!TableIsTrue(f)
    BY ONLY <1>11, <1>12, <2>3, <2>4 DEF Reader!TableIsTrue
  <2>6. f.base # 0 /\ f.end >= at
    <3>1. at \in Int
      BY ONLY <1>5 DEF at
    <3> QED BY ONLY <1>5, <1>10, <1>11, <3>1
  <2> QED BY ONLY <1>11, <2>1, <2>5, <2>6 DEF Reader!Intact
<1>16. Reader!Total(f) = Len(written)
  BY ONLY <1>4, <1>11, <1>all DEF Reader!Total
<1>17. Framed(f)
  BY ONLY <1>7, <1>11, <1>stray DEF Framed, table
<1> QED BY <1>14, <1>15, <1>16, <1>17, FramedIsReadable

-----------------------------------------------------------------------------
(* How a finished file of one stretch of points looks to a reader. *)

LEMMA OneSum ==
    ASSUME NEW first \in Int, NEW x \in Int
    PROVE  Reader!Sums(first, <<x>>) = [i \in 0 .. 1 |-> IF i = 0 THEN first ELSE first + x]
<1> DEFINE g == [i \in 0 .. 1 |-> IF i = 0 THEN first ELSE first + x]
<1>1. g = [i \in 0 .. 1 |-> g[i]] /\ g[0] = first
  OBVIOUS
<1>2. \A i \in 1 .. 1 : g[i] = g[i - 1] + <<x>>[i]
  OBVIOUS
<1>3. Len(<<x>>) = 1 /\ 1 \in Nat
  OBVIOUS
<1> HIDE DEF g
<1>4. RP!InSteps(g, first, <<x>>, 1)
  BY ONLY <1>1, <1>2 DEF RP!InSteps
<1>5. Reader!Sums(first, <<x>>) = g
  BY ONLY <1>3, <1>4, AddsUp
<1> QED BY <1>5 DEF g

LEMMA PlainFile ==
    ASSUME written \in Seq(Nat), written # <<>>, ~Writer!Chunked(layout),
           layout \in Layouts, WP!Filed(layout, wp, written),
           NEW remains, NEW f, f = FileOf(wp.outstream.disk, remains)
    PROVE  /\ Reader!IsFile(f) /\ Reader!Intact(f) /\ Reader!Total(f) = Len(written)
           /\ Len(written) <= MaxPoints => f \in Readable
<1> DEFINE kind == layout.compressor
           n == Len(written)
           code == IF Writer!Compressed(layout) THEN 1 ELSE 0
           end == Len(wp.outstream.disk)
           size == wp.chunk_size
           firsts == Reader!Sums(0, <<n>>)
           starts == Reader!Sums(Base, <<n + code>>)
           totals == Reader!Sums(0, <<>>)
           table == [kind |-> "unreadable", deltas |-> <<>>, sizes |-> <<>>,
                     totals |-> totals, behind |-> end]
           strays == [p \in 0 .. end |-> Stray(wp.outstream.disk, remains)]
<1>1. ~WP!Chunked(layout) /\ WP!Base = Base /\ layout.chunk_size \in 0 .. U32_MAX
      /\ (WP!Compressed(layout) <=> Writer!Compressed(layout))
      /\ kind \in {"chunked", "layered", "none", "pointwise"}
  BY SameContainer, TripAssumption
<1>2. size \in 1 .. U32_MAX /\ end = Base + n + code
  BY <1>1, TheirAssumptions, WP!FiledPlainly
<1>3. /\ n \in Nat \ {0} /\ code \in {0, 1} /\ Base \in Nat \ {0} /\ U32_MAX \in Nat \ {0, 1}
      /\ n + code \in Nat \ {0} /\ size \in Nat /\ end \in Nat /\ Base < end
  <2>1. n \in Nat \ {0}
    OBVIOUS
  <2>2. Base \in Nat \ {0} /\ U32_MAX \in Nat \ {0, 1}
    BY TripAssumption DEF Base, Writer!Base
  <2> QED BY ONLY <1>2, <2>1, <2>2
<1>4. CountsOf = <<n>>
  BY DEF CountsOf
<1>5. TableOf(wp.outstream.disk, remains) = table
  BY DEF TableOf, NoTable
<1>6. [c \in DOMAIN <<n>> |-> <<n>>[c] + code] = <<n + code>>
  OBVIOUS
<1>7. f = [compressor |-> kind, base |-> Base, counts |-> <<n>>, firsts |-> firsts,
           starts |-> starts, chunk_size |-> size, table |-> table, strays |-> strays,
           seekable |-> TRUE, end |-> end]
  <2> HIDE DEF table, strays, code, n
  <2>1. f = [compressor |-> kind, base |-> Base, counts |-> <<n>>,
             firsts |-> Reader!Sums(0, <<n>>),
             starts |-> Reader!Sums(Base, [c \in DOMAIN <<n>> |-> <<n>>[c] + code]),
             chunk_size |-> size, table |-> table, strays |-> strays,
             seekable |-> TRUE, end |-> end]
    BY ONLY <1>4, <1>5, ~Writer!Chunked(layout), f = FileOf(wp.outstream.disk, remains)
       DEF FileOf, kind, end, size, code, strays
  <2> QED BY ONLY <1>6, <2>1 DEF firsts, starts
<1>8. Reader!IsTable(table) /\ table = NoTable(wp.outstream.disk, "unreadable")
  <2>1. table = NoTable(wp.outstream.disk, "unreadable")
    BY DEF NoTable
  <2> HIDE DEF table
  <2> QED BY <1>3, <2>1, NoTableIsATable
<1>stray. /\ strays \in UNION {[0 .. m -> Tables] : m \in Nat} /\ DOMAIN strays = 0 .. end
          /\ \A p \in 0 .. end : Reader!IsTable(strays[p])
  <2>1. Len(wp.outstream.disk) \in Nat
    BY ONLY <1>3 DEF end
  <2>2. strays = [p \in 0 .. Len(wp.outstream.disk) |-> Stray(wp.outstream.disk, remains)]
    BY ONLY DEF strays, end
  <2> HIDE DEF strays
  <2> QED BY ONLY <2>1, <2>2, StraysAreTables DEF end
<1>9. starts[0] = Base /\ starts[1] = Base + (n + code)
  <2> HIDE DEF n, code
  <2>1. starts = [i \in 0 .. 1 |-> IF i = 0 THEN Base ELSE Base + (n + code)]
    BY ONLY <1>3, OneSum DEF starts
  <2> QED BY ONLY <2>1
<1>10. kind \notin {"chunked", "layered"} /\ (code = IF kind # "none" THEN 1 ELSE 0)
  BY DEF Writer!Chunked, Writer!Compressed
<1> HIDE DEF kind, n, code, end, size, firsts, starts, totals, table, strays
<1>11. /\ f.compressor = kind /\ f.base = Base /\ f.counts = <<n>> /\ f.firsts = firsts
       /\ f.starts = starts /\ f.chunk_size = size /\ f.seekable = TRUE /\ f.end = end
       /\ f.table = table /\ f.strays = strays
  BY ONLY <1>7
<1>12. ~Reader!Chunked(f) /\ (Reader!Compressed(f) <=> kind # "none")
  BY ONLY <1>10, <1>11 DEF Reader!Chunked, Reader!Compressed
<1>13. Reader!IsFile(f)
  <2>1. f.starts = Reader!Sums(f.base + (IF Reader!Chunked(f) THEN 1 ELSE 0),
                     [c \in DOMAIN f.counts |-> f.counts[c] + (IF Reader!Compressed(f) THEN 1 ELSE 0)])
    <3>1. Base + 0 = Base
      BY ONLY <1>3
    <3>2. f.base + (IF Reader!Chunked(f) THEN 1 ELSE 0) = Base
      BY ONLY <1>11, <1>12, <3>1
    <3>3. (IF Reader!Compressed(f) THEN 1 ELSE 0) = code
      BY ONLY <1>10, <1>12
    <3> QED BY ONLY <1>6, <1>11, <3>2, <3>3 DEF starts
  <2>2. /\ <<n>> \in Seq(Nat) /\ Len(<<n>>) = 1 /\ \A c \in 1 .. 1 : <<n>>[c] >= 1
        /\ 1 >= 1
    BY ONLY <1>3
  <2>3. /\ f.compressor \in {"none", "pointwise", "chunked", "layered"} /\ f.seekable \in BOOLEAN
        /\ f.counts \in Seq(Nat) /\ Len(f.counts) = 1 /\ Len(f.counts) >= 1
        /\ \A c \in 1 .. Len(f.counts) : f.counts[c] >= 1
        /\ f.firsts = Reader!Sums(0, f.counts)
    BY ONLY <1>1, <1>11, <2>2 DEF firsts
  <2>4. Reader!IsTable(f.table)
    BY ONLY <1>8, <1>11
  <2>5. DOMAIN f.strays = 0 .. f.end /\ \A p \in 0 .. f.end : Reader!IsTable(f.strays[p])
    BY ONLY <1>11, <1>stray
  <2>6. f.chunk_size \in Nat /\ f.base \in Nat /\ f.end \in Nat /\ f.base < f.end
    BY ONLY <1>3, <1>11
  <2> QED BY ONLY <1>12, <2>1, <2>3, <2>4, <2>5, <2>6 DEF Reader!IsFile
<1>14. Reader!Intact(f)
  <2>1. Reader!DataEnd(f) = Base + (n + code)
    <3>1. Len(<<n>>) = 1
      OBVIOUS
    <3> QED BY ONLY <1>9, <1>11, <3>1 DEF Reader!DataEnd
  <2>2. Reader!TableIsTrue(f)
    BY ONLY <1>12 DEF Reader!TableIsTrue
  <2>3. f.base # 0 /\ f.end >= Reader!DataEnd(f)
    <3>1. end >= Base + (n + code)
      BY ONLY <1>2, <1>3 DEF end, n, code
    <3> QED BY ONLY <1>3, <1>11, <2>1, <3>1
  <2> QED BY ONLY <1>11, <2>2, <2>3 DEF Reader!Intact
<1>15. Reader!Total(f) = n
  <2>1. firsts = [i \in 0 .. 1 |-> IF i = 0 THEN 0 ELSE 0 + n] /\ 1 \in 0 .. 1 /\ 0 + n = n
    BY ONLY <1>3, OneSum DEF firsts
  <2>2. Len(<<n>>) = 1 /\ 1 # 0
    OBVIOUS
  <2> QED BY ONLY <1>11, <2>1, <2>2 DEF Reader!Total
<1>16. Framed(f)
  <2>1. f.table = [kind |-> f.table.kind, deltas |-> f.table.deltas, sizes |-> f.table.sizes,
                   totals |-> f.table.totals, behind |-> f.table.behind]
    BY ONLY <1>11 DEF table
  <2> QED BY ONLY <1>7, <1>11, <1>stray, <2>1 DEF Framed
<1> QED BY <1>13, <1>14, <1>15, <1>16, FramedIsReadable DEF n

\* Either way the file is one a reader expects, whatever the layout.
LEMMA FiledIsIntact ==
    ASSUME written \in Seq(Nat), written # <<>>, Len(written) < U32_MAX,
           layout \in Layouts, WP!Filed(layout, wp, written),
           NEW remains, NEW f, f = FileOf(wp.outstream.disk, remains)
    PROVE  /\ Reader!IsFile(f) /\ Reader!Intact(f) /\ Reader!Total(f) = Len(written)
           /\ Len(written) <= MaxPoints => f \in Readable
<1>1. CASE Writer!Chunked(layout)
  <2>1. PICK b, n : Charted(b, n)
    BY <1>1, FinishedFileIsCharted
  <2> QED BY <1>1, <2>1, ChartedFile
<1>2. CASE ~Writer!Chunked(layout)
  BY <1>2, PlainFile
<1> QED BY <1>1, <1>2

-----------------------------------------------------------------------------
(* What was finished is intact. *)

\* The writer keeps what it keeps on its own, and what it finished is intact
\* once a reader has it.
Delivered == /\ WP!Keeping
             /\ offered <= MaxPoints
             /\ opened \in BOOLEAN
             /\ FinishedFilesAreIntact

LEMMA InitDelivered == Init => Delivered
<1> SUFFICES ASSUME Init PROVE Delivered
  OBVIOUS
<1>1. Writer!Init /\ opened = FALSE
  BY DEF Init
<1>2. WP!Init /\ offered = 0
  BY <1>1, SameWriter DEF WP!Init
<1>3. WP!Keeping
  BY <1>2, TheirAssumptions, WP!InitKeeping
<1>4. offered <= MaxPoints
  <2>1. MaxPoints \in Nat
    BY TripAssumption
  <2> QED BY ONLY <1>2, <2>1
<1>5. FinishedFilesAreIntact
  BY ONLY <1>1 DEF FinishedFilesAreIntact, Finished
<1> QED BY <1>1, <1>3, <1>4, <1>5 DEF Delivered

\* No step of a caller who reads changes the file.
LEMMA ReadsLeaveTheFile ==
    ASSUME Read
    PROVE  UNCHANGED <<writers, file, opened>>
BY DEF Read, Reader!Reader_read, Reader!Reader_seek, Reader!PassOver, Reader!SeekDone

LEMMA OpenedFile ==
    ASSUME MaxPoints < U32_MAX, WP!Keeping, offered <= MaxPoints, Open, state = "done"
    PROVE  /\ Reader!IsFile(file') /\ Reader!Intact(file') /\ file' \in Readable
           /\ Reader!Total(file') = Len(written) /\ file'.seekable
<1>1. written # <<>> /\ \E remains \in Remains : file' = FileOf(wp.outstream.disk, remains)
  BY DEF Open
<1>2. PICK remains \in Remains : file' = FileOf(wp.outstream.disk, remains)
  BY <1>1
<1>3. WP!Filed(layout, wp, written) /\ WP!Bookkeeping
  BY DEF WP!Keeping, WP!Going
<1>4. /\ layout \in Layouts /\ written \in Seq(Nat) /\ offered \in Nat
      /\ Len(written) <= offered
  BY <1>3 DEF WP!Bookkeeping
<1>5. Len(written) <= MaxPoints /\ Len(written) < U32_MAX
  <2>1. MaxPoints \in Nat /\ U32_MAX \in Nat /\ Len(written) \in Nat
    BY <1>4, TripAssumption
  <2> QED BY ONLY <1>4, <2>1, MaxPoints < U32_MAX, offered <= MaxPoints
<1>6. file'.seekable = TRUE
  BY <1>2 DEF FileOf
<1> QED BY <1>1, <1>2, <1>3, <1>4, <1>5, <1>6, FiledIsIntact

LEMMA NextDelivered ==
    ASSUME MaxPoints < U32_MAX, Delivered, [Next]_vars
    PROVE  Delivered'
<1>1. WP!Modest
  BY DEF WP!Modest
<1>2. WP!Keeping /\ offered <= MaxPoints /\ opened \in BOOLEAN
  BY DEF Delivered
<1>3. CASE Write
  <2>1. WP!Next /\ opened' = FALSE
    BY <1>2, <1>3, SameWriter DEF Write
  <2>2. WP!Keeping'
    BY <1>1, <1>2, <2>1, TheirAssumptions, WP!NextKeeping
  <2>3. offered' <= MaxPoints
    <3>1. offered \in Nat /\ MaxPoints \in Nat
      BY <1>2, TripAssumption DEF WP!Keeping, WP!Going, WP!Bookkeeping
    <3>2. offered' = offered \/ (offered < MaxPoints /\ offered' = offered + 1)
      BY <2>1 DEF WP!Next, WP!Writer_write, WP!Writer_chunk, WP!Writer_done, WP!Refuse,
                  WP!Dropped
    <3> QED BY ONLY <1>2, <3>1, <3>2
  <2> QED BY <2>1, <2>2, <2>3 DEF Delivered, FinishedFilesAreIntact, Finished
<1>4. ASSUME UNCHANGED writers PROVE WP!Keeping' /\ offered' <= MaxPoints
  <2>1. UNCHANGED <<layout, wp, state, index, offered, written, wout>>
    BY <1>4 DEF writers
  <2>2. [WP!Next]_(WP!wvars)
    BY <2>1 DEF WP!wvars
  <2> QED BY <1>1, <1>2, <2>1, <2>2, TheirAssumptions, WP!NextKeeping
<1>5. CASE Open
  <2>1. UNCHANGED writers /\ opened' = TRUE
    BY <1>5 DEF Open
  <2>2. state' = state
    BY <2>1 DEF writers
  <2>3. state = "done" => Reader!IsFile(file') /\ Reader!Intact(file')
    BY <1>2, <1>5, OpenedFile
  <2>4. FinishedFilesAreIntact'
    BY <2>2, <2>3 DEF FinishedFilesAreIntact, Finished, Reader!IsFile, Reader!Intact
  <2> QED BY <1>4, <2>1, <2>4 DEF Delivered
<1>6. ASSUME UNCHANGED <<writers, file, opened>> PROVE Delivered'
  <2>1. FinishedFilesAreIntact'
    BY <1>6 DEF Delivered, FinishedFilesAreIntact, Finished, writers
  <2> QED BY <1>2, <1>4, <1>6, <2>1 DEF Delivered
<1>7. CASE Read
  BY <1>6, <1>7, ReadsLeaveTheFile
<1>8. CASE UNCHANGED vars
  BY <1>6, <1>8 DEF vars, readers
<1> QED BY <1>3, <1>5, <1>7, <1>8 DEF Next

\* Whatever the layout, and however often the points are closed into chunks of
\* the caller's choosing, the file that done() returned for is one its reader
\* expects: the table is there, where the position in front of the points or
\* behind the table says, and the boundaries it states are the ones the chunks
\* have (laz_writepoint_done, write_chunk_table, decode_chunk_table).
THEOREM FinishedFilesAreRead ==
    ASSUME MaxPoints < U32_MAX
    PROVE  Spec => []FinishedFilesAreIntact
<1>1. Delivered /\ [Next]_vars => Delivered'
  BY NextDelivered
<1>2. Delivered => FinishedFilesAreIntact
  BY DEF Delivered
<1> QED BY <1>1, <1>2, InitDelivered, PTL DEF Spec
-----------------------------------------------------------------------------
(* What is read of it. *)

\* Asked of the bounds on a caller: nothing counted reaches U32_MAX, the count
\* that stands for no chunks read yet and for chunks of sizes that vary.
FarFromLimits ==
    /\ MaxCount \in Nat /\ MaxChunks \in Nat
    /\ MaxCount + 1 < U32_MAX /\ MaxChunks + 1 + GROWTH + 1 < U32_MAX
    /\ MaxPoints + GROWTH + 1 < U32_MAX /\ MaxCount + MaxPoints < U32_MAX

LEMMA TheirLimits ==
    ASSUME FarFromLimits
    PROVE  RP!FarFromLimits /\ MaxPoints < U32_MAX
<1>1. MaxPoints \in Nat /\ GROWTH \in Nat /\ U32_MAX \in Nat
  BY TripAssumption
<1>2. /\ MaxCount \in Nat /\ MaxChunks \in Nat
      /\ MaxCount + 1 < U32_MAX /\ MaxChunks + 1 + GROWTH + 1 < U32_MAX
      /\ MaxPoints + GROWTH + 1 < U32_MAX /\ MaxCount + MaxPoints < U32_MAX
  BY DEF FarFromLimits
<1>3. ASSUME NEW f \in Readable PROVE RP!Modest(f) /\ MaxCount + RP!Total(f) < U32_MAX
  <2>1. RP!Total(f) <= MaxPoints
    BY SameFile DEF Readable
  <2>2. RP!Total(f) \in Nat
    BY TheirAssumptions, RP!NoMoreChunksThanPoints
  <2> QED BY ONLY <1>1, <1>2, <2>1, <2>2 DEF RP!Modest
<1>4. \A n \in {} \cup {1} : MaxCount + n < U32_MAX /\ MaxChunks + n + GROWTH + 1 < U32_MAX
  BY ONLY <1>2
<1>5. MaxPoints < U32_MAX
  BY ONLY <1>1, <1>2
<1> QED BY <1>2, <1>3, <1>4, <1>5 DEF RP!FarFromLimits

\* A reader nobody has asked for anything.
Unread == rindex = 0 /\ pc = "idle" /\ left = 0 /\ goal = 0 /\ done = 0

\* The reader of a finished file, which is one the reader's proofs are about.
ReadRight == /\ Reader!Intact(file) /\ Reader!Total(file) = Len(written)
             /\ RP!Kept /\ RP!Hands
             /\ file.seekable /\ pc # "read_into"

\* What the writer finished is read right.
Received == /\ Delivered
            /\ ~opened => Unread
            /\ Finished => ReadRight

LEMMA InitReceived == Init => Received
<1> SUFFICES ASSUME Init PROVE Received
  OBVIOUS
<1>1. opened = FALSE /\ Unread
  BY DEF Init, Unread
<1> QED BY <1>1, InitDelivered DEF Received, Finished

\* A step of the reader is one the reader's proofs are about, or a seek to a
\* point that was written.
LEMMA ReadsAreTheirs ==
    ASSUME Read, state \in {"done", "failed", "dropped"}
    PROVE  /\ RP!Next
           /\ \/ RP!Reader_read \/ RP!PassOver \/ RP!SeekDone
              \/ \E t \in Nat : t < Len(written) /\ RP!Reader_seek(t)
<1>1. Sought(state) \subseteq Nat
  BY TripAssumption
<1>2. \/ RP!Reader_read \/ RP!PassOver \/ RP!SeekDone
      \/ \E t \in Nat : t < Len(written) /\ RP!Reader_seek(t)
  BY <1>1, SameReader DEF Read
<1> QED BY <1>2 DEF RP!Next

LEMMA ReadKeepsRight ==
    ASSUME FarFromLimits, ReadRight, Read, written \in Seq(Nat),
           state \in {"done", "failed", "dropped"}
    PROVE  ReadRight'
<1>1. RP!FarFromLimits
  BY TheirLimits
<1>2. UNCHANGED <<file, written>>
  BY ReadsLeaveTheFile DEF writers
<1>3. RP!Intact(file) /\ RP!Total(file) = Len(written) /\ RP!Kept /\ RP!Hands
  BY SameFile, SameTruth DEF ReadRight
<1>4. RP!Hands'
  BY <1>1, <1>3, ReadsAreTheirs, TheirAssumptions, RP!NextHands
<1>5. RP!Kept'
  <2>1. CASE RP!Reader_read \/ RP!PassOver \/ RP!SeekDone
    BY <1>1, <1>3, <2>1, TheirAssumptions, RP!OthersKept
  <2>2. ASSUME NEW t \in Nat, t < Len(written), RP!Reader_seek(t) PROVE RP!Kept'
    <3>1. t <= RP!Total(file)
      <4>1. Len(written) \in Nat
        OBVIOUS
      <4> QED BY ONLY <1>3, <2>2, <4>1
    <3> QED BY <1>1, <1>3, <2>2, <3>1, TheirAssumptions, RP!SeekKept
  <2> QED BY <2>1, <2>2, ReadsAreTheirs
<1>6. pc' # "read_into"
  BY ReadsAreTheirs DEF ReadRight, RP!Reader_read, RP!PassOver, RP!SeekDone, RP!Reader_seek
<1>7. (Reader!Intact(file) /\ Reader!Total(file) = Len(written))'
  BY <1>2 DEF ReadRight, Reader!Intact, Reader!Total
<1> QED BY <1>2, <1>4, <1>5, <1>6, <1>7 DEF ReadRight

LEMMA OpenIsRight ==
    ASSUME FarFromLimits, Received, Open, state = "done"
    PROVE  ReadRight'
<1>1. UNCHANGED writers /\ opened' = TRUE /\ ~opened
      /\ rp' = Reader!Opened(file') /\ out' = Reader!Nothing
      /\ UNCHANGED <<rindex, pc, left, goal, done>>
  BY DEF Open
<1>2. /\ Reader!IsFile(file') /\ Reader!Intact(file') /\ file' \in Readable
      /\ Reader!Total(file') = Len(written) /\ file'.seekable
  BY TheirLimits, OpenedFile DEF Received, Delivered
<1>3. written' = written
  BY <1>1 DEF writers
<1>4. RP!FarFromLimits
  BY TheirLimits
<1>5. Unread'
  BY <1>1 DEF Received, Unread
<1>6. rp' = RP!Opened(file')
  BY <1>1, SameReader
<1>7. RP!Kept'
  <2>1. RP!Typed(file', RP!Opened(file'))
    BY <1>2, TheirAssumptions, RP!OpenedTyped
  <2>2. RP!Intact(file') /\ RP!Reading(file', RP!Opened(file'), 0, 0)
    BY <1>2, <1>4, SameTruth, TheirAssumptions, RP!OpenedReading
  <2>3. rindex' = 0 /\ pc' = "idle" /\ left' = 0 /\ goal' = 0 /\ done' = 0 /\ 0 + 0 = 0
    BY <1>5 DEF Unread
  <2>4. RP!Typing'
    BY <1>2, <1>6, <2>1, <2>3 DEF RP!Typing
  <2>5. RP!Linked'
    BY <1>6, <2>2, <2>3 DEF RP!Linked
  <2> QED BY <2>3, <2>4, <2>5 DEF RP!Kept
<1>8. RP!Hands'
  BY <1>1 DEF RP!Hands, Reader!Nothing
<1>9. pc' # "read_into"
  BY <1>5 DEF Unread
<1>10. (Reader!Intact(file) /\ Reader!Total(file) = Len(written))'
  BY <1>2, <1>3 DEF Reader!Intact, Reader!Total
<1> QED BY <1>2, <1>7, <1>8, <1>9, <1>10 DEF ReadRight

LEMMA NextReceived ==
    ASSUME FarFromLimits, Received, [Next]_vars
    PROVE  Received'
<1>1. /\ Delivered /\ (~opened => Unread) /\ (Finished => ReadRight)
      /\ opened \in BOOLEAN /\ WP!Keeping
  BY DEF Received, Delivered
<1>2. Delivered'
  BY <1>1, TheirLimits, NextDelivered
<1>3. CASE Write
  <2>1. opened' = FALSE /\ ~opened /\ UNCHANGED readers
    BY <1>1, <1>3 DEF Write
  <2>2. Unread' /\ ~Finished'
    BY <1>1, <2>1 DEF Unread, readers, Finished
  <2> QED BY <1>2, <2>2 DEF Received
<1>4. CASE Open
  <2>1. UNCHANGED writers /\ opened' = TRUE
    BY <1>4 DEF Open
  <2>2. Finished' => ReadRight'
    BY <1>4, <2>1, OpenIsRight DEF Finished, writers
  <2> QED BY <1>2, <2>1, <2>2 DEF Received
<1>5. CASE Read
  <2>1. UNCHANGED <<writers, file, opened>> /\ opened
    BY <1>5, ReadsLeaveTheFile DEF Read
  <2>2. written \in Seq(Nat)
    BY <1>1 DEF WP!Keeping, WP!Going, WP!Bookkeeping
  <2>3. Finished' => ReadRight'
    BY <1>1, <1>5, <2>1, <2>2, ReadKeepsRight DEF Finished, writers
  <2> QED BY <1>2, <2>1, <2>3 DEF Received
<1>6. CASE UNCHANGED vars
  <2>1. UNCHANGED <<written, state, file, rp, rindex, pc, left, goal, done, out, opened>>
    BY <1>6 DEF vars, readers, writers
  <2>2. Unread' = Unread /\ Finished' = Finished
    BY <2>1 DEF Unread, Finished
  <2>3. RP!Kept => RP!Kept'
    BY <2>1 DEF RP!Kept, RP!Typing, RP!Linked
  <2>4. RP!Hands => RP!Hands'
    BY <2>1 DEF RP!Hands
  <2>5. ReadRight => ReadRight'
    <3>1. /\ Reader!Intact(file)' = Reader!Intact(file)
          /\ Reader!Total(file)' = Reader!Total(file)
      BY <2>1
    <3> QED BY <2>1, <2>3, <2>4, <3>1 DEF ReadRight
  <2> QED BY <1>1, <1>2, <2>1, <2>2, <2>5 DEF Received
<1> QED BY <1>3, <1>4, <1>5, <1>6 DEF Next

\* What the reader of a finished file hands out is what was written.
LEMMA ReceivedIsWritten ==
    ASSUME Received, state = "done"
    PROVE  HandsOutWhatWasWritten
<1> SUFFICES ASSUME opened, out.kind = "point", out.index < Len(written)
             PROVE  out.point = written[out.index + 1]
  BY DEF HandsOutWhatWasWritten
<1>1. RP!Hands /\ RP!Total(file) = Len(written)
  BY SameFile DEF Received, Finished, ReadRight
<1>2. out.index \in Nat /\ out.point = out.index
  BY <1>1 DEF RP!Hands
<1>3. WP!Numbered(written, offered) /\ written \in Seq(Nat)
  BY DEF Received, Delivered, WP!Keeping, WP!Going, WP!Bookkeeping
<1>4. /\ Len(written) = offered /\ Len(written) \in Nat
      /\ \A i \in 1 .. offered : written[i] = i - 1
  BY <1>3 DEF WP!Numbered
<1> DEFINE i == out.index
<1>5. i + 1 \in 1 .. offered /\ (i + 1) - 1 = i
  <2>1. i < offered /\ i \in Nat /\ offered \in Nat
    BY <1>2, <1>4
  <2> HIDE DEF i
  <2> QED BY ONLY <2>1
<1>6. written[i + 1] = (i + 1) - 1
  BY ONLY <1>4, <1>5
<1> QED BY ONLY <1>2, <1>5, <1>6

\* The way there and back: of a file that done() returned for, a reader who reads
\* and seeks as it likes is handed the points that write() took, each under the
\* index it was written with, and no garbage (laz_writepoint_write,
\* laz_writepoint_done, laz_readpoint_read, laz_readpoint_seek).
THEOREM FinishedFilesHandBackTheirPoints ==
    ASSUME FarFromLimits
    PROVE  Spec => [](state = "done" => HandsOutWhatWasWritten)
<1>1. Received /\ [Next]_vars => Received'
  BY NextReceived
<1>2. Received => (state = "done" => HandsOutWhatWasWritten)
  BY ReceivedIsWritten
<1> QED BY <1>1, <1>2, InitReceived, PTL DEF Spec

\* And none of them is out of reach: no read of a point of a finished file fails,
\* no seek to one does, and no point passed over on the way
\* (laz_writepoint_done, open_next_chunk, jump_to_chunk).
THEOREM FinishedFilesAreReachable ==
    ASSUME FarFromLimits
    PROVE  Spec => FinishedFilesReadOn
<1> DEFINE Reaches == Finished =>
             /\ Reader!Reader_read /\ rindex < Len(written) => rp'.ok
             /\ \A t \in Sought(state) : t < Len(written) /\ Reader!Reader_seek(t) => rp'.ok
             /\ Reader!PassOver => rp'.ok
<1>1. Received /\ [Next]_vars => Received'
  BY NextReceived
<1>2. Received => Reaches
  <2> SUFFICES ASSUME Received, Finished
               PROVE  /\ Reader!Reader_read /\ rindex < Len(written) => rp'.ok
                      /\ \A t \in Sought(state) :
                             t < Len(written) /\ Reader!Reader_seek(t) => rp'.ok
                      /\ Reader!PassOver => rp'.ok
    OBVIOUS
  <2>1. /\ RP!Intact(file) /\ RP!Total(file) = Len(written) /\ RP!Kept /\ file.seekable
        /\ written \in Seq(Nat)
    BY SameFile, SameTruth DEF Received, Delivered, ReadRight, WP!Keeping, WP!Going, WP!Bookkeeping
  <2>2. Sought(state) \subseteq Nat
    BY TripAssumption DEF Finished
  <2>3. /\ RP!Reader_read /\ rindex < RP!Total(file) => rp'.ok
        /\ RP!PassOver => rp'.ok
        /\ \A t \in Nat : t <= RP!Total(file) /\ RP!Reader_seek(t) => rp'.ok
    BY <2>1, TheirLimits, TheirAssumptions, RP!KeptReaches
  <2>4. \A t \in Nat : t < Len(written) => t <= Len(written)
    <3>1. Len(written) \in Nat
      BY <2>1
    <3> QED BY ONLY <3>1
  <2> QED BY <2>1, <2>2, <2>3, <2>4, SameReader
<1>3. Received /\ [Next]_vars => [Reaches]_vars
  BY <1>2
<1> QED BY <1>1, <1>3, InitReceived, PTL DEF Spec, FinishedFilesReadOn
=============================================================================
