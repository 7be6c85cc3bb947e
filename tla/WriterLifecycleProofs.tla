----------------------- MODULE WriterLifecycleProofs -----------------------
(***************************************************************************)
(* Proofs about the writing front end, whatever the file object raises,    *)
(* wherever close() is interrupted and whatever is done after.             *)
(*                                                                         *)
(* The writer under it is the one of WrittenFileProofs until its points    *)
(* are finished (Unfinished), and what was there from the start is there   *)
(* until then.  From then on (Finished) nothing is staged any more, and    *)
(* the file is written by the front end alone: behind its end, and in the  *)
(* units in front of the points.                                           *)
(***************************************************************************)
EXTENDS WriterLifecycle, TLAPS

WP == INSTANCE WrittenFileProofs

LEMMA LiteralsAreStrings == "header" \in STRING /\ "lascompatible" \in STRING /\ "laszip" \in STRING
BY LifecycleAssumption

LEMMA PrefaceIs ==
    /\ Preface = <<Blank, <<"lascompatible", 0>>, <<"laszip", -1>>>> /\ Len(Preface) = 3
    /\ Preface[1] = Blank /\ Preface[2] = <<"lascompatible", 0>>
    /\ Preface[3] = <<"laszip", -1>>
BY DEF Preface

LEMMA Headers ==
    ASSUME NEW a \in Int, NEW b \in Int, NEW c \in Int, NEW d \in Int, NEW e \in Int
    PROVE  /\ <<"header", a, b, c, d, e>> \in Seq(STRING \cup Int)
           /\ <<"lascompatible", a>> \in Seq(STRING \cup Int)
           /\ <<"laszip", a>> \in Seq(STRING \cup Int)
<1> DEFINE S == STRING \cup Int
<1>1. /\ "header" \in S /\ "lascompatible" \in S /\ "laszip" \in S
      /\ a \in S /\ b \in S /\ c \in S /\ d \in S /\ e \in S
  BY LiteralsAreStrings
<1> HIDE DEF S
<1>2. <<"header", a, b, c, d, e>> \in Seq(S)
  BY ONLY <1>1
<1>3. <<"lascompatible", a>> \in Seq(S) /\ <<"laszip", a>> \in Seq(S)
  BY ONLY <1>1
<1> QED BY <1>2, <1>3 DEF S

LEMMA TheirAssumptions ==
    /\ U32_MAX \in Nat \ {0}
    /\ \A l \in Layouts : /\ l.compressor \in {"none", "pointwise", "chunked", "layered"}
                         /\ l.chunk_size \in 0 .. U32_MAX
                         /\ l.seekable \in BOOLEAN
    /\ Preface \in Seq(Seq(STRING \cup Int)) /\ Len(Preface) > 0
    /\ \A i \in DOMAIN Preface : Preface[i][1] \notin {"raw", "encoded"}
    /\ ALLOC \in Nat \ {0} /\ FILE_BUF_SIZE \in Nat \ {0}
    /\ Rooms \subseteq Nat /\ Seeks \subseteq Nat /\ MaxPoints \in Nat
    /\ Ooms \subseteq {"start", "encode", "layer", "table", "ic"}
<1>1. Preface \in Seq(Seq(STRING \cup Int))
  <2> DEFINE S == Seq(STRING \cup Int)
             a == Blank
             b == <<"lascompatible", 0>>
             c == <<"laszip", -1>>
  <2>1. a \in S /\ b \in S /\ c \in S
    <3>1. 0 \in Int /\ -1 \in Int
      OBVIOUS
    <3> QED BY <3>1, Headers DEF Blank
  <2>2. Preface = <<a, b, c>>
    BY DEF Preface
  <2> HIDE DEF S, a, b, c
  <2>3. \A x, y, z \in S : <<x, y, z>> \in Seq(S)
    OBVIOUS
  <2>4. Preface \in Seq(S)
    BY ONLY <2>1, <2>2, <2>3
  <2> QED BY <2>4 DEF S
<1>2. \A i \in DOMAIN Preface : Preface[i][1] \notin {"raw", "encoded"}
  <2>1. DOMAIN Preface = {1, 2, 3}
    BY DEF Preface
  <2>2. Blank[1] = "header" /\ <<"lascompatible", 0>>[1] = "lascompatible"
        /\ <<"laszip", -1>>[1] = "laszip"
    BY DEF Blank
  <2> QED BY ONLY <2>1, <2>2, PrefaceIs
<1> QED BY <1>1, <1>2, PrefaceIs, LifecycleAssumption

-----------------------------------------------------------------------------
(* The writer is the one the writer's proofs are about. *)

LEMMA SameContainer ==
    /\ Core!Base = WP!Base
    /\ \A l : /\ Core!Chunked(l) = WP!Chunked(l)
              /\ Core!Compressed(l) = WP!Compressed(l)
              /\ Core!Layered(l) = WP!Layered(l)
BY DEF Core!Base, WP!Base, Core!Chunked, WP!Chunked, Core!Compressed,
       WP!Compressed, Core!Layered, WP!Layered

LEMMA SameSink ==
    /\ \A s, u : /\ Core!Sink!fileout_emit(s, u) = WP!Sink!fileout_emit(s, u)
                 /\ Core!Sink!fileout_flush(s) = WP!Sink!fileout_flush(s)
                 /\ Core!Sink!fileout_put_bytes(s, u) = WP!Sink!fileout_put_bytes(s, u)
                 /\ Core!Sink!fileout_seek(s, u) = WP!Sink!fileout_seek(s, u)
                 /\ Core!Sink!fileout_seek_ok(s, u) = WP!Sink!fileout_seek_ok(s, u)
                 /\ Core!Sink!fileout_destroy(s) = WP!Sink!fileout_destroy(s)
    /\ \A d, b, r, k : Core!Sink!laz_outstream_new_file(d, b, r, k)
                         = WP!Sink!laz_outstream_new_file(d, b, r, k)
<1>1. \A s, u : Core!Sink!fileout_emit(s, u) = WP!Sink!fileout_emit(s, u)
  BY ONLY DEF Core!Sink!fileout_emit, WP!Sink!fileout_emit, Core!Sink!Overlay,
              WP!Sink!Overlay, Core!Sink!Longer, WP!Sink!Longer
<1>2. \A s : Core!Sink!fileout_flush(s) = WP!Sink!fileout_flush(s)
  BY ONLY <1>1 DEF Core!Sink!fileout_flush, WP!Sink!fileout_flush
<1>3. \A s, u : Core!Sink!fileout_put_bytes(s, u) = WP!Sink!fileout_put_bytes(s, u)
  BY ONLY <1>1, <1>2 DEF Core!Sink!fileout_put_bytes, WP!Sink!fileout_put_bytes
<1>4. \A s, u : Core!Sink!fileout_seek(s, u) = WP!Sink!fileout_seek(s, u)
  BY ONLY <1>2 DEF Core!Sink!fileout_seek, WP!Sink!fileout_seek
<1>5. \A s, u : Core!Sink!fileout_seek_ok(s, u) = WP!Sink!fileout_seek_ok(s, u)
  BY ONLY <1>4 DEF Core!Sink!fileout_seek_ok, WP!Sink!fileout_seek_ok
<1>6. \A s : Core!Sink!fileout_destroy(s) = WP!Sink!fileout_destroy(s)
  BY ONLY <1>2 DEF Core!Sink!fileout_destroy, WP!Sink!fileout_destroy
<1>7. \A d, b, r, k : Core!Sink!laz_outstream_new_file(d, b, r, k)
                        = WP!Sink!laz_outstream_new_file(d, b, r, k)
  BY ONLY DEF Core!Sink!laz_outstream_new_file, WP!Sink!laz_outstream_new_file
<1> QED BY ONLY <1>1, <1>2, <1>3, <1>4, <1>5, <1>6, <1>7

LEMMA SamePuts ==
    \A w, u : Core!Put(w, u) = WP!Put(w, u) /\ Core!PutAll(w, u) = WP!PutAll(w, u)
BY SameSink DEF Core!Put, WP!Put, Core!PutAll, WP!PutAll

LEMMA SameOpened ==
    \A l, room, seeks : Core!Opened(l, room, seeks) = WP!Opened(l, room, seeks)
<1> SUFFICES ASSUME NEW l, NEW room, NEW seeks
             PROVE  Core!Opened(l, room, seeks) = WP!Opened(l, room, seeks)
  OBVIOUS
<1> DEFINE Fields(b, k, s) ==
             [chunk_size |-> IF b /\ l.chunk_size # 0 THEN l.chunk_size ELSE U32_MAX,
              chunk_count |-> 0, number_chunks |-> 0, alloced_chunks |-> 0,
              chunk_sizes |-> <<>>, chunk_bytes |-> <<>>,
              chunk_start_position |-> 0, chunk_table_start_position |-> 0,
              writers |-> IF k THEN "NULL" ELSE "raw",
              layers |-> <<>>, layers_failed |-> FALSE, outstream |-> s, ok |-> TRUE]
           From(b, w, placed) ==
             IF b THEN [placed EXCEPT !.chunk_start_position = placed.outstream.pos] ELSE w
           Here(s) == IF l.seekable THEN s.pos ELSE -1
           Marked(w, s) == [w EXCEPT !.chunk_table_start_position = Here(s)]
           sw == Core!Sink!laz_outstream_new_file(Preface, l.seekable, room, seeks)
           sp == WP!Sink!laz_outstream_new_file(Preface, l.seekable, room, seeks)
           fw == Fields(Core!Chunked(l), Core!Compressed(l), sw)
           fp == Fields(WP!Chunked(l), WP!Compressed(l), sp)
           pw == Core!Put(Marked(fw, sw), <<"position", Here(sw)>>)
           pp == WP!Put(Marked(fp, sp), <<"position", Here(sp)>>)
<1>1. Core!Opened(l, room, seeks) = From(Core!Chunked(l), fw, pw)
  BY ONLY DEF Core!Opened
<1>2. WP!Opened(l, room, seeks) = From(WP!Chunked(l), fp, pp)
  BY ONLY DEF WP!Opened
<1>3. Core!Chunked(l) = WP!Chunked(l) /\ Core!Compressed(l) = WP!Compressed(l) /\ sw = sp
  BY SameContainer, SameSink
<1> HIDE DEF Fields, From, Marked, Here, sw, sp
<1>4. fw = fp
  BY ONLY <1>3
<1> HIDE DEF fw, fp
<1>5. pw = pp
  BY ONLY <1>3, <1>4, SamePuts
<1> HIDE DEF pw, pp
<1>6. From(Core!Chunked(l), fw, pw) = From(WP!Chunked(l), fp, pp)
  BY ONLY <1>3, <1>4, <1>5
<1> QED BY ONLY <1>1, <1>2, <1>6

LEMMA SameChunks ==
    /\ \A w : Core!Refused(w) = WP!Refused(w)
    /\ \A l, w : Core!close_chunk(l, w) = WP!close_chunk(l, w)
    /\ \A w, oom : Core!add_chunk_to_table(w, oom) = WP!add_chunk_to_table(w, oom)
<1>1. \A w : Core!Refused(w) = WP!Refused(w)
  BY DEF Core!Refused, WP!Refused
<1>2. \A l, w : Core!close_chunk(l, w) = WP!close_chunk(l, w)
  BY <1>1, SameContainer, SamePuts DEF Core!close_chunk, WP!close_chunk
<1>3. \A w, oom : Core!add_chunk_to_table(w, oom) = WP!add_chunk_to_table(w, oom)
  BY <1>1 DEF Core!add_chunk_to_table, WP!add_chunk_to_table
<1> QED BY <1>1, <1>2, <1>3

LEMMA SameRecording ==
    \A l, w, oom : Core!close_and_record(l, w, oom) = WP!close_and_record(l, w, oom)
BY SameChunks DEF Core!close_and_record, WP!close_and_record

LEMMA SameTable ==
    \A w, oom : Core!write_chunk_table(w, oom) = WP!write_chunk_table(w, oom)
<1>1. \A w, p : Core!SeekTo(w, p) = WP!SeekTo(w, p)
  BY SameSink DEF Core!SeekTo, WP!SeekTo
<1>2. \A w : Core!Rows(w) = WP!Rows(w)
  BY DEF Core!Rows, WP!Rows
<1> QED BY <1>1, <1>2, SameChunks, SamePuts DEF Core!write_chunk_table, WP!write_chunk_table

LEMMA SameCalls ==
    /\ \A l, w, p, oom : Core!laz_writepoint_write(l, w, p, oom)
                           = WP!laz_writepoint_write(l, w, p, oom)
    /\ \A l, w, oom : /\ Core!laz_writepoint_chunk(l, w, oom)
                             = WP!laz_writepoint_chunk(l, w, oom)
                      /\ Core!laz_writepoint_done(l, w, oom)
                             = WP!laz_writepoint_done(l, w, oom)
<1>1. \A w : Core!Checked(w) = WP!Checked(w) /\ Core!Flushed(w) = WP!Flushed(w)
  BY SameChunks, SameSink DEF Core!Checked, WP!Checked, Core!Flushed, WP!Flushed
<1>2. /\ \A l, w, p, oom : Core!encode(l, w, p, oom) = WP!encode(l, w, p, oom)
      /\ \A w, p, oom : Core!start(w, p, oom) = WP!start(w, p, oom)
  <2>1. \A w : Core!Refused(w) = WP!Refused(w)
    BY SameChunks
  <2>2. ASSUME NEW l, NEW w, NEW p, NEW oom
        PROVE  Core!encode(l, w, p, oom) = WP!encode(l, w, p, oom)
    BY ONLY <2>1, SameContainer, SamePuts DEF Core!encode, WP!encode
  <2>3. ASSUME NEW w, NEW p, NEW oom
        PROVE  Core!start(w, p, oom) = WP!start(w, p, oom)
    BY ONLY <2>1, SamePuts DEF Core!start, WP!start
  <2> QED BY <2>2, <2>3
<1>3. \A l, w, p, oom : Core!laz_writepoint_write(l, w, p, oom)
                         = WP!laz_writepoint_write(l, w, p, oom)
  <2> SUFFICES ASSUME NEW l, NEW w, NEW p, NEW oom
               PROVE  Core!laz_writepoint_write(l, w, p, oom)
                        = WP!laz_writepoint_write(l, w, p, oom)
    OBVIOUS
  <2> DEFINE begun == [w EXCEPT !.ok = TRUE]
             full == WP!Compressed(l) /\ w.chunk_count = w.chunk_size
             closed == IF full THEN WP!close_and_record(l, begun, oom) ELSE begun
             counted == IF WP!Compressed(l) THEN [closed EXCEPT !.chunk_count = @ + 1]
                        ELSE closed
             x == WP!Put(counted, <<"raw", p>>)
             y == WP!start(counted, p, oom)
             z == WP!encode(l, counted, p, oom)
             put == IF counted.writers = "raw" THEN x
                    ELSE IF counted.writers = "NULL" THEN y ELSE z
  <2>1. WP!laz_writepoint_write(l, w, p, oom)
          = IF ~closed.ok THEN closed ELSE WP!Checked(put)
    BY ONLY DEF WP!laz_writepoint_write
  <2>2. /\ Core!Compressed(l) = WP!Compressed(l)
        /\ Core!close_and_record(l, begun, oom) = WP!close_and_record(l, begun, oom)
    BY SameContainer, SameRecording
  <2>3. /\ Core!Put(counted, <<"raw", p>>) = x /\ Core!start(counted, p, oom) = y
        /\ Core!encode(l, counted, p, oom) = z /\ Core!Checked(put) = WP!Checked(put)
    BY <1>1, <1>2, SamePuts
  <2>4. Core!laz_writepoint_write(l, w, p, oom)
          = IF ~closed.ok THEN closed ELSE Core!Checked(put)
    <3>1. closed = IF Core!Compressed(l) /\ w.chunk_count = w.chunk_size
                   THEN Core!close_and_record(l, begun, oom) ELSE begun
      BY ONLY <2>2
    <3>2. counted = IF Core!Compressed(l) THEN [closed EXCEPT !.chunk_count = @ + 1]
                    ELSE closed
      BY ONLY <2>2
    <3> HIDE DEF closed, counted, x, y, z
    <3> QED BY ONLY <2>3, <3>1, <3>2 DEF Core!laz_writepoint_write
  <2> HIDE DEF closed, put
  <2> QED BY ONLY <2>1, <2>3, <2>4
<1>4. \A l, w, oom : Core!laz_writepoint_chunk(l, w, oom) = WP!laz_writepoint_chunk(l, w, oom)
  BY <1>1, SameChunks, SameContainer, SameRecording
     DEF Core!laz_writepoint_chunk, WP!laz_writepoint_chunk
<1>5. \A l, w, oom : Core!laz_writepoint_done(l, w, oom) = WP!laz_writepoint_done(l, w, oom)
  BY <1>1, SameChunks, SameContainer, SameTable
     DEF Core!laz_writepoint_done, WP!laz_writepoint_done
<1> QED BY <1>3, <1>4, <1>5

LEMMA SameWriter ==
    /\ Core!Init <=> WP!Init
    /\ Core!Next <=> WP!Next
<1>0. \A w : Core!Outcome(w) = WP!Outcome(w)
  BY DEF Core!Outcome, WP!Outcome
<1>1. Core!Init <=> WP!Init
  BY SameOpened DEF Core!Init, WP!Init
<1>2. Core!Writer_write <=> WP!Writer_write
  BY <1>0, SameCalls DEF Core!Writer_write, WP!Writer_write
<1>3. Core!Writer_chunk <=> WP!Writer_chunk
  BY <1>0, SameCalls DEF Core!Writer_chunk, WP!Writer_chunk
<1>4. Core!Writer_done <=> WP!Writer_done
  BY <1>0, SameCalls DEF Core!Writer_done, WP!Writer_done
<1>5. Core!Refuse <=> WP!Refuse
  BY DEF Core!Refuse, WP!Refuse
<1>6. Core!Dropped <=> WP!Dropped
  BY SameSink DEF Core!Dropped, WP!Dropped
<1> QED BY <1>1, <1>2, <1>3, <1>4, <1>5, <1>6 DEF Core!Next, WP!Next

-----------------------------------------------------------------------------
(* The file object, once the points are finished. *)

Things == WP!Unit \cup ({"evlr"} \X Keys) \cup {<<"index">>}

\* Nothing is staged any more, and nothing has failed.
Handles == [disk : Seq(Things), at : Nat, room : Nat, seeks : Nat, buf : {<<>>},
            pos : Nat, seekable : BOOLEAN, failed : {FALSE}]

LEMMA UnitsAreThings ==
    /\ Seq(STRING \cup Int) \subseteq WP!Unit /\ WP!Unit \subseteq Things
    /\ Seq(WP!Unit) \subseteq Seq(Things)
<1>1. \A S, T : S \subseteq T => Seq(S) \subseteq Seq(T)
  BY TheirAssumptions, WP!WiderSeqs
<1>2. Seq(STRING \cup Int) \subseteq WP!Unit
  BY <1>1 DEF WP!Unit
<1>3. WP!Unit \subseteq Things
  BY DEF Things
<1> QED BY <1>1, <1>2, <1>3

\* One unit written: over another, or behind the last.
LEMMA WrittenIs ==
    ASSUME NEW s \in Handles, s.at <= Len(s.disk), NEW unit \in Things,
           NEW t, t = Written(s, unit)
    PROVE  /\ t \in Handles /\ t.seeks = s.seeks /\ t.at <= Len(t.disk)
           /\ s.room = 0 => t = s
           /\ s.room # 0 => /\ t.at = s.at + 1 /\ t.disk[s.at + 1] = unit
                            /\ Len(t.disk) = IF s.at = Len(s.disk) THEN Len(s.disk) + 1
                                             ELSE Len(s.disk)
                            /\ \A i \in 1 .. Len(s.disk) : i # s.at + 1 => t.disk[i] = s.disk[i]
<1>1. CASE s.room = 0
  BY <1>1 DEF Written
<1>2. CASE s.room # 0
  <2> DEFINE d == s.disk
             n == Len(d)
             at == s.at
             e == Overlay(d, at, <<unit>>)
  <2>1. t = [s EXCEPT !.disk = e, !.at = at + 1, !.room = s.room - 1]
    BY <1>2 DEF Written
  <2>2. d \in Seq(Things) /\ n \in Nat /\ at \in Nat /\ at <= n /\ s.room - 1 \in Nat
    BY <1>2 DEF Handles
  <2>3. Longer(n, at + 1) = IF at = n THEN n + 1 ELSE n
    BY <2>2 DEF Longer
  <2>4. /\ e \in Seq(Things) /\ Len(e) = IF at = n THEN n + 1 ELSE n
        /\ e[at + 1] = unit /\ \A i \in 1 .. n : i # at + 1 => e[i] = d[i]
    <3> DEFINE m == IF at = n THEN n + 1 ELSE n
               f == [i \in 1 .. m |-> IF i > at /\ i <= at + 1 THEN <<unit>>[i - at] ELSE d[i]]
    <3>1. e = f
      BY <2>3 DEF Overlay
    <3>2. m \in Nat /\ at + 1 \in 1 .. m /\ \A i \in 1 .. n : i \in 1 .. m
      BY <2>2
    <3>3. \A i \in 1 .. m : i = at + 1 \/ (i \in 1 .. n /\ ~(i > at /\ i <= at + 1))
      BY <2>2
    <3>4. f[at + 1] = unit
      BY <2>2, <3>2
    <3>5. \A i \in 1 .. n : i # at + 1 => f[i] = d[i]
      BY <2>2, <3>2, <3>3
    <3>6. \A i \in 1 .. m : f[i] \in Things
      BY <2>2, <3>2, <3>3, <3>4, <3>5
    <3>7. DOMAIN f = 1 .. m
      OBVIOUS
    <3> HIDE DEF f, m
    <3>8. f \in Seq(Things) /\ Len(f) = m
      <4>1. f = [i \in 1 .. m |-> f[i]]
        <5>1. f = [i \in DOMAIN f |-> f[i]]
          BY DEF f
        <5> QED BY ONLY <3>7, <5>1
      <4>2. f \in [1 .. m -> Things]
        BY ONLY <3>6, <4>1
      <4> QED BY ONLY <3>2, <4>2
    <3> QED BY <3>1, <3>4, <3>5, <3>8 DEF m
  <2> HIDE DEF e
  <2>5. /\ t \in Handles /\ t.disk = e /\ t.at = at + 1 /\ t.seeks = s.seeks
    <3>1. e \in Seq(Things) /\ at + 1 \in Nat /\ s.room - 1 \in Nat
      BY <2>2, <2>4
    <3> HIDE DEF at
    <3> QED BY ONLY <2>1, <3>1, s \in Handles DEF Handles
  <2>6. t.at <= Len(t.disk)
    BY <2>2, <2>4, <2>5
  <2> QED BY <1>2, <2>4, <2>5, <2>6
<1> QED BY <1>1, <1>2

LEMMA MovedIs ==
    \A s \in Handles, position \in Nat :
       LET t == Moved(s, position)
       IN  /\ t \in Handles /\ t.disk = s.disk /\ t.room = s.room
           /\ s.seeks = 0 => t = s
           /\ s.seeks # 0 => t.at = position /\ t.seeks = s.seeks - 1
<1> SUFFICES ASSUME NEW s \in Handles, NEW position \in Nat
             PROVE  LET t == Moved(s, position)
                    IN  /\ t \in Handles /\ t.disk = s.disk /\ t.room = s.room
                        /\ s.seeks = 0 => t = s
                        /\ s.seeks # 0 => t.at = position /\ t.seeks = s.seeks - 1
  OBVIOUS
<1>1. CASE s.seeks = 0
  BY <1>1 DEF Moved
<1>2. CASE s.seeks # 0
  <2> DEFINE t == Moved(s, position)
  <2>1. t = [s EXCEPT !.at = position, !.seeks = s.seeks - 1] /\ s.seeks - 1 \in Nat
    BY <1>2 DEF Moved, Handles
  <2> HIDE DEF t
  <2>2. /\ t \in Handles /\ t.disk = s.disk /\ t.room = s.room
        /\ t.at = position /\ t.seeks = s.seeks - 1
    BY ONLY <2>1, s \in Handles, position \in Nat DEF Handles
  <2> QED BY ONLY <1>2, <2>2 DEF t
<1> QED BY <1>1, <1>2

\* A unit rewritten in place: nothing else is touched, and a file object that
\* can still be sent elsewhere stands where it stood.
LEMMA PatchedIs ==
    ASSUME NEW s \in Handles, 3 <= Len(s.disk), s.at <= Len(s.disk),
           NEW position \in 0 .. 1, NEW unit \in Things,
           NEW p, p = Patched(s, position, unit), NEW t, t = p.stream
    PROVE  /\ t \in Handles /\ Len(t.disk) = Len(s.disk) /\ t.at <= Len(t.disk)
           /\ \A i \in 1 .. Len(s.disk) : i # position + 1 => t.disk[i] = s.disk[i]
           /\ t.disk = s.disk \/ t.disk[position + 1] = unit
           /\ p.ok \in BOOLEAN
           /\ p.ok => t.disk[position + 1] = unit /\ t.at = s.at
           /\ t.seeks > 0 => t.at = s.at
<1> DEFINE there == Moved(s, position)
           wrote == IF s.seeks = 0 THEN there ELSE Written(there, unit)
           n == Len(s.disk)
<1>1. /\ t = Moved(wrote, s.at) /\ p.ok \in BOOLEAN
      /\ p.ok => s.seeks > 0 /\ s.room > 0 /\ wrote.seeks > 0
  BY DEF Patched
<1>2. /\ s.disk \in Seq(Things) /\ n \in Nat /\ 3 <= n /\ s.at \in Nat /\ s.at <= n
      /\ s.seeks \in Nat /\ s.room \in Nat /\ position \in Nat /\ position + 1 <= 2
      /\ position + 1 \in Nat
  BY DEF Handles
<1>3. /\ there \in Handles /\ there.disk = s.disk /\ there.room = s.room
      /\ s.seeks = 0 => there = s
      /\ s.seeks # 0 => there.at = position /\ there.seeks = s.seeks - 1
  BY <1>2, MovedIs
<1> HIDE DEF there
<1>4. CASE s.seeks = 0
  <2>1. wrote = s
    BY <1>3, <1>4
  <2>2. t = s
    <3>1. t = Moved(s, s.at)
      BY <1>1, <2>1
    <3> QED BY ONLY <1>2, <1>4, <3>1, s \in Handles, MovedIs
  <2> QED BY ONLY <1>1, <1>2, <1>4, <2>2, s \in Handles
<1>5. CASE s.seeks # 0
  <2>1. wrote = Written(there, unit)
    BY <1>5
  <2>2. there.at = position /\ there.at <= Len(there.disk) /\ there.at # Len(there.disk)
    BY ONLY <1>2, <1>3, <1>5
  <2>3. /\ wrote \in Handles /\ wrote.at <= Len(wrote.disk) /\ Len(wrote.disk) = n
        /\ there.room = 0 => wrote = there
        /\ there.room # 0 => /\ wrote.disk[position + 1] = unit
                             /\ \A i \in 1 .. n : i # position + 1 => wrote.disk[i] = s.disk[i]
    BY ONLY <1>3, <2>1, <2>2, WrittenIs, unit \in Things
  <2> HIDE DEF wrote
  <2>4. /\ t \in Handles /\ t.disk = wrote.disk
        /\ wrote.seeks = 0 => t = wrote
        /\ wrote.seeks # 0 => t.at = s.at /\ t.seeks = wrote.seeks - 1
    <3> DEFINE at == s.at
    <3>1. t = Moved(wrote, at) /\ at \in Nat /\ wrote \in Handles
      BY ONLY <1>1, <1>2, <2>3
    <3> HIDE DEF at
    <3>2. /\ t \in Handles /\ t.disk = wrote.disk
          /\ wrote.seeks = 0 => t = wrote
          /\ wrote.seeks # 0 => t.at = at /\ t.seeks = wrote.seeks - 1
      BY ONLY <3>1, MovedIs
    <3> QED BY <3>2 DEF at
  <2>5. wrote.seeks \in Nat /\ t.seeks \in Nat
    BY <2>3, <2>4 DEF Handles
  <2>6. t.at <= Len(t.disk)
    BY ONLY <1>2, <2>3, <2>4
  <2>7. \A i \in 1 .. n : i # position + 1 => t.disk[i] = s.disk[i]
    BY ONLY <1>3, <2>3, <2>4
  <2>8. t.disk = s.disk \/ t.disk[position + 1] = unit
    BY ONLY <1>3, <2>3, <2>4
  <2>9. p.ok => t.disk[position + 1] = unit /\ t.at = s.at
    <3>1. p.ok => there.room # 0 /\ wrote.seeks # 0
      BY ONLY <1>1, <1>2, <1>3, <2>5
    <3> QED BY ONLY <2>3, <2>4, <3>1
  <2>10. t.seeks > 0 => t.at = s.at
    BY ONLY <2>4, <2>5
  <2> QED BY ONLY <1>1, <2>3, <2>4, <2>6, <2>7, <2>8, <2>9, <2>10
<1> QED BY <1>4, <1>5

-----------------------------------------------------------------------------
(* What holds wherever memory runs out. *)

Typed ==
    /\ self \in [closed : BOOLEAN, failure : {"none", "spent", "file", "interrupt"},
                 raised : BOOLEAN, evlrs : Seq(Keys), fits : BOOLEAN, tallied : Nat,
                 ext : [start : Nat, number : Nat]]
    /\ frame \in [pc : {"idle", "gone", "done", "records", "record", "counts", "header",
                        "file", "index", "patch"}, start : Nat, rest : Seq(Keys)]

\* The points are not finished: nobody has touched what is in front of them.
Unfinished ==
    /\ WP!Going /\ WP!StartsAsItDid /\ state # "done"
    /\ frame.pc \in {"idle", "gone", "done", "file"} /\ ~self.closed
    /\ state = "open" => frame.pc \in {"idle", "done"}
    /\ frame.pc = "done" => Closable
    /\ frame.pc = "file" => self.failure # "none"

\* x is where an index starts, or says that there is none.
Aimed(d, x) ==
    \/ x = -1
    \/ /\ x \in 3 .. Len(d) - 1
       /\ d[x + 1] = <<"index">>

Closing == {"records", "record", "counts", "header"}

\* The file object, where it has to be.
Resting(s) ==
    /\ s \in Handles /\ 3 <= Len(s.disk) /\ s.at <= Len(s.disk)
    /\ s.seeks > 0 /\ Indexes(s.disk) = {} => s.at = Len(s.disk)
    /\ Aimed(s.disk, s.disk[3][2])

\* The points are finished: the front end has the file to itself.
Finished ==
    /\ layout \in Layouts /\ state \in {"done", "dropped"}
    /\ written \in Seq(Nat) /\ index = Len(written)
    /\ "outstream" \in DOMAIN wp /\ Resting(wp.outstream)
    /\ Closable
    /\ frame.pc \in Closing => wp.outstream.at = Len(Disk)
    /\ frame.pc = "record" => frame.rest # <<>>
    /\ frame.pc = "index" => frame.start = Len(Disk)
    /\ frame.pc = "patch" => Aimed(Disk, frame.start)

Living == Typed /\ (Unfinished \/ Finished)

LEMMA InitLiving == Init => Living
<1> SUFFICES ASSUME Init PROVE Living
  OBVIOUS
<1>1. WP!Init
  BY SameWriter DEF Init
<1>2. WP!Going /\ WP!StartsAsItDid
  BY <1>1, TheirAssumptions, WP!InitGoing, WP!InitBegun
<1>3. state # "done"
  BY <1>1 DEF WP!Init
<1>4. Typed
  <2>1. <<>> \in Seq(Keys)
    OBVIOUS
  <2> HIDE DEF Core!Init
  <2> QED BY <2>1 DEF Init, Typed
<1>5. /\ frame.pc = IF state = "open" THEN "idle" ELSE "gone"
      /\ ~self.closed
  BY DEF Init
<1> QED BY ONLY <1>2, <1>3, <1>4, <1>5 DEF Living, Unfinished

\* What the front end does beside the writer leaves it as it is.
LEMMA StaysGoing ==
    ASSUME WP!Going, WP!StartsAsItDid, UNCHANGED core, out' \in {"none", "ok", "error"}
    PROVE  WP!Going' /\ WP!StartsAsItDid'
<1>1. UNCHANGED <<layout, wp, state, index, offered, written>>
  BY DEF core
<1>2. WP!Bookkeeping'
  BY <1>1 DEF WP!Going, WP!Bookkeeping
<1>3. PICK c : WP!Ready(layout, wp, c) /\ (state = "open" => WP!Fronted(layout, c))
  BY DEF WP!Going
<1>4. WP!Ready(layout', wp', c) /\ (state' = "open" => WP!Fronted(layout', c))
  BY <1>1, <1>3
<1>5. WP!Going'
  BY <1>2, <1>4 DEF WP!Going
<1>6. WP!StartsAsItDid'
  BY <1>1 DEF WP!StartsAsItDid
<1> QED BY <1>5, <1>6

\* And a file object that is closed is one the writer could have.
LEMMA ShutGoing ==
    ASSUME WP!Going, WP!StartsAsItDid, state # "open",
           wp' = IF layout.owned THEN [wp EXCEPT !.outstream = Shut(@)] ELSE wp,
           UNCHANGED <<layout, state, index, offered, written>>,
           out' \in {"none", "ok", "error"}
    PROVE  WP!Going' /\ WP!StartsAsItDid'
<1>1. PICK c : WP!Ready(layout, wp, c)
  BY DEF WP!Going
<1>2. WP!Ready(layout, wp', c) /\ wp'.outstream.disk = wp.outstream.disk
  <2>1. CASE layout.owned
    <3>1. wp' = [wp EXCEPT !.outstream = [@ EXCEPT !.room = 0, !.seeks = 0]]
      BY <2>1 DEF Shut
    <3> QED BY ONLY <1>1, <3>1, TheirAssumptions, WP!Shuts
  <2>2. CASE ~layout.owned
    BY <1>1, <2>2
  <2> QED BY <2>1, <2>2
<1>3. WP!Bookkeeping'
  BY DEF WP!Going, WP!Bookkeeping
<1>4. WP!Going'
  BY <1>2, <1>3 DEF WP!Going
<1>5. WP!StartsAsItDid'
  BY <1>2 DEF WP!StartsAsItDid
<1> QED BY <1>4, <1>5

\* A step of the writer.
LEMMA StepGoing ==
    ASSUME WP!Going, WP!StartsAsItDid, Core!Next
    PROVE  WP!Going' /\ WP!StartsAsItDid'
<1>1. [WP!Next]_(WP!wvars)
  BY SameWriter
<1> QED BY <1>1, TheirAssumptions, WP!NextGoing, WP!NextBegun

\* done() returned.
LEMMA DoneFinishes ==
    ASSUME Typed, Unfinished, frame.pc = "done", Core!Writer_done, out' = "ok"
    PROVE  /\ layout' \in Layouts /\ state' = "done"
           /\ written' \in Seq(Nat) /\ index' = Len(written')
           /\ "outstream" \in DOMAIN wp' /\ Resting(wp'.outstream)
           /\ wp'.outstream.at = Len(Disk')
<1>1. PICK oom \in Ooms \cup {"no"} :
        /\ state = "open" /\ wp' = WP!laz_writepoint_done(layout, wp, oom)
        /\ state' = IF wp'.ok THEN "done" ELSE "failed"
        /\ out' = IF wp'.ok THEN "ok" ELSE "error"
        /\ UNCHANGED <<layout, index, offered, written>>
  BY SameCalls DEF Core!Writer_done, Core!Outcome
<1>2. wp'.ok /\ state' = "done"
  BY <1>1
<1>3. PICK c : WP!Ready(layout, wp, c) /\ WP!Fronted(layout, c)
  BY <1>1 DEF Unfinished, WP!Going
<1> DEFINE s == wp'.outstream
<1>4. ~s.failed /\ s.buf = <<>> /\ s.at = Len(s.disk) /\ s \in WP!Streams /\ wp' \in WP!Writers
  BY ONLY <1>1, <1>2, <1>3, TheirAssumptions, WP!DoneRests
<1>5. s \in Handles
  <2>1. s.disk \in Seq(Things)
    BY <1>4, UnitsAreThings DEF WP!Streams
  <2> QED BY ONLY <1>4, <2>1 DEF WP!Streams, Handles
<1>6. WP!StartsAsItDid'
  BY StepGoing DEF Unfinished, Core!Next
<1>7. 3 <= Len(s.disk) /\ s.disk[3] = <<"laszip", -1>>
  <2>1. WP!Base = 3
    BY PrefaceIs DEF WP!Base
  <2> QED BY <1>6, <2>1, PrefaceIs DEF WP!StartsAsItDid
<1>8. "outstream" \in DOMAIN wp'
  BY <1>4 DEF WP!Writers
<1>9. layout' \in Layouts /\ written' \in Seq(Nat) /\ index' = Len(written')
  BY <1>1 DEF Unfinished, WP!Going, WP!Bookkeeping
<1>10. Resting(s)
  <2>1. Aimed(s.disk, s.disk[3][2])
    BY <1>7 DEF Aimed
  <2>2. s.at <= Len(s.disk)
    BY <1>4, <1>5 DEF Handles
  <2> HIDE DEF s
  <2> QED BY <1>4, <1>5, <1>7, <2>1, <2>2 DEF Resting
<1> QED BY <1>2, <1>4, <1>8, <1>9, <1>10 DEF Disk

LEMMA UnfinishedSteps ==
    ASSUME Typed, Unfinished, Next
    PROVE  Typed' /\ (Unfinished' \/ (Finished' /\ state' = "done"))
<1>1. /\ WP!Going /\ WP!StartsAsItDid /\ state # "done" /\ ~self.closed
      /\ frame.pc \in {"idle", "gone", "done", "file"}
      /\ state = "open" => frame.pc \in {"idle", "done"}
      /\ frame.pc = "file" => self.failure # "none"
  BY DEF Unfinished
<1>2. CASE write
  <2>1. /\ At("idle") /\ Core!Writer_write /\ self' = [self EXCEPT !.tallied = @ + 1]
        /\ UNCHANGED frame
    BY <1>2 DEF write
  <2>2. WP!Going' /\ WP!StartsAsItDid'
    BY <1>1, <2>1, StepGoing DEF Core!Next
  <2>3. state' = state
    BY <2>1 DEF Core!Writer_write
  <2>4. Typed'
    <3> HIDE DEF Core!Writer_write
    <3> QED BY <2>1 DEF Typed
  <2>5. frame'.pc = "idle" /\ ~self'.closed
    BY <1>1, <2>1 DEF At, Typed
  <2> QED BY ONLY <1>1, <2>2, <2>3, <2>4, <2>5 DEF Unfinished
<1>3. CASE chunk
  <2>1. At("idle") /\ Core!Writer_chunk /\ UNCHANGED <<self, frame>>
    BY <1>3 DEF chunk
  <2>2. WP!Going' /\ WP!StartsAsItDid'
    BY <1>1, <2>1, StepGoing DEF Core!Next
  <2>3. state' = state
    BY <2>1 DEF Core!Writer_chunk
  <2>4. Typed' /\ frame'.pc = "idle" /\ ~self'.closed
    BY <1>1, <2>1 DEF At, Typed
  <2> QED BY ONLY <1>1, <2>2, <2>3, <2>4 DEF Unfinished
<1>4. CASE write_refused
  <2>1. At("idle") /\ Core!Refuse /\ UNCHANGED <<self, frame>>
    BY <1>4 DEF write_refused
  <2>2. WP!Going' /\ WP!StartsAsItDid'
    BY <1>1, <2>1, StepGoing DEF Core!Next
  <2>3. state' = state
    BY <2>1 DEF Core!Refuse
  <2>4. Typed' /\ frame'.pc = "idle" /\ ~self'.closed
    BY <1>1, <2>1 DEF At, Typed
  <2> QED BY ONLY <1>1, <2>2, <2>3, <2>4 DEF Unfinished
<1>5. CASE Edit
  <2>1. At("idle") /\ UNCHANGED <<core, out, frame>>
    BY <1>5 DEF Edit
  <2>2. WP!Going' /\ WP!StartsAsItDid'
    BY <1>1, <2>1, StaysGoing DEF WP!Going, WP!Bookkeeping
  <2>3. state' = state /\ frame' = frame /\ frame.pc = "idle"
    BY <2>1 DEF core, At
  <2>4. Typed' /\ ~self'.closed
    <3>1. CASE self' = [self EXCEPT !.fits = ~@]
      BY <1>1, <2>3, <3>1 DEF Typed
    <3>2. ASSUME NEW k \in Keys, self' = [self EXCEPT !.evlrs = Append(@, k)]
          PROVE  Typed' /\ ~self'.closed
      <4>1. Append(self.evlrs, k) \in Seq(Keys)
        BY DEF Typed
      <4> QED BY <1>1, <2>3, <3>2, <4>1 DEF Typed
    <3>3. CASE self.evlrs # <<>> /\ self' = [self EXCEPT !.evlrs = Front(@)]
      <4>1. Front(self.evlrs) \in Seq(Keys)
        BY <3>3 DEF Typed, Front
      <4> QED BY <1>1, <2>3, <3>3, <4>1 DEF Typed
    <3> QED BY <1>5, <3>1, <3>2, <3>3 DEF Edit
  <2> QED BY ONLY <1>1, <2>2, <2>3, <2>4 DEF Unfinished
<1>6. CASE Dropped
  <2>1. At("idle") /\ Core!Dropped /\ Goes("gone") /\ UNCHANGED self
    BY <1>6 DEF Dropped
  <2>2. WP!Going' /\ WP!StartsAsItDid'
    BY <1>1, <2>1, StepGoing DEF Core!Next
  <2>3. state' = "dropped"
    BY <2>1 DEF Core!Dropped
  <2>4. Typed' /\ frame'.pc = "gone" /\ ~self'.closed
    BY <1>1, <2>1 DEF Goes, Typed
  <2> QED BY ONLY <1>1, <2>2, <2>3, <2>4 DEF Unfinished
<1>7. CASE close_refused \/ close_again
  <2>1. At("idle") /\ UNCHANGED <<core, self, frame>> /\ out' \in {"ok", "error"}
    BY <1>7 DEF close_refused, close_again
  <2>2. WP!Going' /\ WP!StartsAsItDid'
    BY <1>1, <2>1, StaysGoing
  <2>3. state' = state
    BY <2>1 DEF core
  <2>4. Typed' /\ frame'.pc = "idle" /\ ~self'.closed
    BY <1>1, <2>1 DEF At, Typed
  <2> QED BY ONLY <1>1, <2>2, <2>3, <2>4 DEF Unfinished
<1>8. CASE close
  <2>1. At("idle") /\ Closable /\ Goes("done") /\ out' = "none" /\ UNCHANGED <<core, self>>
    BY <1>8 DEF close
  <2>2. WP!Going' /\ WP!StartsAsItDid'
    BY <1>1, <2>1, StaysGoing
  <2>3. state' = state /\ layout' = layout
    BY <2>1 DEF core
  <2>4. Typed' /\ frame'.pc = "done" /\ ~self'.closed
    BY <1>1, <2>1 DEF Goes, Typed
  <2>5. Closable'
    BY <2>1, <2>3 DEF Closable, Keyed, Addressable, LAS14
  <2> QED BY ONLY <1>1, <2>2, <2>3, <2>4, <2>5 DEF Unfinished
<1>9. CASE close_done
  <2>1. /\ At("done")
        /\ Core!Writer_done \/ Core!Refuse
        /\ IF out' = "ok" THEN Goes("records") /\ UNCHANGED self
           ELSE Fails(IF Spent THEN "spent" ELSE "file")
    BY <1>9 DEF close_done
  <2>2. WP!Going' /\ WP!StartsAsItDid'
    BY <1>1, <2>1, StepGoing DEF Core!Next
  <2>3. CASE out' = "ok"
    <3>1. Core!Writer_done
      BY <2>1, <2>3 DEF Core!Refuse
    <3>2. /\ layout' \in Layouts /\ state' = "done"
          /\ written' \in Seq(Nat) /\ index' = Len(written')
          /\ "outstream" \in DOMAIN wp' /\ Resting(wp'.outstream)
          /\ wp'.outstream.at = Len(Disk')
      BY <2>1, <2>3, <3>1, DoneFinishes DEF At
    <3>3. Typed' /\ frame'.pc = "records"
      BY <2>1, <2>3 DEF Goes, Typed
    <3>4. Closable'
      <4>1. self' = self /\ Closable
        BY <2>1, <2>3 DEF At, Unfinished
      <4>2. layout' = layout
        BY <3>1 DEF Core!Writer_done
      <4> QED BY <4>1, <4>2 DEF Closable, Keyed, Addressable, LAS14
    <3>5. Finished'
      BY ONLY <3>2, <3>3, <3>4 DEF Finished
    <3> QED BY <3>2, <3>3, <3>5
  <2>4. CASE out' # "ok"
    <3>1. Fails(IF Spent THEN "spent" ELSE "file")
      BY <2>1, <2>4
    <3>2. Typed' /\ frame'.pc = "file" /\ self'.failure # "none" /\ self'.closed = self.closed
      BY <3>1 DEF Fails, Goes, Typed
    <3>3. state' # "done" /\ state' # "open"
      <4>1. CASE Core!Refuse
        BY <1>1, <4>1 DEF Core!Refuse
      <4>2. CASE Core!Writer_done
        BY <2>4, <4>2 DEF Core!Writer_done, Core!Outcome
      <4> QED BY <2>1, <4>1, <4>2
    <3> QED BY ONLY <1>1, <2>2, <3>2, <3>3 DEF Unfinished
  <2> QED BY <2>3, <2>4
<1>10. CASE close_file
  <2>1. PICK raises \in BOOLEAN :
          /\ At("file")
          /\ wp' = IF layout.owned THEN [wp EXCEPT !.outstream = Shut(@)] ELSE wp
          /\ self' = [self EXCEPT !.closed = self.failure = "none" /\ ~raises,
                                  !.raised = @ \/ ~(self.failure = "none" /\ ~raises)]
          /\ out' = IF self.failure = "none" /\ ~raises THEN "ok" ELSE "error"
          /\ Goes("idle")
          /\ UNCHANGED <<layout, state, index, offered, written>>
    BY <1>10 DEF close_file
  <2>2. self.failure # "none" /\ state # "open"
    BY <1>1, <2>1 DEF At
  <2>3. WP!Going' /\ WP!StartsAsItDid'
    BY <1>1, <2>1, <2>2, ShutGoing
  <2>4. Typed' /\ frame'.pc = "idle" /\ ~self'.closed
    BY <2>1, <2>2 DEF Goes, Typed
  <2> QED BY ONLY <1>1, <2>1, <2>3, <2>4 DEF Unfinished
<1>11. ~append_spatial_index
  BY <1>1 DEF append_spatial_index
<1>12. /\ ~records /\ ~record /\ ~counts /\ ~header /\ ~Interrupted
       /\ ~append_record /\ ~patch_laszip_record /\ ~append_interrupted
  BY ONLY <1>1 DEF records, record, counts, header, Interrupted, append_record,
                   patch_laszip_record, append_interrupted, At
<1> QED BY <1>2, <1>3, <1>4, <1>5, <1>6, <1>7, <1>8, <1>9, <1>10, <1>11, <1>12 DEF Next

-----------------------------------------------------------------------------
(* What the front end does to the file object. *)

LEMMA AimedStays ==
    ASSUME NEW d \in Seq(Things), NEW e \in Seq(Things), Len(d) <= Len(e),
           \A i \in 4 .. Len(d) : e[i] = d[i], NEW x, Aimed(d, x)
    PROVE  Aimed(e, x)
<1>1. CASE x = -1
  BY <1>1 DEF Aimed
<1>2. CASE x \in 3 .. Len(d) - 1 /\ d[x + 1] = <<"index">>
  <2>1. x + 1 \in 4 .. Len(d) /\ x \in 3 .. Len(e) - 1
    BY <1>2
  <2> QED BY <1>2, <2>1 DEF Aimed
<1> QED BY <1>1, <1>2 DEF Aimed

\* Where a spatial index is aimed at there is one.
LEMMA AimedIndexes ==
    ASSUME NEW d \in Seq(Things), NEW x \in Nat, Aimed(d, x)
    PROVE  Indexes(d) # {}
<1>1. x + 1 \in DOMAIN d /\ d[x + 1] = <<"index">>
  BY DEF Aimed
<1> QED BY <1>1 DEF Indexes

LEMMA RestPatched ==
    ASSUME NEW s, Resting(s), s.at = Len(s.disk), NEW position \in 0 .. 1,
           NEW unit \in Things, NEW p, p = Patched(s, position, unit)
    PROVE  Resting(p.stream) /\ (p.ok => p.stream.at = Len(p.stream.disk))
<1> DEFINE t == p.stream
           d == s.disk
           e == t.disk
<1>1. s \in Handles /\ 3 <= Len(d) /\ s.at <= Len(d) /\ Aimed(d, d[3][2])
  BY DEF Resting
<1>2. /\ t \in Handles /\ Len(e) = Len(d) /\ t.at <= Len(e)
      /\ \A i \in 1 .. Len(d) : i # position + 1 => e[i] = d[i]
      /\ p.ok => t.at = s.at
      /\ t.seeks > 0 => t.at = s.at
  BY ONLY <1>1, position \in 0 .. 1, unit \in Things, p = Patched(s, position, unit), PatchedIs
<1>3. d \in Seq(Things) /\ e \in Seq(Things) /\ Len(d) \in Nat
  BY <1>1, <1>2 DEF Handles
<1> HIDE DEF t, d, e
<1>4. e[3] = d[3] /\ \A i \in 4 .. Len(d) : e[i] = d[i]
  BY ONLY <1>1, <1>2, <1>3, position \in 0 .. 1
<1>5. Aimed(e, e[3][2])
  BY <1>1, <1>2, <1>3, <1>4, AimedStays
<1> QED BY <1>1, <1>2, <1>5, s.at = Len(s.disk) DEF Resting, t, d, e

LEMMA RestWritten ==
    ASSUME NEW s, Resting(s), s.at = Len(s.disk), NEW unit \in Things,
           NEW t, t = Written(s, unit)
    PROVE  Resting(t) /\ t.at = Len(t.disk)
<1> DEFINE d == s.disk
           e == t.disk
<1>1. s \in Handles /\ 3 <= Len(d) /\ s.at <= Len(d) /\ Aimed(d, d[3][2])
  BY DEF Resting
<1>2. /\ t \in Handles /\ t.at <= Len(e)
      /\ s.room = 0 => t = s
      /\ s.room # 0 => /\ t.at = s.at + 1 /\ Len(e) = Len(d) + 1
                       /\ \A i \in 1 .. Len(d) : i # s.at + 1 => e[i] = d[i]
  BY <1>1, WrittenIs
<1>3. CASE s.room = 0
  BY <1>2, <1>3
<1>4. CASE s.room # 0
  <2>1. d \in Seq(Things) /\ e \in Seq(Things) /\ Len(d) \in Nat /\ s.at = Len(d)
    BY <1>1, <1>2 DEF Handles
  <2> HIDE DEF d, e
  <2>2. e[3] = d[3] /\ \A i \in 4 .. Len(d) : e[i] = d[i]
    BY ONLY <1>1, <1>2, <1>4, <2>1
  <2>3. Aimed(e, e[3][2]) /\ 3 <= Len(e) /\ t.at = Len(e)
    BY <1>1, <1>2, <1>4, <2>1, <2>2, AimedStays
  <2> QED BY <1>2, <2>3 DEF Resting, e
<1> QED BY <1>3, <1>4

LEMMA RestShut == ASSUME NEW s, Resting(s) PROVE Resting(Shut(s)) /\ Shut(s).disk = s.disk
<1> DEFINE t == Shut(s)
<1>1. s \in Handles
  BY DEF Resting
<1>2. t \in Handles /\ t.disk = s.disk /\ t.at = s.at /\ t.seeks = 0
  BY ONLY <1>1 DEF Shut, Handles
<1> HIDE DEF t
<1>3. Resting(t)
  BY <1>2 DEF Resting
<1> QED BY <1>2, <1>3 DEF t

\* The last-resort flush has nothing to flush.
LEMMA RestDestroyed == ASSUME NEW s, Resting(s) PROVE Core!Sink!fileout_destroy(s) = s
<1> DEFINE d == s.disk
           e == Core!Sink!Overlay(d, s.at, <<>>)
<1>1. /\ s \in Handles /\ s.buf = <<>> /\ ~s.failed /\ s.room \in Nat /\ d \in Seq(Things)
      /\ s.at \in Nat /\ s.at <= Len(d)
  BY DEF Resting, Handles
<1>2. e = d
  <2>1. Core!Sink!Longer(Len(d), s.at + Len(<<>>)) = Len(d)
    BY ONLY <1>1 DEF Core!Sink!Longer
  <2>2. \A i \in 1 .. Len(d) : ~(i > s.at /\ i <= s.at + Len(<<>>))
    BY ONLY <1>1
  <2>3. e = [i \in 1 .. Len(d) |-> d[i]]
    BY ONLY <2>1, <2>2 DEF Core!Sink!Overlay
  <2> QED BY ONLY <1>1, <2>3
<1>3. Core!Sink!fileout_destroy(s) = [Core!Sink!fileout_emit(s, <<>>) EXCEPT !.buf = <<>>]
  BY ONLY <1>1 DEF Core!Sink!fileout_destroy, Core!Sink!fileout_flush
<1>4. Core!Sink!fileout_emit(s, <<>>)
        = [s EXCEPT !.disk = e, !.at = s.at + 0, !.room = s.room - 0, !.failed = FALSE]
  <2>1. Len(<<>>) = 0 /\ Len(<<>>) <= s.room /\ (Len(<<>>) > s.room) = FALSE
    BY ONLY <1>1
  <2>2. /\ (IF Len(<<>>) <= s.room THEN <<>> ELSE SubSeq(<<>>, 1, s.room)) = <<>>
        /\ ~s.failed
    BY ONLY <1>1, <2>1
  <2> QED BY ONLY <2>1, <2>2 DEF Core!Sink!fileout_emit
<1> HIDE DEF e
<1>5. s.at + 0 = s.at /\ s.room - 0 = s.room /\ s.failed = FALSE
  BY ONLY <1>1 DEF Handles
<1> DEFINE r == Core!Sink!fileout_destroy(s)
<1>6. r = [[s EXCEPT !.disk = d, !.at = s.at, !.room = s.room, !.failed = FALSE]
             EXCEPT !.buf = <<>>]
  BY ONLY <1>2, <1>3, <1>4, <1>5
<1> HIDE DEF r
<1>7. /\ r \in Handles /\ r.disk = s.disk /\ r.at = s.at /\ r.room = s.room
      /\ r.seeks = s.seeks /\ r.buf = s.buf /\ r.pos = s.pos
      /\ r.seekable = s.seekable /\ r.failed = s.failed
  BY ONLY <1>1, <1>5, <1>6 DEF Handles
<1>8. r = s
  BY ONLY <1>1, <1>7 DEF Handles
<1> QED BY <1>8 DEF r

LEMMA RestAppended ==
    ASSUME NEW s, Resting(s), NEW t, t = [s EXCEPT !.disk = Append(@, <<"index">>)]
    PROVE  /\ Resting(t) /\ Aimed(t.disk, Len(s.disk))
           /\ t.disk = Append(s.disk, <<"index">>)
<1> DEFINE d == s.disk
           e == t.disk
<1>1. s \in Handles /\ 3 <= Len(d) /\ s.at <= Len(d) /\ Aimed(d, d[3][2])
  BY DEF Resting
<1>2. d \in Seq(Things) /\ <<"index">> \in Things /\ Append(d, <<"index">>) \in Seq(Things)
  BY <1>1 DEF Handles, Things
<1>3. t \in Handles /\ e = Append(d, <<"index">>) /\ t.at = s.at
  <2> DEFINE a == Append(d, <<"index">>)
  <2>1. a \in Seq(Things) /\ t = [s EXCEPT !.disk = a]
    BY <1>2
  <2> HIDE DEF a
  <2> QED BY ONLY <1>1, <2>1 DEF Handles, a
<1> HIDE DEF d, e
<1>4. /\ Len(d) \in Nat /\ Len(e) = Len(d) + 1 /\ e[Len(d) + 1] = <<"index">>
      /\ \A i \in 1 .. Len(d) : e[i] = d[i]
      /\ e \in Seq(Things)
  BY ONLY <1>2, <1>3
<1>5. e[3] = d[3] /\ Aimed(e, Len(d)) /\ 3 <= Len(e) /\ t.at <= Len(e)
  <2>1. s.at \in Nat
    BY <1>1 DEF Handles
  <2> QED BY ONLY <1>1, <1>3, <1>4, <2>1 DEF Aimed
<1>6. Aimed(e, e[3][2])
  <2> DEFINE x == d[3][2]
  <2>1. Len(d) <= Len(e) /\ \A i \in 4 .. Len(d) : e[i] = d[i]
    BY ONLY <1>4
  <2>2. d \in Seq(Things) /\ e \in Seq(Things) /\ Aimed(d, x)
    BY <1>1, <1>2, <1>4
  <2> HIDE DEF x
  <2>3. Aimed(e, x)
    BY ONLY <2>1, <2>2, AimedStays
  <2> QED BY <1>5, <2>3 DEF x
<1>7. Indexes(e) # {}
  BY <1>4, <1>5, AimedIndexes
<1>8. Resting(t)
  BY <1>3, <1>5, <1>6, <1>7 DEF Resting, e
<1> QED BY <1>3, <1>5, <1>8 DEF d, e

LEMMA RestPointed ==
    ASSUME NEW s, Resting(s), NEW x \in Nat, Aimed(s.disk, x),
           NEW t, t = [s EXCEPT !.disk[3] = <<"laszip", x>>]
    PROVE  /\ Resting(t) /\ Len(t.disk) = Len(s.disk)
           /\ \A i \in 1 .. Len(s.disk) : i # 3 => t.disk[i] = s.disk[i]
<1> DEFINE d == s.disk
           e == t.disk
           u == <<"laszip", x>>
<1>1. s \in Handles /\ 3 <= Len(d) /\ s.at <= Len(d) /\ Aimed(d, d[3][2])
  BY DEF Resting
<1>2. u \in Things /\ u[2] = x
  <2>1. \A a \in Int : <<"laszip", a>> \in Seq(STRING \cup Int)
    BY Headers
  <2>2. u \in Seq(STRING \cup Int)
    BY <2>1
  <2> QED BY <2>2, UnitsAreThings
<1>3. d \in Seq(Things) /\ Len(d) \in Nat
  BY <1>1 DEF Handles
<1> DEFINE f == [d EXCEPT ![3] = u]
<1> HIDE DEF u
<1>4. /\ f \in Seq(Things) /\ Len(f) = Len(d) /\ f[3] = u
      /\ \A i \in 1 .. Len(d) : i # 3 => f[i] = d[i]
  <2> HIDE DEF d
  <2>1. 3 \in DOMAIN d
    BY ONLY <1>1, <1>3
  <2> QED BY ONLY <1>2, <1>3, <2>1
<1>5. t = [s EXCEPT !.disk = f]
  BY DEF u
<1> HIDE DEF f
<1>6. t \in Handles /\ e = f /\ t.at = s.at
  BY ONLY <1>1, <1>4, <1>5 DEF Handles
<1> HIDE DEF d, e
<1>7. \A i \in 4 .. Len(d) : e[i] = d[i]
  BY <1>3, <1>4, <1>6
<1>8. Aimed(e, x) /\ e \in Seq(Things)
  <2>1. Aimed(d, x) /\ e \in Seq(Things) /\ Len(d) <= Len(e)
    BY <1>3, <1>4, <1>6 DEF d
  <2> QED BY ONLY <1>3, <1>7, <2>1, AimedStays
<1>9. Aimed(e, e[3][2]) /\ Indexes(e) # {}
  BY <1>2, <1>4, <1>6, <1>8, AimedIndexes
<1>10. Resting(t)
  BY <1>1, <1>4, <1>6, <1>9 DEF Resting, e
<1> QED BY <1>4, <1>6, <1>10 DEF d, e

-----------------------------------------------------------------------------
(* One step of the front end, once the points are finished. *)

LEMMA HeaderIsAThing ==
    ASSUME Typed, index \in Nat
    PROVE  HeaderNow \in Things /\ <<"lascompatible", index>> \in Things
<1> DEFINE a == IF Legacy(layout) /\ index <= U32_MAX THEN index ELSE 0
           b == IF LAS14(layout) THEN index ELSE 0
           c == IF (Legacy(layout) /\ index <= U32_MAX) \/ LAS14(layout)
                THEN self.tallied ELSE 0
           d == self.ext.start
           e == self.ext.number
<1>1. HeaderNow = <<"header", a, b, c, d, e>>
  BY DEF HeaderNow
<1>2. a \in Int /\ b \in Int /\ c \in Int /\ d \in Int /\ e \in Int /\ index \in Int
  BY DEF Typed
<1> HIDE DEF a, b, c, d, e
<1>3. /\ <<"header", a, b, c, d, e>> \in Seq(STRING \cup Int)
      /\ <<"lascompatible", index>> \in Seq(STRING \cup Int)
  BY ONLY <1>2, Headers
<1> QED BY ONLY <1>1, <1>3, UnitsAreThings

\* The writer under it is not asked any more.
LEMMA FinishedIsSpent ==
    ASSUME Finished
    PROVE  /\ ~Core!Writer_write /\ ~Core!Writer_chunk /\ ~Core!Writer_done /\ state # "open"
           /\ ~write /\ ~chunk /\ ~Edit
<1>1. state # "open"
  BY DEF Finished
<1>2. ~Core!Writer_write /\ ~Core!Writer_chunk /\ ~Core!Writer_done
  BY ONLY <1>1 DEF Core!Writer_write, Core!Writer_chunk, Core!Writer_done
<1> QED BY <1>1, <1>2 DEF write, chunk, Edit

LEMMA FinishedOn ==
    ASSUME Finished, Resting(wp'.outstream), "outstream" \in DOMAIN wp', Typed',
           UNCHANGED <<layout, index, written>>, state' \in {"done", "dropped"},
           self'.evlrs = self.evlrs, self'.fits = self.fits,
           frame'.pc \in Closing => wp'.outstream.at = Len(Disk'),
           frame'.pc = "record" => frame'.rest # <<>>,
           frame'.pc = "index" => frame'.start = Len(Disk'),
           frame'.pc = "patch" => Aimed(Disk', frame'.start)
    PROVE  Finished'
<1>1. Closable'
  BY DEF Finished, Closable, Keyed, Addressable, LAS14
<1>2. layout' \in Layouts /\ written' \in Seq(Nat) /\ index' = Len(written')
  BY DEF Finished
<1> QED BY ONLY <1>1, <1>2, Resting(wp'.outstream), "outstream" \in DOMAIN wp',
             state' \in {"done", "dropped"},
             frame'.pc \in Closing => wp'.outstream.at = Len(Disk'),
             frame'.pc = "record" => frame'.rest # <<>>,
             frame'.pc = "index" => frame'.start = Len(Disk'),
             frame'.pc = "patch" => Aimed(Disk', frame'.start)
   DEF Finished

LEMMA FinishedSteps ==
    ASSUME Typed, Finished, Next
    PROVE  Typed' /\ Finished'
<1> DEFINE s == wp.outstream
<1>1. /\ Resting(s) /\ "outstream" \in DOMAIN wp /\ state \in {"done", "dropped"}
      /\ frame.pc \in Closing => s.at = Len(s.disk)
      /\ frame.pc = "record" => frame.rest # <<>>
      /\ frame.pc = "index" => frame.start = Len(s.disk)
      /\ frame.pc = "patch" => Aimed(s.disk, frame.start)
      /\ index \in Nat /\ Disk = s.disk
  BY DEF Finished, Disk
<1>2. /\ s.disk \in Seq(Things) /\ Len(s.disk) \in Nat /\ s.at \in Nat
  BY <1>1 DEF Resting, Handles
<1>3. ASSUME Typed', UNCHANGED <<layout, wp, index, written>>, state' \in {"done", "dropped"},
             self'.evlrs = self.evlrs, self'.fits = self.fits,
             \/ frame' = frame
             \/ frame'.pc \in {"idle", "gone", "done", "file"}
      PROVE  Finished'
  <2>1. Disk' = Disk /\ Resting(wp'.outstream) /\ "outstream" \in DOMAIN wp'
    BY <1>1, <1>3 DEF Disk
  <2>2. /\ frame'.pc \in Closing => wp'.outstream.at = Len(Disk')
        /\ frame'.pc = "record" => frame'.rest # <<>>
        /\ frame'.pc = "index" => frame'.start = Len(Disk')
        /\ frame'.pc = "patch" => Aimed(Disk', frame'.start)
    BY ONLY <1>1, <1>3, <2>1 DEF Closing
  <2> QED BY ONLY <1>3, <2>1, <2>2, Finished, FinishedOn
<1>4. CASE write_refused
  <2>1. Core!Refuse /\ UNCHANGED <<self, frame>>
    BY <1>4 DEF write_refused
  <2>2. UNCHANGED <<layout, wp, state, index, written>>
    BY <2>1 DEF Core!Refuse
  <2>3. Typed'
    BY <2>1 DEF Typed
  <2> QED BY <1>1, <1>3, <2>1, <2>2, <2>3
<1>5. CASE Dropped
  <2>1. Core!Dropped /\ Goes("gone") /\ UNCHANGED self
    BY <1>5 DEF Dropped
  <2>2. /\ wp' = [wp EXCEPT !.outstream = Core!Sink!fileout_destroy(@)]
        /\ state' = "dropped" /\ UNCHANGED <<layout, index, written>>
    BY <2>1 DEF Core!Dropped
  <2>3. Typed' /\ frame'.pc = "gone"
    BY <2>1 DEF Goes, Typed
  <2>4. wp'.outstream = s /\ "outstream" \in DOMAIN wp'
    BY <1>1, <2>2, RestDestroyed
  <2>5. Disk' = s.disk
    BY <2>4 DEF Disk
  <2> QED BY <1>1, <2>1, <2>2, <2>3, <2>4, <2>5, FinishedOn DEF Closing
<1>6. CASE close_refused \/ close_again \/ close
  <2>1. /\ UNCHANGED <<core, self>>
        /\ frame' = frame \/ Goes("done")
    BY <1>6 DEF close_refused, close_again, close
  <2>2. UNCHANGED <<layout, wp, state, index, written>>
    BY <2>1 DEF core
  <2>3. Typed' /\ (frame' = frame \/ frame'.pc = "done")
    BY <2>1 DEF Typed, Goes
  <2> QED BY <1>1, <1>3, <2>1, <2>2, <2>3
<1>7. CASE close_done
  <2>1. Core!Refuse /\ Fails(IF Spent THEN "spent" ELSE "file")
    <3>1. Core!Refuse
      BY <1>7, FinishedIsSpent DEF close_done
    <3>2. out' # "ok"
      BY <3>1 DEF Core!Refuse
    <3> QED BY <1>7, <3>1, <3>2 DEF close_done
  <2>2. UNCHANGED <<layout, wp, state, index, written>>
    BY <2>1 DEF Core!Refuse
  <2>3. Typed' /\ frame'.pc = "file" /\ self'.evlrs = self.evlrs /\ self'.fits = self.fits
    BY <2>1 DEF Fails, Goes, Typed
  <2> QED BY <1>1, <1>3, <2>2, <2>3
<1>8. CASE records
  <2>1. /\ frame.pc = "records" /\ UNCHANGED <<core, self>>
        /\ frame' = [pc |-> IF self.evlrs = <<>> THEN AfterRecords ELSE "record",
                     start |-> s.at, rest |-> self.evlrs]
    <3>1. Keyed(self.evlrs) /\ Addressable(self.evlrs)
      BY DEF Finished, Closable
    <3> QED BY <1>8, <3>1 DEF records, At
  <2>2. UNCHANGED <<layout, wp, state, index, written>>
    BY <2>1 DEF core
  <2>3. AfterRecords \in {"counts", "header"}
    BY DEF AfterRecords
  <2>4. /\ Typed' /\ frame'.pc \in {"record", "counts", "header"}
        /\ frame'.pc = "record" => frame'.rest # <<>>
    BY <1>2, <2>1, <2>3 DEF Typed
  <2>5. Disk' = s.disk /\ wp'.outstream = s /\ "outstream" \in DOMAIN wp'
        /\ s.at = Len(s.disk)
    BY <1>1, <2>1, <2>2 DEF Disk, Closing
  <2> QED BY <1>1, <2>1, <2>2, <2>4, <2>5, FinishedOn
<1>9. CASE record
  <2> DEFINE unit == <<"evlr", frame.rest[1]>>
             last == Len(frame.rest) = 1
  <2>1. /\ frame.pc = "record"
        /\ wp' = [wp EXCEPT !.outstream = Written(s, unit)]
        /\ IF s.room = 0 THEN Fails("file")
           ELSE /\ self' = IF ~last THEN self
                           ELSE [self EXCEPT !.ext = [start |-> frame.start,
                                                      number |-> Len(self.evlrs)]]
                /\ frame' = [frame EXCEPT !.rest = Tail(@),
                                          !.pc = IF last THEN AfterRecords ELSE "record"]
        /\ UNCHANGED <<layout, state, index, written>>
    BY <1>9 DEF record, At
  <2>2. frame.rest \in Seq(Keys) /\ frame.rest # <<>> /\ unit \in Things
    BY <1>1, <2>1 DEF Typed, Things
  <2>3. Resting(wp'.outstream) /\ wp'.outstream.at = Len(Disk') /\ "outstream" \in DOMAIN wp'
    <3>1. wp'.outstream = Written(s, unit) /\ "outstream" \in DOMAIN wp'
      BY <1>1, <2>1
    <3>2. s.at = Len(s.disk)
      BY <1>1, <2>1 DEF Closing
    <3> HIDE DEF unit
    <3>3. Resting(wp'.outstream) /\ wp'.outstream.at = Len(wp'.outstream.disk)
      BY ONLY <1>1, <2>2, <3>1, <3>2, RestWritten
    <3> QED BY <3>1, <3>3 DEF Disk
  <2>4. /\ Typed' /\ self'.evlrs = self.evlrs /\ self'.fits = self.fits
        /\ frame'.pc \in {"file", "record", "counts", "header"}
        /\ frame'.pc = "record" => frame'.rest # <<>>
    <3>1. CASE s.room = 0
      BY <2>1, <3>1 DEF Fails, Goes, Typed
    <3>2. CASE s.room # 0
      <4>1. Tail(frame.rest) \in Seq(Keys) /\ (~last => Tail(frame.rest) # <<>>)
            /\ Len(self.evlrs) \in Nat
        <5> DEFINE q == frame.rest
        <5>1. q \in Seq(Keys) /\ q # <<>> /\ Len(q) \in Nat /\ Len(self.evlrs) \in Nat
          BY <2>2 DEF Typed
        <5> HIDE DEF q
        <5>2. Tail(q) \in Seq(Keys) /\ Len(Tail(q)) = Len(q) - 1
          BY ONLY <5>1
        <5>3. Len(q) # 1 => Tail(q) # <<>>
          <6>1. Len(<<>>) = 0
            BY ONLY <5>1
          <6> DEFINE t == Tail(q)
          <6>2. Len(t) = Len(q) - 1 /\ Len(q) \in Nat
            BY ONLY <5>1, <5>2
          <6> HIDE DEF t
          <6>3. Len(q) # 1 => t # <<>>
            BY ONLY <6>1, <6>2
          <6> QED BY <6>3 DEF t
        <5> QED BY <5>1, <5>2, <5>3 DEF q
      <4>2. AfterRecords \in {"counts", "header"}
        BY DEF AfterRecords
      <4>3. /\ self' = IF ~last THEN self
                       ELSE [self EXCEPT !.ext = [start |-> frame.start,
                                                  number |-> Len(self.evlrs)]]
            /\ frame' = [frame EXCEPT !.rest = Tail(@),
                                      !.pc = IF last THEN AfterRecords ELSE "record"]
        BY ONLY <2>1, <3>2
      <4> QED BY ONLY <4>1, <4>2, <4>3, Typed DEF Typed
    <3> QED BY <3>1, <3>2
  <2> QED BY <1>1, <2>1, <2>3, <2>4, FinishedOn
<1>10. ASSUME NEW position \in 0 .. 1, NEW unit \in Things, NEW next \in {"header", "file"},
              frame.pc \in Closing, Patch(position, unit, next)
       PROVE  Typed' /\ Finished'
  <2> DEFINE p == Patched(s, position, unit)
  <2>1. /\ wp' = [wp EXCEPT !.outstream = p.stream]
        /\ IF p.ok THEN Goes(next) /\ UNCHANGED self ELSE Fails("file")
        /\ UNCHANGED <<layout, state, index, written>>
    BY <1>10 DEF Patch
  <2>2. Resting(p.stream) /\ (p.ok => p.stream.at = Len(p.stream.disk))
    <3>1. s.at = Len(s.disk)
      BY <1>1, <1>10
    <3> HIDE DEF s
    <3> QED BY <1>1, <1>10, <3>1, RestPatched
  <2> HIDE DEF p
  <2>3. wp'.outstream = p.stream /\ Disk' = p.stream.disk /\ "outstream" \in DOMAIN wp'
    BY <1>1, <2>1 DEF Disk
  <2>4. /\ Typed' /\ self'.evlrs = self.evlrs /\ self'.fits = self.fits
        /\ frame'.pc \in {"header", "file"}
        /\ ~p.ok => frame'.pc = "file"
    BY <1>10, <2>1 DEF Fails, Goes, Typed
  <2> QED BY <1>1, <2>1, <2>2, <2>3, <2>4, FinishedOn DEF Closing
<1>11. CASE counts
  BY <1>1, <1>10, <1>11, HeaderIsAThing DEF counts, At, Closing
<1>12. CASE header
  <2>1. self.fits
    BY DEF Finished, Closable
  <2> QED BY <1>1, <1>10, <1>12, <2>1, HeaderIsAThing DEF header, At, Closing
<1>13. CASE Interrupted
  <2>1. Fails("interrupt") /\ UNCHANGED core
    BY <1>13 DEF Interrupted
  <2>2. UNCHANGED <<layout, wp, state, index, written>>
    BY <2>1 DEF core
  <2>3. Typed' /\ frame'.pc = "file" /\ self'.evlrs = self.evlrs /\ self'.fits = self.fits
    BY <2>1 DEF Fails, Goes, Typed
  <2> QED BY <1>1, <1>3, <2>2, <2>3
<1>14. CASE close_file
  <2>1. PICK closed \in BOOLEAN :
          /\ wp' = IF layout.owned THEN [wp EXCEPT !.outstream = Shut(@)] ELSE wp
          /\ self' = [self EXCEPT !.closed = closed, !.raised = @ \/ ~closed]
          /\ Goes("idle")
          /\ UNCHANGED <<layout, state, index, written>>
    <3>1. PICK raises \in BOOLEAN :
            /\ wp' = IF layout.owned THEN [wp EXCEPT !.outstream = Shut(@)] ELSE wp
            /\ self' = [self EXCEPT !.closed = (self.failure = "none" /\ ~raises),
                                    !.raised = @ \/ ~(self.failure = "none" /\ ~raises)]
            /\ Goes("idle")
            /\ UNCHANGED <<layout, state, index, written>>
      BY <1>14 DEF close_file
    <3>2. (self.failure = "none" /\ ~raises) \in BOOLEAN
      OBVIOUS
    <3> QED BY <3>1, <3>2
  <2>2. /\ Typed' /\ self'.evlrs = self.evlrs /\ self'.fits = self.fits
        /\ frame'.pc = "idle"
    BY <2>1 DEF Goes, Typed
  <2>3. Resting(wp'.outstream) /\ "outstream" \in DOMAIN wp'
    BY <1>1, <2>1, RestShut
  <2> QED BY <1>1, <2>1, <2>2, <2>3, FinishedOn DEF Closing
<1>15. CASE append_spatial_index
  <2>1. /\ UNCHANGED <<core, self>>
        /\ \/ frame' = [frame EXCEPT !.pc = "index", !.start = Len(s.disk)]
           \/ frame' = frame
    BY <1>15 DEF append_spatial_index
  <2>2. UNCHANGED <<layout, wp, state, index, written>>
    BY <2>1 DEF core
  <2>3. Typed'
    BY <1>2, <2>1 DEF Typed
  <2>4. CASE frame' = frame
    BY <1>1, <1>3, <2>1, <2>2, <2>3, <2>4
  <2>5. CASE frame' = [frame EXCEPT !.pc = "index", !.start = Len(s.disk)]
    <3>1. frame'.pc = "index" /\ frame'.start = Len(s.disk)
      BY <2>5 DEF Typed
    <3>2. Disk' = s.disk
      BY <2>2 DEF Disk
    <3> QED BY <1>1, <2>1, <2>2, <2>3, <3>1, <3>2, FinishedOn DEF Closing
  <2> QED BY <2>1, <2>4, <2>5
<1>16. CASE append_record
  <2>1. /\ frame.pc = "index" /\ Goes("patch")
        /\ wp' = [wp EXCEPT !.outstream = [s EXCEPT !.disk = Append(@, <<"index">>)]]
        /\ UNCHANGED <<layout, state, index, written, self>>
    BY <1>16 DEF append_record, At
  <2>2. Typed' /\ frame'.pc = "patch" /\ frame'.start = frame.start
    BY <2>1 DEF Goes, Typed
  <2>3. wp'.outstream = [s EXCEPT !.disk = Append(@, <<"index">>)] /\ "outstream" \in DOMAIN wp'
    BY <1>1, <2>1
  <2>4. Resting(wp'.outstream) /\ Aimed(wp'.outstream.disk, Len(s.disk))
    BY ONLY <1>1, <2>3, RestAppended
  <2>5. Aimed(Disk', frame'.start)
    BY <1>1, <2>1, <2>2, <2>4 DEF Disk
  <2> QED BY <1>1, <2>1, <2>2, <2>3, <2>4, <2>5, FinishedOn DEF Closing
<1>17. CASE patch_laszip_record
  <2>1. /\ frame.pc = "patch" /\ Goes("idle")
        /\ wp' = [wp EXCEPT !.outstream = [s EXCEPT !.disk[3] = <<"laszip", frame.start>>]]
        /\ UNCHANGED <<layout, state, index, written, self>>
    BY <1>17 DEF patch_laszip_record, At
  <2>2. Typed' /\ frame'.pc = "idle" /\ frame.start \in Nat
    BY <2>1 DEF Goes, Typed
  <2>3. wp'.outstream = [s EXCEPT !.disk[3] = <<"laszip", frame.start>>]
        /\ "outstream" \in DOMAIN wp'
    BY <1>1, <2>1
  <2>4. Resting(wp'.outstream)
    BY ONLY <1>1, <2>1, <2>2, <2>3, RestPointed
  <2> QED BY <1>1, <2>1, <2>2, <2>3, <2>4, FinishedOn DEF Closing
<1>18. CASE append_interrupted
  <2>1. Goes("idle") /\ UNCHANGED <<core, self>>
    BY <1>18 DEF append_interrupted
  <2>2. UNCHANGED <<layout, wp, state, index, written>>
    BY <2>1 DEF core
  <2>3. Typed' /\ frame'.pc = "idle"
    BY <2>1 DEF Goes, Typed
  <2> QED BY <1>1, <1>3, <2>1, <2>2, <2>3
<1> QED BY <1>4, <1>5, <1>6, <1>7, <1>8, <1>9, <1>11, <1>12, <1>13, <1>14, <1>15, <1>16,
           <1>17, <1>18, FinishedIsSpent DEF Next

LEMMA LivingStays == Living /\ [Next]_vars => Living'
<1>1. ASSUME Living, Next PROVE Living'
  BY <1>1, UnfinishedSteps, FinishedSteps DEF Living
<1>2. ASSUME Living, UNCHANGED vars PROVE Living'
  <2>1. UNCHANGED core /\ UNCHANGED <<out, self, frame>>
    BY <1>2 DEF vars
  <2>2. UNCHANGED <<layout, wp, state, index, offered, written>>
    BY <2>1 DEF core
  <2>3. Typed'
    BY <1>2, <2>1 DEF Living, Typed
  <2>4. CASE Unfinished
    <3>1. WP!Going' /\ WP!StartsAsItDid'
      BY <2>1, <2>4, StaysGoing DEF Unfinished, WP!Going, WP!Bookkeeping
    <3>2. frame.pc = "done" => Closable'
      BY <2>1, <2>2, <2>4 DEF Unfinished, Closable, Keyed, Addressable, LAS14
    <3> QED BY <2>1, <2>2, <2>3, <2>4, <3>1, <3>2 DEF Unfinished, Living
  <2>5. CASE Finished
    BY <2>1, <2>2, <2>3, <2>5, FinishedOn DEF Finished, Living, Disk
  <2> QED BY <1>2, <2>4, <2>5 DEF Living
<1> QED BY <1>1, <1>2

-----------------------------------------------------------------------------
\* Once the points are finished close() does not fail over a header or a record,
\* whatever else does: it asked about both before, and nothing can be edited
\* between (_check_closable, Writer.close).
THEOREM MistakesAreFoundInTime == Spec => []MistakesCostNothing
<1>1. Living => MistakesCostNothing
  BY DEF Living, Typed, MistakesCostNothing
<1> QED BY <1>1, InitLiving, LivingStays, PTL DEF Spec

\* A file object the caller lent is left at the end of what was written, however
\* closing the file ended (keeping_position, _patch_header).
THEOREM TheHandleIsPutBack == Spec => []HandleIsPutBack
<1>1. Living => HandleIsPutBack
  BY DEF Living, Unfinished, Finished, Resting, HandleIsPutBack
<1> QED BY <1>1, InitLiving, LivingStays, PTL DEF Spec

\* The LASzip record points to an index or to none, wherever appending one stops
\* (append_spatial_index).
THEOREM IndexesAreWhereTheyAreSaid == Spec => []IndexIsWhereItIsSaid
<1>1. Living => IndexIsWhereItIsSaid
  <2> SUFFICES ASSUME Living PROVE IndexIsWhereItIsSaid
    OBVIOUS
  <2>1. CASE Unfinished
    <3>1. WP!Base = 3
      BY PrefaceIs DEF WP!Base
    <3>2. Disk[3] = <<"laszip", -1>>
      BY <2>1, <3>1, PrefaceIs DEF Unfinished, WP!StartsAsItDid, Disk
    <3> QED BY <3>2 DEF IndexIsWhereItIsSaid
  <2>2. CASE Finished
    <3>1. Aimed(Disk, Disk[3][2]) /\ Len(Disk) \in Nat
      BY <2>2 DEF Finished, Resting, Disk, Handles
    <3> QED BY <3>1 DEF Aimed, IndexIsWhereItIsSaid
  <2> QED BY <2>1, <2>2 DEF Living
<1> QED BY <1>1, InitLiving, LivingStays, PTL DEF Spec

-----------------------------------------------------------------------------
(* How the file is read is how the writer's proofs read it. *)

LEMMA SameReading ==
    \A l, d : /\ Core!ReadsBack(l, d) <=> WP!ReadsBack(l, d)
              /\ Core!Points(Core!PointArea(l, d)) = WP!Points(WP!PointArea(l, d))
<1>1. \A d : Core!Points(d) = WP!Points(d)
  BY DEF Core!Points, WP!Points
<1>2. \A l, d : Core!IsChunk(l, d) <=> WP!IsChunk(l, d)
  BY SameContainer DEF Core!IsChunk, WP!IsChunk
<1>3. \A d, at, i : Core!StartOf(d, at, i) = WP!StartOf(d, at, i)
  BY SameContainer DEF Core!StartOf, WP!StartOf
<1>4. \A d : Core!TablePosition(d) = WP!TablePosition(d)
  BY SameContainer DEF Core!TablePosition, WP!TablePosition
<1>5. \A l, d : Core!ReadsByTable(l, d) <=> WP!ReadsByTable(l, d)
  <2> SUFFICES ASSUME NEW l, NEW d PROVE Core!ReadsByTable(l, d) <=> WP!ReadsByTable(l, d)
    OBVIOUS
  <2> QED BY <1>2, <1>3, <1>4 DEF Core!ReadsByTable, WP!ReadsByTable
<1>6. \A l, d : Core!PointArea(l, d) = WP!PointArea(l, d)
  BY <1>3, <1>4, SameContainer DEF Core!PointArea, WP!PointArea
<1>7. \A l, d : Core!ReadsBack(l, d) <=> WP!ReadsBack(l, d)
  BY <1>2, <1>5, SameContainer DEF Core!ReadsBack, WP!ReadsBack
<1> QED BY <1>1, <1>6, <1>7

-----------------------------------------------------------------------------
(* What the file says, where memory only runs out in a layer or while the  *)
(* table is compressed, and no chunk can come to U32_MAX points.           *)

\* The points of a writer that finished, with something in front and behind.
Leading == {"header", "lascompatible", "laszip"}

Block(l, pts, d) ==
    \E m \in 3 .. Len(d) : \E w :
       /\ WP!Filed(l, w, pts) /\ Len(w.outstream.disk) = m
       /\ \A i \in 4 .. m : d[i] = w.outstream.disk[i]
       /\ \A i \in 1 .. 3 : d[i] \in WP!Unit /\ d[i][1] \in Leading
       /\ \A i \in m + 1 .. Len(d) : d[i][1] \in {"evlr", "index"}

\* The first k extended records are where they are said to be.
Recorded(evlrs, d, start, k) ==
    /\ start + k <= Len(d)
    /\ k > 0 => 3 <= start
    /\ \A i \in 1 .. k : d[start + i] = <<"evlr", evlrs[i]>>

Extended == /\ self.ext.number = Len(self.evlrs)
            /\ Recorded(self.evlrs, Disk, self.ext.start, self.ext.number)

\* The header is the last word on it.
Stating == /\ Disk[1] = HeaderNow /\ Extended
           /\ Disguised(layout) => Disk[2] = <<"lascompatible", index>>

\* Records being written: those that are, and those that are left.
Recording ==
    LET k == Len(self.evlrs) - Len(frame.rest)
    IN  /\ k >= 0 /\ 3 <= frame.start /\ frame.start + k = Len(Disk)
        /\ Recorded(self.evlrs, Disk, frame.start, k)
        /\ \A i \in 1 .. Len(frame.rest) : frame.rest[i] = self.evlrs[k + i]

\* Until the points are finished all of them are kept and counted.
Counting ==
    /\ self.ext.start = 0 /\ self.ext.number = 0
    /\ state = "open" => /\ WP!Keeping /\ offered <= MaxPoints
                         /\ self.tallied = offered
                         /\ self.failure = "none" /\ ~self.raised

\* From then on there is either the empty header or the one that is right.
Truthful ==
    /\ Block(layout, written, Disk) /\ self.tallied = Len(written) /\ Len(written) <= MaxPoints
    /\ Disk[1] = Blank \/ Stating
    /\ frame.pc \in Closing => /\ Disk[1] = Blank
                              /\ ~self.closed /\ ~self.raised /\ self.failure = "none"
    /\ frame.pc = "records" => self.ext.start = 0 /\ self.ext.number = 0
    /\ frame.pc = "record" => Recording
    /\ frame.pc \in {"counts", "header"} => Extended
    /\ frame.pc = "header" /\ Disguised(layout) => Disk[2] = <<"lascompatible", index>>
    /\ frame.pc = "file" /\ self.failure = "none" => Stating /\ ~self.raised
    /\ self.closed => Stating /\ ~self.raised

Faithful == \/ Unfinished /\ Counting
            \/ Finished /\ Truthful

\* e is d with something behind it, and something else in front of its points.
Later(d, e) ==
    /\ d \in Seq(Things) /\ e \in Seq(Things) /\ 3 <= Len(d) /\ Len(d) <= Len(e)
    /\ \A i \in 4 .. Len(d) : e[i] = d[i]
    /\ \A i \in Len(d) + 1 .. Len(e) : e[i][1] \in {"evlr", "index"}

LEMMA BlockStays ==
    ASSUME NEW l, NEW pts, NEW d, NEW e, Later(d, e), Block(l, pts, d),
           \A i \in 1 .. 3 : e[i] \in WP!Unit /\ e[i][1] \in Leading
    PROVE  Block(l, pts, e)
<1>1. PICK m \in 3 .. Len(d) : \E w :
        /\ WP!Filed(l, w, pts) /\ Len(w.outstream.disk) = m
        /\ \A i \in 4 .. m : d[i] = w.outstream.disk[i]
        /\ \A i \in m + 1 .. Len(d) : d[i][1] \in {"evlr", "index"}
  BY DEF Block
<1>2. PICK w :
        /\ WP!Filed(l, w, pts) /\ Len(w.outstream.disk) = m
        /\ \A i \in 4 .. m : d[i] = w.outstream.disk[i]
        /\ \A i \in m + 1 .. Len(d) : d[i][1] \in {"evlr", "index"}
  BY <1>1
<1>3. /\ Len(d) \in Nat /\ Len(e) \in Nat /\ Len(d) <= Len(e) /\ m \in Nat /\ 3 <= m /\ m <= Len(d)
      /\ \A i \in 4 .. Len(d) : e[i] = d[i]
      /\ \A i \in Len(d) + 1 .. Len(e) : e[i][1] \in {"evlr", "index"}
  BY DEF Later
<1>4. m \in 3 .. Len(e)
  BY ONLY <1>3
<1>5. \A i \in 4 .. m : e[i] = w.outstream.disk[i]
  BY ONLY <1>2, <1>3
<1>6. \A i \in m + 1 .. Len(e) : e[i][1] \in {"evlr", "index"}
  <2> SUFFICES ASSUME NEW i \in m + 1 .. Len(e) PROVE e[i][1] \in {"evlr", "index"}
    OBVIOUS
  <2>1. i \in m + 1 .. Len(d) \/ i \in Len(d) + 1 .. Len(e)
    BY <1>3
  <2>2. i \in m + 1 .. Len(d) => i \in 4 .. Len(d)
    BY <1>3
  <2> QED BY ONLY <1>2, <1>3, <2>1, <2>2
<1> QED BY <1>2, <1>4, <1>5, <1>6 DEF Block

LEMMA RecordedStays ==
    ASSUME NEW evlrs, NEW d, NEW e, Later(d, e), NEW start \in Nat, NEW k \in Nat,
           Recorded(evlrs, d, start, k)
    PROVE  Recorded(evlrs, e, start, k)
<1>1. /\ Len(d) \in Nat /\ Len(e) \in Nat /\ Len(d) <= Len(e)
      /\ \A i \in 4 .. Len(d) : e[i] = d[i]
  BY DEF Later
<1>2. /\ start + k <= Len(d)
      /\ k > 0 => 3 <= start
      /\ \A i \in 1 .. k : d[start + i] = <<"evlr", evlrs[i]>>
  BY DEF Recorded
<1>3. ASSUME NEW i \in 1 .. k PROVE e[start + i] = <<"evlr", evlrs[i]>>
  <2>1. start + i \in 4 .. Len(d)
    BY ONLY <1>1, <1>2, <1>3, k \in Nat, start \in Nat
  <2> QED BY ONLY <1>1, <1>2, <1>3, <2>1
<1>4. start + k <= Len(e)
  BY ONLY <1>1, <1>2, k \in Nat, start \in Nat
<1> QED BY <1>2, <1>3, <1>4 DEF Recorded

\* What is on the file is the same, or is true for longer.
LEMMA StatingStays ==
    ASSUME Typed, Stating, Later(Disk, Disk'), Disk'[1] = Disk[1],
           Disk'[2] = Disk[2] \/ Disk'[2] = <<"lascompatible", index>>,
           UNCHANGED <<layout, index>>,
           self'.evlrs = self.evlrs, self'.ext = self.ext, self'.tallied = self.tallied
    PROVE  Stating'
<1>1. HeaderNow' = HeaderNow
  BY DEF HeaderNow, Legacy, LAS14
<1>2. Extended'
  <2>1. self.ext.start \in Nat /\ self.ext.number \in Nat
    BY DEF Typed
  <2>2. /\ self.ext.number = Len(self.evlrs)
        /\ Recorded(self.evlrs, Disk, self.ext.start, self.ext.number)
    BY DEF Stating, Extended
  <2>3. Recorded(self.evlrs, Disk', self.ext.start, self.ext.number)
    BY ONLY <2>1, <2>2, Later(Disk, Disk'), RecordedStays
  <2> QED BY <2>2, <2>3 DEF Extended
<1>3. Disguised(layout') => Disk'[2] = <<"lascompatible", index'>>
  BY DEF Stating, Disguised
<1> QED BY <1>1, <1>2, <1>3 DEF Stating

LEMMA TruthfulStays ==
    ASSUME Typed, Truthful, Later(Disk, Disk'), Disk'[1] = Disk[1], Disk'[2] = Disk[2],
           Disk'[3] \in WP!Unit /\ Disk'[3][1] \in Leading,
           UNCHANGED <<layout, index, written>>,
           self'.evlrs = self.evlrs, self'.ext = self.ext, self'.tallied = self.tallied,
           frame'.pc \notin Closing,
           frame'.pc = "file" /\ self'.failure = "none" => Stating /\ ~self'.raised,
           self'.closed => Stating /\ ~self'.raised
    PROVE  Truthful'
<1>1. Stating => Stating'
  BY StatingStays
<1>2. Block(layout', written', Disk')
  <2>1. \A i \in 1 .. 3 : Disk'[i] \in WP!Unit /\ Disk'[i][1] \in Leading
    <3>1. \A i \in 1 .. 3 : Disk[i] \in WP!Unit /\ Disk[i][1] \in Leading
      BY DEF Truthful, Block
    <3>2. \A i \in 1 .. 3 : i = 1 \/ i = 2 \/ i = 3
      OBVIOUS
    <3> QED BY <3>1, <3>2
  <2>2. Block(layout, written, Disk)
    BY DEF Truthful
  <2>3. Block(layout, written, Disk')
    BY ONLY <2>1, <2>2, Later(Disk, Disk'), BlockStays
  <2> QED BY <2>3
<1>3. Disk'[1] = Blank \/ Stating'
  BY <1>1 DEF Truthful
<1>4. self'.tallied = Len(written') /\ Len(written') <= MaxPoints
  BY DEF Truthful
<1>5. frame'.pc \notin {"records", "record", "counts", "header"}
  BY DEF Closing
<1> QED BY ONLY <1>1, <1>2, <1>3, <1>4, <1>5,
           frame'.pc = "file" /\ self'.failure = "none" => Stating /\ ~self'.raised,
           self'.closed => Stating /\ ~self'.raised
    DEF Truthful, Closing

-----------------------------------------------------------------------------
(* Until the points are finished. *)

LEMMA InitFaithful == Init => Faithful
<1> SUFFICES ASSUME Init PROVE Faithful
  OBVIOUS
<1>1. Typed /\ (Unfinished \/ Finished)
  BY InitLiving DEF Living
<1>2. WP!Init /\ WP!Keeping
  BY SameWriter, TheirAssumptions, WP!InitKeeping DEF Init
<1>3. state \notin {"done", "dropped"} /\ offered = 0
  BY <1>2 DEF WP!Init
<1>4. Unfinished
  BY <1>1, <1>3 DEF Finished
<1>5. 0 <= MaxPoints
  BY LifecycleAssumption
<1>6. Counting
  BY <1>2, <1>3, <1>5 DEF Init, Counting
<1> QED BY <1>4, <1>6 DEF Faithful

\* Beside the writer, its points are kept as they are.
LEMMA StaysKeeping ==
    ASSUME WP!Keeping, UNCHANGED core, out' \in {"none", "ok", "error"}
    PROVE  WP!Keeping'
<1>1. UNCHANGED <<layout, wp, state, index, offered, written>>
  BY DEF core
<1>2. WP!Going'
  <2>1. WP!Bookkeeping'
    BY <1>1 DEF WP!Keeping, WP!Going, WP!Bookkeeping
  <2>2. PICK c : WP!Ready(layout, wp, c) /\ (state = "open" => WP!Fronted(layout, c))
    BY DEF WP!Keeping, WP!Going
  <2>3. WP!Ready(layout', wp', c) /\ (state' = "open" => WP!Fronted(layout', c))
    BY <1>1, <2>2
  <2> QED BY <2>1, <2>3 DEF WP!Going
<1>3. state' = "open" => \/ WP!Lost(layout', wp')
                         \/ /\ \E c, b : WP!Kept(layout', wp', c, b, written', offered')
                            /\ WP!Numbered(written', offered')
  BY <1>1 DEF WP!Keeping
<1>4. state' # "open" => WP!Sealed(layout', wp', written')
  BY <1>1 DEF WP!Keeping
<1>5. state' = "done" => WP!Filed(layout', wp', written') /\ WP!Numbered(written', offered')
  BY <1>1 DEF WP!Keeping
<1> QED BY ONLY <1>2, <1>3, <1>4, <1>5 DEF WP!Keeping

LEMMA StepKeeping ==
    ASSUME WP!Modest, WP!Keeping, Core!Next
    PROVE  WP!Keeping'
<1>1. [WP!Next]_(WP!wvars)
  BY SameWriter
<1> QED BY <1>1, TheirAssumptions, WP!NextKeeping

\* The file that done() left.
LEMMA DoneIsTruthful ==
    ASSUME WP!Modest, Typed, Unfinished, Counting, close_done, out' = "ok"
    PROVE  Truthful' /\ state' = "done"
<1>1. /\ frame.pc = "done" /\ Goes("records") /\ UNCHANGED self /\ Core!Writer_done
  <2>1. ~Core!Refuse
    BY DEF Core!Refuse
  <2> QED BY <2>1 DEF close_done, At
<1>2. /\ state = "open" /\ state' = "done"
      /\ UNCHANGED <<layout, index, offered, written>>
  BY <1>1 DEF Core!Writer_done, Core!Outcome
<1>3. /\ WP!Keeping /\ offered <= MaxPoints /\ self.tallied = offered
      /\ self.failure = "none" /\ ~self.raised
      /\ self.ext.start = 0 /\ self.ext.number = 0
  BY <1>2 DEF Counting
<1>4. WP!Keeping'
  BY <1>1, <1>3, StepKeeping DEF Core!Next
<1>5. WP!Filed(layout', wp', written') /\ WP!Numbered(written', offered')
  BY <1>2, <1>4 DEF WP!Keeping
<1>6. self'.tallied = Len(written') /\ Len(written') <= MaxPoints
  BY <1>1, <1>2, <1>3, <1>5 DEF WP!Numbered
<1>7. WP!StartsAsItDid' /\ WP!Base = 3
  <2>1. WP!StartsAsItDid'
    BY <1>1, StepGoing DEF Unfinished, Core!Next
  <2> QED BY <2>1, PrefaceIs DEF WP!Base
<1> DEFINE d == Disk'
<1>8. /\ d = wp'.outstream.disk /\ 3 <= Len(d)
      /\ d[1] = Blank /\ d[2] = <<"lascompatible", 0>> /\ d[3] = <<"laszip", -1>>
  BY <1>7, PrefaceIs DEF Disk, WP!StartsAsItDid
<1>9. d \in Seq(WP!Unit)
  BY <1>5, <1>8, TheirAssumptions, WP!FiledKinds
<1>10. Block(layout', written', d)
  <2>1. \A i \in 1 .. 3 : d[i] \in WP!Unit /\ d[i][1] \in Leading
    <3>1. \A i \in 1 .. 3 : d[i] \in WP!Unit
      BY <1>8, <1>9
    <3>2. d[1][1] = "header" /\ d[2][1] = "lascompatible" /\ d[3][1] = "laszip"
      BY <1>8 DEF Blank
    <3>3. \A i \in 1 .. 3 : i = 1 \/ i = 2 \/ i = 3
      OBVIOUS
    <3> QED BY ONLY <3>1, <3>2, <3>3 DEF Leading
  <2>2. Len(d) \in 3 .. Len(d) /\ \A i \in Len(d) + 1 .. Len(d) : FALSE
    <3>1. Len(d) \in Nat
      BY <1>9
    <3> HIDE DEF d
    <3> QED BY ONLY <1>8, <3>1
  <2> HIDE DEF d
  <2> QED BY ONLY <1>5, <1>8, <2>1, <2>2 DEF Block
<1>11. /\ frame'.pc = "records" /\ ~self'.raised /\ self'.failure = "none"
       /\ self'.ext.start = 0 /\ self'.ext.number = 0 /\ ~self'.closed
  BY <1>1, <1>3 DEF Goes, Typed, Unfinished
<1> HIDE DEF d
<1>12. Truthful'
  BY ONLY <1>6, <1>8, <1>10, <1>11 DEF Truthful, d
<1> QED BY <1>2, <1>12

LEMMA CountingSteps ==
    ASSUME WP!Modest, Typed, Unfinished, Counting, Next
    PROVE  Faithful'
<1>1. Unfinished' \/ (Finished' /\ state' = "done")
  BY UnfinishedSteps
<1>2. /\ state # "done" /\ frame.pc \in {"idle", "gone", "done", "file"}
      /\ self.ext.start = 0 /\ self.ext.number = 0
      /\ state = "open" => /\ WP!Keeping /\ offered <= MaxPoints
                           /\ self.tallied = offered
                           /\ self.failure = "none" /\ ~self.raised
      /\ state = "open" => frame.pc \in {"idle", "done"}
  BY DEF Unfinished, Counting
<1>3. ASSUME state' # "done", self'.ext = self.ext,
             state' = "open" => /\ WP!Keeping' /\ offered' <= MaxPoints
                                /\ self'.tallied = offered'
                                /\ self'.failure = "none" /\ ~self'.raised
      PROVE  Faithful'
  <2>1. Counting'
    BY ONLY <1>2, <1>3 DEF Counting
  <2> QED BY ONLY <1>1, <1>3, <2>1 DEF Faithful
<1>4. CASE write
  <2>1. /\ Core!Writer_write /\ self' = [self EXCEPT !.tallied = @ + 1]
    BY <1>4 DEF write
  <2>2. /\ state = "open" /\ offered < MaxPoints /\ offered' = offered + 1 /\ state' = state
    BY <2>1 DEF Core!Writer_write
  <2>3. WP!Keeping'
    BY <1>2, <2>1, <2>2, StepKeeping DEF Core!Next
  <2>4. /\ self'.ext = self.ext /\ self'.tallied = self.tallied + 1
        /\ self'.failure = self.failure /\ self'.raised = self.raised
    BY <2>1 DEF Typed
  <2>5. offered + 1 <= MaxPoints
    <3>1. offered \in Nat /\ MaxPoints \in Nat
      BY <1>2, <2>2, LifecycleAssumption DEF WP!Keeping, WP!Going, WP!Bookkeeping
    <3> QED BY <2>2, <3>1
  <2> QED BY ONLY <1>2, <1>3, <2>2, <2>3, <2>4, <2>5
<1>5. CASE chunk \/ write_refused
  <2>1. Core!Writer_chunk \/ Core!Refuse
    BY <1>5 DEF chunk, write_refused
  <2>2. self' = self /\ state' = state /\ offered' = offered
    BY <1>5, <2>1 DEF chunk, write_refused, Core!Writer_chunk, Core!Refuse
  <2>3. state = "open" => WP!Keeping'
    BY <1>2, <2>1, StepKeeping DEF Core!Next
  <2> QED BY ONLY <1>2, <1>3, <2>2, <2>3
<1>6. CASE Edit
  <2>1. UNCHANGED core /\ UNCHANGED out
    BY <1>6 DEF Edit
  <2>2. /\ self'.ext = self.ext /\ self'.tallied = self.tallied
        /\ self'.failure = self.failure /\ self'.raised = self.raised
    BY <1>6 DEF Edit, Typed
  <2>3. state = "open" => WP!Keeping'
    BY <1>2, <2>1, StaysKeeping DEF WP!Keeping, WP!Going, WP!Bookkeeping
  <2>4. state' = state /\ offered' = offered
    BY <2>1 DEF core
  <2> QED BY ONLY <1>2, <1>3, <2>2, <2>3, <2>4
<1>7. CASE Dropped
  <2>1. state' = "dropped" /\ self' = self
    BY <1>7 DEF Dropped, Core!Dropped
  <2> QED BY ONLY <1>2, <1>3, <2>1
<1>8. CASE close_refused \/ close_again \/ close
  <2>1. UNCHANGED core /\ self' = self /\ out' \in {"none", "ok", "error"}
    BY <1>8 DEF close_refused, close_again, close
  <2>2. state = "open" => WP!Keeping'
    BY <1>2, <2>1, StaysKeeping
  <2>3. state' = state /\ offered' = offered
    BY <2>1 DEF core
  <2> QED BY ONLY <1>2, <1>3, <2>1, <2>2, <2>3
<1>9. CASE close_done
  <2>1. CASE out' = "ok"
    <3>1. Truthful' /\ state' = "done"
      BY <1>9, <2>1, DoneIsTruthful
    <3> QED BY <1>1, <3>1 DEF Faithful, Unfinished
  <2>2. CASE out' # "ok"
    <3>1. Fails(IF Spent THEN "spent" ELSE "file")
      BY <1>9, <2>2 DEF close_done
    <3>2. self'.ext = self.ext
      BY <3>1 DEF Fails, Typed
    <3>3. state' # "open" /\ state' # "done"
      BY <1>2, <1>9, <2>2 DEF close_done, Core!Refuse, Core!Writer_done, Core!Outcome
    <3> QED BY ONLY <1>3, <3>2, <3>3
  <2> QED BY <2>1, <2>2
<1>10. CASE close_file
  <2>1. At("file") /\ UNCHANGED <<layout, state>> /\ self'.ext = self.ext
    BY <1>10 DEF close_file, Typed
  <2>2. state' # "open" /\ state' # "done"
    BY <1>2, <2>1 DEF At
  <2> QED BY ONLY <1>3, <2>1, <2>2
<1>11. /\ ~records /\ ~record /\ ~counts /\ ~header /\ ~Interrupted
       /\ ~append_record /\ ~patch_laszip_record /\ ~append_interrupted
  BY ONLY <1>2 DEF records, record, counts, header, Interrupted, append_record,
                   patch_laszip_record, append_interrupted, At
<1>12. ~append_spatial_index
  BY DEF append_spatial_index, Unfinished
<1> QED BY <1>4, <1>5, <1>6, <1>7, <1>8, <1>9, <1>10, <1>11, <1>12 DEF Next

-----------------------------------------------------------------------------
(* Once the points are finished. *)

LEMMA DisksAreThings ==
    ASSUME Finished
    PROVE  /\ Disk \in Seq(Things) /\ Len(Disk) \in Nat /\ 3 <= Len(Disk)
           /\ wp.outstream \in Handles /\ wp.outstream.at <= Len(Disk)
<1>1. /\ Disk = wp.outstream.disk /\ 3 <= Len(Disk) /\ wp.outstream \in Handles
      /\ wp.outstream.at <= Len(Disk)
  BY DEF Finished, Resting, Disk
<1>2. Disk \in Seq(Things)
  BY <1>1 DEF Handles
<1> QED BY <1>1, <1>2

LEMMA LeadingUnits ==
    ASSUME Truthful
    PROVE  \A i \in 1 .. 3 : Disk[i] \in WP!Unit /\ Disk[i][1] \in Leading
BY DEF Truthful, Block

\* The file stays as it is.
LEMMA TruthfulIdles ==
    ASSUME Typed, Finished, Truthful, Disk' = Disk, UNCHANGED <<layout, index, written>>,
           self'.evlrs = self.evlrs, self'.ext = self.ext, self'.tallied = self.tallied,
           frame'.pc \notin Closing,
           frame'.pc = "file" /\ self'.failure = "none" => Stating /\ ~self'.raised,
           self'.closed => Stating /\ ~self'.raised
    PROVE  Truthful'
<1>1. Later(Disk, Disk')
  <2>1. \A i \in Len(Disk) + 1 .. Len(Disk) : FALSE
    BY DisksAreThings
  <2> QED BY <2>1, DisksAreThings DEF Later
<1>2. Disk'[3] \in WP!Unit /\ Disk'[3][1] \in Leading
  BY LeadingUnits
<1> QED BY <1>1, <1>2, TruthfulStays

\* What may be kept of the Writer's fields when close() fails.
LEMMA FailsTruthful ==
    ASSUME Typed, Finished, Truthful, Disk' = Disk, UNCHANGED <<layout, index, written>>,
           NEW why \in {"spent", "file", "interrupt"}, Fails(why)
    PROVE  Truthful'
<1>1. /\ self'.evlrs = self.evlrs /\ self'.ext = self.ext /\ self'.tallied = self.tallied
      /\ self'.failure # "none" /\ self'.closed = self.closed /\ self'.raised = self.raised
      /\ frame'.pc = "file"
  BY DEF Fails, Goes, Typed
<1>2. self.closed => Stating /\ ~self.raised
  BY DEF Truthful
<1> QED BY <1>1, <1>2, TruthfulIdles DEF Closing

LEMMA RecordsTruthful ==
    ASSUME Typed, Finished, Truthful, records
    PROVE  Truthful'
<1>1. /\ frame.pc = "records" /\ UNCHANGED <<core, self>>
      /\ frame' = [pc |-> IF self.evlrs = <<>> THEN AfterRecords ELSE "record",
                   start |-> wp.outstream.at, rest |-> self.evlrs]
  <2>1. Keyed(self.evlrs) /\ Addressable(self.evlrs)
    BY DEF Finished, Closable
  <2> QED BY <2>1 DEF records, At
<1>2. UNCHANGED <<layout, wp, state, index, written>> /\ Disk' = Disk
  BY <1>1 DEF core, Disk
<1>3. /\ self.ext.start = 0 /\ self.ext.number = 0 /\ wp.outstream.at = Len(Disk)
      /\ Disk[1] = Blank /\ ~self.raised /\ self.failure = "none"
      /\ Block(layout, written, Disk) /\ self.tallied = Len(written) /\ Len(written) <= MaxPoints
      /\ Len(Disk) \in Nat /\ 3 <= Len(Disk) /\ ~self.closed
  BY <1>1, DisksAreThings DEF Truthful, Finished, Closing
<1>4. CASE self.evlrs = <<>>
  <2>1. /\ frame'.pc = AfterRecords /\ AfterRecords \in {"counts", "header"}
        /\ AfterRecords = "header" => ~Disguised(layout)
    BY <1>1, <1>4 DEF AfterRecords
  <2>2. Extended
    BY <1>3, <1>4 DEF Extended, Recorded
  <2>3. Extended'
    BY <1>1, <1>2, <2>2 DEF Extended
  <2>4. Disguised(layout') = Disguised(layout)
    BY <1>2
  <2> QED BY <1>1, <1>2, <1>3, <2>1, <2>3, <2>4 DEF Truthful, Closing
<1>5. CASE self.evlrs # <<>>
  <2>1. frame'.pc = "record" /\ frame'.start = Len(Disk) /\ frame'.rest = self.evlrs
    BY <1>1, <1>3, <1>5
  <2>2. Recording'
    <3>1. Len(self.evlrs) \in Nat
      BY DEF Typed
    <3>2. Len(self'.evlrs) - Len(frame'.rest) = 0 /\ Disk' = Disk /\ self' = self
      BY <1>1, <1>2, <2>1, <3>1
    <3>3. Recorded(self.evlrs, Disk, Len(Disk), 0)
      BY <1>3 DEF Recorded
    <3>4. \A i \in 1 .. Len(self.evlrs) : 0 + i = i
      BY <3>1
    <3> QED BY ONLY <1>3, <2>1, <3>2, <3>3, <3>4 DEF Recording
  <2> QED BY <1>1, <1>2, <1>3, <2>1, <2>2 DEF Truthful, Closing
<1> QED BY <1>4, <1>5

LEMMA RecordedOn ==
    ASSUME NEW evlrs, NEW d, NEW e, NEW start \in Nat, NEW k \in Nat, Later(d, e), 3 <= start,
           Recorded(evlrs, d, start, k), start + k = Len(d),
           Len(e) = Len(d) + 1, e[Len(d) + 1] = <<"evlr", evlrs[k + 1]>>
    PROVE  Recorded(evlrs, e, start, k + 1) /\ start + (k + 1) = Len(e)
<1>1. Recorded(evlrs, e, start, k)
  BY RecordedStays
<1>2. Len(d) \in Nat
  BY DEF Later
<1>3. start + (k + 1) = Len(e) /\ start + (k + 1) = Len(d) + 1
  BY <1>2
<1>4. ASSUME NEW i \in 1 .. k + 1 PROVE e[start + i] = <<"evlr", evlrs[i]>>
  <2>1. i \in 1 .. k \/ i = k + 1
    OBVIOUS
  <2> QED BY <1>1, <1>3, <2>1 DEF Recorded
<1>5. start + (k + 1) <= Len(e)
  BY <1>2, <1>3
<1> QED BY <1>3, <1>4, <1>5 DEF Recorded

LEMMA RecordTruthful ==
    ASSUME Typed, Finished, Truthful, record
    PROVE  Truthful'
<1> DEFINE s == wp.outstream
           unit == <<"evlr", frame.rest[1]>>
           last == Len(frame.rest) = 1
           d == Disk
           e == Disk'
           k == Len(self.evlrs) - Len(frame.rest)
<1>1. /\ frame.pc = "record"
      /\ wp' = [wp EXCEPT !.outstream = Written(s, unit)]
      /\ IF s.room = 0 THEN Fails("file")
         ELSE /\ self' = IF ~last THEN self
                         ELSE [self EXCEPT !.ext = [start |-> frame.start,
                                                    number |-> Len(self.evlrs)]]
              /\ frame' = [frame EXCEPT !.rest = Tail(@),
                                        !.pc = IF last THEN AfterRecords ELSE "record"]
      /\ UNCHANGED <<layout, state, index, written>>
  BY DEF record, At
<1>2. /\ d[1] = Blank /\ ~self.raised /\ self.failure = "none" /\ s.at = Len(d)
      /\ Block(layout, written, d) /\ self.tallied = Len(written) /\ Len(written) <= MaxPoints
      /\ Recording /\ d \in Seq(Things) /\ Len(d) \in Nat /\ 3 <= Len(d) /\ s \in Handles
      /\ frame.rest # <<>> /\ "outstream" \in DOMAIN wp /\ d = s.disk /\ ~self.closed
  BY <1>1, DisksAreThings DEF Truthful, Finished, Closing, Disk
<1>3. /\ frame.rest \in Seq(Keys) /\ self.evlrs \in Seq(Keys) /\ frame.start \in Nat
      /\ frame.rest[1] \in Keys
  BY <1>2 DEF Typed
<1>4. unit \in Things /\ unit[1] = "evlr"
  BY <1>3 DEF Things
<1>5. e = Written(s, unit).disk
  BY <1>1, <1>2 DEF Disk
<1>6. CASE s.room = 0
  <2>1. e = d
    BY <1>2, <1>5, <1>6 DEF Written
  <2> QED BY <1>1, <1>6, <2>1, FailsTruthful
<1>7. CASE s.room # 0
  <2>1. /\ Len(e) = Len(d) + 1 /\ e[Len(d) + 1] = unit /\ e \in Seq(Things)
        /\ \A i \in 1 .. Len(d) : e[i] = d[i]
    <3> HIDE DEF unit, s, d, e
    <3> DEFINE t == Written(s, unit)
    <3>0. s \in Handles /\ s.at <= Len(s.disk)
      BY ONLY <1>2
    <3>1. /\ t \in Handles /\ t.disk[s.at + 1] = unit
          /\ Len(t.disk) = IF s.at = Len(s.disk) THEN Len(s.disk) + 1 ELSE Len(s.disk)
          /\ \A i \in 1 .. Len(s.disk) : i # s.at + 1 => t.disk[i] = s.disk[i]
      BY ONLY <1>4, <1>7, <3>0, WrittenIs
    <3>2. t.disk = e
      BY <1>5
    <3> HIDE DEF t
    <3>3. e \in Seq(Things)
      BY ONLY <3>1, <3>2 DEF Handles
    <3>4. \A i \in 1 .. Len(d) : i # Len(d) + 1
      BY ONLY <1>2
    <3> QED BY ONLY <1>2, <3>1, <3>2, <3>3, <3>4
  <2>2. Later(d, e)
    <3> HIDE DEF unit, d, e
    <3>1. \A i \in 4 .. Len(d) : e[i] = d[i]
      BY ONLY <1>2, <2>1
    <3>2. \A i \in Len(d) + 1 .. Len(e) : e[i][1] \in {"evlr", "index"}
      <4>1. \A i \in Len(d) + 1 .. Len(e) : i = Len(d) + 1
        BY ONLY <1>2, <2>1
      <4> QED BY ONLY <1>4, <2>1, <4>1
    <3> QED BY ONLY <1>2, <2>1, <3>1, <3>2 DEF Later
  <2>3. Block(layout', written', e) /\ e[1] = Blank
    <3>1. \A i \in 1 .. 3 : i \in 1 .. Len(d)
      BY <1>2
    <3>2. \A i \in 1 .. 3 : e[i] \in WP!Unit /\ e[i][1] \in Leading
      BY <2>1, <3>1, LeadingUnits
    <3>3. Block(layout, written, e)
      BY ONLY <1>2, <2>2, <3>2, BlockStays
    <3> QED BY <1>1, <1>2, <2>1, <3>3
  <2>4. /\ k \in Nat /\ k >= 0 /\ 3 <= frame.start /\ frame.start + k = Len(d)
        /\ Recorded(self.evlrs, d, frame.start, k)
        /\ \A i \in 1 .. Len(frame.rest) : frame.rest[i] = self.evlrs[k + i]
    <3>1. Len(self.evlrs) \in Nat /\ Len(frame.rest) \in Nat
      BY <1>3
    <3>2. k >= 0 => k \in Nat
      BY <3>1
    <3> QED BY <1>2, <3>2 DEF Recording
  <2>5. Len(frame.rest) \in Nat /\ Len(frame.rest) >= 1 /\ Len(self.evlrs) \in Nat
    BY <1>2, <1>3
  <2>6. unit = <<"evlr", self.evlrs[k + 1]>>
    <3>1. 1 \in 1 .. Len(frame.rest)
      BY <2>5
    <3> QED BY <2>4, <3>1
  <2>7. Recorded(self.evlrs, e, frame.start, k + 1) /\ frame.start + (k + 1) = Len(e)
    <3>1. e[Len(d) + 1] = <<"evlr", self.evlrs[k + 1]>>
      BY ONLY <2>1, <2>6
    <3>2. /\ frame.start \in Nat /\ k \in Nat /\ 3 <= frame.start
          /\ frame.start + k = Len(d) /\ Recorded(self.evlrs, d, frame.start, k)
      BY ONLY <1>3, <2>4
    <3> HIDE DEF k, d, e, unit
    <3> QED BY ONLY <2>1, <2>2, <3>1, <3>2, RecordedOn
  <2>8. /\ self' = IF ~last THEN self
                   ELSE [self EXCEPT !.ext = [start |-> frame.start,
                                              number |-> Len(self.evlrs)]]
        /\ frame' = [frame EXCEPT !.rest = Tail(@),
                                  !.pc = IF last THEN AfterRecords ELSE "record"]
    BY ONLY <1>1, <1>7
  <2>9. /\ self'.tallied = self.tallied /\ self'.evlrs = self.evlrs /\ self'.raised = self.raised
        /\ self'.failure = self.failure /\ self'.closed = self.closed
        /\ frame'.start = frame.start /\ frame'.rest = Tail(frame.rest)
        /\ frame'.pc = IF last THEN AfterRecords ELSE "record"
        /\ last => self'.ext.start = frame.start /\ self'.ext.number = Len(self.evlrs)
    BY ONLY <2>8, Typed DEF Typed
  <2>10. AfterRecords \in {"counts", "header"} /\ (AfterRecords = "header" => ~Disguised(layout))
    BY DEF AfterRecords
  <2>11. CASE last
    <3>1. k + 1 = Len(self.evlrs)
      BY <2>5, <2>11
    <3>2. Extended'
      <4> HIDE DEF k, d, e
      <4> QED BY <2>7, <2>9, <2>11, <3>1 DEF Extended, e
    <3>3. Disguised(layout') = Disguised(layout)
      BY <1>1
    <3> QED BY <1>1, <1>2, <2>3, <2>9, <2>10, <2>11, <3>2, <3>3 DEF Truthful, Closing
  <2>12. CASE ~last
    <3> DEFINE q == frame.rest
               r == Tail(q)
               m == Len(self.evlrs)
    <3>1. Len(r) = Len(q) - 1 /\ \A i \in 1 .. Len(r) : r[i] = q[i + 1]
      BY <1>2, <1>3
    <3>2. m - Len(r) = k + 1 /\ k + 1 >= 0
      <4>1. /\ k \in Nat /\ Len(q) \in Nat /\ m \in Nat /\ k = m - Len(q)
            /\ Len(r) = Len(q) - 1
        BY <2>4, <2>5, <3>1
      <4> HIDE DEF k, q, r, m
      <4> QED BY ONLY <4>1
    <3>3. \A i \in 1 .. Len(r) : r[i] = self.evlrs[(k + 1) + i]
      <4> SUFFICES ASSUME NEW i \in 1 .. Len(r) PROVE r[i] = self.evlrs[(k + 1) + i]
        OBVIOUS
      <4>1. i + 1 \in 1 .. Len(q) /\ k + (i + 1) = (k + 1) + i
        <5>1. k \in Nat /\ Len(q) \in Nat /\ Len(r) = Len(q) - 1
          BY <2>4, <2>5, <3>1
        <5> HIDE DEF k, q, r
        <5> QED BY <5>1
      <4> QED BY <2>4, <3>1, <4>1
    <3>4. Recording'
      <4> HIDE DEF k, d, e
      <4>1. self'.evlrs = self.evlrs /\ frame'.rest = r /\ frame'.start = frame.start
        BY <2>9
      <4> HIDE DEF r
      <4>2. Len(self'.evlrs) - Len(frame'.rest) = k + 1
        BY <3>2, <4>1
      <4> QED BY ONLY <2>4, <2>7, <3>2, <3>3, <4>1, <4>2 DEF Recording, e
    <3> QED BY <1>1, <1>2, <2>3, <2>9, <2>12, <3>4 DEF Truthful, Closing
  <2> QED BY <2>11, <2>12
<1> QED BY <1>6, <1>7

\* One unit in front of the points is rewritten, or is not.
LEMMA PatchIs ==
    ASSUME Typed, Finished, Truthful, frame.pc \in {"counts", "header"},
           NEW position \in 0 .. 1, NEW unit \in WP!Unit, unit[1] \in Leading,
           NEW next \in {"header", "file"}, Patch(position, unit, next)
    PROVE  /\ UNCHANGED <<layout, state, index, written>>
           /\ Later(Disk, Disk') /\ Block(layout', written', Disk')
           /\ \A i \in 1 .. 2 : i # position + 1 => Disk'[i] = Disk[i]
           /\ Disk' = Disk \/ Disk'[position + 1] = unit
           /\ \/ Disk'[position + 1] = unit /\ Goes(next) /\ UNCHANGED self
              \/ Fails("file")
<1> DEFINE s == wp.outstream
           p == Patched(s, position, unit)
           d == Disk
           e == Disk'
<1>1. /\ wp' = [wp EXCEPT !.outstream = p.stream]
      /\ IF p.ok THEN Goes(next) /\ UNCHANGED self ELSE Fails("file")
      /\ UNCHANGED <<layout, state, index, written>>
  BY DEF Patch
<1>2. /\ d \in Seq(Things) /\ Len(d) \in Nat /\ 3 <= Len(d) /\ s \in Handles
      /\ s.at <= Len(d) /\ "outstream" \in DOMAIN wp /\ d = s.disk
      /\ Block(layout, written, d)
      /\ unit \in Things
  BY DisksAreThings, UnitsAreThings DEF Finished, Disk, Truthful
<1>3. e = p.stream.disk
  BY <1>1, <1>2 DEF Disk
<1>4. /\ e \in Seq(Things) /\ Len(e) = Len(d)
      /\ \A i \in 1 .. Len(d) : i # position + 1 => e[i] = d[i]
      /\ e = d \/ e[position + 1] = unit
      /\ p.ok => e[position + 1] = unit
  <2> HIDE DEF s, d, e
  <2> DEFINE t == p.stream
  <2>1. s \in Handles /\ 3 <= Len(s.disk) /\ s.at <= Len(s.disk)
    BY ONLY <1>2
  <2> HIDE DEF p
  <2>2. p = Patched(s, position, unit)
    BY DEF p
  <2>3. /\ t \in Handles /\ Len(t.disk) = Len(s.disk)
        /\ \A i \in 1 .. Len(s.disk) : i # position + 1 => t.disk[i] = s.disk[i]
        /\ t.disk = s.disk \/ t.disk[position + 1] = unit
        /\ p.ok => t.disk[position + 1] = unit
    BY ONLY <1>2, <2>1, <2>2, position \in 0 .. 1, PatchedIs
  <2>4. t.disk = e
    BY <1>3
  <2> HIDE DEF t
  <2>5. e \in Seq(Things)
    BY ONLY <2>3, <2>4 DEF Handles
  <2> QED BY ONLY <1>2, <2>3, <2>4, <2>5
<1> HIDE DEF d, e, p, s
<1>5. Later(d, e)
  <2>1. \A i \in 4 .. Len(d) : e[i] = d[i]
    BY ONLY <1>2, <1>4, position \in 0 .. 1
  <2>2. \A i \in Len(d) + 1 .. Len(e) : FALSE
    BY ONLY <1>2, <1>4
  <2> QED BY ONLY <1>2, <1>4, <2>1, <2>2 DEF Later
<1>6. \A i \in 1 .. 3 : e[i] \in WP!Unit /\ e[i][1] \in Leading
  <2>1. \A i \in 1 .. 3 : d[i] \in WP!Unit /\ d[i][1] \in Leading
    BY LeadingUnits DEF d
  <2>2. \A i \in 1 .. 3 : i \in 1 .. Len(d)
    BY ONLY <1>2
  <2>3. \A i \in 1 .. 3 : i # position + 1 => e[i] = d[i]
    BY ONLY <1>4, <2>2
  <2>4. \A i \in 1 .. 3 : i = position + 1 => e[i] = d[i] \/ e[i] = unit
    BY ONLY <1>4
  <2> QED BY ONLY <2>1, <2>3, <2>4, unit \in WP!Unit, unit[1] \in Leading
<1>7. Block(layout', written', e)
  <2>1. Block(layout, written, e)
    BY ONLY <1>2, <1>5, <1>6, BlockStays
  <2> QED BY <1>1, <2>1
<1>8. \A i \in 1 .. 2 : i # position + 1 => e[i] = d[i]
  <2>1. \A i \in 1 .. 2 : i \in 1 .. Len(d)
    BY ONLY <1>2
  <2> QED BY ONLY <1>4, <2>1
<1> QED BY <1>1, <1>4, <1>5, <1>7, <1>8 DEF d, e

LEMMA HeaderIsAUnit ==
    ASSUME Typed, index \in Nat
    PROVE  /\ HeaderNow \in WP!Unit /\ HeaderNow[1] \in Leading
           /\ <<"lascompatible", index>> \in WP!Unit
<1> DEFINE a == IF Legacy(layout) /\ index <= U32_MAX THEN index ELSE 0
           b == IF LAS14(layout) THEN index ELSE 0
           c == IF (Legacy(layout) /\ index <= U32_MAX) \/ LAS14(layout)
                THEN self.tallied ELSE 0
           d == self.ext.start
           e == self.ext.number
<1>1. HeaderNow = <<"header", a, b, c, d, e>>
  BY DEF HeaderNow
<1>2. a \in Int /\ b \in Int /\ c \in Int /\ d \in Int /\ e \in Int /\ index \in Int
  BY DEF Typed
<1> HIDE DEF a, b, c, d, e
<1>3. /\ <<"header", a, b, c, d, e>> \in Seq(STRING \cup Int)
      /\ <<"lascompatible", index>> \in Seq(STRING \cup Int)
  BY ONLY <1>2, Headers
<1>4. HeaderNow[1] \in Leading
  BY ONLY <1>1 DEF Leading
<1> QED BY ONLY <1>1, <1>3, <1>4, UnitsAreThings

LEMMA CountsTruthful ==
    ASSUME Typed, Finished, Truthful, counts
    PROVE  Truthful'
<1> DEFINE unit == <<"lascompatible", index>>
<1>1. /\ frame.pc = "counts" /\ Patch(1, unit, "header")
  BY DEF counts, At
<1>2. /\ Disk[1] = Blank /\ ~self.raised /\ self.failure = "none" /\ ~self.closed
      /\ self.tallied = Len(written) /\ Len(written) <= MaxPoints /\ Extended
      /\ index \in Nat
  BY <1>1 DEF Truthful, Finished, Closing
<1>3. unit \in WP!Unit /\ unit[1] \in Leading
  BY <1>2, HeaderIsAUnit DEF Leading
<1>4. /\ UNCHANGED <<layout, state, index, written>>
      /\ Later(Disk, Disk') /\ Block(layout', written', Disk')
      /\ Disk'[1] = Disk[1]
      /\ \/ Disk'[2] = unit /\ Goes("header") /\ UNCHANGED self
         \/ Fails("file")
  <2>1. frame.pc \in {"counts", "header"} /\ 1 \in 0 .. 1 /\ 1 \in 1 .. 2 /\ 1 + 1 = 2 /\ 1 # 2
    BY <1>1
  <2> DEFINE i == 1
  <2>2. Patch(i, unit, "header") /\ i \in 0 .. 1 /\ i + 1 = 2 /\ i # 2 /\ i \in 1 .. 2 /\ i = 1
    BY <1>1
  <2> HIDE DEF i, unit
  <2>3. /\ UNCHANGED <<layout, state, index, written>>
        /\ Later(Disk, Disk') /\ Block(layout', written', Disk')
        /\ \A j \in 1 .. 2 : j # i + 1 => Disk'[j] = Disk[j]
        /\ \/ Disk'[i + 1] = unit /\ Goes("header") /\ UNCHANGED self
           \/ Fails("file")
    BY <1>3, <2>1, <2>2, PatchIs
  <2> QED BY ONLY <2>2, <2>3
<1>5. Extended \in BOOLEAN /\ (self' = self => Extended')
  <2>1. self.ext.start \in Nat /\ self.ext.number \in Nat
    BY DEF Typed
  <2>2. /\ self.ext.number = Len(self.evlrs)
        /\ Recorded(self.evlrs, Disk, self.ext.start, self.ext.number)
    BY <1>2 DEF Extended
  <2>3. Recorded(self.evlrs, Disk', self.ext.start, self.ext.number)
    BY ONLY <1>4, <2>1, <2>2, RecordedStays
  <2> QED BY <2>2, <2>3 DEF Extended
<1>6. CASE Disk'[2] = unit /\ Goes("header") /\ UNCHANGED self
  <2>1. frame'.pc = "header"
    BY <1>6 DEF Goes, Typed
  <2> QED BY <1>2, <1>4, <1>5, <1>6, <2>1 DEF Truthful, Closing
<1>7. CASE Fails("file")
  <2>1. /\ frame'.pc = "file" /\ self'.tallied = self.tallied /\ self'.closed = self.closed
        /\ self'.failure = "file"
    BY <1>7 DEF Fails, Goes, Typed
  <2> QED BY <1>2, <1>4, <2>1 DEF Truthful, Closing
<1> QED BY <1>4, <1>6, <1>7

LEMMA HeaderTruthful ==
    ASSUME Typed, Finished, Truthful, header
    PROVE  Truthful'
<1>1. /\ frame.pc = "header" /\ Patch(0, HeaderNow, "file")
  BY DEF header, At, Finished, Closable
<1>2. /\ Disk[1] = Blank /\ ~self.raised /\ self.failure = "none" /\ ~self.closed
      /\ self.tallied = Len(written) /\ Len(written) <= MaxPoints /\ Extended
      /\ index \in Nat
      /\ Disguised(layout) => Disk[2] = <<"lascompatible", index>>
  BY <1>1 DEF Truthful, Finished, Closing
<1>3. HeaderNow \in WP!Unit /\ HeaderNow[1] \in Leading
  BY <1>2, HeaderIsAUnit
<1>4. /\ UNCHANGED <<layout, state, index, written>>
      /\ Later(Disk, Disk') /\ Block(layout', written', Disk')
      /\ Disk'[2] = Disk[2] /\ (Disk' = Disk \/ Disk'[1] = HeaderNow)
      /\ \/ Disk'[1] = HeaderNow /\ Goes("file") /\ UNCHANGED self
         \/ Fails("file")
  <2> DEFINE i == 0
             unit == HeaderNow
  <2>1. frame.pc \in {"counts", "header"}
    BY <1>1
  <2>2. /\ Patch(i, unit, "file") /\ i \in 0 .. 1 /\ i + 1 = 1 /\ 2 \in 1 .. 2 /\ 2 # 1
        /\ unit \in WP!Unit /\ unit[1] \in Leading
    BY <1>1, <1>3
  <2> HIDE DEF i, unit
  <2>3. /\ UNCHANGED <<layout, state, index, written>>
        /\ Later(Disk, Disk') /\ Block(layout', written', Disk')
        /\ \A j \in 1 .. 2 : j # i + 1 => Disk'[j] = Disk[j]
        /\ Disk' = Disk \/ Disk'[i + 1] = unit
        /\ \/ Disk'[i + 1] = unit /\ Goes("file") /\ UNCHANGED self
           \/ Fails("file")
    BY <2>1, <2>2, PatchIs
  <2>4. /\ UNCHANGED <<layout, state, index, written>>
        /\ Later(Disk, Disk') /\ Block(layout', written', Disk')
        /\ Disk'[2] = Disk[2]
        /\ Disk' = Disk \/ Disk'[1] = unit
        /\ \/ Disk'[1] = unit /\ Goes("file") /\ UNCHANGED self
           \/ Fails("file")
    BY ONLY <2>2, <2>3
  <2> QED BY <2>4 DEF unit
<1>5. /\ self'.evlrs = self.evlrs /\ self'.ext = self.ext /\ self'.tallied = self.tallied
      /\ self'.closed = self.closed /\ self'.raised = self.raised
      /\ frame'.pc = "file"
      /\ self'.failure = "none" => Disk'[1] = HeaderNow
  <2>1. CASE Goes("file") /\ UNCHANGED self /\ Disk'[1] = HeaderNow
    BY <2>1 DEF Goes, Typed
  <2>2. CASE Fails("file")
    BY <2>2 DEF Fails, Goes, Typed
  <2> QED BY <1>4, <2>1, <2>2
<1>6. Disk'[1] = HeaderNow => Stating'
  <2> SUFFICES ASSUME Disk'[1] = HeaderNow PROVE Stating'
    OBVIOUS
  <2>1. HeaderNow' = HeaderNow
    BY <1>4, <1>5 DEF HeaderNow, Legacy, LAS14
  <2>2. Extended'
    <3>1. self.ext.start \in Nat /\ self.ext.number \in Nat
      BY DEF Typed
    <3>2. /\ self.ext.number = Len(self.evlrs)
          /\ Recorded(self.evlrs, Disk, self.ext.start, self.ext.number)
      BY <1>2 DEF Extended
    <3>3. Recorded(self.evlrs, Disk', self.ext.start, self.ext.number)
      BY ONLY <1>4, <3>1, <3>2, RecordedStays
    <3> QED BY <1>5, <3>2, <3>3 DEF Extended
  <2>3. Disguised(layout') => Disk'[2] = <<"lascompatible", index'>>
    BY <1>2, <1>4
  <2> QED BY <2>1, <2>2, <2>3 DEF Stating
<1>7. Disk'[1] = Blank \/ Stating'
  BY ONLY <1>2, <1>4, <1>6
<1>8. /\ Block(layout', written', Disk') /\ self'.tallied = Len(written')
      /\ Len(written') <= MaxPoints
  BY <1>2, <1>4, <1>5
<1> QED BY ONLY <1>2, <1>5, <1>6, <1>7, <1>8 DEF Truthful, Closing

LEMMA AppendTruthful ==
    ASSUME Typed, Finished, Truthful, append_record
    PROVE  Truthful'
<1> DEFINE s == wp.outstream
           t == wp'.outstream
<1>1. /\ Goes("patch") /\ UNCHANGED <<layout, state, index, written, self>>
      /\ wp' = [wp EXCEPT !.outstream = [s EXCEPT !.disk = Append(@, <<"index">>)]]
  BY DEF append_record, At
<1>2. /\ t = [s EXCEPT !.disk = Append(@, <<"index">>)] /\ Resting(s)
      /\ Disk = s.disk /\ Disk' = t.disk /\ frame'.pc = "patch"
  BY <1>1 DEF Finished, Disk, Goes, Typed
<1>3. Resting(t) /\ t.disk = Append(s.disk, <<"index">>)
  BY ONLY <1>2, RestAppended
<1>4. /\ Disk \in Seq(Things) /\ Disk' \in Seq(Things) /\ 3 <= Len(Disk) /\ Len(Disk) \in Nat
      /\ Disk' = Append(Disk, <<"index">>)
  BY <1>2, <1>3, DisksAreThings DEF Resting, Handles
<1> DEFINE d == Disk
           e == Disk'
           u == <<"index">>
<1>5. u \in Things /\ u[1] = "index"
  BY DEF Things
<1> HIDE DEF d, e, u
<1>6. /\ Len(e) = Len(d) + 1 /\ e[Len(d) + 1] = u
      /\ \A i \in 1 .. Len(d) : e[i] = d[i]
  BY ONLY <1>4, <1>5 DEF d, e, u
<1>7. Later(d, e)
  <2>1. \A i \in 4 .. Len(d) : i \in 1 .. Len(d)
    BY <1>4
  <2>2. \A i \in Len(d) + 1 .. Len(e) : i = Len(d) + 1
    BY ONLY <1>4, <1>6 DEF d
  <2>3. e[Len(d) + 1][1] \in {"evlr", "index"}
    BY ONLY <1>5, <1>6
  <2>4. Len(d) <= Len(e)
    BY ONLY <1>4, <1>6 DEF d
  <2> QED BY ONLY <1>4, <1>6, <2>1, <2>2, <2>3, <2>4 DEF Later, d, e
<1>8. e[1] = d[1] /\ e[2] = d[2] /\ e[3] = d[3]
  BY ONLY <1>4, <1>6 DEF d
<1>9. d[3] \in WP!Unit /\ d[3][1] \in Leading
  BY LeadingUnits DEF d
<1>10. /\ Later(Disk, Disk') /\ Disk'[1] = Disk[1] /\ Disk'[2] = Disk[2]
       /\ Disk'[3] \in WP!Unit /\ Disk'[3][1] \in Leading
  BY <1>7, <1>8, <1>9 DEF d, e
<1>11. /\ self'.evlrs = self.evlrs /\ self'.ext = self.ext /\ self'.tallied = self.tallied
       /\ frame'.pc \notin Closing /\ frame'.pc # "file"
       /\ self'.closed => Stating /\ ~self'.raised
  BY <1>1, <1>2 DEF Truthful, Closing
<1> QED BY <1>1, <1>10, <1>11, TruthfulStays

LEMMA LaszipsAreUnits ==
    ASSUME NEW x \in Int
    PROVE  <<"laszip", x>> \in WP!Unit
<1> DEFINE S == STRING \cup Int
           k == "laszip"
<1>1. k \in S /\ x \in S
  BY LiteralsAreStrings
<1> HIDE DEF S, k
<1>2. <<k, x>> \in Seq(S)
  BY ONLY <1>1
<1> QED BY <1>2, UnitsAreThings DEF S, k

LEMMA PointTruthful ==
    ASSUME Typed, Finished, Truthful, patch_laszip_record
    PROVE  Truthful'
<1> DEFINE s == wp.outstream
           t == wp'.outstream
           x == frame.start
           d == Disk
           e == Disk'
<1>1. /\ frame.pc = "patch" /\ Goes("idle") /\ UNCHANGED <<layout, state, index, written, self>>
      /\ wp' = [wp EXCEPT !.outstream = [s EXCEPT !.disk[3] = <<"laszip", x>>]]
  BY DEF patch_laszip_record, At
<1>2. /\ t = [s EXCEPT !.disk[3] = <<"laszip", x>>] /\ Resting(s)
      /\ d = s.disk /\ e = t.disk /\ frame'.pc = "idle"
      /\ Aimed(s.disk, x) /\ x \in Nat
  BY <1>1 DEF Finished, Disk, Goes, Typed
<1> HIDE DEF s, t, d, e, x
<1>3. /\ Resting(t) /\ Len(t.disk) = Len(s.disk)
      /\ \A i \in 1 .. Len(s.disk) : i # 3 => t.disk[i] = s.disk[i]
  BY ONLY <1>2, RestPointed
<1>4. /\ d \in Seq(Things) /\ e \in Seq(Things) /\ 3 <= Len(d) /\ Len(d) \in Nat
      /\ Len(e) = Len(d) /\ \A i \in 1 .. Len(d) : i # 3 => e[i] = d[i]
  BY <1>2, <1>3, DisksAreThings DEF Resting, Handles, d
<1>5. Later(d, e)
  <2>1. \A i \in 4 .. Len(d) : i \in 1 .. Len(d) /\ i # 3
    BY ONLY <1>4
  <2>2. \A i \in Len(d) + 1 .. Len(e) : FALSE
    BY ONLY <1>4
  <2> QED BY ONLY <1>4, <2>1, <2>2 DEF Later
<1>6. e[1] = d[1] /\ e[2] = d[2]
  BY ONLY <1>4
<1>7. e[3] \in WP!Unit /\ e[3][1] \in Leading
  <2>1. s.disk \in Seq(Things) /\ 3 \in DOMAIN s.disk
    BY ONLY <1>2, <1>4
  <2>2. e[3] = <<"laszip", x>>
    <3> DEFINE u == <<"laszip", x>>
               f == [s.disk EXCEPT ![3] = u]
    <3>1. t = [s EXCEPT !.disk = f] /\ s \in Handles
      BY <1>2 DEF Resting
    <3>2. f[3] = u
      BY ONLY <2>1
    <3> HIDE DEF f, u
    <3>3. t.disk = f
      BY ONLY <3>1 DEF Handles
    <3> QED BY <1>2, <3>2, <3>3 DEF u
  <2>3. <<"laszip", x>> \in WP!Unit
    <3>1. x \in Int
      BY <1>2
    <3> QED BY ONLY <3>1, LaszipsAreUnits
  <2> QED BY <2>2, <2>3 DEF Leading
<1>8. /\ Later(Disk, Disk') /\ Disk'[1] = Disk[1] /\ Disk'[2] = Disk[2]
      /\ Disk'[3] \in WP!Unit /\ Disk'[3][1] \in Leading
  BY <1>5, <1>6, <1>7 DEF d, e
<1>9. /\ self'.evlrs = self.evlrs /\ self'.ext = self.ext /\ self'.tallied = self.tallied
      /\ frame'.pc \notin Closing /\ frame'.pc # "file"
      /\ self'.closed => Stating /\ ~self'.raised
  BY <1>1, <1>2 DEF Truthful, Closing
<1> QED BY <1>1, <1>8, <1>9, TruthfulStays

LEMMA CloseFileTruthful ==
    ASSUME Typed, Finished, Truthful, close_file
    PROVE  Truthful'
<1>1. PICK closed \in BOOLEAN :
        /\ wp' = IF layout.owned THEN [wp EXCEPT !.outstream = Shut(@)] ELSE wp
        /\ self' = [self EXCEPT !.closed = closed, !.raised = @ \/ ~closed]
        /\ closed => self.failure = "none"
        /\ At("file") /\ Goes("idle")
        /\ UNCHANGED <<layout, state, index, written>>
  <2>1. PICK raises \in BOOLEAN :
          /\ wp' = IF layout.owned THEN [wp EXCEPT !.outstream = Shut(@)] ELSE wp
          /\ self' = [self EXCEPT !.closed = (self.failure = "none" /\ ~raises),
                                  !.raised = @ \/ ~(self.failure = "none" /\ ~raises)]
          /\ At("file") /\ Goes("idle")
          /\ UNCHANGED <<layout, state, index, written>>
    BY DEF close_file
  <2>2. (self.failure = "none" /\ ~raises) \in BOOLEAN
    OBVIOUS
  <2> QED BY <2>1, <2>2
<1>2. Disk' = Disk
  <2>1. Resting(wp.outstream) /\ "outstream" \in DOMAIN wp
    BY DEF Finished
  <2> QED BY <1>1, <2>1, RestShut DEF Disk
<1>3. /\ self'.evlrs = self.evlrs /\ self'.ext = self.ext /\ self'.tallied = self.tallied
      /\ frame'.pc = "idle" /\ self'.closed = closed /\ self'.raised = (self.raised \/ ~closed)
  BY <1>1 DEF Goes, Typed
<1>4. closed => Stating /\ ~self.raised
  BY <1>1 DEF Truthful, At
<1>5. self'.closed => Stating /\ ~self'.raised
  BY ONLY <1>3, <1>4
<1> QED BY <1>1, <1>2, <1>3, <1>5, TruthfulIdles DEF Closing

LEMMA TruthfulSteps ==
    ASSUME Typed, Finished, Truthful, Next
    PROVE  Truthful'
<1>1. self.closed => Stating /\ ~self.raised
  BY DEF Truthful
<1>2. ASSUME Disk' = Disk, UNCHANGED <<layout, index, written, self>>,
             \/ frame' = frame /\ frame.pc = "idle"
             \/ frame'.pc \in {"idle", "gone", "done", "index"}
      PROVE  Truthful'
  <2>1. frame'.pc \notin Closing /\ frame'.pc # "file"
    BY <1>2 DEF Closing
  <2>2. /\ self'.evlrs = self.evlrs /\ self'.ext = self.ext /\ self'.tallied = self.tallied
        /\ self'.closed => Stating /\ ~self'.raised
    BY <1>1, <1>2
  <2> QED BY <1>2, <2>1, <2>2, TruthfulIdles
<1>3. CASE write_refused
  <2>1. Core!Refuse /\ UNCHANGED <<self, frame>> /\ frame.pc = "idle"
    BY <1>3 DEF write_refused, At
  <2>2. UNCHANGED <<layout, wp, index, written>>
    BY <2>1 DEF Core!Refuse
  <2> QED BY <1>2, <2>1, <2>2 DEF Disk
<1>4. CASE Dropped
  <2>1. Core!Dropped /\ Goes("gone") /\ UNCHANGED self
    BY <1>4 DEF Dropped
  <2>2. /\ wp' = [wp EXCEPT !.outstream = Core!Sink!fileout_destroy(@)]
        /\ UNCHANGED <<layout, index, written>>
    BY <2>1 DEF Core!Dropped
  <2>3. frame'.pc = "gone"
    BY <2>1 DEF Goes, Typed
  <2>4. Resting(wp.outstream) /\ "outstream" \in DOMAIN wp
    BY DEF Finished
  <2>5. Disk' = Disk
    BY <2>2, <2>4, RestDestroyed DEF Disk
  <2> QED BY <1>2, <2>1, <2>2, <2>3, <2>5
<1>5. CASE close_refused \/ close_again \/ close
  <2>1. /\ UNCHANGED <<core, self>> /\ frame.pc = "idle"
        /\ frame' = frame \/ Goes("done")
    BY <1>5 DEF close_refused, close_again, close, At
  <2>2. UNCHANGED <<layout, wp, index, written>>
    BY <2>1 DEF core
  <2>3. frame' = frame \/ frame'.pc = "done"
    BY <2>1 DEF Typed, Goes
  <2> QED BY <1>2, <2>1, <2>2, <2>3 DEF Disk
<1>6. CASE close_done
  <2>1. Core!Refuse /\ Fails(IF Spent THEN "spent" ELSE "file")
    <3>1. Core!Refuse
      BY <1>6, FinishedIsSpent DEF close_done
    <3>2. out' # "ok"
      BY <3>1 DEF Core!Refuse
    <3> QED BY <1>6, <3>1, <3>2 DEF close_done
  <2>2. UNCHANGED <<layout, wp, index, written>> /\ Disk' = Disk
    BY <2>1 DEF Core!Refuse, Disk
  <2>3. PICK why \in {"spent", "file", "interrupt"} : Fails(why)
    BY <2>1
  <2> QED BY <2>2, <2>3, FailsTruthful
<1>7. CASE Interrupted
  <2>1. Fails("interrupt") /\ UNCHANGED core
    BY <1>7 DEF Interrupted
  <2>2. UNCHANGED <<layout, wp, index, written>> /\ Disk' = Disk
    BY <2>1 DEF core, Disk
  <2> QED BY <2>1, <2>2, FailsTruthful
<1>8. CASE append_spatial_index
  <2>1. /\ UNCHANGED <<core, self>> /\ frame.pc = "idle"
        /\ \/ frame' = [frame EXCEPT !.pc = "index", !.start = Len(wp.outstream.disk)]
           \/ frame' = frame
    BY <1>8 DEF append_spatial_index, At
  <2>2. UNCHANGED <<layout, wp, index, written>>
    BY <2>1 DEF core
  <2>3. frame' = frame \/ frame'.pc = "index"
    BY <2>1 DEF Typed
  <2> QED BY <1>2, <2>1, <2>2, <2>3 DEF Disk
<1>9. CASE append_interrupted
  <2>1. Goes("idle") /\ UNCHANGED <<core, self>>
    BY <1>9 DEF append_interrupted
  <2>2. UNCHANGED <<layout, wp, index, written>>
    BY <2>1 DEF core
  <2>3. frame'.pc = "idle"
    BY <2>1 DEF Goes, Typed
  <2> QED BY <1>2, <2>1, <2>2, <2>3 DEF Disk
<1> QED BY <1>3, <1>4, <1>5, <1>6, <1>7, <1>8, <1>9, RecordsTruthful, RecordTruthful,
           CountsTruthful, HeaderTruthful, CloseFileTruthful, AppendTruthful, PointTruthful,
           FinishedIsSpent DEF Next

LEMMA FaithfulStays == WP!Modest /\ Living /\ Faithful /\ [Next]_vars => Faithful'
<1> SUFFICES ASSUME WP!Modest, Living, Faithful, [Next]_vars PROVE Faithful'
  OBVIOUS
<1>1. CASE UNCHANGED vars
  <2>1. UNCHANGED <<core, out, self, frame>> /\ UNCHANGED core
    BY <1>1 DEF vars
  <2>2. UNCHANGED <<layout, wp, state, index, offered, written, out, self, frame>>
    BY <2>1 DEF core
  <2>3. Disk' = Disk /\ HeaderNow' = HeaderNow /\ (Disguised(layout') <=> Disguised(layout))
    BY <2>1, <2>2 DEF Disk, HeaderNow, Legacy, LAS14
  <2>4. CASE Unfinished /\ Counting
    <3>1. state = "open" => WP!Keeping'
      BY <2>1, <2>2, <2>4, StaysKeeping DEF Counting, WP!Keeping, WP!Going, WP!Bookkeeping
    <3>2. Counting'
      BY <2>2, <2>4, <3>1 DEF Counting
    <3>3. WP!Going' /\ WP!StartsAsItDid'
      BY <2>1, <2>4, StaysGoing DEF Unfinished, WP!Going, WP!Bookkeeping
    <3>4. frame.pc = "done" => Closable'
      BY <2>2, <2>4 DEF Unfinished, Closable, Keyed, Addressable, LAS14
    <3> QED BY <2>2, <2>4, <3>2, <3>3, <3>4 DEF Unfinished, Faithful
  <2>5. CASE Finished /\ Truthful
    <3>1. Typed'
      BY <2>2 DEF Living, Typed
    <3>2. Finished'
      BY <2>2, <2>5, <3>1, FinishedOn DEF Finished, Disk
    <3>3. (Extended' <=> Extended) /\ (Recording' <=> Recording)
      BY <2>2, <2>3 DEF Extended, Recording
    <3>4. Stating' <=> Stating
      BY <2>2, <2>3, <3>3 DEF Stating
    <3>5. Truthful'
      BY <2>2, <2>3, <2>5, <3>3, <3>4 DEF Truthful
    <3> QED BY <3>2, <3>5 DEF Faithful
  <2> QED BY <2>4, <2>5 DEF Faithful
<1>2. ASSUME Next, Unfinished, Counting PROVE Faithful'
  BY <1>2, CountingSteps DEF Living
<1>3. ASSUME Next, Finished, Truthful PROVE Faithful'
  BY <1>3, FinishedSteps, TruthfulSteps DEF Living, Faithful
<1> QED BY <1>1, <1>2, <1>3 DEF Faithful

-----------------------------------------------------------------------------
(* What a header that is the last word on it says is so. *)

LEMMA BlockReads ==
    ASSUME Finished, Truthful
    PROVE  /\ Core!ReadsBack(layout, PointBlock)
           /\ Core!Points(Core!PointArea(layout, PointBlock)) = written
<1> DEFINE d == Disk
           n == Len(d)
<1>1. PICK m \in 3 .. n : \E w :
        /\ WP!Filed(layout, w, written) /\ Len(w.outstream.disk) = m
        /\ \A i \in 4 .. m : d[i] = w.outstream.disk[i]
        /\ \A i \in 1 .. 3 : d[i] \in WP!Unit /\ d[i][1] \in Leading
        /\ \A i \in m + 1 .. n : d[i][1] \in {"evlr", "index"}
  BY DEF Truthful, Block
<1>2. PICK w :
        /\ WP!Filed(layout, w, written) /\ Len(w.outstream.disk) = m
        /\ \A i \in 4 .. m : d[i] = w.outstream.disk[i]
        /\ \A i \in 1 .. 3 : d[i] \in WP!Unit /\ d[i][1] \in Leading
        /\ \A i \in m + 1 .. n : d[i][1] \in {"evlr", "index"}
  BY <1>1
<1>3. d \in Seq(Things) /\ n \in Nat /\ m \in Nat /\ 3 <= m /\ m <= n /\ WP!Base = 3
  BY DisksAreThings, PrefaceIs DEF WP!Base
<1> HIDE DEF d
<1> DEFINE o == w.outstream.disk
           b == SubSeq(d, 1, m)
<1>4. /\ o \in Seq(WP!Unit) /\ \A i \in 4 .. m : o[i][1] \in WP!Kinds
  <2>1. /\ o \in Seq(WP!Unit) /\ WP!Base <= Len(o)
        /\ \A i \in WP!Base + 1 .. Len(o) : o[i][1] \in WP!Kinds
    BY <1>2, TheirAssumptions, WP!FiledKinds
  <2> HIDE DEF o
  <2>2. Len(o) = m
    BY <1>2 DEF o
  <2>3. \A i \in 3 + 1 .. m : o[i][1] \in WP!Kinds
    BY ONLY <1>3, <2>1, <2>2
  <2> QED BY <2>1, <2>3
<1>5. \A i \in 1 .. m : d[i] \in WP!Unit /\ d[i][1] \notin {"evlr", "index"}
  <2> HIDE DEF o
  <2>1. \A i \in 1 .. m : i \in 1 .. 3 \/ i \in 4 .. m
    BY ONLY <1>3
  <2>2. \A i \in 4 .. m : o[i] \in WP!Unit /\ d[i] = o[i]
    <3>1. Len(o) = m /\ \A i \in 4 .. m : d[i] = o[i]
      BY <1>2 DEF o
    <3>2. \A i \in 4 .. m : i \in 1 .. m
      BY ONLY <1>3
    <3> QED BY ONLY <1>4, <3>1, <3>2
  <2>3. \A i \in 4 .. m : d[i][1] \notin {"evlr", "index"}
    BY ONLY <1>4, <2>2 DEF WP!Kinds
  <2>4. \A i \in 1 .. 3 : d[i] \in WP!Unit /\ d[i][1] \notin {"evlr", "index"}
    BY <1>2 DEF Leading
  <2> QED BY ONLY <2>1, <2>2, <2>3, <2>4
<1>6. /\ b \in Seq(WP!Unit) /\ Len(b) = m /\ \A i \in 1 .. m : b[i] = d[i]
  BY ONLY <1>3, <1>5
<1>7. PointBlock = b
  <2> DEFINE behind == {i \in DOMAIN d : d[i][1] \in {"evlr", "index"}}
  <2>1. PointBlock = IF behind = {} THEN d ELSE SubSeq(d, 1, Min(behind) - 1)
    BY DEF PointBlock, d
  <2>2. behind = m + 1 .. n
    <3>1. DOMAIN d = 1 .. n
      BY ONLY <1>3
    <3>2. \A i \in 1 .. n : i \in 1 .. m \/ i \in m + 1 .. n
      BY ONLY <1>3
    <3>3. \A i \in m + 1 .. n : i \in 1 .. n
      BY ONLY <1>3
    <3>4. \A i \in m + 1 .. n : d[i][1] \in {"evlr", "index"}
      BY <1>2
    <3>5. \A i \in 1 .. m : d[i][1] \notin {"evlr", "index"}
      BY <1>5
    <3> QED BY ONLY <3>1, <3>2, <3>3, <3>4, <3>5
  <2> HIDE DEF behind, b
  <2>3. CASE m = n
    <3>1. behind = {}
      BY ONLY <1>3, <2>2, <2>3
    <3>2. SubSeq(d, 1, n) = d
      BY ONLY <1>3
    <3> QED BY <2>1, <2>3, <3>1, <3>2 DEF b
  <2>4. CASE m < n
    <3>1. m + 1 \in behind /\ \A y \in behind : y \in Nat /\ m + 1 <= y
      BY ONLY <1>3, <2>2, <2>4
    <3>2. Min(behind) = m + 1
      <4>1. \A x \in behind : (\A y \in behind : x <= y) => x = m + 1
        BY ONLY <1>3, <3>1
      <4> QED BY ONLY <3>1, <4>1 DEF Min
    <3>3. (m + 1) - 1 = m
      BY ONLY <1>3
    <3> QED BY <2>1, <3>1, <3>2, <3>3 DEF b
  <2> QED BY <1>3, <2>3, <2>4
<1>8. WP!HoldsAll(layout, b, written)
  <2> HIDE DEF b, o
  <2>1. layout.chunk_size \in 0 .. U32_MAX
    BY TheirAssumptions DEF Finished
  <2>2. Len(b) = Len(o) /\ \A i \in WP!Base + 1 .. Len(b) : b[i] = o[i]
    <3>1. Len(o) = m /\ \A i \in 4 .. m : d[i] = o[i]
      BY <1>2 DEF o
    <3>2. \A i \in 4 .. m : i \in 1 .. m
      BY ONLY <1>3
    <3>3. \A i \in 3 + 1 .. m : b[i] = o[i]
      BY ONLY <1>6, <3>1, <3>2
    <3> QED BY ONLY <1>3, <1>6, <3>1, <3>3
  <2>3. \A i \in 1 .. WP!Base : ~WP!IsPoint(b[i])
    <3>1. \A i \in 1 .. 3 : i \in 1 .. m
      BY ONLY <1>3
    <3>2. \A i \in 1 .. 3 : b[i][1] \in Leading
      BY <1>2, <1>6, <3>1
    <3> QED BY ONLY <1>3, <3>2 DEF WP!IsPoint, Leading
  <2>4. WP!Filed(layout, w, written) /\ b \in Seq(WP!Unit)
    BY <1>2, <1>6
  <2> QED BY <2>1, <2>2, <2>3, <2>4, TheirAssumptions, WP!FiledAnew DEF o
<1> QED BY <1>7, <1>8, SameReading DEF WP!HoldsAll

LEMMA StatingIsWhole ==
    ASSUME WP!Modest, Typed, Finished, Truthful, Stating
    PROVE  Whole
<1>1. /\ self.tallied = Len(written) /\ Len(written) <= MaxPoints /\ index = Len(written)
      /\ Disk[1] = HeaderNow /\ self.ext.number = Len(self.evlrs)
      /\ Recorded(self.evlrs, Disk, self.ext.start, self.ext.number)
      /\ Disguised(layout) => Disk[2] = <<"lascompatible", index>>
  BY DEF Truthful, Finished, Stating, Extended
<1>2. index <= U32_MAX /\ index \in Nat
  <2>1. MaxPoints \in Nat /\ U32_MAX \in Nat /\ MaxPoints < U32_MAX /\ index \in Nat
    BY <1>1, LifecycleAssumption DEF WP!Modest, Finished
  <2> QED BY <1>1, <2>1
<1>3. LAS14(layout) \/ Legacy(layout)
  BY DEF LAS14, Legacy
<1>4. HeaderNow = <<"header", IF Legacy(layout) THEN index ELSE 0,
                    IF LAS14(layout) THEN index ELSE 0, self.tallied,
                    self.ext.start, self.ext.number>>
  BY <1>2, <1>3 DEF HeaderNow
<1>5. /\ Disk[1][2] = IF Legacy(layout) THEN index ELSE 0
      /\ Disk[1][3] = IF LAS14(layout) THEN index ELSE 0
      /\ Disk[1][4] = self.tallied
      /\ Disk[1][5] = self.ext.start /\ Disk[1][6] = self.ext.number
  BY <1>1, <1>4
<1>6. Stated = Len(written)
  BY <1>1, <1>2, <1>3, <1>5 DEF Stated
<1>7. /\ self.ext.start + self.ext.number <= Len(Disk)
      /\ SubSeq(Disk, self.ext.start + 1, self.ext.start + self.ext.number)
           = [i \in 1 .. self.ext.number |-> <<"evlr", self.evlrs[i]>>]
  <2> DEFINE d == Disk
             x == self.ext.start
             k == self.ext.number
             f == [i \in 1 .. k |-> <<"evlr", self.evlrs[i]>>]
             u == SubSeq(d, x + 1, x + k)
  <2>1. /\ x \in Nat /\ k \in Nat /\ x + k <= Len(d)
        /\ \A i \in 1 .. k : d[x + i] = <<"evlr", self.evlrs[i]>>
        /\ d \in Seq(Things)
    BY <1>1, DisksAreThings DEF Recorded, Typed
  <2>2. \A i \in 1 .. k : d[x + i] = f[i]
    BY <2>1
  <2>3. f = [i \in 1 .. k |-> f[i]]
    OBVIOUS
  <2> HIDE DEF d, x, k, f
  <2>4. u = [i \in 1 .. k |-> d[x + i]]
    <3>1. /\ x + 1 \in Int /\ x + k \in Int
          /\ (x + k) - (x + 1) + 1 = k
          /\ \A i \in 1 .. k : (x + 1) + i - 1 = x + i
      BY ONLY <2>1
    <3>2. u \in Seq(Things) /\ Len(u) = k /\ \A i \in 1 .. k : u[i] = d[x + i]
      BY ONLY <2>1, <3>1
    <3> HIDE DEF u
    <3>3. u = [i \in 1 .. Len(u) |-> u[i]]
      BY ONLY <3>2
    <3> QED BY ONLY <3>2, <3>3
  <2>5. u = f
    BY ONLY <2>2, <2>3, <2>4
  <2> QED BY <2>1, <2>5 DEF d, x, k, f
<1>8. /\ Core!ReadsBack(layout, PointBlock)
      /\ Core!Points(Core!PointArea(layout, PointBlock)) = written
  BY BlockReads
<1> DEFINE start == Disk[1][5]
           number == Disk[1][6]
<1>9. start = self.ext.start /\ number = self.ext.number
  BY <1>5
<1> QED BY ONLY <1>1, <1>5, <1>6, <1>7, <1>8, <1>9 DEF Whole

LEMMA FaithfulTells ==
    ASSUME WP!Modest, Living, Faithful
    PROVE  ClosedFilesAreWhole /\ HeadersKeepTheirWord
<1>1. CASE Unfinished
  <2>1. ~self.closed
    BY <1>1 DEF Unfinished
  <2>2. Disk[1] = Blank
    <3>1. WP!Base = 3
      BY PrefaceIs DEF WP!Base
    <3> QED BY <1>1, <3>1, PrefaceIs DEF Unfinished, WP!StartsAsItDid, Disk
  <2> QED BY <2>1, <2>2 DEF ClosedFilesAreWhole, HeadersKeepTheirWord
<1>2. CASE Finished /\ Truthful
  <2>1. Stating => Whole
    BY <1>2, StatingIsWhole DEF Living
  <2> QED BY <1>2, <2>1 DEF Truthful, ClosedFilesAreWhole, HeadersKeepTheirWord
<1> QED BY <1>1, <1>2 DEF Faithful

\* A file whose close() returned states what is in it, whatever was written,
\* corrected or appended before and since (Writer.close, _patch_header,
\* _write_extended_records, append_spatial_index).
THEOREM ClosedFilesSayWhatTheyHold ==
    ASSUME Ooms \subseteq {"layer", "ic"}, MaxPoints < U32_MAX
    PROVE  Spec => []ClosedFilesAreWhole
<1>1. Living /\ Faithful /\ [Next]_vars => Faithful'
  BY FaithfulStays DEF WP!Modest
<1>2. Living /\ Faithful => ClosedFilesAreWhole
  BY FaithfulTells DEF WP!Modest
<1> QED BY <1>1, <1>2, InitLiving, LivingStays, InitFaithful, PTL DEF Spec

\* Wherever the process ends, the header on the disk is the empty one or is true:
\* close() writes it last (Writer.close, _patch_compatibility_record,
\* _patch_header).
THEOREM HeadersAreTheLastWord ==
    ASSUME Ooms \subseteq {"layer", "ic"}, MaxPoints < U32_MAX
    PROVE  Spec => []HeadersKeepTheirWord
<1>1. Living /\ Faithful /\ [Next]_vars => Faithful'
  BY FaithfulStays DEF WP!Modest
<1>2. Living /\ Faithful => HeadersKeepTheirWord
  BY FaithfulTells DEF WP!Modest
<1> QED BY <1>1, <1>2, InitLiving, LivingStays, InitFaithful, PTL DEF Spec
=============================================================================
