------------------------------ MODULE FileSink ------------------------------
(***************************************************************************)
(* The buffered output stream over a Python file object: the "file out"    *)
(* half of laz_stream.c.                                                   *)
(*                                                                         *)
(* `sink` is the LazOutStream with its FileOutImpl and the file object     *)
(* behind it.  The operators are the C functions, each from one state of   *)
(* the stream to the next; the point writer is built out of them.          *)
(*                                                                         *)
(* The file object is a sequence of bytes and a position of its own.  It   *)
(* takes `room` bytes and `seeks` seeks before it raises; a write that     *)
(* does not fit leaves the part that does.  A write that does not raise    *)
(* has written everything it was given: the return value of write() is not *)
(* looked at, and a raw file object that takes less is left out.           *)
(***************************************************************************)
EXTENDS Overlays

CONSTANTS FILE_BUF_SIZE,  \* what the buffer holds
          Byte,           \* what a byte may be
          Lengths,        \* how many bytes a caller puts at once
          Rooms, Seeks,   \* how much the file object takes before it raises
          MaxPos          \* bound: nothing is put past this position

ASSUME SinkAssumption == /\ FILE_BUF_SIZE \in Nat \ {0}
                         /\ Lengths \subseteq Nat
                         /\ Rooms \subseteq Nat /\ Seeks \subseteq Nat

VARIABLE sink

\* The file as the one who puts bytes knows it: what is staged is part of it.
Content(s) == Overlay(s.disk, s.at, s.buf)

-----------------------------------------------------------------------------
\* A stream over a file object that holds the bytes d already, and is at
\* their end.
laz_outstream_new_file(d, seekable, room, seeks) ==
    [disk |-> d, at |-> Len(d), room |-> room, seeks |-> seeks,
     buf |-> <<>>, pos |-> Len(d), seekable |-> seekable, failed |-> FALSE]

\* A mutant: the file object is called whether or not it has raised.
fileout_emit_again(s, bytes) ==
    LET taken == IF Len(bytes) <= s.room THEN bytes ELSE SubSeq(bytes, 1, s.room)
    IN  [s EXCEPT !.disk = Overlay(s.disk, s.at, taken),
                  !.at = s.at + Len(taken),
                  !.room = s.room - Len(taken),
                  !.failed = Len(bytes) > s.room]

fileout_emit(s, bytes) ==
    LET taken == IF Len(bytes) <= s.room THEN bytes ELSE SubSeq(bytes, 1, s.room)
    IN  IF s.failed THEN s
        ELSE [s EXCEPT !.disk = Overlay(s.disk, s.at, taken),
                       !.at = s.at + Len(taken),
                       !.room = s.room - Len(taken),
                       !.failed = Len(bytes) > s.room]

\* What was staged is dropped either way.
fileout_flush(s) == [fileout_emit(s, s.buf) EXCEPT !.buf = <<>>]

\* A mutant: bytes too many to stage overtake the ones that are staged.
fileout_put_bytes_overtaking(s, bytes) ==
    LET t == IF Len(s.buf) + Len(bytes) > FILE_BUF_SIZE THEN fileout_flush(s) ELSE s
    IN  IF s.failed THEN s
        ELSE IF Len(bytes) > FILE_BUF_SIZE
        THEN [fileout_emit(s, bytes) EXCEPT !.pos = s.pos + Len(bytes)]
        ELSE [t EXCEPT !.buf = t.buf \o bytes, !.pos = s.pos + Len(bytes)]

fileout_put_bytes(s, bytes) ==
    LET t == IF Len(s.buf) + Len(bytes) > FILE_BUF_SIZE THEN fileout_flush(s) ELSE s
    IN  IF s.failed \/ bytes = <<>> THEN s
        ELSE IF Len(bytes) > FILE_BUF_SIZE
        THEN [fileout_emit(t, bytes) EXCEPT !.pos = s.pos + Len(bytes)]
        ELSE [t EXCEPT !.buf = t.buf \o bytes, !.pos = s.pos + Len(bytes)]

\* A mutant: the buffer goes where the stream is going.
fileout_seek_unflushed(s, position) ==
    IF s.failed \/ ~s.seekable \/ position = s.pos \/ s.seeks = 0 THEN s
    ELSE [s EXCEPT !.at = position, !.pos = position, !.seeks = @ - 1]

\* Returns a stream; fileout_seek_ok says whether the call returned TRUE.
fileout_seek(s, position) ==
    LET t == fileout_flush(s)
    IN  IF s.failed \/ ~s.seekable \/ position = s.pos THEN s
        ELSE IF t.failed THEN t
        ELSE IF t.seeks = 0 THEN [t EXCEPT !.failed = TRUE]
        ELSE [t EXCEPT !.at = position, !.pos = position, !.seeks = t.seeks - 1]

fileout_seek_ok(s, position) ==
    ~s.failed /\ s.seekable /\ ~fileout_seek(s, position).failed

\* The last-resort flush of a stream that is dropped.
fileout_destroy(s) == IF s.failed THEN s ELSE fileout_flush(s)

-----------------------------------------------------------------------------
(* The stream on its own, under any use of it. *)

Init == \E d \in {<<>>} \cup [1 .. 2 -> Byte], seekable \in BOOLEAN,
           room \in Rooms, seeks \in Seeks :
            sink = laz_outstream_new_file(d, seekable, room, seeks)

put_bytes == \E n \in Lengths : \E bytes \in [1 .. n -> Byte] :
                /\ sink.pos + n <= MaxPos
                /\ sink' = fileout_put_bytes(sink, bytes)

flush == sink' = fileout_flush(sink)

\* Nobody seeks past the end.
seek == \E position \in 0 .. Len(Content(sink)) : sink' = fileout_seek(sink, position)

Next == put_bytes \/ flush \/ seek

Spec == Init /\ [][Next]_sink

-----------------------------------------------------------------------------
TypeOK ==
    /\ sink.disk \in Seq(Byte) /\ sink.buf \in Seq(Byte)
    /\ {sink.at, sink.pos, sink.room, sink.seeks} \subseteq Nat
    /\ sink.seekable \in BOOLEAN /\ sink.failed \in BOOLEAN
    /\ Len(sink.buf) <= FILE_BUF_SIZE

\* However bytes are put, staged, emitted and seeked between, the stream's own
\* position is the file object's with the staged bytes behind it, and there is
\* no gap in front of it (FileOutImpl.pos, fileout_put_bytes, fileout_seek).
KeepsPosition ==
    ~sink.failed => /\ sink.pos = sink.at + Len(sink.buf)
                    /\ sink.at <= Len(sink.disk)

\* A stream that has failed never touches the file again: calling back into
\* Python with an exception pending would be illegal (fileout_emit).
FailedIsInert == [][sink.failed => sink'.disk = sink.disk /\ sink'.failed]_sink

\* The buffered stream implements a file with no buffer: every byte put lands
\* at the position it was put at, in order, whatever was flushed in between.
File == INSTANCE ByteFile WITH content <- Content(sink), pos <- sink.pos,
                               failed <- sink.failed
ImplementsByteFile == File!Spec
=============================================================================
