----------------------------- MODULE FileStream -----------------------------
(***************************************************************************)
(* The buffered input stream over a Python file object: the "file" half of *)
(* laz_stream.c, and with it the one other user of the same file object,   *)
(* the payload of an extended record, read out from under the stream by    *)
(* ExtendedVariableLengthRecord._read_data in reader.py.                   *)
(*                                                                         *)
(* `stream` is the LazStream with its FileImpl; `at` is the file object's  *)
(* own position and `calls` how many more calls it answers before it       *)
(* raises, for good.  A read hands back at most `most` bytes and none only *)
(* at the end.  Every operator on a state maps <<stream, at, calls>>, held *)
(* in one record, to the next as the C function of that name does.         *)
(*                                                                         *)
(* Left out: objects that answer with something other than bytes or an     *)
(* integer, which are failures like any other, and a file object with no   *)
(* tell(), whose positions are relative to where it was wrapped.           *)
(***************************************************************************)
EXTENDS Integers, Sequences

CONSTANTS Content,        \* the bytes of the file
          FILE_BUF_SIZE,  \* what the buffer holds
          Mosts,          \* how much one read of the file object may hand back
          Calls,          \* how many calls it may answer
          Gets, Seeks, Ends,  \* how much the decoder gets, where it seeks
          Payload         \* where the extended record's payload starts

ASSUME StreamAssumption == /\ Content \in Seq(Nat)
                           /\ FILE_BUF_SIZE \in Nat \ {0}
                           /\ Mosts \subseteq Nat \ {0}
                           /\ Calls \subseteq Nat /\ Gets \subseteq Nat \ {0}
                           /\ Seeks \subseteq Nat /\ Ends \subseteq Nat
                           /\ Payload \in Nat

VARIABLES s,       \* the stream and the file object under it
          get,     \* the call under way: the bytes wanted, from where, and those got
          evlr,    \* the record being read: where its reader is, what it put aside
          answer   \* what the last call on the stream handed out

fsvars == <<s, get, evlr, answer>>

Lesser(m, n) == IF m < n THEN m ELSE n
Zeros(n)     == [i \in 1 .. n |-> 0]

-----------------------------------------------------------------------------
(* The file object. *)

Alive(t)  == t.calls > 0
Called(t) == [t EXCEPT !.calls = @ - 1]

laz_stream_new_file(seekable, view, most, calls, at) ==
    [base |-> at, pos |-> 0, buf |-> <<>>, length |-> -2,
     view |-> view, seekable |-> seekable, eof |-> FALSE, failed |-> FALSE,
     at |-> at, most |-> most, calls |-> calls]

-----------------------------------------------------------------------------
(* The stream. *)

Failed(t) == [t EXCEPT !.failed = TRUE]

\* A mutant: the position within the buffer is lost with it.
file_refill_unmoved(t) ==
    LET n == Lesser(t.most, Lesser(FILE_BUF_SIZE,
                 IF t.at < Len(Content) THEN Len(Content) - t.at ELSE 0))
    IN  IF t.failed THEN t
        ELSE IF ~Alive(t) THEN [Failed(t) EXCEPT !.eof = TRUE]
        ELSE [Called(t) EXCEPT !.pos = 0, !.buf = SubSeq(Content, t.at + 1, t.at + n),
                               !.at = t.at + n, !.eof = @ \/ n = 0]

\* What is left of the buffer is given up and filled from where the file object
\* stands: through the view, or, where readinto refuses, with read() from then
\* on.
file_refill(t) ==
    LET emptied == [t EXCEPT !.base = @ + t.pos, !.pos = 0, !.buf = <<>>]
        viewed  == [emptied EXCEPT !.view = IF @ = "refuses" THEN "none" ELSE @]
        n == Lesser(t.most, Lesser(FILE_BUF_SIZE,
                 IF t.at < Len(Content) THEN Len(Content) - t.at ELSE 0))
    IN  IF t.failed THEN t
        ELSE IF ~Alive(t) THEN [Failed(emptied) EXCEPT !.eof = TRUE]
        ELSE [Called(viewed) EXCEPT !.buf = SubSeq(Content, t.at + 1, t.at + n),
                                    !.at = t.at + n, !.eof = @ \/ n = 0]

file_tell(t) == t.base + t.pos

\* The file object is sent to a position, and asked where that was.
file_seek_raw(t, position) ==
    LET there == [Called(t) EXCEPT !.at = position]
    IN  IF t.failed THEN t
        ELSE IF ~Alive(t) THEN Failed(t)
        ELSE IF position < 0 THEN Failed(Called(t))
        ELSE IF ~Alive(there) THEN Failed(there)
        ELSE [Called(there) EXCEPT !.base = position, !.pos = 0, !.buf = <<>>,
                                   !.eof = FALSE]

file_seek(t, position) ==
    IF t.base <= position /\ position < t.base + Len(t.buf)
    THEN [t EXCEPT !.pos = position - t.base]
    ELSE file_seek_raw(t, position)

file_seek_end(t, distance) == file_seek_raw(t, Len(Content) - distance)

\* The length, found once and remembered, by a seek to the end and back.
file_length(t) ==
    LET here == file_tell(t)
        end  == file_seek_end(t, 0)
        back == file_seek(end, here)
    IN  IF t.length # -2 THEN t
        ELSE IF ~t.seekable \/ t.failed THEN [t EXCEPT !.length = -1]
        ELSE IF end.failed THEN [end EXCEPT !.length = -1]
        ELSE [back EXCEPT !.length = IF back.failed THEN -1 ELSE file_tell(end)]

laz_stream_remaining(t) ==
    IF t.length < 0 THEN -1
    ELSE IF file_tell(t) > t.length THEN 0 ELSE t.length - file_tell(t)

-----------------------------------------------------------------------------
(* The decoder's use of it, between whose calls a record's payload is read. *)

Nothing == [want |-> 0, from |-> 0, got |-> <<>>]
Idle    == get.want = 0 /\ evlr.pc = "idle"

Init == \E seekable \in BOOLEAN, view \in {"works", "refuses", "none"},
           most \in Mosts, calls \in Calls, at \in {0, 1} :
            /\ s = laz_stream_new_file(seekable, view, most, calls, at)
            /\ get = Nothing
            /\ evlr = [pc |-> "idle", resume |-> 0]
            /\ answer = <<>>

get_bytes == \E n \in Gets :
                /\ Idle
                /\ get' = [want |-> n, from |-> file_tell(s), got |-> <<>>]
                /\ UNCHANGED <<s, evlr, answer>>

\* A turn of the loop in file_get_bytes: an empty buffer is filled first, and
\* what it holds is handed out, as far as it goes.
Filled == IF s.pos >= Len(s.buf) THEN file_refill(s) ELSE s

get_bytes_copies ==
    LET n == Lesser(get.want, Len(Filled.buf) - Filled.pos)
        g == [get EXCEPT !.want = @ - n,
                         !.got = @ \o SubSeq(Filled.buf, Filled.pos + 1, Filled.pos + n)]
    IN  /\ get.want > 0 /\ Filled.pos < Len(Filled.buf)
        /\ s' = [Filled EXCEPT !.pos = @ + n]
        /\ get' = IF g.want = 0 THEN Nothing ELSE g
        /\ answer' = IF g.want = 0 THEN g.got ELSE answer
        /\ UNCHANGED evlr

\* The end of the file, or a file object that raised: the rest is zeros.
get_bytes_gives_up ==
    /\ get.want > 0 /\ Filled.pos >= Len(Filled.buf)
    /\ s' = Filled
    /\ get' = Nothing
    /\ answer' = get.got \o Zeros(get.want)
    /\ UNCHANGED evlr

seek == \E position \in Seeks :
           /\ Idle /\ s.seekable
           /\ s' = file_seek(s, position)
           /\ answer' = <<>>
           /\ UNCHANGED <<get, evlr>>

seek_end == \E distance \in Ends :
               /\ Idle /\ s.seekable
               /\ s' = file_seek_end(s, distance)
               /\ answer' = <<>>
               /\ UNCHANGED <<get, evlr>>

remaining == /\ Idle
             /\ s' = file_length(s)
             /\ answer' = <<laz_stream_remaining(s')>>
             /\ UNCHANGED <<get, evlr>>

\* _read_data, a call of the file object at a time: keeping_position's tell,
\* the seek to the payload, the read, and the seek back whatever happened.
\* Files that cannot be gone back in have no extended records.
Payload_tell ==
    /\ Idle /\ s.seekable /\ Alive(s)
    /\ s' = Called(s)
    /\ evlr' = [pc |-> "seek", resume |-> s.at]
    /\ UNCHANGED <<get, answer>>

Payload_seek ==
    /\ evlr.pc = "seek"
    /\ IF Alive(s) THEN s' = [Called(s) EXCEPT !.at = Payload] /\ evlr' = [evlr EXCEPT !.pc = "read"]
                   ELSE s' = s /\ evlr' = [evlr EXCEPT !.pc = "restore"]
    /\ UNCHANGED <<get, answer>>

Payload_read ==
    /\ evlr.pc = "read"
    /\ s' = IF Alive(s) THEN [Called(s) EXCEPT !.at = Len(Content)] ELSE s
    /\ evlr' = [evlr EXCEPT !.pc = "restore"]
    /\ UNCHANGED <<get, answer>>

\* A mutant: where the payload left off is where the file object stays.
Payload_restore_not ==
    /\ evlr.pc = "restore"
    /\ s' = s
    /\ evlr' = [pc |-> "idle", resume |-> 0]
    /\ UNCHANGED <<get, answer>>

Payload_restore ==
    /\ evlr.pc = "restore"
    /\ s' = IF Alive(s) THEN [Called(s) EXCEPT !.at = evlr.resume] ELSE s
    /\ evlr' = [pc |-> "idle", resume |-> 0]
    /\ UNCHANGED <<get, answer>>

Next == \/ get_bytes \/ get_bytes_copies \/ get_bytes_gives_up
        \/ seek \/ seek_end \/ remaining
        \/ Payload_tell \/ Payload_seek \/ Payload_read \/ Payload_restore

Spec == Init /\ [][Next]_fsvars

-----------------------------------------------------------------------------
(* What is right about it. *)

\* The buffer is a window on the file with the position in it, and the file
\* object stands right behind it whenever the next refill may come, whoever else
\* has moved it since (the comment on FileImpl; keeping_position,
\* ExtendedVariableLengthRecord).
BufferIsTheFile ==
    ~s.failed /\ Alive(s) /\ evlr.pc = "idle" =>
        /\ s.pos <= Len(s.buf) /\ Len(s.buf) <= FILE_BUF_SIZE
        /\ s.buf = SubSeq(Content, s.base + 1, s.base + Len(s.buf))
        /\ s.at = s.base + Len(s.buf)

\* The buffered stream implements a file with no buffer: whatever was read
\* ahead, sought inside the buffer or out of it, measured, or read by another
\* in between, the bytes handed out are those at the stream's position, with
\* zeros and eof off the end (file_get_bytes, file_seek, laz_stream_remaining).
Position == IF get.want = 0 THEN file_tell(s) ELSE get.from
Source == INSTANCE ByteSource WITH content <- Content, pos <- Position,
                                   eof <- s.eof, failed <- s.failed
ImplementsByteSource == Source!Spec
=============================================================================
