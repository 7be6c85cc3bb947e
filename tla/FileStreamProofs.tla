-------------------------- MODULE FileStreamProofs --------------------------
(***************************************************************************)
(* Proof that the buffered input stream implements a file with no buffer   *)
(* (ImplementsByteSource), whatever the file, the size of the buffer and   *)
(* what the file object hands back at a time, wherever it stops answering  *)
(* and whatever records are read in between; on the way, that the buffer   *)
(* is a window on the file with the file object right behind it            *)
(* (BufferIsTheFile).                                                      *)
(*                                                                         *)
(* The inductive invariant is Inv: Window, of the stream's record; Behind, *)
(* where the file object stands or will be put back to; and UnderWay, that *)
(* what a call has got so far is the file from where it began.             *)
(***************************************************************************)
EXTENDS FileStream, SequenceTheorems, TLAPS

Streams == [base : Nat, pos : Nat, buf : Seq(Nat), length : Int,
            view : {"works", "refuses", "none"}, seekable : BOOLEAN, eof : BOOLEAN,
            failed : BOOLEAN, at : Nat, most : Nat \ {0}, calls : Nat]

\* A stretch of the file: elements of q are the bytes from position p on.
Stretch(q, p) == /\ Len(q) = 0 \/ p + Len(q) <= Len(Content)
                 /\ \A i \in 1 .. Len(q) : q[i] = Content[p + i]

\* The buffer is a window on the file, which is empty once the end was found.
Window(t) == /\ t.pos <= Len(t.buf) /\ Len(t.buf) <= FILE_BUF_SIZE
             /\ Stretch(t.buf, t.base)
             /\ t.eof => Len(t.buf) = 0 /\ t.base >= Len(Content)
             /\ t.length \in {-2, -1, Len(Content)}

Right(t) == Alive(t) => t.at = t.base + Len(t.buf)

Behind == IF evlr.pc = "idle" THEN Right(s) ELSE evlr.resume = s.base + Len(s.buf)

UnderWay == /\ file_tell(s) = get.from + Len(get.got)
            /\ Stretch(get.got, get.from)

Typed == /\ s \in Streams
         /\ get \in [want : Nat, from : Nat, got : Seq(Nat)]
         /\ evlr \in [pc : {"idle", "seek", "read", "restore"}, resume : Nat]
         /\ evlr.pc # "idle" => get.want = 0

Inv == /\ Typed
       /\ ~s.failed => /\ Window(s) /\ Behind
                       /\ get.want > 0 => UnderWay

-----------------------------------------------------------------------------
(* What the operations do to a stream. *)

\* The smaller of two numbers.
LEMMA LesserIs ==
    ASSUME NEW m \in Nat, NEW n \in Nat
    PROVE  /\ Lesser(m, n) \in Nat /\ Lesser(m, n) <= m /\ Lesser(m, n) <= n
           /\ Lesser(m, n) = 0 <=> m = 0 \/ n = 0
BY DEF Lesser

\* A part of the file is a stretch of it.
LEMMA PartIsAStretch ==
    ASSUME NEW p \in Nat, NEW n \in Nat, n = 0 \/ p + n <= Len(Content)
    PROVE  /\ SubSeq(Content, p + 1, p + n) \in Seq(Nat)
           /\ Len(SubSeq(Content, p + 1, p + n)) = n
           /\ Stretch(SubSeq(Content, p + 1, p + n), p)
<1> DEFINE q == SubSeq(Content, p + 1, p + n)
<1>1. Len(Content) \in Nat /\ \A i \in 1 .. Len(Content) : Content[i] \in Nat
  BY StreamAssumption
<1>2. \A i \in p + 1 .. p + n : Content[i] \in Nat
  BY <1>1
<1>3. /\ q \in Seq(Nat) /\ Len(q) = IF p + 1 <= p + n THEN (p + n) - (p + 1) + 1 ELSE 0
      /\ \A i \in 1 .. (p + n) - (p + 1) + 1 : q[i] = Content[(p + 1) + i - 1]
  BY <1>2, SubSeqProperties, p + 1 \in Int, p + n \in Int
<1>4. Len(q) = n
  BY <1>3
<1>5. \A i \in 1 .. Len(q) : q[i] = Content[p + i]
  <2> TAKE i \in 1 .. Len(q)
  <2>1. i \in 1 .. (p + n) - (p + 1) + 1 /\ (p + 1) + i - 1 = p + i
    BY <1>4
  <2> QED BY <1>3, <2>1
<1> QED BY <1>3, <1>4, <1>5 DEF Stretch

\* A stream with another buffer is a stream.
LEMMA Rebuffered ==
    ASSUME NEW t \in Streams, NEW p \in Nat, NEW b \in Seq(Nat), NEW e \in BOOLEAN
    PROVE  [t EXCEPT !.pos = p, !.buf = b, !.eof = e] \in Streams
BY DEF Streams

LEMMA Relengthened ==
    ASSUME NEW t \in Streams, NEW l \in Int
    PROVE  [t EXCEPT !.length = l] \in Streams
BY DEF Streams

\* A refill of a buffer that was read to its end.
LEMMA Refilled ==
    ASSUME NEW t \in Streams, t.pos >= Len(t.buf), ~t.failed => Window(t) /\ Right(t),
           NEW u, u = file_refill(t)
    PROVE  /\ u \in Streams
           /\ t.failed => u.failed
           /\ ~u.failed => /\ ~t.failed /\ Window(u) /\ Right(u)
                           /\ u.base = t.base + t.pos /\ u.pos = 0
                           /\ u.eof = (t.eof \/ Len(u.buf) = 0)
                           /\ Len(u.buf) = 0 => u.base >= Len(Content)
<1> DEFINE left == IF t.at < Len(Content) THEN Len(Content) - t.at ELSE 0
           n == Lesser(t.most, Lesser(FILE_BUF_SIZE, left))
           q == SubSeq(Content, t.at + 1, t.at + n)
<1>1. Len(Content) \in Nat /\ left \in Nat /\ t.at \in Nat /\ t.most \in Nat \ {0}
      /\ t.base \in Nat /\ t.pos \in Nat /\ Len(t.buf) \in Nat
  BY StreamAssumption DEF Streams
<1>2. n \in Nat /\ n <= FILE_BUF_SIZE /\ n <= left /\ (n = 0 => left = 0)
  <2> DEFINE m == Lesser(FILE_BUF_SIZE, left)
  <2> HIDE DEF left
  <2>1. /\ m \in Nat /\ m <= FILE_BUF_SIZE /\ m <= left
        /\ m = 0 <=> FILE_BUF_SIZE = 0 \/ left = 0
    BY <1>1, LesserIs, StreamAssumption
  <2> HIDE DEF m
  <2>2. /\ Lesser(t.most, m) \in Nat /\ Lesser(t.most, m) <= m
        /\ Lesser(t.most, m) = 0 <=> t.most = 0 \/ m = 0
    BY <1>1, <2>1, LesserIs
  <2> QED BY <1>1, <2>1, <2>2, StreamAssumption DEF m
<1>3. n = 0 \/ t.at + n <= Len(Content)
  <2> HIDE DEF n
  <2> QED BY <1>1, <1>2
<1>4. q \in Seq(Nat) /\ Len(q) = n /\ Stretch(q, t.at)
  <2> HIDE DEF n
  <2> QED BY <1>1, <1>2, <1>3, PartIsAStretch
<1>5. n = 0 => t.at >= Len(Content)
  <2> HIDE DEF n
  <2> QED BY <1>1, <1>2
<1>6. CASE t.failed
  <2>1. u = t
    BY <1>6 DEF file_refill
  <2> QED BY <2>1, <1>6
<1>7. CASE ~t.failed /\ ~Alive(t)
  <2>1. u = [t EXCEPT !.base = @ + t.pos, !.pos = 0, !.buf = <<>>, !.failed = TRUE, !.eof = TRUE]
    BY <1>7 DEF file_refill, Failed, Streams
  <2>2. t.base + t.pos \in Nat /\ <<>> \in Seq(Nat)
    BY <1>1
  <2>3. u.failed
    BY <2>1 DEF Streams
  <2>4. u \in Streams
    <3>1. PICK v : v = [t EXCEPT !.base = @ + t.pos, !.failed = TRUE]
      OBVIOUS
    <3>2. u = [v EXCEPT !.pos = 0, !.buf = <<>>, !.eof = TRUE]
      BY <2>1, <3>1
    <3>3. v \in Streams
      BY <2>2, <3>1 DEF Streams
    <3>4. [v EXCEPT !.pos = 0, !.buf = <<>>, !.eof = TRUE] \in Streams
      BY <2>2, <3>3, Rebuffered
    <3> QED BY <3>2, <3>4
  <2> QED BY <2>3, <2>4
<1>8. CASE ~t.failed /\ Alive(t)
  <2>1. PICK v \in {"works", "refuses", "none"} :
          u = [t EXCEPT !.base = @ + t.pos, !.pos = 0, !.buf = q, !.view = v,
                        !.at = @ + n, !.eof = @ \/ n = 0, !.calls = @ - 1]
    <3> DEFINE emptied == [t EXCEPT !.base = @ + t.pos, !.pos = 0, !.buf = <<>>]
               viewed  == [emptied EXCEPT !.view = IF @ = "refuses" THEN "none" ELSE @]
               w       == IF t.view = "refuses" THEN "none" ELSE t.view
    <3>1. u = [Called(viewed) EXCEPT !.buf = q, !.at = t.at + n, !.eof = @ \/ n = 0]
      BY <1>8 DEF file_refill
    <3> HIDE DEF n, q, left
    <3>2. Called(viewed) = [t EXCEPT !.base = @ + t.pos, !.pos = 0, !.buf = <<>>,
                                     !.view = w, !.calls = @ - 1]
      BY DEF Called, Streams
    <3>3. w \in {"works", "refuses", "none"}
      BY DEF Streams
    <3> HIDE DEF w, viewed
    <3>4. u = [t EXCEPT !.base = @ + t.pos, !.pos = 0, !.buf = q, !.view = w,
                        !.at = @ + n, !.eof = @ \/ n = 0, !.calls = @ - 1]
      BY <3>1, <3>2 DEF Streams
    <3> QED BY <3>3, <3>4
  <2> HIDE DEF n, q, left
  <2>2. t.calls - 1 \in Nat
    BY <1>8 DEF Alive, Streams
  <2>3. t.pos = Len(t.buf) /\ t.at = t.base + t.pos
    BY <1>8, <1>1 DEF Window, Right
  <2>4. /\ u.base = t.base + t.pos /\ u.pos = 0 /\ u.buf = q
        /\ u.at = t.at + n /\ u.eof = (t.eof \/ n = 0) /\ u.length = t.length
        /\ u.failed = t.failed
    BY <2>1 DEF Streams
  <2>5. u \in Streams
    <3>1. t.base + t.pos \in Nat /\ t.at + n \in Nat /\ (t.eof \/ n = 0) \in BOOLEAN
      BY <1>1, <1>2
    <3>2. q \in Seq(Nat) /\ 0 \in Nat
      BY <1>4
    <3> QED BY <2>1, <2>2, <3>1, <3>2, Zenon DEF Streams
  <2>6. t.eof => n = 0
    BY <1>8, <1>1, <1>2, <2>3 DEF Window, left
  <2>7. Window(u)
    <3>1. u.base = t.at /\ Len(u.buf) = n /\ Stretch(u.buf, u.base)
      BY <2>3, <2>4, <1>4
    <3>2. u.pos <= Len(u.buf) /\ Len(u.buf) <= FILE_BUF_SIZE
      BY <3>1, <2>4, <1>2
    <3>3. u.eof => n = 0
      BY <2>4, <2>6
    <3> QED BY <3>1, <3>2, <3>3, <2>4, <1>5, <1>8 DEF Window
  <2>8. Right(u)
    BY <2>3, <2>4, <1>1, <1>4 DEF Right
  <2> QED BY <1>8, <2>3, <2>4, <2>5, <1>5, <2>7, <2>8, <1>4
<1> QED BY <1>6, <1>7, <1>8

\* Sent to a position, a stream that did not fail is there with an empty buffer.
LEMMA SoughtRaw ==
    ASSUME NEW t \in Streams, NEW position \in Int,
           t.failed \/ t.length \in {-2, -1, Len(Content)},
           NEW u, u = file_seek_raw(t, position)
    PROVE  /\ u \in Streams
           /\ t.failed => u.failed
           /\ ~u.failed => /\ ~t.failed /\ position \in Nat /\ Window(u) /\ Right(u)
                           /\ u.base = position /\ u.pos = 0 /\ u.buf = <<>>
                           /\ ~u.eof /\ u.length = t.length
<1> DEFINE there == [Called(t) EXCEPT !.at = position]
<1>1. CASE t.failed
  <2>1. u = t
    BY <1>1 DEF file_seek_raw
  <2> QED BY <2>1, <1>1
<1>2. CASE ~t.failed /\ ~Alive(t)
  <2>1. u = [t EXCEPT !.failed = TRUE]
    BY <1>2 DEF file_seek_raw, Failed
  <2>2. u \in Streams /\ u.failed
    BY <2>1 DEF Streams
  <2> QED BY <2>2
<1>3. CASE ~t.failed /\ Alive(t)
  <2>1. t.calls \in Nat \ {0} /\ t.calls - 1 \in Nat
    BY <1>3 DEF Alive, Streams
  <2>2. CASE position < 0
    <3>1. u = [t EXCEPT !.calls = @ - 1, !.failed = TRUE]
      BY <1>3, <2>2 DEF file_seek_raw, Failed, Called, Streams
    <3>2. u \in Streams /\ u.failed
      BY <3>1, <2>1 DEF Streams
    <3> QED BY <3>2
  <2>3. CASE position >= 0
    <3>1. position \in Nat /\ ~(position < 0)
      BY <2>3
    <3>2. there = [t EXCEPT !.calls = @ - 1, !.at = position]
      BY DEF Called, Streams
    <3>3. CASE ~Alive(there)
      <4>1. u = Failed(there)
        BY <1>3, <3>1, <3>3 DEF file_seek_raw
      <4>2. u = [t EXCEPT !.calls = @ - 1, !.at = position, !.failed = TRUE]
        BY <4>1, <3>2 DEF Failed, Streams
      <4>3. u \in Streams /\ u.failed
        BY <4>2, <2>1, <3>1 DEF Streams
      <4> QED BY <4>3
    <3>4. CASE Alive(there)
      <4>1. t.calls - 1 > 0 /\ (t.calls - 1) - 1 \in Nat
        <5>1. there.calls = t.calls - 1 /\ there.calls > 0
          <6> HIDE DEF there
          <6> QED BY <3>2, <3>4 DEF Alive, Streams
        <5> HIDE DEF there
        <5> QED BY <5>1, <2>1
      <4>2. u = [Called(there) EXCEPT !.base = position, !.pos = 0, !.buf = <<>>, !.eof = FALSE]
        BY <1>3, <3>1, <3>4 DEF file_seek_raw
      <4>3. u = [t EXCEPT !.calls = (@ - 1) - 1, !.at = position, !.base = position,
                          !.pos = 0, !.buf = <<>>, !.eof = FALSE]
        BY <4>2, <3>2 DEF Called, Streams
      <4>4. /\ u.base = position /\ u.pos = 0 /\ u.buf = <<>> /\ u.at = position
            /\ u.eof = FALSE /\ u.length = t.length /\ u.failed = t.failed
        BY <4>3 DEF Streams
      <4>5. u \in Streams
        <5> DEFINE c == (t.calls - 1) - 1
        <5>0. <<>> \in Seq(Nat)
          OBVIOUS
        <5>1. PICK v : v = [t EXCEPT !.calls = c, !.at = position, !.base = position]
          OBVIOUS
        <5>2. u = [v EXCEPT !.pos = 0, !.buf = <<>>, !.eof = FALSE]
          BY <4>3, <5>1
        <5>3. c \in Nat
          BY <4>1
        <5> HIDE DEF c
        <5>4. v \in Streams
          BY <5>1, <5>3, <3>1 DEF Streams
        <5>5. [v EXCEPT !.pos = 0, !.buf = <<>>, !.eof = FALSE] \in Streams
          BY <5>0, <5>4, Rebuffered
        <5> QED BY <5>2, <5>5
      <4>6. Len(u.buf) = 0
        BY <4>4
      <4>7. Window(u)
        BY <4>4, <4>6, <1>3, StreamAssumption DEF Window, Stretch
      <4> QED BY <4>4, <4>5, <4>6, <4>7, <3>1, <1>3 DEF Right
    <3> QED BY <3>3, <3>4
  <2> QED BY <2>2, <2>3, position < 0 \/ position >= 0
<1> QED BY <1>1, <1>2, <1>3

\* A seek to what the buffer holds leaves it where it is.
LEMMA Sought ==
    ASSUME NEW t \in Streams, NEW position \in Int, ~t.failed => Window(t) /\ Right(t),
           NEW u, u = file_seek(t, position)
    PROVE  /\ u \in Streams
           /\ t.failed => u.failed
           /\ ~u.failed => /\ ~t.failed /\ position \in Nat /\ Window(u) /\ Right(u)
                           /\ file_tell(u) = position /\ ~u.eof /\ u.length = t.length
<1>1. CASE t.base <= position /\ position < t.base + Len(t.buf)
  <2>1. u = [t EXCEPT !.pos = position - t.base]
    BY <1>1 DEF file_seek
  <2>2. t.base \in Nat /\ Len(t.buf) \in Nat /\ t.buf \in Seq(Nat)
    BY DEF Streams
  <2>3. position - t.base \in Nat /\ position \in Nat /\ position - t.base <= Len(t.buf)
        /\ Len(t.buf) > 0
    BY <1>1, <2>2
  <2>4. u \in Streams
    BY <2>1, <2>3 DEF Streams
  <2>5. /\ u.base = t.base /\ u.pos = position - t.base /\ u.buf = t.buf /\ u.at = t.at
        /\ u.eof = t.eof /\ u.failed = t.failed /\ u.length = t.length /\ u.calls = t.calls
    BY <2>1 DEF Streams
  <2>6. ~u.failed => Window(u) /\ Right(u) /\ ~u.eof
    BY <2>3, <2>5 DEF Window, Right, Alive
  <2>7. file_tell(u) = position
    BY <2>2, <2>3, <2>5 DEF file_tell
  <2> QED BY <2>3, <2>4, <2>5, <2>6, <2>7
<1>2. CASE ~(t.base <= position /\ position < t.base + Len(t.buf))
  <2>1. u = file_seek_raw(t, position)
    BY <1>2 DEF file_seek
  <2>2. t.failed \/ t.length \in {-2, -1, Len(Content)}
    BY DEF Window
  <2>3. /\ u \in Streams
        /\ t.failed => u.failed
        /\ ~u.failed => /\ ~t.failed /\ position \in Nat /\ Window(u) /\ Right(u)
                        /\ u.base = position /\ u.pos = 0 /\ u.buf = <<>>
                        /\ ~u.eof /\ u.length = t.length
    BY <2>1, <2>2, SoughtRaw
  <2>4. ~u.failed => file_tell(u) = position
    BY <2>3 DEF file_tell
  <2> QED BY <2>3, <2>4
<1> QED BY <1>1, <1>2

\* The length is that of the file, or -1, and the position is what it was.
LEMMA Measured ==
    ASSUME NEW t \in Streams, ~t.failed => Window(t) /\ Right(t),
           NEW u, u = file_length(t)
    PROVE  /\ u \in Streams
           /\ t.failed => u.failed
           /\ ~u.failed => /\ ~t.failed /\ Window(u) /\ Right(u)
                           /\ file_tell(u) = file_tell(t) /\ (u.eof => t.eof)
                           /\ u.length \in {-1, Len(Content)}
<1> DEFINE here == file_tell(t)
           end  == file_seek_end(t, 0)
           back == file_seek(end, here)
<1>0. Len(Content) \in Nat /\ here \in Nat
  BY StreamAssumption DEF Streams, file_tell
<1>1. CASE t.length # -2
  <2>1. u = t
    BY <1>1 DEF file_length
  <2> QED BY <2>1, <1>1 DEF Window
<1>2. CASE t.length = -2 /\ (~t.seekable \/ t.failed)
  <2>1. u = [t EXCEPT !.length = -1]
    BY <1>2 DEF file_length
  <2>2. u \in Streams
    BY <2>1, Relengthened, -1 \in Int
  <2>3. /\ u.base = t.base /\ u.pos = t.pos /\ u.buf = t.buf /\ u.at = t.at
        /\ u.eof = t.eof /\ u.failed = t.failed /\ u.length = -1 /\ u.calls = t.calls
    BY <2>1 DEF Streams
  <2>4. ~u.failed => Window(u) /\ Right(u)
    BY <2>3 DEF Window, Right, Alive
  <2> QED BY <2>2, <2>3, <2>4 DEF file_tell
<1>3. CASE t.length = -2 /\ t.seekable /\ ~t.failed
  <2>1. end = file_seek_raw(t, Len(Content))
    BY <1>0 DEF file_seek_end
  <2>2. /\ end \in Streams
        /\ ~end.failed => /\ Window(end) /\ Right(end)
                          /\ end.base = Len(Content) /\ end.pos = 0
    <3> HIDE DEF end
    <3> QED BY <1>0, <1>3, <2>1, SoughtRaw
  <2>3. CASE end.failed
    <3>1. u = [end EXCEPT !.length = -1]
      BY <1>3, <2>3 DEF file_length
    <3> HIDE DEF end
    <3>2. u \in Streams
      BY <3>1, <2>2, Relengthened, -1 \in Int
    <3>3. u.failed = end.failed
      BY <3>1, <2>2 DEF Streams
    <3> QED BY <3>2, <3>3, <2>3
  <2>4. CASE ~end.failed
    <3>1. u = [back EXCEPT !.length = IF back.failed THEN -1 ELSE file_tell(end)]
      BY <1>3, <2>4 DEF file_length
    <3>2. file_tell(end) = Len(Content)
      <4> HIDE DEF end
      <4> QED BY <1>0, <2>2, <2>4 DEF file_tell
    <3>3. /\ back \in Streams
          /\ ~back.failed => Window(back) /\ Right(back) /\ file_tell(back) = here /\ ~back.eof
      <4> HIDE DEF end, here
      <4> QED BY <1>0, <2>2, <2>4, Sought
    <3> HIDE DEF back, end, here
    <3>4. PICK l \in {-1, Len(Content)} : u = [back EXCEPT !.length = l]
      BY <3>1, <3>2
    <3>5. u \in Streams
      BY <1>0, <3>3, <3>4, Relengthened, -1 \in Int
    <3>6. /\ u.base = back.base /\ u.pos = back.pos /\ u.buf = back.buf /\ u.at = back.at
          /\ u.eof = back.eof /\ u.failed = back.failed /\ u.length = l
          /\ u.calls = back.calls
      BY <3>3, <3>4 DEF Streams
    <3>7. ~u.failed => Window(u) /\ Right(u)
      BY <3>3, <3>6, <3>4 DEF Window, Right, Alive
    <3>8. file_tell(u) = file_tell(back)
      BY <3>6 DEF file_tell
    <3> QED BY <1>3, <3>3, <3>4, <3>5, <3>6, <3>7, <3>8 DEF here
  <2> QED BY <2>3, <2>4
<1> QED BY <1>1, <1>2, <1>3

-----------------------------------------------------------------------------
(* Each step keeps Inv and is one of the file with no buffer, or none. *)

Promise == [Source!Next]_(Source!bsvars)

\* The file object has failed: nothing more is promised.
LEMMA Broken == s'.failed => Promise
BY DEF Promise, Source!Next, Source!Break

\* A sequence that is the file from p on, and the file's bytes from there.
LEMMA StretchIsBytes ==
    ASSUME NEW p \in Nat, NEW q \in Seq(Nat), Len(q) > 0, Stretch(q, p)
    PROVE  q = Source!Bytes(p, Len(q))
<1>1. Len(q) \in Nat /\ q \in [1 .. Len(q) -> Nat]
  BY LenProperties
<1>2. \A i \in 1 .. Len(q) : p + i <= Len(Content) /\ q[i] = Content[p + i]
  BY <1>1, StreamAssumption DEF Stretch
<1>3. q = [i \in 1 .. Len(q) |-> IF p + i <= Len(Content) THEN Content[p + i] ELSE 0]
  BY <1>1, <1>2
<1> QED BY <1>3 DEF Source!Bytes

\* And with zeros behind, where it ends with the file.
LEMMA ZerosBehind ==
    ASSUME NEW p \in Nat, NEW q \in Seq(Nat), NEW n \in Nat, Stretch(q, p),
           p + Len(q) >= Len(Content)
    PROVE  /\ Len(q \o Zeros(n)) = Len(q) + n
           /\ q \o Zeros(n) = Source!Bytes(p, Len(q) + n)
<1> DEFINE z == Zeros(n)
           r == q \o z
<1>1. Len(q) \in Nat /\ Len(Content) \in Nat
  BY LenProperties, StreamAssumption
<1>2. z \in Seq(Nat) /\ Len(z) = n /\ \A i \in 1 .. n : z[i] = 0
  BY DEF Zeros
<1> HIDE DEF z
<1>3. /\ r \in Seq(Nat) /\ Len(r) = Len(q) + n
      /\ \A i \in 1 .. Len(q) + n :
            r[i] = IF i <= Len(q) THEN q[i] ELSE z[i - Len(q)]
  BY <1>1, <1>2, ConcatProperties
<1> HIDE DEF r
<1>4. r \in [1 .. Len(q) + n -> Nat]
  BY <1>3, LenProperties
<1>5. ASSUME NEW i \in 1 .. Len(q) + n
      PROVE  r[i] = IF p + i <= Len(Content) THEN Content[p + i] ELSE 0
  <2>1. CASE i <= Len(q)
    <3>1. i \in 1 .. Len(q) /\ p + i <= Len(Content)
      BY <2>1, <1>1 DEF Stretch
    <3> QED BY <3>1, <1>3, <2>1 DEF Stretch
  <2>2. CASE i > Len(q)
    <3>1. i - Len(q) \in 1 .. n /\ ~(i <= Len(q)) /\ ~(p + i <= Len(Content))
      BY <2>2, <1>1
    <3> QED BY <3>1, <1>2, <1>3
  <2> QED BY <2>1, <2>2, <1>1
<1>6. r = [i \in 1 .. Len(q) + n |-> IF p + i <= Len(Content) THEN Content[p + i] ELSE 0]
  BY <1>4, <1>5
<1> QED BY <1>3, <1>6 DEF r, z, Source!Bytes

\* A part of the buffer.
LEMMA PartOf ==
    ASSUME NEW q \in Seq(Nat), NEW m \in Nat, NEW n \in Nat, m + n <= Len(q)
    PROVE  /\ SubSeq(q, m + 1, m + n) \in Seq(Nat)
           /\ Len(SubSeq(q, m + 1, m + n)) = n
           /\ \A i \in 1 .. n : SubSeq(q, m + 1, m + n)[i] = q[m + i]
<1> DEFINE part == SubSeq(q, m + 1, m + n)
<1>1. Len(q) \in Nat /\ \A i \in 1 .. Len(q) : q[i] \in Nat
  OBVIOUS
<1>2. \A i \in m + 1 .. m + n : q[i] \in Nat
  BY <1>1
<1>3. /\ part \in Seq(Nat) /\ Len(part) = IF m + 1 <= m + n THEN (m + n) - (m + 1) + 1 ELSE 0
      /\ \A i \in 1 .. (m + n) - (m + 1) + 1 : part[i] = q[(m + 1) + i - 1]
  BY <1>2, SubSeqProperties, m + 1 \in Int, m + n \in Int
<1> HIDE DEF part
<1>4. Len(part) = n
  BY <1>3
<1>5. ASSUME NEW i \in 1 .. n PROVE part[i] = q[m + i]
  <2>1. i \in 1 .. (m + n) - (m + 1) + 1 /\ (m + 1) + i - 1 = m + i
    OBVIOUS
  <2> QED BY <1>3, <2>1
<1> QED BY <1>3, <1>4, <1>5 DEF part

\* What was got and the part of the buffer that follows it.
LEMMA Appended ==
    ASSUME NEW q \in Seq(Nat), NEW part \in Seq(Nat), NEW n \in Nat, Len(part) = n
    PROVE  /\ q \o part \in Seq(Nat) /\ Len(q \o part) = Len(q) + n
           /\ \A i \in 1 .. Len(q) + n :
                 (q \o part)[i] = IF i <= Len(q) THEN q[i] ELSE part[i - Len(q)]
BY ConcatProperties

\* A stretch that goes on where the buffer stands is a longer one.
LEMMA StretchGoesOn ==
    ASSUME NEW p \in Nat, NEW q \in Seq(Nat), Stretch(q, p),
           NEW base \in Nat, NEW buf \in Seq(Nat), Stretch(buf, base),
           NEW m \in Nat, NEW n \in Nat \ {0}, m + n <= Len(buf), base + m = p + Len(q)
    PROVE  Stretch(q \o SubSeq(buf, m + 1, m + n), p)
<1> DEFINE part == SubSeq(buf, m + 1, m + n)
           r == q \o part
<1>1. Len(q) \in Nat /\ Len(buf) \in Nat /\ Len(Content) \in Nat
  BY LenProperties, StreamAssumption
<1>2. /\ part \in Seq(Nat) /\ Len(part) = n /\ \A i \in 1 .. n : part[i] = buf[m + i]
  BY PartOf
<1> HIDE DEF part
<1>3. /\ r \in Seq(Nat) /\ Len(r) = Len(q) + n
      /\ \A i \in 1 .. Len(q) + n : r[i] = IF i <= Len(q) THEN q[i] ELSE part[i - Len(q)]
  BY <1>2, Appended
<1> HIDE DEF r
<1>4. p + Len(r) <= Len(Content)
  <2>1. base + Len(buf) <= Len(Content)
    BY <1>1 DEF Stretch
  <2> QED BY <1>1, <1>3, <2>1
<1>5. ASSUME NEW i \in 1 .. Len(r) PROVE r[i] = Content[p + i]
  <2>0. i \in 1 .. Len(q) + n /\ i \in Nat
    BY <1>3
  <2>1. CASE i <= Len(q)
    <3>1. i \in 1 .. Len(q)
      BY <1>1, <2>0, <2>1
    <3> QED BY <1>3, <2>0, <2>1, <3>1 DEF Stretch
  <2>2. CASE i > Len(q)
    <3>1. PICK j \in 1 .. n : j = i - Len(q)
      <4>1. i - Len(q) \in 1 .. n
        BY <1>1, <2>0, <2>2
      <4> QED BY <4>1, Zenon
    <3>2. ~(i <= Len(q)) /\ m + j \in 1 .. Len(buf) /\ base + (m + j) = p + i
      <4>1. j \in Nat /\ j <= n /\ j >= 1 /\ i \in Nat
        BY <2>0
      <4>2. base + (m + j) = p + i
        <5>1. base + (m + j) = p + (Len(q) + j)
          <6> DEFINE l == Len(q)
          <6>1. l \in Nat /\ j \in Nat /\ base + m = p + l
            BY <1>1, <4>1
          <6> HIDE DEF l
          <6>2. base + (m + j) = p + (l + j)
            BY <6>1
          <6> QED BY <6>2 DEF l
        <5>2. Len(q) + j = i
          BY <1>1, <3>1, <4>1
        <5> QED BY <5>1, <5>2
      <4>3. m + j \in 1 .. Len(buf)
        BY <1>1, <4>1
      <4>4. ~(i <= Len(q))
        BY <1>1, <2>2, <4>1
      <4> QED BY <4>2, <4>3, <4>4
    <3>3. r[i] = part[j]
      <4>1. r[i] = IF i <= Len(q) THEN q[i] ELSE part[i - Len(q)]
        BY <1>3, <2>0
      <4> QED BY <3>1, <3>2, <4>1
    <3>4. part[j] = buf[m + j]
      BY <1>2, <3>1
    <3>5. \A k \in 1 .. Len(buf) : buf[k] = Content[base + k]
      BY DEF Stretch
    <3>6. buf[m + j] = Content[base + (m + j)]
      BY <3>2, <3>5
    <3> QED BY <3>2, <3>3, <3>4, <3>6
  <2> QED BY <1>1, <2>0, <2>1, <2>2
<1> QED BY <1>4, <1>5 DEF Stretch, r, part

\* What a turn of the loop finds in the buffer.
LEMMA FilledIs ==
    ASSUME Inv, get.want > 0
    PROVE  /\ Filled \in Streams
           /\ s.failed => Filled.failed
           /\ ~Filled.failed =>
                /\ ~s.failed /\ Window(Filled) /\ Right(Filled)
                /\ file_tell(Filled) = file_tell(s)
                /\ Filled.pos < Len(Filled.buf) => Filled.eof = s.eof
                /\ Filled.pos >= Len(Filled.buf) =>
                      Filled.eof /\ Filled.pos = 0 /\ Filled.base >= Len(Content)
<1>1. s \in Streams /\ (~s.failed => Window(s) /\ Right(s))
  BY DEF Inv, Typed, Behind
<1>2. CASE s.pos >= Len(s.buf)
  <2>1. Filled = file_refill(s)
    BY <1>2 DEF Filled
  <2>2. /\ Filled \in Streams
        /\ s.failed => Filled.failed
        /\ ~Filled.failed => /\ ~s.failed /\ Window(Filled) /\ Right(Filled)
                             /\ Filled.base = s.base + s.pos /\ Filled.pos = 0
                             /\ Filled.eof = (s.eof \/ Len(Filled.buf) = 0)
                             /\ Len(Filled.buf) = 0 => Filled.base >= Len(Content)
    BY <1>1, <1>2, <2>1, Refilled
  <2> DEFINE f == Filled
  <2>3. f.base \in Nat /\ f.pos \in Nat /\ Len(f.buf) \in Nat /\ s.base \in Nat /\ s.pos \in Nat
        /\ f.eof \in BOOLEAN /\ s.eof \in BOOLEAN
    BY <1>1, <2>2 DEF Streams
  <2> HIDE DEF f
  <2>4. ASSUME ~f.failed
        PROVE  /\ file_tell(f) = file_tell(s)
               /\ f.pos < Len(f.buf) => f.eof = s.eof
               /\ f.pos >= Len(f.buf) => f.eof /\ f.pos = 0 /\ f.base >= Len(Content)
    BY <2>2, <2>3, <2>4 DEF file_tell, f
  <2> QED BY <2>2, <2>4 DEF f
<1>3. CASE ~(s.pos >= Len(s.buf))
  <2>1. Filled = s
    BY <1>3 DEF Filled
  <2> QED BY <1>1, <1>3, <2>1
<1> QED BY <1>2, <1>3

\* A call starts, which is no step yet.
LEMMA GetBytesStep ==
    ASSUME Inv, get_bytes
    PROVE  Inv' /\ Promise
<1>1. PICK n \in Gets : /\ Idle
                        /\ get' = [want |-> n, from |-> file_tell(s), got |-> <<>>]
                        /\ UNCHANGED <<s, evlr, answer>>
  BY DEF get_bytes
<1>2. n \in Nat \ {0} /\ file_tell(s) \in Nat /\ <<>> \in Seq(Nat)
  BY StreamAssumption DEF Inv, Typed, Streams, file_tell
<1>3. get.want = 0 /\ evlr.pc = "idle"
  BY <1>1 DEF Idle
<1>4. /\ get'.want = n /\ get'.from = file_tell(s) /\ get'.got = <<>>
      /\ get' \in [want : Nat, from : Nat, got : Seq(Nat)]
  BY <1>1, <1>2
<1>5. Typed'
  BY <1>1, <1>3, <1>4 DEF Inv, Typed
<1>6. UnderWay'
  <2>1. file_tell(s)' = file_tell(s) /\ Len(get'.got) = 0
    BY <1>1, <1>4 DEF file_tell
  <2>2. Stretch(get'.got, get'.from)
    BY <2>1 DEF Stretch
  <2>3. Stretch(get.got, get.from)'
    BY <2>2 DEF Stretch
  <2> QED BY <1>2, <1>4, <2>1, <2>3 DEF UnderWay
<1>7. ~s'.failed => Window(s)' /\ Behind'
  <2>1. ASSUME ~s.failed PROVE Window(s) /\ Behind
    BY <2>1 DEF Inv
  <2>2. Window(s)' = Window(s) /\ Behind' = Behind
    BY <1>1 DEF Window, Stretch, Behind, Right, Alive
  <2> QED BY <1>1, <2>1, <2>2
<1>8. Promise
  <2>1. Position' = Position
    BY <1>1, <1>2, <1>3, <1>4 DEF Position
  <2> QED BY <1>1, <2>1 DEF Promise, Source!bsvars
<1> QED BY <1>5, <1>6, <1>7, <1>8 DEF Inv

\* A turn of the loop: with the last one the bytes are handed out.
LEMMA CopiesStep ==
    ASSUME Inv, get_bytes_copies
    PROVE  Inv' /\ Promise
<1> DEFINE f == Filled
           n == Lesser(get.want, Len(f.buf) - f.pos)
           part == SubSeq(f.buf, f.pos + 1, f.pos + n)
           g == [get EXCEPT !.want = @ - n, !.got = @ \o part]
<1>1. /\ get.want > 0 /\ f.pos < Len(f.buf)
      /\ s' = [f EXCEPT !.pos = @ + n]
      /\ get' = IF g.want = 0 THEN Nothing ELSE g
      /\ answer' = IF g.want = 0 THEN g.got ELSE answer
      /\ evlr' = evlr
  BY DEF get_bytes_copies
<1>2. /\ f \in Streams
      /\ s.failed => f.failed
      /\ ~f.failed => /\ ~s.failed /\ Window(f) /\ Right(f)
                      /\ file_tell(f) = file_tell(s) /\ f.eof = s.eof
  BY <1>1, FilledIs
<1>3. /\ get \in [want : Nat, from : Nat, got : Seq(Nat)]
      /\ evlr \in [pc : {"idle", "seek", "read", "restore"}, resume : Nat]
      /\ evlr.pc = "idle"
  BY <1>1 DEF Inv, Typed
<1> HIDE DEF f
<1>4. /\ f.base \in Nat /\ f.pos \in Nat /\ f.buf \in Seq(Nat) /\ Len(f.buf) \in Nat
      /\ get.want \in Nat /\ get.from \in Nat /\ get.got \in Seq(Nat) /\ Len(get.got) \in Nat
      /\ Len(Content) \in Nat
  BY <1>2, <1>3, LenProperties, StreamAssumption DEF Streams
<1>5. /\ n \in Nat \ {0} /\ n <= get.want /\ f.pos + n <= Len(f.buf)
  <2>1. Len(f.buf) - f.pos \in Nat \ {0}
    BY <1>1, <1>4
  <2>2. /\ n \in Nat /\ n <= get.want /\ n <= Len(f.buf) - f.pos
        /\ n = 0 <=> get.want = 0 \/ Len(f.buf) - f.pos = 0
    BY <1>4, <2>1, LesserIs
  <2> HIDE DEF n
  <2> QED BY <1>1, <1>4, <2>1, <2>2
<1> HIDE DEF n
<1>6. part \in Seq(Nat) /\ Len(part) = n
  BY <1>4, <1>5, PartOf
<1> HIDE DEF part
<1>7. /\ g.want = get.want - n /\ g.from = get.from /\ g.got = get.got \o part
      /\ g.got \in Seq(Nat) /\ Len(g.got) = Len(get.got) + n
      /\ g \in [want : Nat, from : Nat, got : Seq(Nat)]
  <2>1. get.want - n \in Nat
    BY <1>4, <1>5
  <2>2. get.got \o part \in Seq(Nat) /\ Len(get.got \o part) = Len(get.got) + n
    BY <1>4, <1>5, <1>6, Appended
  <2>3. g.want = get.want - n /\ g.from = get.from /\ g.got = get.got \o part
    BY <1>3
  <2>4. g \in [want : Nat, from : Nat, got : Seq(Nat)]
    BY <1>3, <2>1, <2>2
  <2> QED BY <2>2, <2>3, <2>4
<1> HIDE DEF g
<1>8. /\ s' \in Streams /\ s'.base = f.base /\ s'.pos = f.pos + n /\ s'.buf = f.buf
      /\ s'.at = f.at /\ s'.eof = f.eof /\ s'.failed = f.failed /\ s'.length = f.length
      /\ s'.calls = f.calls
  <2>1. s' = [f EXCEPT !.pos = @ + n] /\ f.pos + n \in Nat
    BY <1>1, <1>4, <1>5
  <2> QED BY <1>2, <2>1 DEF Streams
<1>9. Nothing \in [want : Nat, from : Nat, got : Seq(Nat)] /\ Nothing.want = 0
  BY DEF Nothing
<1>10. Typed'
  BY <1>1, <1>3, <1>7, <1>8, <1>9 DEF Typed
<1>11. CASE f.failed
  <2>1. s'.failed
    BY <1>8, <1>11
  <2> QED BY <1>10, <2>1, Broken DEF Inv
<1>12. CASE ~f.failed
  <2>1. Window(f) /\ Right(f) /\ file_tell(s) = file_tell(f) /\ ~s.failed
    BY <1>2, <1>12
  <2>2. Window(s') /\ Right(s')
    BY <1>4, <1>5, <1>8, <2>1 DEF Window, Right, Alive
  <2>3. Window(s)' /\ Behind'
    <3>1. Window(s)' = Window(s') /\ Right(s)' = Right(s')
      BY DEF Window, Right, Stretch, Alive
    <3> QED BY <1>1, <1>3, <2>2, <3>1 DEF Behind
  <2>4. s'.eof = s.eof /\ s'.failed = s.failed
    <3>1. s.failed \in BOOLEAN /\ f.failed \in BOOLEAN
      BY <1>2 DEF Inv, Typed, Streams
    <3> QED BY <1>2, <1>8, <1>12, <2>1, <3>1
  <2>5. file_tell(s) = get.from + Len(get.got) /\ Stretch(get.got, get.from)
    BY <1>1, <2>1 DEF Inv, UnderWay
  <2>6. f.base + f.pos = get.from + Len(get.got)
    BY <2>1, <2>5 DEF file_tell
  <2>7. file_tell(s)' = get.from + Len(g.got)
    <3>1. file_tell(s)' = f.base + (f.pos + n)
      BY <1>8 DEF file_tell
    <3>2. f.base + (f.pos + n) = get.from + (Len(get.got) + n)
      <4> DEFINE b == f.base
                 m == f.pos
                 p == get.from
                 l == Len(get.got)
      <4>1. /\ b \in Nat /\ m \in Nat /\ p \in Nat /\ l \in Nat /\ n \in Nat
            /\ b + m = p + l
        BY <1>4, <1>5, <2>6
      <4> HIDE DEF b, m, p, l
      <4>2. b + (m + n) = p + (l + n)
        BY <4>1
      <4> QED BY <4>2 DEF b, m, p, l
    <3>3. Len(g.got) = Len(get.got) + n
      BY <1>7
    <3> QED BY <3>1, <3>2, <3>3
  <2>8. Stretch(g.got, get.from)
    <3>1. Stretch(f.buf, f.base)
      BY <2>1 DEF Window
    <3>2. Stretch(get.got \o SubSeq(f.buf, f.pos + 1, f.pos + n), get.from)
      BY <1>4, <1>5, <2>5, <2>6, <3>1, StretchGoesOn
    <3> QED BY <1>7, <3>2 DEF part
  <2>9. CASE g.want # 0
    <3>1. get' = g /\ answer' = answer
      BY <1>1, <2>9
    <3>2. UnderWay'
      <4>1. Stretch(get.got, get.from)' = Stretch(g.got, get.from)
        BY <3>1, <1>7 DEF Stretch
      <4> QED BY <1>7, <2>7, <2>8, <3>1, <4>1 DEF UnderWay
    <3>3. Position' = Position
      BY <1>1, <1>4, <1>7, <2>9, <3>1 DEF Position
    <3>4. Promise
      BY <2>4, <3>1, <3>3 DEF Promise, Source!bsvars
    <3> QED BY <1>10, <2>3, <3>2, <3>4 DEF Inv
  <2>10. CASE g.want = 0
    <3>1. get' = Nothing /\ answer' = g.got
      BY <1>1, <2>10
    <3>2. Position' = get.from + Len(g.got) /\ Position = get.from
      BY <1>1, <1>4, <1>9, <2>7, <3>1 DEF Position
    <3>3. Len(g.got) > 0
      BY <1>4, <1>5, <1>7
    <3>4. g.got = Source!Bytes(get.from, Len(g.got))
      BY <1>4, <1>7, <2>8, <3>3, StretchIsBytes
    <3>5. get.from + Len(g.got) <= Len(Content)
      BY <2>8, <3>3 DEF Stretch
    <3>6. Source!Get
      BY <2>1, <2>4, <3>1, <3>2, <3>4, <3>5 DEF Source!Get
    <3>7. Promise
      BY <3>6 DEF Promise, Source!Next
    <3>8. ~(get'.want > 0)
      BY <1>9, <3>1
    <3> QED BY <1>10, <2>3, <3>7, <3>8 DEF Inv
  <2> QED BY <2>9, <2>10
<1> QED BY <1>11, <1>12

\* Off the end the rest is zeros, and eof.
LEMMA GivesUpStep ==
    ASSUME Inv, get_bytes_gives_up
    PROVE  Inv' /\ Promise
<1> DEFINE f == Filled
<1>1. /\ get.want > 0 /\ ~(f.pos < Len(f.buf)) /\ s' = f /\ get' = Nothing
      /\ answer' = get.got \o Zeros(get.want) /\ evlr' = evlr
      /\ f.pos >= Len(f.buf)
  <2>1. f \in Streams /\ get.want > 0
    BY FilledIs DEF get_bytes_gives_up
  <2>2. f.pos \in Nat /\ Len(f.buf) \in Nat
    BY <2>1 DEF Streams
  <2> QED BY <2>2 DEF get_bytes_gives_up
<1>2. /\ f \in Streams
      /\ s.failed => f.failed
      /\ ~f.failed => /\ ~s.failed /\ Window(f) /\ Right(f)
                      /\ file_tell(f) = file_tell(s) /\ f.eof
                      /\ f.pos = 0 /\ f.base >= Len(Content)
  BY <1>1, FilledIs
<1>3. /\ get \in [want : Nat, from : Nat, got : Seq(Nat)]
      /\ evlr \in [pc : {"idle", "seek", "read", "restore"}, resume : Nat]
      /\ evlr.pc = "idle"
  BY <1>1 DEF Inv, Typed
<1> HIDE DEF f
<1>4. Nothing \in [want : Nat, from : Nat, got : Seq(Nat)] /\ Nothing.want = 0
  BY DEF Nothing
<1>5. Typed'
  BY <1>1, <1>2, <1>3, <1>4 DEF Typed
<1>6. CASE f.failed
  BY <1>1, <1>5, <1>6, Broken DEF Inv
<1>7. CASE ~f.failed
  <2>1. Window(s)' /\ Behind' /\ ~(get'.want > 0)
    <3>1. Window(s)' = Window(f) /\ Right(s)' = Right(f)
      BY <1>1 DEF Window, Right, Stretch, Alive
    <3> QED BY <1>1, <1>2, <1>3, <1>4, <1>7, <3>1 DEF Behind
  <2>2. file_tell(s) = get.from + Len(get.got) /\ Stretch(get.got, get.from)
    BY <1>1, <1>2, <1>7 DEF Inv, UnderWay
  <2>3. /\ get.from \in Nat /\ get.want \in Nat /\ get.got \in Seq(Nat) /\ Len(get.got) \in Nat
        /\ f.base \in Nat /\ Len(Content) \in Nat
    BY <1>2, <1>3, LenProperties, StreamAssumption DEF Streams
  <2>4. file_tell(f) = f.base /\ f.base = get.from + Len(get.got) /\ f.base >= Len(Content)
    BY <1>2, <1>7, <2>2, <2>3 DEF file_tell
  <2>5. /\ Len(answer') = Len(get.got) + get.want
        /\ answer' = Source!Bytes(get.from, Len(get.got) + get.want)
    BY <1>1, <2>2, <2>3, <2>4, ZerosBehind
  <2>6. Position = get.from /\ Position' = f.base
    <3>1. file_tell(s)' = file_tell(f)
      BY <1>1 DEF file_tell
    <3> QED BY <1>1, <1>4, <2>4, <3>1 DEF Position
  <2>7. f.base = Source!Larger(get.from, Len(Content))
    BY <2>2, <2>3, <2>4 DEF Source!Larger, Stretch
  <2>8. ~(get.from + Len(answer') <= Len(Content))
    BY <1>1, <2>3, <2>4, <2>5
  <2>9. s'.failed = s.failed /\ s'.eof /\ ~s.failed
    <3>1. s.failed \in BOOLEAN /\ f.failed \in BOOLEAN
      BY <1>2 DEF Inv, Typed, Streams
    <3> QED BY <1>1, <1>2, <1>7, <3>1
  <2>10. Source!Get
    BY <2>5, <2>6, <2>7, <2>8, <2>9 DEF Source!Get
  <2> QED BY <1>5, <2>1, <2>10 DEF Inv, Promise, Source!Next
<1> QED BY <1>6, <1>7
\* A call that leaves the stream a window keeps Inv.
LEMMA Kept ==
    ASSUME Inv, Idle, get' = get, evlr' = evlr, s' \in Streams,
           ~s'.failed => Window(s') /\ Right(s')
    PROVE  Inv' /\ Position = file_tell(s) /\ Position' = file_tell(s')
<1>1. get.want = 0 /\ evlr.pc = "idle"
  BY DEF Idle
<1>2. Typed'
  BY DEF Inv, Typed
<1>3. Window(s)' = Window(s') /\ Right(s)' = Right(s') /\ file_tell(s)' = file_tell(s')
  BY DEF Window, Right, Stretch, Alive, file_tell
<1>4. ~s'.failed => Window(s)' /\ Behind'
  BY <1>1, <1>3 DEF Behind
<1>5. ~(get'.want > 0)
  BY <1>1
<1>6. Position = file_tell(s) /\ Position' = file_tell(s')
  BY <1>1, <1>3 DEF Position
<1> QED BY <1>2, <1>4, <1>5, <1>6 DEF Inv

\* What an idle stream is.
LEMMA AtRest ==
    ASSUME Inv, Idle
    PROVE  /\ s \in Streams /\ (~s.failed => Window(s) /\ Right(s))
           /\ s.failed \in BOOLEAN /\ s.eof \in BOOLEAN
BY DEF Inv, Idle, Typed, Behind, Streams

\* Within the buffer or out of it, the position is where it was sent.
LEMMA SeekStep ==
    ASSUME Inv, seek
    PROVE  Inv' /\ Promise
<1>1. PICK position \in Seeks : /\ Idle /\ s' = file_seek(s, position) /\ answer' = <<>>
                                /\ get' = get /\ evlr' = evlr
  BY DEF seek
<1>2. /\ s \in Streams /\ (~s.failed => Window(s) /\ Right(s)) /\ position \in Int
      /\ s.failed \in BOOLEAN
  BY <1>1, AtRest, StreamAssumption
<1>3. /\ s' \in Streams
      /\ ~s'.failed => /\ ~s.failed /\ position \in Nat /\ Window(s') /\ Right(s')
                       /\ file_tell(s') = position /\ ~s'.eof
  BY <1>1, <1>2, Sought
<1>4. Inv' /\ Position' = file_tell(s')
  BY <1>1, <1>3, Kept
<1>5. ASSUME ~s'.failed PROVE Source!Seek
  <2>1. s'.failed = s.failed
    <3>1. s'.failed \in BOOLEAN
      BY <1>3 DEF Streams
    <3> QED BY <1>2, <1>3, <1>5, <3>1
  <2> QED BY <1>1, <1>3, <1>4, <1>5, <2>1 DEF Source!Seek
<1> QED BY <1>4, <1>5, Broken DEF Promise, Source!Next

\* Sent to a distance from the end.
LEMMA SeekEndStep ==
    ASSUME Inv, seek_end
    PROVE  Inv' /\ Promise
<1>1. PICK distance \in Ends : /\ Idle /\ s' = file_seek_end(s, distance) /\ answer' = <<>>
                               /\ get' = get /\ evlr' = evlr
  BY DEF seek_end
<1> DEFINE position == Len(Content) - distance
<1>2. /\ s \in Streams /\ (~s.failed => Window(s) /\ Right(s)) /\ position \in Int
      /\ s.failed \in BOOLEAN
  BY <1>1, AtRest, StreamAssumption
<1>3. s' = file_seek_raw(s, position)
  BY <1>1 DEF file_seek_end
<1>4. s.failed \/ s.length \in {-2, -1, Len(Content)}
  BY <1>2 DEF Window
<1> HIDE DEF position
<1>5. /\ s' \in Streams
      /\ ~s'.failed => /\ ~s.failed /\ position \in Nat /\ Window(s') /\ Right(s')
                       /\ s'.base = position /\ s'.pos = 0 /\ ~s'.eof
  BY <1>2, <1>3, <1>4, SoughtRaw
<1>6. Inv' /\ Position' = file_tell(s')
  BY <1>1, <1>5, Kept
<1>7. ASSUME ~s'.failed PROVE Source!Seek
  <2>1. s'.failed = s.failed
    <3>1. s'.failed \in BOOLEAN
      BY <1>5 DEF Streams
    <3> QED BY <1>2, <1>5, <1>7, <3>1
  <2>2. file_tell(s') = position
    BY <1>5, <1>7 DEF file_tell
  <2> QED BY <1>1, <1>5, <1>6, <1>7, <2>1, <2>2 DEF Source!Seek
<1> QED BY <1>6, <1>7, Broken DEF Promise, Source!Next

\* Measured, it stays where it is and says what is left.
LEMMA RemainingStep ==
    ASSUME Inv, remaining
    PROVE  Inv' /\ Promise
<1>1. /\ Idle /\ s' = file_length(s) /\ answer' = <<laz_stream_remaining(s')>>
      /\ get' = get /\ evlr' = evlr
  BY DEF remaining, laz_stream_remaining, file_tell
<1>2. /\ s \in Streams /\ (~s.failed => Window(s) /\ Right(s))
      /\ s.failed \in BOOLEAN /\ s.eof \in BOOLEAN
  BY <1>1, AtRest
<1>3. /\ s' \in Streams
      /\ ~s'.failed => /\ ~s.failed /\ Window(s') /\ Right(s')
                       /\ file_tell(s') = file_tell(s) /\ (s'.eof => s.eof)
                       /\ s'.length \in {-1, Len(Content)}
  BY <1>1, <1>2, Measured
<1>4. Inv' /\ Position' = file_tell(s') /\ Position = file_tell(s)
  BY <1>1, <1>3, Kept
<1>5. ASSUME ~s'.failed PROVE Source!Measure
  <2>1. s'.failed = s.failed
    <3>1. s'.failed \in BOOLEAN
      BY <1>3 DEF Streams
    <3> QED BY <1>2, <1>3, <1>5, <3>1
  <2>2. Len(Content) \in Nat /\ file_tell(s') \in Nat
    BY <1>3, StreamAssumption DEF Streams, file_tell
  <2> DEFINE left == laz_stream_remaining(s')
  <2>3. left \in {-1, Source!Larger(0, Len(Content) - Position)}
    <3>1. CASE s'.length = -1
      BY <3>1 DEF laz_stream_remaining
    <3>2. CASE s'.length = Len(Content)
      <4>1. left = IF file_tell(s') > Len(Content) THEN 0 ELSE Len(Content) - file_tell(s')
        BY <2>2, <3>2 DEF laz_stream_remaining
      <4> HIDE DEF left
      <4>2. Position = file_tell(s')
        BY <1>3, <1>4, <1>5
      <4> QED BY <2>2, <4>1, <4>2 DEF Source!Larger
    <3> QED BY <1>3, <1>5, <3>1, <3>2
  <2> HIDE DEF left
  <2>4. answer' \in {<<-1>>, <<Source!Larger(0, Len(Content) - Position)>>}
    BY <1>1, <2>3 DEF left
  <2>5. Position' = Position /\ (s'.eof => s.eof)
    BY <1>3, <1>4, <1>5
  <2> QED BY <1>3, <1>5, <2>1, <2>4, <2>5 DEF Source!Measure
<1> QED BY <1>4, <1>5, Broken DEF Promise, Source!Next

\* Another user of the file object moves it and uses up calls, and that is no
\* step, as long as it is put back.
LEMMA Aside ==
    ASSUME Inv, get.want = 0, NEW c \in Nat, NEW a \in Nat,
           s' = [s EXCEPT !.calls = c, !.at = a], get' = get, answer' = answer,
           evlr' \in [pc : {"idle", "seek", "read", "restore"}, resume : Nat],
           ~s.failed => IF evlr'.pc = "idle" THEN c > 0 => a = s.base + Len(s.buf)
                        ELSE evlr'.resume = s.base + Len(s.buf)
    PROVE  Inv' /\ Promise
<1>1. s \in Streams
  BY DEF Inv, Typed
<1>2. /\ s'.base = s.base /\ s'.pos = s.pos /\ s'.buf = s.buf /\ s'.length = s.length
      /\ s'.eof = s.eof /\ s'.failed = s.failed /\ s'.at = a /\ s'.calls = c
  BY <1>1 DEF Streams
<1>3. s' \in Streams
  BY <1>1 DEF Streams
<1>4. Typed'
  BY <1>3 DEF Inv, Typed
<1>5. ASSUME ~s'.failed PROVE Window(s)' /\ Behind'
  <2>1. Window(s) /\ ~s.failed
    BY <1>2, <1>5 DEF Inv
  <2>2. Window(s)'
    BY <1>2, <2>1 DEF Window, Stretch
  <2>3. Behind'
    <3>1. Right(s)' = (c > 0 => a = s.base + Len(s.buf))
      BY <1>2 DEF Right, Alive
    <3> QED BY <1>2, <2>1, <3>1 DEF Behind
  <2> QED BY <2>2, <2>3
<1>6. Promise
  <2>1. Position' = Position
    BY <1>2 DEF Position, file_tell
  <2> QED BY <1>2, <2>1 DEF Promise, Source!bsvars
<1>7. ~(get'.want > 0)
  OBVIOUS
<1> QED BY <1>4, <1>5, <1>6, <1>7 DEF Inv

\* The payload's reader notes where the file object is, right behind the buffer.
LEMMA PayloadTellStep ==
    ASSUME Inv, Payload_tell
    PROVE  Inv' /\ Promise
<1>1. /\ Idle /\ Alive(s) /\ s' = [s EXCEPT !.calls = @ - 1]
      /\ evlr' = [pc |-> "seek", resume |-> s.at] /\ get' = get /\ answer' = answer
  BY DEF Payload_tell, Called
<1>2. s \in Streams /\ get.want = 0 /\ (~s.failed => Right(s))
  BY <1>1, AtRest DEF Idle
<1>3. s.at \in Nat /\ s.calls - 1 \in Nat
  BY <1>1, <1>2 DEF Alive, Streams
<1>4. s' = [s EXCEPT !.calls = s.calls - 1, !.at = s.at]
  BY <1>1, <1>2 DEF Streams
<1>5. ~s.failed => s.at = s.base + Len(s.buf)
  BY <1>1, <1>2 DEF Right
<1>6. /\ evlr' \in [pc : {"idle", "seek", "read", "restore"}, resume : Nat]
      /\ evlr'.pc = "seek" /\ evlr'.resume = s.at
  BY <1>1, <1>3
<1> QED BY <1>1, <1>2, <1>3, <1>4, <1>5, <1>6, Aside

\* What is known while a payload is read.
LEMMA Midway ==
    ASSUME Inv, evlr.pc # "idle"
    PROVE  /\ s \in Streams /\ get.want = 0
           /\ evlr \in [pc : {"idle", "seek", "read", "restore"}, resume : Nat]
           /\ ~s.failed => evlr.resume = s.base + Len(s.buf)
           /\ s.at \in Nat /\ s.calls \in Nat
           /\ Alive(s) => s.calls - 1 \in Nat
           /\ s = [s EXCEPT !.calls = s.calls, !.at = s.at]
<1>1. /\ s \in Streams /\ get.want = 0
      /\ evlr \in [pc : {"idle", "seek", "read", "restore"}, resume : Nat]
      /\ ~s.failed => evlr.resume = s.base + Len(s.buf)
      /\ get \in [want : Nat, from : Nat, got : Seq(Nat)]
  BY DEF Inv, Typed, Behind
<1>2. s.at \in Nat /\ s.calls \in Nat
  BY <1>1 DEF Streams
<1>3. Alive(s) => s.calls - 1 \in Nat
  BY <1>2 DEF Alive
<1>4. s = [s EXCEPT !.calls = s.calls, !.at = s.at]
  BY <1>1 DEF Streams
<1> QED BY <1>1, <1>2, <1>3, <1>4

LEMMA PayloadSeekStep ==
    ASSUME Inv, Payload_seek
    PROVE  Inv' /\ Promise
<1>1. evlr.pc = "seek" /\ get' = get /\ answer' = answer
  BY DEF Payload_seek
<1>2. PICK c \in Nat, a \in Nat : s' = [s EXCEPT !.calls = c, !.at = a]
  <2>1. CASE Alive(s)
    <3>1. s' = [s EXCEPT !.calls = @ - 1, !.at = Payload]
      BY <2>1, <1>1, Midway DEF Payload_seek, Called, Streams
    <3> QED BY <1>1, <2>1, <3>1, Midway, StreamAssumption
  <2>2. CASE ~Alive(s)
    BY <1>1, <2>2, Midway DEF Payload_seek
  <2> QED BY <2>1, <2>2
<1>3. /\ evlr' \in [pc : {"idle", "seek", "read", "restore"}, resume : Nat]
      /\ evlr'.pc # "idle" /\ evlr'.resume = evlr.resume
  BY <1>1, Midway DEF Payload_seek
<1> QED BY <1>1, <1>2, <1>3, Midway, Aside

LEMMA PayloadReadStep ==
    ASSUME Inv, Payload_read
    PROVE  Inv' /\ Promise
<1>1. evlr.pc = "read" /\ get' = get /\ answer' = answer
  BY DEF Payload_read
<1>2. PICK c \in Nat, a \in Nat : s' = [s EXCEPT !.calls = c, !.at = a]
  <2>1. CASE Alive(s)
    <3>1. s' = [s EXCEPT !.calls = @ - 1, !.at = Len(Content)]
      BY <2>1, <1>1, Midway DEF Payload_read, Called, Streams
    <3>2. Len(Content) \in Nat /\ s.calls - 1 \in Nat
      BY <1>1, <2>1, Midway, StreamAssumption
    <3> QED BY <3>1, <3>2
  <2>2. CASE ~Alive(s)
    BY <1>1, <2>2, Midway DEF Payload_read
  <2> QED BY <2>1, <2>2
<1>3. /\ evlr' \in [pc : {"idle", "seek", "read", "restore"}, resume : Nat]
      /\ evlr'.pc # "idle" /\ evlr'.resume = evlr.resume
  BY <1>1, Midway DEF Payload_read
<1> QED BY <1>1, <1>2, <1>3, Midway, Aside

\* It puts the file object back, right behind the buffer, if that still answers.
LEMMA PayloadRestoreStep ==
    ASSUME Inv, Payload_restore
    PROVE  Inv' /\ Promise
<1>1. /\ evlr.pc = "restore" /\ get' = get /\ answer' = answer
      /\ evlr' = [pc |-> "idle", resume |-> 0]
  BY DEF Payload_restore
<1>2. /\ evlr' \in [pc : {"idle", "seek", "read", "restore"}, resume : Nat]
      /\ evlr'.pc = "idle"
  BY <1>1
<1>3. CASE Alive(s)
  <2>1. s' = [s EXCEPT !.calls = s.calls - 1, !.at = evlr.resume]
    BY <1>1, <1>3, Midway DEF Payload_restore, Called, Streams
  <2>2. s.calls - 1 \in Nat /\ evlr.resume \in Nat
    BY <1>1, <1>3, Midway
  <2> QED BY <1>1, <1>2, <2>1, <2>2, Midway, Aside
<1>4. CASE ~Alive(s)
  <2>1. s' = [s EXCEPT !.calls = s.calls, !.at = s.at] /\ ~(s.calls > 0)
    BY <1>1, <1>4, Midway DEF Payload_restore, Alive
  <2> QED BY <1>1, <1>2, <2>1, Midway, Aside
<1> QED BY <1>3, <1>4

-----------------------------------------------------------------------------
(* The theorems. *)

\* A stream just made has an empty buffer, and the file object behind it.
LEMMA Initially == Init => Inv /\ Source!Init
<1> SUFFICES ASSUME Init PROVE Inv /\ Source!Init
  OBVIOUS
<1>1. PICK seekable \in BOOLEAN, view \in {"works", "refuses", "none"},
           most \in Mosts, calls \in Calls, at \in {0, 1} :
             s = laz_stream_new_file(seekable, view, most, calls, at)
  BY DEF Init
<1>2. /\ get = [want |-> 0, from |-> 0, got |-> <<>>]
      /\ evlr = [pc |-> "idle", resume |-> 0] /\ answer = <<>>
  BY DEF Init, Nothing
<1>3. most \in Nat \ {0} /\ calls \in Nat /\ at \in Nat
  BY StreamAssumption
<1>4. /\ s.base = at /\ s.pos = 0 /\ s.buf = <<>> /\ s.length = -2 /\ s.eof = FALSE
      /\ s.failed = FALSE /\ s.at = at
  BY <1>1 DEF laz_stream_new_file
<1>5. s \in Streams
  <2>1. <<>> \in Seq(Nat) /\ -2 \in Int
    OBVIOUS
  <2> QED BY <1>1, <1>3, <2>1, Zenon DEF laz_stream_new_file, Streams
<1>6. Typed
  <2>1. <<>> \in Seq(Nat) /\ 0 \in Nat
    OBVIOUS
  <2>2. get \in [want : Nat, from : Nat, got : Seq(Nat)]
    BY <1>2, <2>1
  <2>3. evlr \in [pc : {"idle", "seek", "read", "restore"}, resume : Nat] /\ evlr.pc = "idle"
    BY <1>2
  <2> QED BY <1>5, <2>2, <2>3 DEF Typed
<1>7. Len(s.buf) = 0
  BY <1>4
<1>8. Window(s) /\ Behind
  <2>1. Window(s)
    BY <1>4, <1>7, StreamAssumption DEF Window, Stretch
  <2>2. evlr.pc = "idle" /\ Right(s)
    BY <1>2, <1>3, <1>4, <1>7 DEF Right
  <2> QED BY <2>1, <2>2 DEF Behind
<1>9. get.want = 0
  BY <1>2
<1>10. Position \in Nat
  BY <1>3, <1>4, <1>9 DEF Position, file_tell
<1> QED BY <1>2, <1>4, <1>6, <1>8, <1>9, <1>10 DEF Inv, Source!Init

\* Every step keeps Inv and is one of the file with no buffer, or none.
LEMMA EachStep == Inv /\ [Next]_fsvars => Inv' /\ Promise
<1> SUFFICES ASSUME Inv, [Next]_fsvars PROVE Inv' /\ Promise
  OBVIOUS
<1>1. CASE get_bytes
  BY <1>1, GetBytesStep
<1>2. CASE get_bytes_copies
  BY <1>2, CopiesStep
<1>3. CASE get_bytes_gives_up
  BY <1>3, GivesUpStep
<1>4. CASE seek
  BY <1>4, SeekStep
<1>5. CASE seek_end
  BY <1>5, SeekEndStep
<1>6. CASE remaining
  BY <1>6, RemainingStep
<1>7. CASE Payload_tell
  BY <1>7, PayloadTellStep
<1>8. CASE Payload_seek
  BY <1>8, PayloadSeekStep
<1>9. CASE Payload_read
  BY <1>9, PayloadReadStep
<1>10. CASE Payload_restore
  BY <1>10, PayloadRestoreStep
<1>11. CASE UNCHANGED fsvars
  <2>1. s' = s /\ get' = get /\ evlr' = evlr /\ answer' = answer
    BY <1>11 DEF fsvars
  <2>2. Inv' = Inv
    BY <2>1 DEF Inv, Typed, Window, Stretch, Behind, Right, Alive, UnderWay, file_tell
  <2>3. Position' = Position
    BY <2>1 DEF Position, file_tell
  <2> QED BY <2>1, <2>2, <2>3 DEF Promise, Source!bsvars
<1> QED BY <1>1, <1>2, <1>3, <1>4, <1>5, <1>6, <1>7, <1>8, <1>9, <1>10, <1>11 DEF Next

\* The window of Inv is the one BufferIsTheFile states.
LEMMA InvIsEnough == Inv => BufferIsTheFile
<1> SUFFICES ASSUME Inv, ~s.failed, Alive(s), evlr.pc = "idle"
             PROVE  /\ s.pos <= Len(s.buf) /\ Len(s.buf) <= FILE_BUF_SIZE
                    /\ s.buf = SubSeq(Content, s.base + 1, s.base + Len(s.buf))
                    /\ s.at = s.base + Len(s.buf)
  BY DEF BufferIsTheFile
<1>1. Window(s) /\ Right(s) /\ s \in Streams
  BY DEF Inv, Behind, Typed
<1> DEFINE p == s.base
           q == s.buf
           n == Len(q)
           part == SubSeq(Content, p + 1, p + n)
<1>2. p \in Nat /\ q \in Seq(Nat) /\ n \in Nat
  BY <1>1, LenProperties DEF Streams
<1>3. Stretch(q, p)
  BY <1>1 DEF Window
<1> HIDE DEF p, q
<1>4. n = 0 \/ p + n <= Len(Content)
  BY <1>3 DEF Stretch
<1>5. part \in Seq(Nat) /\ Len(part) = n /\ Stretch(part, p)
  <2> HIDE DEF n
  <2> QED BY <1>2, <1>4, PartIsAStretch
<1>6. q = part
  <2> HIDE DEF part
  <2>1. \A i \in 1 .. n : q[i] = part[i]
    BY <1>3, <1>5 DEF Stretch
  <2> QED BY <1>2, <1>5, <2>1, SeqEqual
<1> QED BY <1>1, <1>6 DEF Window, Right, p, q

\* The buffer is a window on the file with the file object right behind it,
\* whoever else has moved that (BufferIsTheFile; file_refill, file_seek,
\* keeping_position).
THEOREM TheBufferIsTheFile == Spec => []BufferIsTheFile
<1>1. Init => Inv
  BY Initially
<1>2. Inv /\ [Next]_fsvars => Inv'
  BY EachStep
<1> QED BY <1>1, <1>2, InvIsEnough, PTL DEF Spec

\* The buffered stream implements the file with no buffer (file_get_bytes,
\* file_seek, file_seek_end, laz_stream_remaining, and a payload read between
\* them).
THEOREM ImplementsTheSource == Spec => ImplementsByteSource
<1>1. Init => Inv /\ Source!Init
  BY Initially
<1>2. Inv /\ [Next]_fsvars => Inv' /\ [Source!Next]_(Source!bsvars)
  BY EachStep DEF Promise
<1> QED BY <1>1, <1>2, PTL DEF Spec, ImplementsByteSource, Source!Spec
=============================================================================
