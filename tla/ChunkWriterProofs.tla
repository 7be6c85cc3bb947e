------------------------- MODULE ChunkWriterProofs -------------------------
(***************************************************************************)
(* Proof, for every container, buffer, file object and place where memory  *)
(* may run out, that the point writer's counters fit each other (TypeOK),  *)
(* that a call in which the file object raises says so (ReportsFailures)   *)
(* and that nothing in the file is ever changed but the position in front  *)
(* of the points (OnlyThePlaceholderIsPatched).                            *)
(*                                                                         *)
(* What all three rest on is Ready(l, w, c): the writer's counters agree   *)
(* with each other and with the container, and its stream holds c.  That   *)
(* is the invariant of FileSinkProofs for the stream, and more: as long as *)
(* the stream has not failed, disk and staged bytes make up c; and whether *)
(* it has or not, what is on the disk lies at the beginning of c, but that *)
(* the position in front of the points may not be there yet (Lies).  One   *)
(* lemma per operator says what it makes of c: a point, the end of a chunk *)
(* and the table go behind it; write_chunk_table alone changes it, at one  *)
(* place (Patched), and the position is put there only once everything in  *)
(* front of it is in the file (PatchHolds).  The inductive invariant is    *)
(* Going: there is such a c, with the placeholder in it while the writer   *)
(* is open.  An action takes c to a d that extends it (Goes), whichever    *)
(* call of the file object raises.                                         *)
(***************************************************************************)
EXTENDS ChunkWriter, SequenceTheorems, TLAPS

\* What a unit of the stream is: its kind and what goes with it.  (The provers
\* are not told that a literal is in STRING.)
Kinds == {"end", "count", "raw", "encoded", "half", "position", "version", "chunks", "row"}
Unit == Seq(Kinds \cup STRING \cup Int)

\* The stream under the writer, with what is proved of it.
Stream == INSTANCE FileSinkProofs WITH sink <- wp.outstream, Byte <- Unit,
                                       Lengths <- {}, MaxPos <- 0

LEMMA StreamAssumption ==
    /\ FILE_BUF_SIZE \in Nat \ {0} /\ {} \subseteq Nat
    /\ Rooms \subseteq Nat /\ Seeks \subseteq Nat
BY WriterAssumption

LEMMA TuplesAreSeqs ==
    ASSUME NEW S, NEW k \in S, NEW m \in S, NEW n \in S
    PROVE  <<k>> \in Seq(S) /\ <<k, m>> \in Seq(S) /\ <<k, m, n>> \in Seq(S)
OBVIOUS

LEMMA UnitsAreUnits ==
    ASSUME NEW kind \in Kinds, NEW m \in Int, NEW n \in Int
    PROVE  <<kind>> \in Unit /\ <<kind, m>> \in Unit /\ <<kind, m, n>> \in Unit
<1> DEFINE S == Kinds \cup STRING \cup Int
<1>1. kind \in S /\ m \in S /\ n \in S
  OBVIOUS
<1> HIDE DEF S
<1>2. <<kind>> \in Seq(S) /\ <<kind, m>> \in Seq(S) /\ <<kind, m, n>> \in Seq(S)
  BY <1>1, TuplesAreSeqs, Zenon
<1> QED BY <1>2 DEF S, Unit

LEMMA Associative == \A a, b, c \in Seq(Unit) : (a \o b) \o c = a \o (b \o c)
BY ConcatAssociative

\* Two sequences end to end, unit for unit.
LEMMA EndToEnd ==
    ASSUME NEW a \in Seq(Unit), NEW b \in Seq(Unit)
    PROVE  /\ a \o b \in Seq(Unit) /\ Len(a \o b) = Len(a) + Len(b)
           /\ \A i \in 1 .. Len(a) : (a \o b)[i] = a[i]
           /\ \A i \in 1 .. Len(b) : (a \o b)[Len(a) + i] = b[i]
<1>1. /\ a \o b \in Seq(Unit) /\ Len(a \o b) = Len(a) + Len(b)
      /\ \A i \in 1 .. Len(a) + Len(b) :
            (a \o b)[i] = IF i <= Len(a) THEN a[i] ELSE b[i - Len(a)]
  BY ConcatProperties
<1>2. ASSUME NEW i \in 1 .. Len(b) PROVE (a \o b)[Len(a) + i] = b[i]
  <2>1. Len(a) + i \in 1 .. Len(a) + Len(b) /\ ~(Len(a) + i <= Len(a))
        /\ (Len(a) + i) - Len(a) = i
    OBVIOUS
  <2> QED BY ONLY <1>1, <2>1
<1>3. ASSUME NEW i \in 1 .. Len(a) PROVE (a \o b)[i] = a[i]
  OBVIOUS
<1> QED BY <1>1, <1>2, <1>3

LEMMA OneUnit ==
    ASSUME NEW x \in Unit
    PROVE  <<x>> \in Seq(Unit) /\ Len(<<x>>) = 1 /\ <<x>> # <<>> /\ <<x>>[1] = x
OBVIOUS

-----------------------------------------------------------------------------
(* The stream, as the writer uses it. *)

Blank == <<"position", Base>>

\* The file d is the beginning of c, but that the position in front of the
\* points may not be in place yet.
Lies(l, d, c) ==
    /\ Len(d) <= Len(c)
    /\ \A i \in 1 .. Len(d) :
          d[i] = c[i] \/ (l.seekable /\ i = Base + 1 /\ d[i] = Blank)

\* The stream s stands at the end of c, or has failed on the way there.
Holds(l, s, c) ==
    /\ Stream!Sound(s) /\ s.seekable = l.seekable
    /\ c \in Seq(Unit) /\ Lies(l, s.disk, c)
    /\ ~s.failed => Stream!Content(s) = c /\ s.pos = Len(c)

LEMMA SameStream ==
    ASSUME NEW s, NEW u
    PROVE  /\ Sink!fileout_emit(s, u) = Stream!fileout_emit(s, u)
           /\ Sink!fileout_flush(s) = Stream!fileout_flush(s)
           /\ Sink!fileout_put_bytes(s, u) = Stream!fileout_put_bytes(s, u)
           /\ Sink!fileout_seek(s, u) = Stream!fileout_seek(s, u)
           /\ Overlay(s, u, u) = Stream!Overlay(s, u, u)
BY DEF Stream!fileout_put_bytes, Sink!fileout_put_bytes, Stream!fileout_flush,
       Sink!fileout_flush, Stream!fileout_emit, Sink!fileout_emit, Sink!Overlay,
       Stream!Overlay, Sink!Longer, Stream!Longer, Stream!fileout_seek,
       Sink!fileout_seek, Overlay, Longer

LEMMA LiesLonger ==
    ASSUME NEW l, NEW d \in Seq(Unit), NEW c \in Seq(Unit), NEW u \in Seq(Unit),
           Lies(l, d, c)
    PROVE  Lies(l, d, c \o u)
<1>1. Len(c \o u) = Len(c) + Len(u) /\ Len(d) <= Len(c)
  BY DEF Lies
<1>2. ASSUME NEW i \in 1 .. Len(d)
      PROVE  d[i] = (c \o u)[i] \/ (l.seekable /\ i = Base + 1 /\ d[i] = Blank)
  <2>1. d[i] = c[i] \/ (l.seekable /\ i = Base + 1 /\ d[i] = Blank)
    BY DEF Lies
  <2>2. (c \o u)[i] = c[i]
    BY <1>1
  <2> QED BY <2>1, <2>2
<1> QED BY <1>1, <1>2 DEF Lies

LEMMA OverlayAtEnd ==
    ASSUME NEW c \in Seq(Unit), NEW u \in Seq(Unit)
    PROVE  Stream!Overlay(c, Len(c), u) = c \o u
<1> DEFINE o == Stream!Overlay(c, Len(c), u)
<1>1. Stream!Longer(Len(c), Len(c) + Len(u)) = Len(c) + Len(u)
  BY DEF Stream!Longer
<1>2. o \in Seq(Unit) /\ Len(o) = Len(c) + Len(u)
  BY <1>1, StreamAssumption, Stream!OverlayIsASeq
<1>3. \A i \in 1 .. Len(o) : o[i] = (c \o u)[i]
  BY <1>1, <1>2 DEF Stream!Overlay
<1>4. c \o u \in Seq(Unit) /\ Len(c \o u) = Len(o)
  BY <1>2
<1> HIDE DEF o
<1>5. o = c \o u
  BY <1>2, <1>3, <1>4, SeqEqual
<1> QED BY <1>5 DEF o

\* As much of a write as goes through leaves the beginning of the whole.
LEMMA PartLies ==
    ASSUME NEW l, NEW d \in Seq(Unit), NEW b \in Seq(Unit), NEW at \in 0 .. Len(d),
           NEW k \in 0 .. Len(b), Lies(l, d, Stream!Overlay(d, at, b))
    PROVE  /\ Lies(l, Stream!Overlay(d, at, SubSeq(b, 1, k)), Stream!Overlay(d, at, b))
           /\ Len(d) <= Len(Stream!Overlay(d, at, SubSeq(b, 1, k)))
<1> DEFINE c == Stream!Overlay(d, at, b)
           p == SubSeq(b, 1, k)
           e == Stream!Overlay(d, at, p)
<1>1. p \in Seq(Unit) /\ Len(p) = k /\ \A i \in 1 .. k : p[i] = b[i]
  OBVIOUS
<1> HIDE DEF p
<1>2. c \in Seq(Unit) /\ Len(c) = Stream!Longer(Len(d), at + Len(b))
  BY StreamAssumption, Stream!OverlayIsASeq
<1>3. e \in Seq(Unit) /\ Len(e) = Stream!Longer(Len(d), at + k)
  <2>0. p \in Seq(Unit)
    BY <1>1
  <2>1. e \in Seq(Unit) /\ Len(e) = Stream!Longer(Len(d), at + Len(p))
    BY <2>0, StreamAssumption, Stream!OverlayIsASeq
  <2> QED BY <1>1, <2>1
<1>4. Len(e) <= Len(c) /\ Len(d) <= Len(e)
  BY <1>2, <1>3 DEF Stream!Longer
<1>5. ASSUME NEW i \in 1 .. Len(e)
      PROVE  e[i] = c[i] \/ (l.seekable /\ i = Base + 1 /\ e[i] = Blank)
  <2>1. CASE i > at /\ i <= at + k
    <3>1. i \in 1 .. Stream!Longer(Len(d), at + k)
          /\ i \in 1 .. Stream!Longer(Len(d), at + Len(b)) /\ i <= at + Len(b)
      BY <1>2, <1>3, <1>4, <2>1
    <3>2. e[i] = p[i - at]
      BY <1>1, <2>1, <3>1 DEF Stream!Overlay
    <3>3. c[i] = b[i - at]
      BY <2>1, <3>1 DEF Stream!Overlay
    <3> QED BY <1>1, <2>1, <3>2, <3>3
  <2>2. CASE ~(i > at /\ i <= at + k)
    <3>1. i \in 1 .. Stream!Longer(Len(d), at + k) /\ i \in 1 .. Len(d)
      BY <1>3, <2>2 DEF Stream!Longer
    <3>2. e[i] = d[i]
      BY <1>1, <2>2, <3>1 DEF Stream!Overlay
    <3>3. d[i] = c[i] \/ (l.seekable /\ i = Base + 1 /\ d[i] = Blank)
      BY <3>1 DEF Lies
    <3> QED BY <3>2, <3>3
  <2> QED BY <2>1, <2>2
<1> QED BY <1>4, <1>5 DEF Lies, p

\* Whether a stream raises or not, what it emits lands at the beginning.
LEMMA EmitLies ==
    ASSUME NEW l, NEW s, Stream!Sound(s), ~s.failed, NEW b \in Seq(Unit),
           Lies(l, s.disk, Stream!Overlay(s.disk, s.at, b)),
           NEW t, t = Stream!fileout_emit(s, b)
    PROVE  /\ Lies(l, t.disk, Stream!Overlay(s.disk, s.at, b))
           /\ Len(s.disk) <= Len(t.disk) /\ t.seekable = s.seekable
<1> DEFINE taken == IF Len(b) <= s.room THEN b ELSE SubSeq(b, 1, s.room)
<1>1. s.at \in 0 .. Len(s.disk) /\ s.disk \in Seq(Unit) /\ s.room \in Nat
  BY DEF Stream!Sound, Stream!Typed, Stream!Straight
<1>2. PICK k \in 0 .. Len(b) : taken = SubSeq(b, 1, k)
  <2>1. CASE Len(b) <= s.room
    <3>1. b = SubSeq(b, 1, Len(b)) /\ Len(b) \in 0 .. Len(b) /\ taken = b
      BY <2>1
    <3> HIDE DEF taken
    <3> QED BY <3>1
  <2>2. CASE ~(Len(b) <= s.room)
    <3>1. s.room \in 0 .. Len(b) /\ taken = SubSeq(b, 1, s.room)
      BY <1>1, <2>2
    <3> HIDE DEF taken
    <3> QED BY <3>1
  <2> QED BY <2>1, <2>2
<1>3. t = [s EXCEPT !.disk = Stream!Overlay(s.disk, s.at, taken),
                    !.at = s.at + Len(taken),
                    !.room = s.room - Len(taken),
                    !.failed = Len(b) > s.room]
  BY DEF Stream!fileout_emit
<1> HIDE DEF taken
<1>4. t.disk = Stream!Overlay(s.disk, s.at, SubSeq(b, 1, k)) /\ t.seekable = s.seekable
  BY <1>2, <1>3 DEF Stream!Sound, Stream!Typed
<1> QED BY <1>1, <1>4, PartLies

\* So does what it flushes.
LEMMA FlushLies ==
    ASSUME NEW l, NEW s, Stream!Sound(s), ~s.failed,
           Lies(l, s.disk, Stream!Content(s)), NEW t, t = Stream!fileout_flush(s)
    PROVE  Lies(l, t.disk, Stream!Content(s)) /\ Len(s.disk) <= Len(t.disk)
<1> DEFINE e == Stream!fileout_emit(s, s.buf)
<1>1. /\ Lies(l, s.disk, Stream!Overlay(s.disk, s.at, s.buf))
      /\ Stream!Content(s) = Stream!Overlay(s.disk, s.at, s.buf) /\ s.buf \in Seq(Unit)
  BY DEF Stream!Content, Stream!Sound, Stream!Typed
<1>2. Lies(l, e.disk, Stream!Content(s)) /\ Len(s.disk) <= Len(e.disk)
  <2>1. /\ Stream!Sound(s) /\ ~s.failed /\ s.buf \in Seq(Unit)
        /\ Lies(l, s.disk, Stream!Overlay(s.disk, s.at, s.buf))
        /\ e = Stream!fileout_emit(s, s.buf)
    BY <1>1
  <2> HIDE DEF e
  <2>2. /\ Lies(l, e.disk, Stream!Overlay(s.disk, s.at, s.buf))
        /\ Len(s.disk) <= Len(e.disk)
    BY ONLY <2>1, EmitLies
  <2> QED BY ONLY <1>1, <2>2
<1>3. t = [e EXCEPT !.buf = <<>>] /\ DOMAIN e = DOMAIN s
  BY DEF Stream!fileout_flush, Stream!fileout_emit, Stream!Sound, Stream!Typed
<1>4. t.disk = e.disk
  <2> HIDE DEF e
  <2> QED BY <1>3 DEF Stream!Sound, Stream!Typed
<1> QED BY <1>2, <1>4

LEMMA FlushHolds ==
    ASSUME NEW l, NEW s, NEW c, Holds(l, s, c), NEW t, t = Stream!fileout_flush(s)
    PROVE  /\ Holds(l, t, c) /\ Len(s.disk) <= Len(t.disk)
           /\ t.buf = <<>>
           /\ s.failed => t.failed /\ t.disk = s.disk
           /\ ~t.failed => t.disk = c /\ t.at = Len(c)
<1>1. /\ Stream!Sound(t) /\ t.seekable = s.seekable /\ t.buf = <<>>
      /\ s.failed => t.failed /\ t.disk = s.disk
      /\ ~t.failed => /\ ~s.failed /\ t.pos = s.pos /\ t.at = s.pos
                      /\ t.disk = Stream!Content(s) /\ Stream!Content(t) = Stream!Content(s)
  BY StreamAssumption, Stream!Flush DEF Holds
<1>2. Lies(l, t.disk, c) /\ Len(s.disk) <= Len(t.disk)
  <2>1. CASE s.failed
    BY <1>1, <2>1 DEF Holds, Stream!Sound, Stream!Typed
  <2>2. CASE ~s.failed
    <3>1. Stream!Sound(s) /\ Stream!Content(s) = c /\ Lies(l, s.disk, c)
      BY <2>2 DEF Holds
    <3>2. Lies(l, s.disk, Stream!Content(s))
      BY <3>1
    <3>3. Lies(l, t.disk, Stream!Content(s)) /\ Len(s.disk) <= Len(t.disk)
      BY <2>2, <3>1, <3>2, FlushLies
    <3> QED BY <3>1, <3>3
  <2> QED BY <2>1, <2>2
<1> QED BY <1>1, <1>2 DEF Holds

\* What is put goes behind what is there.
LEMMA PutHolds ==
    ASSUME NEW l, NEW s, NEW c, Holds(l, s, c), NEW b \in Seq(Unit),
           NEW t, t = Sink!fileout_put_bytes(s, b)
    PROVE  /\ Holds(l, t, c \o b) /\ Len(s.disk) <= Len(t.disk)
           /\ s.failed => t = s
<1>0. t = Stream!fileout_put_bytes(s, b)
  BY SameStream
<1>1. /\ Stream!Sound(t)
      /\ s.failed => t = s
      /\ ~t.failed => /\ ~s.failed /\ t.pos = s.pos + Len(b)
                      /\ Stream!Content(t) = Stream!Overlay(Stream!Content(s), s.pos, b)
  BY <1>0, StreamAssumption, Stream!PutBytes DEF Holds
<1>2. c \in Seq(Unit) /\ c \o b \in Seq(Unit) /\ Len(c \o b) = Len(c) + Len(b)
      /\ s.disk \in Seq(Unit)
  BY DEF Holds, Stream!Sound, Stream!Typed
<1>3. ~t.failed => Stream!Content(t) = c \o b /\ t.pos = Len(c \o b)
  BY <1>1, <1>2, OverlayAtEnd DEF Holds
<1>4. CASE s.failed \/ b = <<>>
  <2>1. t = s /\ Lies(l, t.disk, c \o b)
    BY <1>0, <1>2, <1>4, LiesLonger DEF Stream!fileout_put_bytes, Holds
  <2> QED BY <1>1, <1>2, <1>3, <2>1 DEF Holds
<1>5. CASE ~(s.failed \/ b = <<>>)
  <2> DEFINE full == Len(s.buf) + Len(b) > FILE_BUF_SIZE
             u == IF full THEN Stream!fileout_flush(s) ELSE s
  <2>1. /\ Holds(l, u, c) /\ Len(s.disk) <= Len(u.disk)
        /\ full => u.buf = <<>> /\ (~u.failed => u.disk = c /\ u.at = Len(c))
    <3>1. CASE full
      BY <3>1, FlushHolds
    <3>2. CASE ~full
      <4>1. u = s /\ Len(s.disk) \in Nat
        BY <1>2, <3>2
      <4> QED BY <3>2, <4>1
    <3> QED BY <3>1, <3>2
  <2>2. t = IF Len(b) > FILE_BUF_SIZE
            THEN [Stream!fileout_emit(u, b) EXCEPT !.pos = s.pos + Len(b)]
            ELSE [u EXCEPT !.buf = u.buf \o b, !.pos = s.pos + Len(b)]
    BY <1>0, <1>5 DEF Stream!fileout_put_bytes
  <2>3. Len(b) > FILE_BUF_SIZE => full
    <3>1. s.buf \in Seq(Unit)
      BY DEF Holds, Stream!Sound, Stream!Typed
    <3>2. Len(s.buf) \in Nat /\ Len(b) \in Nat /\ FILE_BUF_SIZE \in Nat
      BY <3>1, WriterAssumption
    <3> QED BY <3>2
  <2> HIDE DEF u, full
  <2>4. /\ Lies(l, t.disk, c \o b) /\ Len(u.disk) <= Len(t.disk)
        /\ t.seekable = u.seekable
    <3>0. u.disk \in Seq(Unit) /\ Lies(l, u.disk, c \o b) /\ Stream!Sound(u)
      BY <1>2, <2>1, LiesLonger DEF Holds, Stream!Sound, Stream!Typed
    <3>1. CASE ~(Len(b) > FILE_BUF_SIZE)
      BY <2>2, <3>0, <3>1 DEF Stream!Sound, Stream!Typed
    <3>2. CASE Len(b) > FILE_BUF_SIZE
      <4> DEFINE e == Stream!fileout_emit(u, b)
      <4>1. Lies(l, e.disk, c \o b) /\ Len(u.disk) <= Len(e.disk)
            /\ e.seekable = u.seekable
        <5>1. CASE u.failed
          <6>1. e = u
            BY <5>1 DEF Stream!fileout_emit
          <6> QED BY <3>0, <6>1
        <5>2. CASE ~u.failed
          <6>1. Stream!Overlay(u.disk, u.at, b) = c \o b
            <7>1. u.disk = c /\ u.at = Len(c)
              BY <2>1, <2>3, <3>2, <5>2
            <7>2. Stream!Overlay(c, Len(c), b) = c \o b
              BY <1>2, OverlayAtEnd
            <7> QED BY <7>1, <7>2
          <6>2. /\ Lies(l, e.disk, Stream!Overlay(u.disk, u.at, b))
                /\ Len(u.disk) <= Len(e.disk) /\ e.seekable = u.seekable
            <7>1. Lies(l, u.disk, Stream!Overlay(u.disk, u.at, b))
              BY <3>0, <6>1
            <7>2. b \in Seq(Unit) /\ Stream!Sound(u) /\ ~u.failed
              BY <3>0, <5>2
            <7>3. \A x : x = Stream!fileout_emit(u, b) =>
                     /\ Lies(l, x.disk, Stream!Overlay(u.disk, u.at, b))
                     /\ Len(u.disk) <= Len(x.disk) /\ x.seekable = u.seekable
              BY ONLY <7>1, <7>2, EmitLies
            <7> QED BY ONLY <7>3
          <6> HIDE DEF e
          <6> QED BY <6>1, <6>2
        <5> QED BY <5>1, <5>2
      <4>2. DOMAIN e = DOMAIN u
        BY <3>0 DEF Stream!fileout_emit, Stream!Sound, Stream!Typed
      <4>3. t = [e EXCEPT !.pos = s.pos + Len(b)]
        BY <2>2, <3>2
      <4>4. t.disk = e.disk /\ t.seekable = e.seekable
        <5> HIDE DEF e
        <5> QED BY <3>0, <4>2, <4>3 DEF Stream!Sound, Stream!Typed
      <4> QED BY <4>1, <4>4
    <3> QED BY <3>1, <3>2
  <2>5. t.seekable = l.seekable /\ Len(s.disk) <= Len(t.disk)
    <3>1. u.disk \in Seq(Unit) /\ t.disk \in Seq(Unit) /\ u.seekable = l.seekable
      BY <1>1, <2>1 DEF Holds, Stream!Sound, Stream!Typed
    <3> QED BY <1>2, <2>1, <2>4, <3>1
  <2> QED BY <1>1, <1>2, <1>3, <2>4, <2>5 DEF Holds
<1> QED BY <1>4, <1>5

\* What is left of that when the stream goes back to b, takes the position as u
\* and goes forward to t.
PutInFront(l, s, c, b, u, t, p) ==
    /\ Len(s.disk) <= Len(b.disk) /\ Len(b.disk) <= Len(t.disk)
    /\ b.failed => Holds(l, b, c)
    /\ ~b.failed => Holds(l, t, p) /\ Len(c) <= Len(t.disk)
    /\ Stream!Sound(b) /\ Stream!Sound(u) /\ Stream!Sound(t)
    /\ ~b.failed => ~u.failed /\ u.seekable

\* The position in front of the points is put into the file only behind them.
LEMMA PatchHolds ==
    ASSUME NEW l, NEW s, NEW c, Holds(l, s, c), ~s.failed, l.seekable,
           Base < Len(c), c[Base + 1] = Blank,
           NEW b, b = Sink!fileout_seek(s, Base),
           NEW x \in Unit, NEW y \in Seq(Unit), Len(y) = 1, y # <<>>, y[1] = x,
           NEW u, u = Sink!fileout_put_bytes(b, y),
           NEW t, t = Sink!fileout_seek(u, Len(c)),
           NEW p, p = [c EXCEPT ![Base + 1] = x]
    PROVE  PutInFront(l, s, c, b, u, t, p)
<1> DEFINE f == Stream!fileout_flush(s)
           g == Stream!fileout_flush(u)
<1>0. /\ b = Stream!fileout_seek(s, Base) /\ t = Stream!fileout_seek(u, Len(c))
      /\ u = Stream!fileout_put_bytes(b, y)
  BY SameStream
<1>1. /\ c \in Seq(Unit) /\ Len(c) \in Nat /\ Base \in Nat /\ s.seekable /\ s.pos = Len(c)
      /\ Stream!Sound(s) /\ Stream!Content(s) = c /\ Base # Len(c) /\ FILE_BUF_SIZE \in Nat \ {0}
  BY WriterAssumption DEF Holds, Base
<1>3. p \in Seq(Unit) /\ Len(p) = Len(c) /\ Base + 1 \in 1 .. Len(c)
      /\ \A i \in 1 .. Len(c) : p[i] = IF i = Base + 1 THEN x ELSE c[i]
  <2>1. Base + 1 \in 1 .. Len(c)
    BY <1>1
  <2> QED BY <1>1, <2>1, ExceptSeq
<1>4. Stream!Overlay(c, Base, y) = p
  <2> DEFINE o == Stream!Overlay(c, Base, y)
  <2>1. Base \in 0 .. Len(c) /\ Base + 1 <= Len(c)
    BY <1>1
  <2>2. Stream!Longer(Len(c), Base + 1) = Len(c)
    BY <1>1, <2>1 DEF Stream!Longer
  <2>3. o \in Seq(Unit) /\ Len(o) = Len(c)
    <3>1. o \in Seq(Unit) /\ Len(o) = Stream!Longer(Len(c), Base + Len(y))
      BY ONLY <1>1, <2>1, StreamAssumption, Stream!OverlayIsASeq
    <3> QED BY <2>2, <3>1
  <2>4. ASSUME NEW i \in 1 .. Len(c) PROVE o[i] = IF i = Base + 1 THEN x ELSE c[i]
    <3>1. o[i] = IF i > Base /\ i <= Base + Len(y) THEN y[i - Base] ELSE c[i]
      BY <2>2 DEF Stream!Overlay
    <3>2. i > Base /\ i <= Base + Len(y) <=> i = Base + 1
      BY <1>1
    <3>3. i = Base + 1 => y[i - Base] = x
      <4>1. (Base + 1) - Base = 1
        BY <1>1
      <4> QED BY <4>1
    <3> QED BY <3>1, <3>2, <3>3
  <2> HIDE DEF o
  <2>5. o = p
    BY <1>3, <2>3, <2>4, SeqEqual
  <2> QED BY <2>5 DEF o
<1>5. Lies(l, c, p)
  <2>1. \A i \in 1 .. Len(c) : c[i] = p[i] \/ (l.seekable /\ i = Base + 1 /\ c[i] = Blank)
    BY <1>3
  <2>2. Len(c) <= Len(p)
    BY ONLY <1>1, <1>3
  <2> QED BY <2>1, <2>2 DEF Lies
<1>6. /\ Stream!Sound(b)
      /\ ~b.failed => b = s \/ (b.pos = Base /\ Stream!Content(b) = c)
  <2>1. ~s.failed => Base <= Len(Stream!Content(s))
    <3>1. Base <= Len(c)
      BY <1>1
    <3> QED BY <1>1, <3>1
  <2> QED BY ONLY <1>0, <1>1, <2>1, StreamAssumption, Stream!SeekTo
<1>7. /\ Holds(l, f, c) /\ Len(s.disk) <= Len(f.disk) /\ f.buf = <<>>
      /\ ~f.failed => f.disk = c /\ f.at = Len(c)
  BY FlushHolds
<1>8. b = IF f.failed THEN f ELSE IF f.seeks = 0 THEN [f EXCEPT !.failed = TRUE]
          ELSE [f EXCEPT !.at = Base, !.pos = Base, !.seeks = f.seeks - 1]
  BY <1>0, <1>1 DEF Stream!fileout_seek
<1>9. /\ b.disk = f.disk /\ b.buf = <<>> /\ b.seekable = l.seekable
      /\ b.failed \/ (b.at = Base /\ b.pos = Base /\ b.disk = c)
      /\ f.failed => b.failed
  <2> HIDE DEF f
  <2> QED BY <1>7, <1>8 DEF Holds, Stream!Sound, Stream!Typed
<1>10. CASE b.failed
  <2>1. u = b /\ t = b
    BY <1>0, <1>10 DEF Stream!fileout_put_bytes, Stream!fileout_seek
  <2>2. Holds(l, b, c)
    BY <1>6, <1>7, <1>9, <1>10 DEF Holds
  <2>3. Len(b.disk) \in Nat
    BY <1>6 DEF Stream!Sound, Stream!Typed
  <2> HIDE DEF f
  <2> QED BY <1>6, <1>7, <1>9, <1>10, <2>1, <2>2, <2>3 DEF PutInFront
<1>11. CASE ~b.failed
  <2>1. u = [b EXCEPT !.buf = y, !.pos = Base + 1]
    <3>1. Len(b.buf) = 0 /\ b.buf \o y = y
      BY <1>9
    <3>2. ~(Len(b.buf) + Len(y) > FILE_BUF_SIZE) /\ ~(Len(y) > FILE_BUF_SIZE)
      BY <1>1, <3>1
    <3> QED BY <1>0, <1>9, <1>11, <3>1, <3>2 DEF Stream!fileout_put_bytes
  <2>2. /\ Stream!Sound(u) /\ u.disk = c /\ u.at = Base /\ u.buf = y
        /\ u.pos = Base + 1 /\ u.seekable = l.seekable /\ ~u.failed
    <3>1. Base + 1 \in Nat /\ Len(y) <= FILE_BUF_SIZE
      BY <1>1
    <3>2. /\ Stream!Typed(u) /\ u.disk = c /\ u.at = Base /\ u.buf = y
          /\ u.pos = Base + 1 /\ u.seekable = l.seekable /\ ~u.failed
      BY <1>6, <1>9, <1>11, <2>1, <3>1 DEF Stream!Sound, Stream!Typed
    <3>3. Stream!Straight(u)
      <4>1. Base <= Len(c)
        BY <1>1
      <4> QED BY <1>1, <3>2, <4>1 DEF Stream!Straight
    <3> QED BY <3>2, <3>3 DEF Stream!Sound
  <2>3. Stream!Content(u) = p
    BY <1>4, <2>2 DEF Stream!Content
  <2>4. CASE Len(c) = Base + 1
    <3>1. t = u
      BY <1>0, <2>2, <2>4 DEF Stream!fileout_seek
    <3>2. Holds(l, t, p)
      BY ONLY <1>3, <1>5, <2>2, <2>3, <2>4, <3>1 DEF Holds
    <3> QED BY <1>1, <1>6, <1>7, <1>9, <1>11, <2>2, <3>1, <3>2 DEF PutInFront
  <2>5. CASE Len(c) # Base + 1
    <3>1. /\ Stream!Sound(t)
          /\ ~t.failed => t = u \/ (t.pos = Len(c) /\ Stream!Content(t) = p)
      <4>1. ~u.failed => Len(c) <= Len(Stream!Content(u))
        <5>1. Len(c) <= Len(p)
          BY ONLY <1>1, <1>3
        <5> QED BY <2>3, <5>1
      <4> QED BY <1>0, <1>1, <2>2, <2>3, <4>1, StreamAssumption, Stream!SeekTo
    <3>2. t = IF g.failed THEN g ELSE IF g.seeks = 0 THEN [g EXCEPT !.failed = TRUE]
          ELSE [g EXCEPT !.at = Len(c), !.pos = Len(c), !.seeks = g.seeks - 1]
      BY <1>0, <2>2, <2>5 DEF Stream!fileout_seek
    <3>3. Lies(l, g.disk, p) /\ Len(c) <= Len(g.disk)
      BY ONLY <1>5, <2>2, <2>3, FlushLies
    <3>4. Stream!Sound(g) /\ g.seekable = u.seekable /\ g.buf = <<>>
      BY <2>2, StreamAssumption, Stream!Flush
    <3> HIDE DEF g
    <3>5. t.disk = g.disk /\ t.seekable = g.seekable /\ t.buf = <<>>
      BY <3>2, <3>4 DEF Stream!Sound, Stream!Typed
    <3>6. t # u
      BY <2>2, <3>5
    <3>7. Holds(l, t, p)
      BY <1>3, <2>2, <3>1, <3>3, <3>4, <3>5, <3>6 DEF Holds
    <3> QED BY <1>1, <1>6, <1>7, <1>9, <1>11, <2>2, <3>1, <3>3, <3>5, <3>7 DEF PutInFront
  <2> QED BY <2>4, <2>5
<1> QED BY <1>10, <1>11

-----------------------------------------------------------------------------
(* The writer's own record. *)

Streams == [disk : Seq(Unit), at : Nat, room : Nat, seeks : Nat, buf : Seq(Unit),
            pos : Nat, seekable : BOOLEAN, failed : BOOLEAN]

Writers == [chunk_size : 1 .. U32_MAX, chunk_count : Nat, number_chunks : Nat,
            alloced_chunks : Nat, chunk_sizes : Seq(1 .. U32_MAX),
            chunk_bytes : Seq(0 .. U32_MAX), chunk_start_position : Nat,
            chunk_table_start_position : Nat \cup {-1},
            writers : {"NULL", "raw", "compressed"}, layers : Seq(Unit),
            layers_failed : BOOLEAN, outstream : Streams, ok : BOOLEAN]

\* The counters agree with each other and with the container.
Fits(l, w) ==
    /\ w \in Writers
    /\ w.chunk_size = IF Chunked(l) /\ l.chunk_size # 0 THEN l.chunk_size ELSE U32_MAX
    /\ w.chunk_count <= w.chunk_size
    /\ w.number_chunks <= w.alloced_chunks
    /\ Len(w.chunk_bytes) = w.number_chunks
    /\ Len(w.chunk_sizes) = IF w.chunk_size = U32_MAX THEN w.number_chunks ELSE 0
    /\ w.chunk_table_start_position =
          IF ~Chunked(l) THEN 0 ELSE IF l.seekable THEN Base ELSE -1
    /\ w.writers = "raw" <=> ~Compressed(l)
    /\ w.writers = "compressed" => w.chunk_count >= 1

\* The writer w, of a stream that holds c.
Ready(l, w, c) == Fits(l, w) /\ Holds(l, w.outstream, c)

\* Nothing but the stream, and what the call came to, differs.
Same(w, r) ==
    /\ r.chunk_size = w.chunk_size /\ r.chunk_count = w.chunk_count
    /\ r.number_chunks = w.number_chunks /\ r.alloced_chunks = w.alloced_chunks
    /\ r.chunk_sizes = w.chunk_sizes /\ r.chunk_bytes = w.chunk_bytes
    /\ r.chunk_start_position = w.chunk_start_position
    /\ r.chunk_table_start_position = w.chunk_table_start_position
    /\ r.writers = w.writers /\ r.layers = w.layers
    /\ r.layers_failed = w.layers_failed

\* A stream only ever gets on: what it has written stays written.
Grows(s, t) == /\ Len(s.disk) <= Len(t.disk)
               /\ s.failed => t.failed

LEMMA SoundStreams ==
    ASSUME NEW l, NEW s, NEW c, Holds(l, s, c)
    PROVE  s \in Streams /\ c \in Seq(Unit) /\ Grows(s, s)
BY DEF Holds, Stream!Sound, Stream!Typed, Streams, Grows

LEMMA GrowsOn ==
    ASSUME NEW s \in Streams, NEW t \in Streams, NEW u \in Streams,
           Grows(s, t), Grows(t, u)
    PROVE  Grows(s, u)
<1>1. s.disk \in Seq(Unit) /\ t.disk \in Seq(Unit) /\ u.disk \in Seq(Unit)
  BY DEF Streams
<1>2. Len(s.disk) \in Nat /\ Len(t.disk) \in Nat /\ Len(u.disk) \in Nat
  BY ONLY <1>1
<1> QED BY <1>2 DEF Grows

LEMMA NewStream ==
    ASSUME NEW w \in Writers, NEW s \in Streams, NEW r, r = [w EXCEPT !.outstream = s]
    PROVE  r \in Writers /\ Same(w, r) /\ r.outstream = s /\ r.ok = w.ok
BY DEF Writers, Same

LEMMA NewOutcome ==
    ASSUME NEW w \in Writers, NEW b \in BOOLEAN, NEW r, r = [w EXCEPT !.ok = b]
    PROVE  r \in Writers /\ Same(w, r) /\ r.outstream = w.outstream /\ r.ok = b
BY DEF Writers, Same

LEMMA SameFits ==
    ASSUME NEW l, NEW w, NEW r \in Writers, Fits(l, w), Same(w, r)
    PROVE  Fits(l, r)
BY DEF Fits, Same

LEMMA Outcomes ==
    ASSUME NEW l, NEW w, NEW c, Ready(l, w, c), NEW b \in BOOLEAN,
           NEW r, r = [w EXCEPT !.ok = b]
    PROVE  Ready(l, r, c) /\ Same(w, r) /\ r.outstream = w.outstream /\ r.ok = b
<1>1. r \in Writers /\ Same(w, r) /\ r.outstream = w.outstream /\ r.ok = b
  BY NewOutcome DEF Ready, Fits
<1> QED BY <1>1, SameFits DEF Ready

LEMMA Puts ==
    ASSUME NEW l, NEW w, NEW c, Ready(l, w, c), NEW b \in Seq(Unit),
           NEW r, r = PutAll(w, b)
    PROVE  /\ Ready(l, r, c \o b) /\ Same(w, r) /\ r.ok = w.ok
           /\ Grows(w.outstream, r.outstream)
<1> DEFINE s == w.outstream
           t == Sink!fileout_put_bytes(s, b)
<1>1. Holds(l, t, c \o b) /\ Len(s.disk) <= Len(t.disk) /\ (s.failed => t = s)
  BY PutHolds DEF Ready
<1>2. r = [w EXCEPT !.outstream = t]
  BY DEF PutAll
<1> HIDE DEF t
<1>3. r \in Writers /\ Same(w, r) /\ r.outstream = t /\ r.ok = w.ok
  BY <1>1, <1>2, SoundStreams, NewStream DEF Ready, Fits
<1> QED BY <1>1, <1>3, SameFits DEF Ready, Grows

LEMMA PutsOne ==
    ASSUME NEW l, NEW w, NEW c, Ready(l, w, c), NEW x \in Unit, NEW r, r = Put(w, x)
    PROVE  /\ Ready(l, r, c \o <<x>>) /\ Same(w, r) /\ r.ok = w.ok
           /\ Grows(w.outstream, r.outstream)
<1>1. <<x>> \in Seq(Unit) /\ r = PutAll(w, <<x>>)
  BY OneUnit DEF Put, PutAll
<1> QED BY <1>1, Puts

-----------------------------------------------------------------------------
(* Closing a chunk. *)

\* What closing the open chunk puts behind its points.
Closing(l, w) == IF ~Layered(l) THEN <<<<"end">>>>
                 ELSE <<<<"count", w.chunk_count>>>> \o w.layers

Spoilt(l, w) == Layered(l) /\ w.layers_failed

LEMMA ClosingUnits ==
    ASSUME NEW l, NEW w \in Writers
    PROVE  /\ <<"end">> \in Unit /\ <<"count", w.chunk_count>> \in Unit
           /\ w.layers \in Seq(Unit) /\ Closing(l, w) \in Seq(Unit)
<1> DEFINE x == <<"end">>
           y == <<"count", w.chunk_count>>
<1>1. w.layers \in Seq(Unit) /\ w.chunk_count \in Int
  BY DEF Writers
<1>2. <<"end">> \in Unit /\ <<"count", w.chunk_count>> \in Unit
  <2>1. \A k \in Kinds : \A m, n \in Int :
           <<k>> \in Unit /\ <<k, m>> \in Unit /\ <<k, m, n>> \in Unit
    BY UnitsAreUnits
  <2>2. "end" \in Kinds /\ "count" \in Kinds
    BY DEF Kinds
  <2> QED BY ONLY <1>1, <2>1, <2>2
<1>3. <<x>> \in Seq(Unit) /\ <<y>> \in Seq(Unit)
  BY <1>2, OneUnit
<1>4. Closing(l, w) = IF ~Layered(l) THEN <<x>> ELSE <<y>> \o w.layers
  BY DEF Closing
<1> HIDE DEF x, y
<1>5. Closing(l, w) \in Seq(Unit)
  BY <1>1, <1>3, <1>4
<1> QED BY <1>1, <1>2, <1>5

\* The rows of the table, and where the open chunk starts, are as they were.
SameRows(w, r) ==
    /\ r.number_chunks = w.number_chunks /\ r.chunk_bytes = w.chunk_bytes
    /\ r.chunk_sizes = w.chunk_sizes /\ r.chunk_start_position = w.chunk_start_position

LEMMA Closes ==
    ASSUME NEW l, NEW w, NEW c, Ready(l, w, c), w.ok, NEW r, r = close_chunk(l, w)
    PROVE  /\ Same(w, r) /\ Grows(w.outstream, r.outstream)
           /\ Spoilt(l, w) => ~r.ok /\ Ready(l, r, c \o <<<<"count", w.chunk_count>>>>)
           /\ ~Spoilt(l, w) => r.ok /\ Ready(l, r, c \o Closing(l, w))
<1> DEFINE e == <<"end">>
           y == <<"count", w.chunk_count>>
           v == Put(w, y)
<1>1. e \in Unit /\ y \in Unit /\ w.layers \in Seq(Unit) /\ <<y>> \in Seq(Unit)
  BY ClosingUnits, OneUnit DEF Ready, Fits
<1>2. c \in Seq(Unit)
  BY DEF Ready, Holds
<1> HIDE DEF e, y
<1>3. /\ Ready(l, v, c \o <<y>>) /\ Same(w, v) /\ v.ok = w.ok
      /\ Grows(w.outstream, v.outstream)
  BY <1>1, PutsOne
<1> HIDE DEF v
<1>4. r = IF ~Layered(l) THEN Put(w, e)
          ELSE IF w.layers_failed THEN Refused(v) ELSE PutAll(v, w.layers)
  BY DEF close_chunk, v, e, y
<1>5. CASE ~Layered(l)
  <2>1. /\ Ready(l, r, c \o <<e>>) /\ Same(w, r) /\ r.ok = w.ok
        /\ Grows(w.outstream, r.outstream)
    BY <1>1, <1>4, <1>5, PutsOne
  <2> QED BY <1>5, <2>1 DEF Spoilt, Closing, e
<1>6. CASE Layered(l) /\ w.layers_failed
  <2>0. r = [v EXCEPT !.ok = FALSE]
    BY <1>4, <1>6 DEF Refused
  <2>1. /\ Ready(l, r, c \o <<y>>) /\ Same(v, r) /\ r.outstream = v.outstream
        /\ r.ok = FALSE
    BY ONLY <1>3, <2>0, Outcomes
  <2>2. Same(w, r)
    BY <1>3, <2>1 DEF Same
  <2> QED BY <1>3, <1>6, <2>1, <2>2 DEF Spoilt, y
<1>7. CASE Layered(l) /\ ~w.layers_failed
  <2>1. /\ Ready(l, r, (c \o <<y>>) \o w.layers) /\ Same(v, r) /\ r.ok = v.ok
        /\ Grows(v.outstream, r.outstream)
    BY <1>1, <1>3, <1>4, <1>7, Puts
  <2>2. Same(w, r)
    BY <1>3, <2>1 DEF Same
  <2>3. (c \o <<y>>) \o w.layers = c \o (<<y>> \o w.layers)
    BY ONLY <1>1, <1>2, Associative
  <2>4. Closing(l, w) = <<y>> \o w.layers
    BY <1>7 DEF Closing, y
  <2>5. Grows(w.outstream, r.outstream)
    BY <1>3, <2>1, GrowsOn DEF Ready, Fits, Writers
  <2> QED BY <1>3, <1>7, <2>1, <2>2, <2>3, <2>4, <2>5 DEF Spoilt
<1> QED BY <1>5, <1>6, <1>7

\* The row the table gets for the open chunk, which ends where the stream is.
Recorded(w, r) ==
    /\ r.number_chunks = w.number_chunks + 1
    /\ r.chunk_bytes = Append(w.chunk_bytes, (r.outstream.pos - w.chunk_start_position)
                                              % (U32_MAX + 1))
    /\ r.chunk_sizes = IF w.chunk_size = U32_MAX THEN Append(w.chunk_sizes, w.chunk_count)
                       ELSE w.chunk_sizes
    /\ r.chunk_start_position = r.outstream.pos
    /\ r.layers_failed = w.layers_failed
    /\ r.chunk_size = w.chunk_size

LEMMA Records ==
    ASSUME NEW l, NEW w, NEW c, Ready(l, w, c), w.ok, w.chunk_count >= 1, NEW oom,
           NEW r, r = add_chunk_to_table(w, oom)
    PROVE  /\ Ready(l, r, c) /\ r.outstream = w.outstream
           /\ r.ok => /\ Recorded(w, r)
                      /\ r.chunk_count = w.chunk_count /\ r.writers = w.writers
           /\ ~r.ok => Same(w, r) /\ oom = "table"
<1> DEFINE full == w.number_chunks = w.alloced_chunks
           alloced == IF ~full THEN w.alloced_chunks
                      ELSE IF w.alloced_chunks = 0 THEN ALLOC ELSE 2 * w.alloced_chunks
           bytes == (w.outstream.pos - w.chunk_start_position) % (U32_MAX + 1)
           sizes == IF w.chunk_size = U32_MAX THEN Append(w.chunk_sizes, w.chunk_count)
                    ELSE w.chunk_sizes
<1>1. /\ w \in Writers /\ w.outstream.pos \in Nat /\ U32_MAX \in Nat \ {0}
      /\ w.chunk_start_position \in Nat /\ w.number_chunks \in Nat /\ w.alloced_chunks \in Nat
      /\ w.chunk_count \in 1 .. U32_MAX /\ w.chunk_sizes \in Seq(1 .. U32_MAX)
      /\ w.chunk_bytes \in Seq(0 .. U32_MAX) /\ w.number_chunks <= w.alloced_chunks
      /\ ALLOC \in Nat \ {0}
  <2>1. ALLOC \in Nat \ {0} /\ U32_MAX \in Nat \ {0}
    BY WriterAssumption
  <2>2. w \in Writers /\ w.chunk_count <= w.chunk_size /\ w.number_chunks <= w.alloced_chunks
    BY DEF Ready, Fits
  <2>3. w.outstream \in Streams /\ w.chunk_size \in 1 .. U32_MAX
        /\ w.chunk_start_position \in Nat /\ w.number_chunks \in Nat /\ w.alloced_chunks \in Nat
        /\ w.chunk_count \in Nat /\ w.chunk_sizes \in Seq(1 .. U32_MAX)
        /\ w.chunk_bytes \in Seq(0 .. U32_MAX)
    BY ONLY <2>2 DEF Writers
  <2>4. w.chunk_count \in 1 .. U32_MAX
    BY <2>1, <2>2, <2>3
  <2>5. w.outstream.pos \in Nat
    BY ONLY <2>3 DEF Streams
  <2> QED BY ONLY <2>1, <2>2, <2>3, <2>4, <2>5
<1>2. bytes \in 0 .. U32_MAX
  <2>1. \A a \in Int, b \in Nat \ {0} : a % b \in 0 .. b - 1
    OBVIOUS
  <2>2. w.outstream.pos - w.chunk_start_position \in Int /\ U32_MAX + 1 \in Nat \ {0}
        /\ (U32_MAX + 1) - 1 = U32_MAX
    BY <1>1
  <2> DEFINE a == w.outstream.pos - w.chunk_start_position
             b == U32_MAX + 1
  <2>3. a \in Int /\ b \in Nat \ {0} /\ b - 1 = U32_MAX /\ bytes = a % b
    BY <2>2
  <2> HIDE DEF a, b
  <2> QED BY <2>1, <2>3
<1>3. /\ sizes \in Seq(1 .. U32_MAX)
      /\ Len(sizes) = IF w.chunk_size = U32_MAX THEN Len(w.chunk_sizes) + 1
                      ELSE Len(w.chunk_sizes)
  <2> DEFINE S == 1 .. U32_MAX
  <2>1. w.chunk_sizes \in Seq(S) /\ w.chunk_count \in S
    BY ONLY <1>1
  <2> HIDE DEF S
  <2>2. Append(w.chunk_sizes, w.chunk_count) \in Seq(S)
        /\ Len(Append(w.chunk_sizes, w.chunk_count)) = Len(w.chunk_sizes) + 1
    BY ONLY <2>1
  <2> QED BY ONLY <2>1, <2>2 DEF S
<1>4. alloced \in Nat /\ w.number_chunks + 1 <= alloced
  <2> DEFINE n == w.number_chunks
             a == w.alloced_chunks
  <2>1. n \in Nat /\ a \in Nat /\ n <= a /\ ALLOC \in Nat \ {0}
    BY <1>1
  <2>2. alloced = IF n # a THEN a ELSE IF a = 0 THEN ALLOC ELSE 2 * a
    OBVIOUS
  <2> HIDE DEF n, a, alloced
  <2>3. alloced \in Nat /\ n + 1 <= alloced
    BY ONLY <2>1, <2>2
  <2> QED BY <2>3 DEF n
<1> HIDE DEF bytes, sizes
<1>5. Append(w.chunk_bytes, bytes) \in Seq(0 .. U32_MAX)
      /\ Len(Append(w.chunk_bytes, bytes)) = Len(w.chunk_bytes) + 1
  BY <1>1, <1>2
<1>6. CASE full /\ oom = "table"
  <2>1. r = [w EXCEPT !.ok = FALSE] /\ Ready(l, w, c)
    BY <1>6 DEF add_chunk_to_table, Refused
  <2>2. Ready(l, r, c) /\ Same(w, r) /\ r.outstream = w.outstream /\ r.ok = FALSE
    BY ONLY <2>1, Outcomes
  <2> QED BY ONLY <1>6, <2>2
<1>7. CASE ~(full /\ oom = "table")
  <2>1. r = [w EXCEPT !.alloced_chunks = alloced, !.chunk_sizes = sizes,
                      !.chunk_bytes = Append(w.chunk_bytes, bytes),
                      !.chunk_start_position = w.outstream.pos,
                      !.number_chunks = w.number_chunks + 1]
    <3>1. CASE full
      BY <1>1, <1>7, <3>1 DEF add_chunk_to_table, bytes, sizes, Writers
    <3>2. CASE ~full
      BY <1>1, <1>7, <3>2 DEF add_chunk_to_table, bytes, sizes, Writers
    <3> QED BY <3>1, <3>2
  <2> HIDE DEF alloced
  <2>2. /\ r \in Writers /\ Recorded(w, r) /\ r.ok = w.ok /\ r.alloced_chunks = alloced
        /\ r.chunk_sizes = sizes /\ r.chunk_bytes = Append(w.chunk_bytes, bytes)
        /\ r.chunk_count = w.chunk_count /\ r.writers = w.writers
        /\ r.chunk_table_start_position = w.chunk_table_start_position
        /\ r.outstream = w.outstream /\ r.chunk_size = w.chunk_size
    <3>1. /\ r \in Writers /\ r.ok = w.ok /\ r.alloced_chunks = alloced
          /\ r.chunk_sizes = sizes /\ r.chunk_bytes = Append(w.chunk_bytes, bytes)
          /\ r.chunk_count = w.chunk_count /\ r.writers = w.writers
          /\ r.chunk_table_start_position = w.chunk_table_start_position
          /\ r.chunk_start_position = w.outstream.pos
          /\ r.number_chunks = w.number_chunks + 1 /\ r.outstream = w.outstream
          /\ r.layers_failed = w.layers_failed /\ r.layers = w.layers
          /\ r.chunk_size = w.chunk_size
      <4>1. w.number_chunks + 1 \in Nat
        BY ONLY <1>1
      <4> DEFINE more == Append(w.chunk_bytes, bytes)
      <4> HIDE DEF more
      <4>2. more \in Seq(0 .. U32_MAX)
        BY ONLY <1>5 DEF more
      <4>3. r = [w EXCEPT !.alloced_chunks = alloced, !.chunk_sizes = sizes,
                          !.chunk_bytes = more, !.chunk_start_position = w.outstream.pos,
                          !.number_chunks = w.number_chunks + 1]
        BY ONLY <2>1 DEF more
      <4>4. w \in Writers /\ w.outstream.pos \in Nat
        BY ONLY <1>1
      <4>5. /\ r \in Writers /\ r.ok = w.ok /\ r.alloced_chunks = alloced
            /\ r.chunk_sizes = sizes /\ r.chunk_bytes = more
            /\ r.chunk_count = w.chunk_count /\ r.writers = w.writers
            /\ r.chunk_table_start_position = w.chunk_table_start_position
            /\ r.chunk_start_position = w.outstream.pos
            /\ r.number_chunks = w.number_chunks + 1 /\ r.outstream = w.outstream
            /\ r.layers_failed = w.layers_failed /\ r.layers = w.layers
            /\ r.chunk_size = w.chunk_size
        BY ONLY <1>3, <1>4, <4>1, <4>2, <4>3, <4>4 DEF Writers
      <4> QED BY ONLY <4>5 DEF more
    <3>2. Recorded(w, r)
      BY ONLY <3>1 DEF Recorded, sizes, bytes
    <3> QED BY ONLY <3>1, <3>2
  <2>3. Fits(l, r)
    BY <1>1, <1>3, <1>4, <1>5, <2>2 DEF Ready, Fits, Recorded
  <2> QED BY <2>2, <2>3 DEF Ready
<1> QED BY <1>6, <1>7

\* A chunk that is closed has a row and everything that belongs to it; one that
\* is not goes on.
LEMMA ClosesAndRecords ==
    ASSUME NEW l, NEW w, NEW c, Ready(l, w, c), w.ok, w.chunk_count >= 1, Compressed(l),
           NEW oom, NEW r, r = close_and_record(l, w, oom)
    PROVE  /\ Grows(w.outstream, r.outstream)
           /\ r.ok => /\ ~Spoilt(l, w) /\ Ready(l, r, c \o Closing(l, w)) /\ Recorded(w, r)
                      /\ r.chunk_count = 0 /\ r.writers = "NULL"
           /\ ~r.ok => /\ Same(w, r) /\ (Spoilt(l, w) \/ oom = "table")
                       /\ \E u \in Seq(Unit) : Ready(l, r, c \o u)
<1> DEFINE v == close_chunk(l, w)
           x == add_chunk_to_table(v, oom)
<1>1. /\ Same(w, v) /\ Grows(w.outstream, v.outstream)
      /\ Spoilt(l, w) => ~v.ok /\ Ready(l, v, c \o <<<<"count", w.chunk_count>>>>)
      /\ ~Spoilt(l, w) => v.ok /\ Ready(l, v, c \o Closing(l, w))
  BY Closes
<1>2. Closing(l, w) \in Seq(Unit) /\ <<<<"count", w.chunk_count>>>> \in Seq(Unit)
  BY ClosingUnits, OneUnit DEF Ready, Fits
<1>3. r = IF ~v.ok THEN v ELSE IF ~x.ok THEN x
          ELSE [x EXCEPT !.writers = "NULL", !.chunk_count = 0]
  BY DEF close_and_record
<1> HIDE DEF v
<1>4. CASE Spoilt(l, w)
  BY <1>1, <1>2, <1>3, <1>4
<1>5. CASE ~Spoilt(l, w)
  <2>1. v.chunk_count >= 1
    BY <1>1 DEF Same
  <2>2. /\ Ready(l, x, c \o Closing(l, w)) /\ x.outstream = v.outstream
        /\ x.ok => Recorded(v, x) /\ x.chunk_count = v.chunk_count /\ x.writers = v.writers
        /\ ~x.ok => Same(v, x) /\ oom = "table"
    BY <1>1, <1>5, <2>1, Records
  <2> HIDE DEF x
  <2>3. CASE ~x.ok
    <3>1. r = x
      BY <1>1, <1>3, <1>5, <2>3
    <3>2. Same(w, r)
      BY <1>1, <2>2, <2>3, <3>1 DEF Same
    <3> QED BY ONLY <1>1, <1>2, <2>2, <2>3, <3>1, <3>2
  <2>4. CASE x.ok
    <3>1. r = [x EXCEPT !.writers = "NULL", !.chunk_count = 0]
      BY <1>1, <1>3, <1>5, <2>4
    <3>2. x \in Writers /\ x.ok \in BOOLEAN
      BY <2>2 DEF Ready, Fits, Writers
    <3>3. /\ r \in Writers /\ r.writers = "NULL" /\ r.chunk_count = 0 /\ r.ok = x.ok
          /\ r.outstream = x.outstream /\ r.chunk_size = x.chunk_size
          /\ r.number_chunks = x.number_chunks /\ r.alloced_chunks = x.alloced_chunks
          /\ r.chunk_sizes = x.chunk_sizes /\ r.chunk_bytes = x.chunk_bytes
          /\ r.chunk_start_position = x.chunk_start_position
          /\ r.chunk_table_start_position = x.chunk_table_start_position
          /\ r.layers_failed = x.layers_failed
      BY ONLY <3>1, <3>2 DEF Writers
    <3>4. Fits(l, r)
      <4>1. Fits(l, x) /\ 0 <= x.chunk_size
        BY <2>2, <3>2 DEF Ready, Writers
      <4>2. Compressed(l)
        OBVIOUS
      <4> QED BY ONLY <3>3, <4>1, <4>2 DEF Fits
    <3>5. Ready(l, r, c \o Closing(l, w))
      BY ONLY <2>2, <3>3, <3>4 DEF Ready
    <3>6. Recorded(w, r)
      <4>1. Recorded(v, x)
        BY <2>2, <2>4
      <4> QED BY ONLY <1>1, <3>3, <4>1 DEF Recorded, Same
    <3> QED BY ONLY <1>1, <1>5, <2>2, <2>4, <3>3, <3>5, <3>6
  <2> QED BY <2>3, <2>4
<1> QED BY <1>4, <1>5

-----------------------------------------------------------------------------
(* Writing a point. *)

PointUnits(p) == {<<"raw", p>>, <<"encoded", p>>, <<"half", p>>}

LEMMA PointsAreUnits == ASSUME NEW p \in Nat PROVE PointUnits(p) \subseteq Unit
<1>1. \A k \in Kinds : <<k, p>> \in Unit
  <2>1. \A k \in Kinds : \A m, n \in Int : <<k, m>> \in Unit
    BY UnitsAreUnits
  <2>2. p \in Int
    OBVIOUS
  <2> QED BY ONLY <2>1, <2>2
<1>2. "raw" \in Kinds /\ "encoded" \in Kinds /\ "half" \in Kinds
  BY DEF Kinds
<1> QED BY ONLY <1>1, <1>2 DEF PointUnits

\* The first point of a chunk.
LEMMA Starts ==
    ASSUME NEW l, NEW w, NEW c, Ready(l, w, c), w.writers = "NULL", w.chunk_count >= 1,
           NEW p \in Nat, NEW oom, NEW r, r = start(w, p, oom)
    PROVE  /\ Grows(w.outstream, r.outstream) /\ Ready(l, r, c \o <<<<"raw", p>>>>)
           /\ r.chunk_count = w.chunk_count /\ r.number_chunks = w.number_chunks
           /\ r.chunk_bytes = w.chunk_bytes /\ r.chunk_sizes = w.chunk_sizes
           /\ r.chunk_start_position = w.chunk_start_position
           /\ r.layers_failed = w.layers_failed
           /\ oom # "start" => r.ok = w.ok /\ r.writers = "compressed" /\ r.layers = <<>>
<1> DEFINE x == <<"raw", p>>
           v == Put(w, x)
<1>1. x \in Unit
  BY PointsAreUnits DEF PointUnits
<1> HIDE DEF x
<1>2. /\ Ready(l, v, c \o <<x>>) /\ Same(w, v) /\ v.ok = w.ok
      /\ Grows(w.outstream, v.outstream)
  BY <1>1, PutsOne
<1>3. r = IF oom = "start" THEN Refused(v)
          ELSE [v EXCEPT !.writers = "compressed", !.layers = <<>>]
  BY DEF start, x
<1> HIDE DEF v
<1>4. CASE oom = "start"
  <2>1. r = [v EXCEPT !.ok = FALSE]
    BY <1>3, <1>4 DEF Refused
  <2>2. Ready(l, r, c \o <<x>>) /\ Same(v, r) /\ r.outstream = v.outstream
    BY ONLY <1>2, <2>1, Outcomes
  <2> QED BY ONLY <1>2, <1>4, <2>2 DEF Same, x
<1>5. CASE oom # "start"
  <2>1. r = [v EXCEPT !.writers = "compressed", !.layers = <<>>]
    BY <1>3, <1>5
  <2>2. v \in Writers /\ <<>> \in Seq(Unit)
    BY <1>2 DEF Ready, Fits
  <2>3. /\ r \in Writers /\ r.writers = "compressed" /\ r.layers = <<>> /\ r.ok = v.ok
        /\ r.chunk_count = v.chunk_count
        /\ r.outstream = v.outstream /\ r.chunk_size = v.chunk_size
        /\ r.number_chunks = v.number_chunks /\ r.alloced_chunks = v.alloced_chunks
        /\ r.chunk_sizes = v.chunk_sizes /\ r.chunk_bytes = v.chunk_bytes
        /\ r.chunk_start_position = v.chunk_start_position
        /\ r.chunk_table_start_position = v.chunk_table_start_position
        /\ r.layers_failed = v.layers_failed
    BY ONLY <2>1, <2>2 DEF Writers
  <2>4. v.writers = "NULL" /\ v.chunk_count >= 1
    BY <1>2 DEF Same
  <2>5. Fits(l, r)
    BY ONLY <1>2, <2>3, <2>4 DEF Ready, Fits
  <2>6. Ready(l, r, c \o <<x>>)
    BY ONLY <1>2, <2>3, <2>5 DEF Ready
  <2> QED BY ONLY <1>2, <2>3, <2>6 DEF Same, x
<1> QED BY <1>4, <1>5

\* What a point of the open chunk leaves: a unit on the stream, or a layer that
\* is longer, or one that could not grow.
Encoded(l, w, c, p, oom, r) ==
    /\ Grows(w.outstream, r.outstream)
    /\ \E u \in Seq(Unit) : Ready(l, r, c \o u)
    /\ oom # "encode" => r.ok = w.ok
    /\ oom # "encode" /\ ~Layered(l)
         => Same(w, r) /\ Ready(l, r, c \o <<<<"encoded", p>>>>)
    /\ Layered(l) /\ (oom = "layer" \/ w.layers_failed)
         => r.layers_failed /\ r.writers = w.writers /\ Ready(l, r, c)
    /\ oom # "encode" /\ Layered(l) /\ ~(oom = "layer" \/ w.layers_failed)
         => /\ Ready(l, r, c) /\ SameRows(w, r) /\ r.outstream = w.outstream
            /\ r.chunk_count = w.chunk_count /\ r.writers = w.writers
            /\ r.layers_failed = w.layers_failed
            /\ r.layers = Append(w.layers, <<"encoded", p>>)

LEMMA Encodes ==
    ASSUME NEW l, NEW w, NEW c, Ready(l, w, c), NEW p \in Nat, NEW oom,
           NEW r, r = encode(l, w, p, oom)
    PROVE  Encoded(l, w, c, p, oom, r)
<1> DEFINE unit == IF oom = "encode" THEN <<"half", p>> ELSE <<"encoded", p>>
           put == IF ~Layered(l) THEN Put(w, unit)
                  ELSE IF oom = "layer" \/ w.layers_failed
                  THEN [w EXCEPT !.layers_failed = TRUE]
                  ELSE [w EXCEPT !.layers = Append(@, unit)]
<1>1. unit \in Unit /\ (oom # "encode" => unit = <<"encoded", p>>)
  BY PointsAreUnits DEF PointUnits
<1> HIDE DEF unit
<1>2. c \in Seq(Unit) /\ <<unit>> \in Seq(Unit) /\ <<>> \in Seq(Unit) /\ c \o <<>> = c
  <2>1. c \in Seq(Unit) /\ <<unit>> \in Seq(Unit)
    BY <1>1, OneUnit DEF Ready, Holds
  <2> QED BY ONLY <2>1
<1>3. w \in Writers /\ Fits(l, w) /\ w.layers \in Seq(Unit) /\ w.outstream \in Streams
  BY DEF Ready, Fits, Writers
<1>4. Grows(w.outstream, w.outstream)
  BY SoundStreams DEF Ready
<1>5. /\ Grows(w.outstream, put.outstream) /\ put.ok = w.ok
      /\ ~Layered(l) => Same(w, put) /\ Ready(l, put, c \o <<unit>>)
      /\ Layered(l) => Ready(l, put, c) /\ put.writers = w.writers
      /\ Layered(l) /\ (oom = "layer" \/ w.layers_failed) => put.layers_failed
  <2>1. CASE ~Layered(l)
    <3>1. put = Put(w, unit)
      BY <2>1
    <3> HIDE DEF put
    <3> QED BY <1>1, <2>1, <3>1, PutsOne
  <2>2. CASE Layered(l) /\ (oom = "layer" \/ w.layers_failed)
    <3>1. put = [w EXCEPT !.layers_failed = TRUE]
      BY <2>2
    <3> HIDE DEF put
    <3>2. Fits(l, put) /\ put.outstream = w.outstream /\ put.ok = w.ok
          /\ put.writers = w.writers /\ put.layers_failed
      BY ONLY <1>3, <3>1 DEF Fits, Writers
    <3> QED BY <1>4, <2>2, <3>2 DEF Ready
  <2>3. CASE Layered(l) /\ ~(oom = "layer" \/ w.layers_failed)
    <3> DEFINE more == Append(w.layers, unit)
    <3>1. put = [w EXCEPT !.layers = more]
      BY <2>3
    <3>2. more \in Seq(Unit)
      BY ONLY <1>1, <1>3
    <3> HIDE DEF put, more
    <3>3. Fits(l, put) /\ put.outstream = w.outstream /\ put.ok = w.ok
          /\ put.writers = w.writers
      BY ONLY <1>3, <3>1, <3>2 DEF Fits, Writers
    <3> QED BY <1>4, <2>3, <3>3 DEF Ready
  <2> QED BY <2>1, <2>2, <2>3
<1>6. r = IF oom = "encode" THEN Refused(put) ELSE put
  BY DEF encode, unit
<1>7. oom # "encode" /\ Layered(l) /\ ~(oom = "layer" \/ w.layers_failed)
      => /\ SameRows(w, put) /\ put.outstream = w.outstream
         /\ put.chunk_count = w.chunk_count /\ put.writers = w.writers
         /\ put.layers_failed = w.layers_failed
         /\ put.layers = Append(w.layers, <<"encoded", p>>)
  <2> SUFFICES ASSUME oom # "encode", Layered(l), ~(oom = "layer" \/ w.layers_failed)
               PROVE  /\ SameRows(w, put) /\ put.outstream = w.outstream
                      /\ put.chunk_count = w.chunk_count /\ put.writers = w.writers
                      /\ put.layers_failed = w.layers_failed
                      /\ put.layers = Append(w.layers, <<"encoded", p>>)
    OBVIOUS
  <2>1. put = [w EXCEPT !.layers = Append(w.layers, unit)] /\ unit = <<"encoded", p>>
    BY <1>1
  <2> HIDE DEF put
  <2> DEFINE more == Append(w.layers, unit)
  <2>2. put = [w EXCEPT !.layers = more]
    BY <2>1
  <2> HIDE DEF more
  <2>3. /\ SameRows(w, put) /\ put.outstream = w.outstream
        /\ put.chunk_count = w.chunk_count /\ put.writers = w.writers
        /\ put.layers_failed = w.layers_failed /\ put.layers = more
    BY ONLY <1>3, <2>2 DEF SameRows, Writers
  <2> QED BY ONLY <2>1, <2>3 DEF more
<1> HIDE DEF put
<1>8. \E u \in Seq(Unit) : Ready(l, put, c \o u)
  BY ONLY <1>2, <1>5
<1>9. CASE oom # "encode"
  <2>1. r = put /\ unit = <<"encoded", p>>
    BY <1>1, <1>6, <1>9
  <2> QED BY ONLY <1>5, <1>7, <1>8, <1>9, <2>1 DEF Encoded
<1>10. CASE oom = "encode"
  <2>1. r = [put EXCEPT !.ok = FALSE]
    BY <1>6, <1>10 DEF Refused
  <2>2. ASSUME NEW e, Ready(l, put, e)
        PROVE  Ready(l, r, e) /\ Same(put, r) /\ r.outstream = put.outstream
    BY ONLY <2>1, <2>2, Outcomes
  <2>3. /\ \E u \in Seq(Unit) : Ready(l, r, c \o u)
        /\ r.outstream = put.outstream /\ r.writers = put.writers
        /\ r.layers_failed = put.layers_failed
    BY ONLY <1>8, <2>2 DEF Same
  <2> QED BY ONLY <1>5, <1>10, <2>2, <2>3 DEF Encoded
<1> QED BY <1>9, <1>10

\* The steps of laz_writepoint_write: it forgets how the last call came out,
\* closes a chunk that is full, counts the point and puts it.
Begun(w) == [w EXCEPT !.ok = TRUE]

ClosedFirst(l, w, oom) ==
    IF Compressed(l) /\ w.chunk_count = w.chunk_size
    THEN close_and_record(l, Begun(w), oom) ELSE Begun(w)

Counted(l, v) == IF Compressed(l) THEN [v EXCEPT !.chunk_count = @ + 1] ELSE v

Placed(l, k, p, oom) ==
    IF k.writers = "raw" THEN Put(k, <<"raw", p>>)
    ELSE IF k.writers = "NULL" THEN start(k, p, oom) ELSE encode(l, k, p, oom)

LEMMA WriteSteps ==
    ASSUME NEW l, NEW w, NEW p, NEW oom
    PROVE  laz_writepoint_write(l, w, p, oom) =
             LET v == ClosedFirst(l, w, oom)
             IN  IF ~v.ok THEN v ELSE Checked(Placed(l, Counted(l, v), p, oom))
BY DEF laz_writepoint_write, ClosedFirst, Begun, Counted, Placed

LEMMA Begins ==
    ASSUME NEW l, NEW w, NEW c, Ready(l, w, c), NEW r, r = Begun(w)
    PROVE  Ready(l, r, c) /\ Same(w, r) /\ r.outstream = w.outstream /\ r.ok
<1>1. r = [w EXCEPT !.ok = TRUE]
  BY DEF Begun
<1>2. Ready(l, r, c) /\ Same(w, r) /\ r.outstream = w.outstream /\ r.ok = TRUE
  BY <1>1, Outcomes
<1> QED BY <1>2

LEMMA ChecksLast ==
    ASSUME NEW l, NEW w, NEW c, Ready(l, w, c), NEW r, r = Checked(w)
    PROVE  /\ Ready(l, r, c) /\ Same(w, r) /\ r.outstream = w.outstream
           /\ r.ok <=> w.ok /\ ~w.outstream.failed
<1>1. CASE w.outstream.failed
  <2>1. r = [w EXCEPT !.ok = FALSE] /\ Ready(l, w, c)
    BY <1>1 DEF Checked, Refused
  <2>2. Ready(l, r, c) /\ Same(w, r) /\ r.outstream = w.outstream /\ r.ok = FALSE
    BY ONLY <2>1, Outcomes
  <2> QED BY <1>1, <2>2
<1>2. CASE ~w.outstream.failed
  BY <1>2 DEF Checked, Same
<1> QED BY <1>1, <1>2

\* A chunk that is full is closed, so that there is room for one more point.
LEMMA ClosesWhatIsFull ==
    ASSUME NEW l, NEW w, NEW c, Ready(l, w, c), NEW oom, NEW v, v = ClosedFirst(l, w, oom)
    PROVE  /\ Grows(w.outstream, v.outstream)
           /\ \E u \in Seq(Unit) : Ready(l, v, c \o u)
           /\ ~v.ok => Spoilt(l, w) \/ oom = "table"
           /\ v.ok /\ Compressed(l) => v.chunk_count < v.chunk_size
<1> DEFINE b == Begun(w)
<1>1. Ready(l, b, c) /\ Same(w, b) /\ b.outstream = w.outstream /\ b.ok
  BY Begins
<1>2. b \in Writers /\ b.chunk_count <= b.chunk_size /\ b.chunk_size \in 1 .. U32_MAX
      /\ b.chunk_count \in Nat
  BY <1>1 DEF Ready, Fits, Writers
<1>3. b.chunk_count = w.chunk_count /\ b.chunk_size = w.chunk_size
      /\ b.layers_failed = w.layers_failed
  BY <1>1 DEF Same
<1>4. c \in Seq(Unit) /\ <<>> \in Seq(Unit) /\ c \o <<>> = c /\ U32_MAX \in Nat
  <2>1. c \in Seq(Unit)
    BY DEF Ready, Holds
  <2> QED BY <2>1, WriterAssumption
<1>5. v = IF Compressed(l) /\ w.chunk_count = w.chunk_size
          THEN close_and_record(l, b, oom) ELSE b
  BY DEF ClosedFirst
<1> HIDE DEF b
<1>6. CASE Compressed(l) /\ w.chunk_count = w.chunk_size
  <2>1. b.chunk_count >= 1
    BY ONLY <1>2, <1>3, <1>4, <1>6
  <2>2. v = close_and_record(l, b, oom)
    BY <1>5, <1>6
  <2>3. /\ Grows(b.outstream, v.outstream)
        /\ v.ok => /\ ~Spoilt(l, b) /\ Ready(l, v, c \o Closing(l, b)) /\ Recorded(b, v)
                   /\ v.chunk_count = 0 /\ v.writers = "NULL"
        /\ ~v.ok => /\ Same(b, v) /\ (Spoilt(l, b) \/ oom = "table")
                    /\ \E u \in Seq(Unit) : Ready(l, v, c \o u)
    BY <1>1, <1>6, <2>1, <2>2, ClosesAndRecords
  <2>4. Closing(l, b) \in Seq(Unit)
    BY <1>2, ClosingUnits
  <2>5. Spoilt(l, b) <=> Spoilt(l, w)
    BY <1>3 DEF Spoilt
  <2>6. v.ok => v.chunk_count < v.chunk_size
    <3>1. v.ok => v.chunk_count = 0 /\ v.chunk_size = b.chunk_size
      BY <2>3 DEF Recorded
    <3> QED BY ONLY <1>2, <1>4, <3>1
  <2> QED BY ONLY <1>1, <2>3, <2>4, <2>5, <2>6
<1>7. CASE ~(Compressed(l) /\ w.chunk_count = w.chunk_size)
  <2>1. v = b
    BY <1>5, <1>7
  <2>2. Grows(w.outstream, w.outstream)
    BY SoundStreams DEF Ready
  <2>3. Compressed(l) => b.chunk_count < b.chunk_size
    BY ONLY <1>2, <1>3, <1>4, <1>7
  <2> QED BY ONLY <1>1, <1>4, <2>1, <2>2, <2>3
<1> QED BY <1>6, <1>7

LEMMA Counts ==
    ASSUME NEW l, NEW v, NEW c, Ready(l, v, c), Compressed(l) => v.chunk_count < v.chunk_size,
           NEW k, k = Counted(l, v)
    PROVE  /\ Ready(l, k, c) /\ k.outstream = v.outstream /\ k.ok = v.ok
           /\ k.writers = v.writers /\ k.layers = v.layers
           /\ k.layers_failed = v.layers_failed /\ k.number_chunks = v.number_chunks
           /\ k.chunk_bytes = v.chunk_bytes /\ k.chunk_sizes = v.chunk_sizes
           /\ k.chunk_start_position = v.chunk_start_position
           /\ Compressed(l) => k.chunk_count = v.chunk_count + 1 /\ k.chunk_count >= 1
<1>1. Fits(l, v) /\ Holds(l, v.outstream, c) /\ v \in Writers
  BY DEF Ready, Fits
<1>2. CASE Compressed(l)
  <2> DEFINE n == v.chunk_count + 1
  <2>1. k = [v EXCEPT !.chunk_count = n]
    BY <1>2 DEF Counted
  <2>2. v.chunk_count \in Nat /\ v.chunk_size \in 1 .. U32_MAX /\ v.chunk_count < v.chunk_size
        /\ U32_MAX \in Nat
    BY <1>1, <1>2, WriterAssumption DEF Writers
  <2>3. n \in Nat /\ n <= v.chunk_size /\ n >= 1
    BY ONLY <2>2
  <2> HIDE DEF n
  <2>4. /\ k \in Writers /\ k.outstream = v.outstream /\ k.ok = v.ok
        /\ k.writers = v.writers /\ k.layers = v.layers /\ k.chunk_size = v.chunk_size
        /\ k.layers_failed = v.layers_failed /\ k.number_chunks = v.number_chunks
        /\ k.alloced_chunks = v.alloced_chunks
        /\ k.chunk_bytes = v.chunk_bytes /\ k.chunk_sizes = v.chunk_sizes
        /\ k.chunk_start_position = v.chunk_start_position /\ k.chunk_count = n
        /\ k.chunk_table_start_position = v.chunk_table_start_position
    BY ONLY <1>1, <2>1, <2>3 DEF Writers
  <2>5. Fits(l, k)
    BY ONLY <1>1, <2>3, <2>4 DEF Fits
  <2> QED BY ONLY <1>1, <2>3, <2>4, <2>5 DEF Ready, n
<1>3. CASE ~Compressed(l)
  <2>1. k = v
    BY <1>3 DEF Counted
  <2> QED BY <1>3, <2>1
<1> QED BY <1>2, <1>3

LEMMA Places ==
    ASSUME NEW l, NEW k, NEW c, Ready(l, k, c), Compressed(l) => k.chunk_count >= 1,
           NEW p \in Nat, NEW oom, NEW r, r = Placed(l, k, p, oom)
    PROVE  /\ Grows(k.outstream, r.outstream)
           /\ \E u \in Seq(Unit) : Ready(l, r, c \o u)
           /\ oom \notin {"start", "encode"} => r.ok = k.ok
<1>1. <<"raw", p>> \in Unit
  BY PointsAreUnits DEF PointUnits
<1>2. <<<<"raw", p>>>> \in Seq(Unit)
  BY <1>1, OneUnit
<1>3. CASE k.writers = "raw"
  <2>1. r = Put(k, <<"raw", p>>)
    BY <1>3 DEF Placed
  <2>2. /\ Ready(l, r, c \o <<<<"raw", p>>>>) /\ r.ok = k.ok
        /\ Grows(k.outstream, r.outstream)
    BY <1>1, <2>1, PutsOne
  <2> QED BY ONLY <1>2, <2>2
<1>4. CASE k.writers = "NULL"
  <2>1. r = start(k, p, oom)
    BY <1>4 DEF Placed
  <2>2. Compressed(l)
    BY <1>4 DEF Ready, Fits
  <2>3. /\ Grows(k.outstream, r.outstream) /\ Ready(l, r, c \o <<<<"raw", p>>>>)
        /\ oom # "start" => r.ok = k.ok
    BY <1>4, <2>1, <2>2, Starts
  <2> QED BY ONLY <1>2, <2>3
<1>5. CASE k.writers \notin {"raw", "NULL"}
  <2>1. r = encode(l, k, p, oom)
    BY <1>5 DEF Placed
  <2>2. /\ Grows(k.outstream, r.outstream)
        /\ \E u \in Seq(Unit) : Ready(l, r, c \o u)
        /\ oom # "encode" => r.ok = k.ok
    <3>1. Encoded(l, k, c, p, oom, r)
      BY <2>1, Encodes
    <3> QED BY ONLY <3>1 DEF Encoded
  <2> QED BY ONLY <2>2
<1> QED BY <1>3, <1>4, <1>5

\* Whatever goes wrong in a write, the writer is still one, its stream has only
\* got on, and a stream that has failed is a call that has.
LEMMA Writes ==
    ASSUME NEW l, NEW w, NEW c, Ready(l, w, c), NEW p \in Nat, NEW oom,
           NEW r, r = laz_writepoint_write(l, w, p, oom)
    PROVE  /\ \E u \in Seq(Unit) : Ready(l, r, c \o u)
           /\ Grows(w.outstream, r.outstream)
           /\ r.outstream.failed => ~r.ok
<1> DEFINE v == ClosedFirst(l, w, oom)
           k == Counted(l, v)
           q == Placed(l, k, p, oom)
<1>1. r = IF ~v.ok THEN v ELSE Checked(q)
  BY WriteSteps
<1>2. /\ Grows(w.outstream, v.outstream)
      /\ \E u \in Seq(Unit) : Ready(l, v, c \o u)
      /\ v.ok /\ Compressed(l) => v.chunk_count < v.chunk_size
  BY ClosesWhatIsFull
<1>3. PICK u \in Seq(Unit) : Ready(l, v, c \o u)
  BY <1>2
<1>4. CASE ~v.ok
  BY <1>1, <1>2, <1>4
<1>5. CASE v.ok
  <2>1. /\ Ready(l, k, c \o u) /\ k.outstream = v.outstream
        /\ Compressed(l) => k.chunk_count >= 1
    BY <1>2, <1>3, <1>5, Counts
  <2>2. /\ Grows(k.outstream, q.outstream)
        /\ \E x \in Seq(Unit) : Ready(l, q, (c \o u) \o x)
    BY <2>1, Places
  <2> HIDE DEF v, k, q
  <2>3. PICK x \in Seq(Unit) : Ready(l, q, (c \o u) \o x)
    BY <2>2
  <2>4. /\ Ready(l, r, (c \o u) \o x) /\ r.outstream = q.outstream
        /\ r.ok <=> q.ok /\ ~q.outstream.failed
    <3>1. r = Checked(q)
      BY <1>1, <1>5
    <3> QED BY <2>3, <3>1, ChecksLast
  <2>5. (c \o u) \o x = c \o (u \o x) /\ u \o x \in Seq(Unit)
    <3>1. c \in Seq(Unit)
      BY DEF Ready, Holds
    <3> QED BY <3>1, Associative
  <2>6. Grows(w.outstream, r.outstream)
    <3>1. w.outstream \in Streams /\ v.outstream \in Streams /\ q.outstream \in Streams
      BY <1>3, <2>3 DEF Ready, Fits, Writers
    <3> QED BY <1>2, <2>1, <2>2, <2>4, <3>1, GrowsOn
  <2> QED BY ONLY <2>4, <2>5, <2>6
<1> QED BY <1>4, <1>5

LEMMA Chunks ==
    ASSUME NEW l, NEW w, NEW c, Ready(l, w, c), NEW oom,
           NEW r, r = laz_writepoint_chunk(l, w, oom)
    PROVE  /\ \E u \in Seq(Unit) : Ready(l, r, c \o u)
           /\ Grows(w.outstream, r.outstream)
           /\ ~w.outstream.failed /\ r.outstream.failed => ~r.ok
<1> DEFINE b == Begun(w)
           v == close_and_record(l, b, oom)
<1>1. Ready(l, b, c) /\ Same(w, b) /\ b.outstream = w.outstream /\ b.ok
  BY Begins
<1>2. c \in Seq(Unit) /\ <<>> \in Seq(Unit) /\ c \o <<>> = c
  <2>1. c \in Seq(Unit)
    BY DEF Ready, Holds
  <2> QED BY <2>1
<1>3. Grows(w.outstream, w.outstream)
  BY SoundStreams DEF Ready
<1>4. r = IF ~Chunked(l) \/ w.chunk_size # U32_MAX THEN Refused(w)
          ELSE IF w.writers # "compressed" THEN b
          ELSE IF ~v.ok THEN v ELSE Checked(v)
  BY DEF laz_writepoint_chunk, Begun
<1> HIDE DEF b, v
<1>5. CASE ~Chunked(l) \/ w.chunk_size # U32_MAX
  <2>1. r = [w EXCEPT !.ok = FALSE]
    BY <1>4, <1>5 DEF Refused
  <2>2. Ready(l, r, c) /\ Same(w, r) /\ r.outstream = w.outstream /\ r.ok = FALSE
    <3>1. Ready(l, w, c)
      OBVIOUS
    <3> QED BY ONLY <2>1, <3>1, Outcomes
  <2> QED BY ONLY <1>2, <1>3, <2>2
<1>6. CASE ~(~Chunked(l) \/ w.chunk_size # U32_MAX) /\ w.writers # "compressed"
  <2>1. r = b
    BY <1>4, <1>6
  <2> QED BY ONLY <1>1, <1>2, <1>3, <2>1
<1>7. CASE ~(~Chunked(l) \/ w.chunk_size # U32_MAX) /\ w.writers = "compressed"
  <2>1. b.chunk_count >= 1 /\ Compressed(l)
    BY <1>1, <1>7 DEF Ready, Fits, Same
  <2>2. /\ Grows(b.outstream, v.outstream)
        /\ v.ok => /\ ~Spoilt(l, b) /\ Ready(l, v, c \o Closing(l, b)) /\ Recorded(b, v)
                   /\ v.chunk_count = 0 /\ v.writers = "NULL"
        /\ ~v.ok => /\ Same(b, v) /\ (Spoilt(l, b) \/ oom = "table")
                    /\ \E u \in Seq(Unit) : Ready(l, v, c \o u)
    BY <1>1, <2>1, ClosesAndRecords DEF v
  <2>3. Closing(l, b) \in Seq(Unit)
    BY <1>1, ClosingUnits DEF Ready, Fits
  <2>4. CASE ~v.ok
    <3>1. r = v
      BY <1>4, <1>7, <2>4
    <3> QED BY ONLY <1>1, <2>2, <2>4, <3>1
  <2>5. CASE v.ok
    <3>1. r = Checked(v) /\ Ready(l, v, c \o Closing(l, b))
      BY <1>4, <1>7, <2>2, <2>5
    <3>2. /\ Ready(l, r, c \o Closing(l, b)) /\ r.outstream = v.outstream
          /\ r.ok <=> v.ok /\ ~v.outstream.failed
      BY <3>1, ChecksLast
    <3> QED BY ONLY <1>1, <2>2, <2>3, <3>2
  <2> QED BY <2>4, <2>5
<1> QED BY <1>5, <1>6, <1>7

-----------------------------------------------------------------------------
(* The table, and the end of a file. *)

Position(n) == <<"position", n>>

\* The file with the position of the table in place.
Patched(c) == [c EXCEPT ![Base + 1] = Position(Len(c))]

Table(w) == <<<<"version">>, <<"chunks", w.number_chunks>>>> \o Rows(w)

LEMMA WiderSeqs ==
    ASSUME NEW S, NEW A \in SUBSET S, NEW s \in Seq(A)
    PROVE  s \in Seq(S)
<1>1. \A i \in 1 .. Len(s) : s[i] \in A
  BY ElementOfSeq
<1>2. \A i \in 1 .. Len(s) : s[i] \in S
  BY ONLY <1>1, A \in SUBSET S
<1>3. s = [i \in 1 .. Len(s) |-> s[i]] /\ Len(s) \in Nat
  OBVIOUS
<1> QED BY ONLY <1>2, <1>3, IsASeq

LEMMA RowUnits ==
    ASSUME NEW l, NEW w, Fits(l, w)
    PROVE  /\ Rows(w) \in Seq(Unit) /\ Len(Rows(w)) = w.number_chunks
           /\ \A i \in 1 .. w.number_chunks :
                 Rows(w)[i] = IF w.chunk_size = U32_MAX
                              THEN <<"row", w.chunk_bytes[i], w.chunk_sizes[i]>>
                              ELSE <<"row", w.chunk_bytes[i]>>
<1> DEFINE n == w.number_chunks
           e(i) == IF w.chunk_size = U32_MAX THEN <<"row", w.chunk_bytes[i], w.chunk_sizes[i]>>
                   ELSE <<"row", w.chunk_bytes[i]>>
<1>1. n \in Nat /\ w.chunk_bytes \in Seq(0 .. U32_MAX) /\ w.chunk_sizes \in Seq(1 .. U32_MAX)
      /\ Len(w.chunk_bytes) = n /\ (w.chunk_size = U32_MAX => Len(w.chunk_sizes) = n)
  BY DEF Fits, Writers
<1>2. ASSUME NEW i \in 1 .. n PROVE e(i) \in Unit
  <2>1. \A m, k \in Int : <<"row", m>> \in Unit /\ <<"row", m, k>> \in Unit
    <3>1. "row" \in Kinds
      BY DEF Kinds
    <3>2. \A k \in Kinds : \A m, j \in Int : <<k, m>> \in Unit /\ <<k, m, j>> \in Unit
      BY UnitsAreUnits
    <3> QED BY ONLY <3>1, <3>2
  <2>2. w.chunk_bytes[i] \in Int /\ (w.chunk_size = U32_MAX => w.chunk_sizes[i] \in Int)
    <3>1. /\ w.chunk_bytes \in Seq(Int) /\ i \in 1 .. Len(w.chunk_bytes)
          /\ w.chunk_sizes \in Seq(Int)
          /\ w.chunk_size = U32_MAX => i \in 1 .. Len(w.chunk_sizes)
      <4>1. 0 .. U32_MAX \subseteq Int /\ 1 .. U32_MAX \subseteq Int
        OBVIOUS
      <4>2. \A A : A \subseteq Int => \A s \in Seq(A) : s \in Seq(Int)
        BY WiderSeqs
      <4> QED BY <1>1, <4>1, <4>2
    <3> QED BY ONLY <3>1, ElementOfSeq
  <2> QED BY <2>1, <2>2
<1>3. Rows(w) = [i \in 1 .. n |-> e(i)]
  BY DEF Rows
<1>4. [i \in 1 .. n |-> e(i)] \in Seq(Unit)
  <2> HIDE DEF e, n
  <2> QED BY <1>1, <1>2, IsASeq
<1>5. Len([i \in 1 .. n |-> e(i)]) = n /\ \A j \in 1 .. n : [i \in 1 .. n |-> e(i)][j] = e(j)
  <2> HIDE DEF e, n
  <2> QED BY ONLY <1>1
<1> QED BY <1>3, <1>4, <1>5

LEMMA TableUnits ==
    ASSUME NEW l, NEW w, Fits(l, w)
    PROVE  /\ Table(w) \in Seq(Unit) /\ Len(Table(w)) = w.number_chunks + 2
           /\ Table(w)[1] = <<"version">> /\ Table(w)[2] = <<"chunks", w.number_chunks>>
           /\ \A i \in 1 .. w.number_chunks : Table(w)[i + 2] = Rows(w)[i]
           /\ <<<<"version">>, <<"chunks", w.number_chunks>>>> \in Seq(Unit)
<1> DEFINE x == <<"version">>
           y == <<"chunks", w.number_chunks>>
           n == w.number_chunks
           rows == Rows(w)
<1>1. rows \in Seq(Unit) /\ Len(rows) = n /\ n \in Nat
  BY RowUnits DEF Fits, Writers
<1>2. x \in Unit /\ y \in Unit
  <2>1. "version" \in Kinds /\ "chunks" \in Kinds
    BY DEF Kinds
  <2>2. \A k \in Kinds : \A m, j \in Int : <<k>> \in Unit /\ <<k, m>> \in Unit
    BY UnitsAreUnits
  <2>3. n \in Int
    BY <1>1
  <2> QED BY ONLY <2>1, <2>2, <2>3
<1>3. Table(w) = <<x, y>> \o rows
  BY DEF Table
<1> HIDE DEF x, y, rows, n
<1>4. <<x, y>> \in Seq(Unit) /\ Len(<<x, y>>) = 2 /\ <<x, y>>[1] = x /\ <<x, y>>[2] = y
  BY ONLY <1>2
<1> DEFINE head == <<x, y>>
<1> HIDE DEF head
<1>5. head \in Seq(Unit) /\ Len(head) = 2 /\ head[1] = x /\ head[2] = y
  BY ONLY <1>4 DEF head
<1>6. /\ head \o rows \in Seq(Unit) /\ Len(head \o rows) = n + 2
      /\ (head \o rows)[1] = x /\ (head \o rows)[2] = y
      /\ \A i \in 1 .. n : (head \o rows)[i + 2] = rows[i]
  <2>1. /\ head \o rows \in Seq(Unit) /\ Len(head \o rows) = Len(head) + Len(rows)
        /\ \A i \in 1 .. Len(head) : (head \o rows)[i] = head[i]
        /\ \A i \in 1 .. Len(rows) : (head \o rows)[Len(head) + i] = rows[i]
    BY ONLY <1>1, <1>5, EndToEnd
  <2>2. 1 \in 1 .. Len(head) /\ 2 \in 1 .. Len(head) /\ 2 + n = n + 2
        /\ \A i \in 1 .. n : i + 2 = Len(head) + i
    BY ONLY <1>1, <1>5
  <2> QED BY ONLY <1>1, <1>5, <2>1, <2>2
<1> QED BY ONLY <1>3, <1>4, <1>6 DEF head, x, y, rows, n

\* Where the table goes, and what of it gets there: in front of it the position,
\* where the stream can seek, and never before everything it stands for.
Tabled(l, w, c, r) ==
    /\ Grows(w.outstream, r.outstream)
    /\ \/ ~r.ok /\ Ready(l, r, c)
       \/ /\ l.seekable /\ ~w.outstream.failed /\ Len(c) <= Len(r.outstream.disk)
          /\ \E u \in Seq(Unit) : /\ Ready(l, r, Patched(c) \o u)
                                  /\ r.ok /\ ~r.outstream.failed => u = Table(w)
       \/ /\ ~l.seekable
          /\ \E u \in Seq(Unit) : /\ Ready(l, r, c \o u)
                                  /\ r.ok /\ ~r.outstream.failed
                                        => u = Table(w) \o <<Position(Len(c))>>

LEMMA PatchedUnits ==
    ASSUME NEW c \in Seq(Unit), Base < Len(c)
    PROVE  /\ Position(Len(c)) \in Unit
           /\ Patched(c) \in Seq(Unit) /\ Len(Patched(c)) = Len(c)
           /\ \A i \in 1 .. Len(c) :
                 Patched(c)[i] = IF i = Base + 1 THEN Position(Len(c)) ELSE c[i]
<1>1. Position(Len(c)) \in Unit
  <2>1. \A m \in Int : <<"position", m>> \in Unit
    <3>1. "position" \in Kinds
      BY DEF Kinds
    <3>2. \A k \in Kinds : \A m, j \in Int : <<k>> \in Unit /\ <<k, m>> \in Unit
      BY UnitsAreUnits
    <3> QED BY ONLY <3>1, <3>2
  <2>2. Len(c) \in Int
    OBVIOUS
  <2> QED BY ONLY <2>1, <2>2 DEF Position
<1>2. Base + 1 \in 1 .. Len(c)
  BY WriterAssumption DEF Base
<1> DEFINE x == Position(Len(c))
<1> HIDE DEF x
<1>3. x \in Unit /\ Patched(c) = [c EXCEPT ![Base + 1] = x]
  BY <1>1 DEF x, Patched
<1>4. /\ Patched(c) \in Seq(Unit) /\ Len(Patched(c)) = Len(c)
      /\ \A i \in 1 .. Len(c) : Patched(c)[i] = IF i = Base + 1 THEN x ELSE c[i]
  BY <1>2, <1>3, ExceptSeq
<1> QED BY ONLY <1>1, <1>4 DEF x

LEMMA SeeksTo ==
    ASSUME NEW l, NEW w, Fits(l, w), NEW at, Sink!fileout_seek(w.outstream, at) \in Streams,
           NEW r, r = SeekTo(w, at)
    PROVE  /\ Fits(l, r) /\ Same(w, r) /\ r.outstream = Sink!fileout_seek(w.outstream, at)
           /\ r.ok <=> Sink!fileout_seek_ok(w.outstream, at)
<1> DEFINE t == Sink!fileout_seek(w.outstream, at)
           ok == Sink!fileout_seek_ok(w.outstream, at)
<1>1. w \in Writers /\ t \in Streams /\ ok \in BOOLEAN
  BY DEF Fits, Sink!fileout_seek_ok
<1>2. r = [w EXCEPT !.outstream = t, !.ok = ok]
  BY DEF SeekTo
<1> HIDE DEF t, ok
<1>3. r \in Writers /\ Same(w, r) /\ r.outstream = t /\ r.ok = ok
  BY ONLY <1>1, <1>2 DEF Writers, Same
<1>4. Fits(l, r)
  BY <1>3, SameFits
<1> QED BY <1>3, <1>4 DEF t, ok

\* The stream is sent back and forth between the points and what goes in front
\* of them.
LEMMA Patches ==
    ASSUME NEW l, NEW w, NEW c, Ready(l, w, c), l.seekable, ~w.outstream.failed,
           Base < Len(c), c[Base + 1] = Blank,
           NEW b, b = SeekTo(w, Base),
           NEW m, m = Put(b, Position(Len(c))),
           NEW r, r = SeekTo(m, Len(c))
    PROVE  /\ ~b.ok => Ready(l, b, c) /\ Grows(w.outstream, b.outstream)
           /\ b.ok => /\ Ready(l, r, Patched(c)) /\ Len(c) <= Len(r.outstream.disk)
                      /\ Same(w, r) /\ Grows(w.outstream, r.outstream)
                      /\ r.ok <=> ~r.outstream.failed
<1> DEFINE s == w.outstream
           x == Position(Len(c))
           y == <<x>>
           q == Sink!fileout_seek(s, Base)
           u == Sink!fileout_put_bytes(q, y)
           t == Sink!fileout_seek(u, Len(c))
           p == Patched(c)
<1>1. Holds(l, s, c) /\ c \in Seq(Unit) /\ s.seekable /\ Fits(l, w)
  BY DEF Ready, Holds
<1>2. x \in Unit
  BY <1>1, PatchedUnits
<1>3. p = [c EXCEPT ![Base + 1] = x]
  BY DEF Patched
<1> HIDE DEF x, p
<1>4. y \in Seq(Unit) /\ Len(y) = 1 /\ y # <<>> /\ y[1] = x
  BY <1>2, OneUnit
<1>5. b = SeekTo(w, Base) /\ m = PutAll(b, y) /\ r = SeekTo(m, Len(c))
  BY DEF Put, PutAll, x
<1> HIDE DEF y
<1>6. PutInFront(l, s, c, q, u, t, p)
  BY <1>1, <1>2, <1>3, <1>4, PatchHolds
<1> HIDE DEF q, u, t
<1>7. /\ Len(s.disk) <= Len(q.disk) /\ Len(q.disk) <= Len(t.disk)
      /\ q.failed => Holds(l, q, c)
      /\ ~q.failed => Holds(l, t, p) /\ Len(c) <= Len(t.disk)
      /\ Stream!Sound(q) /\ Stream!Sound(u) /\ Stream!Sound(t)
      /\ ~q.failed => ~u.failed /\ u.seekable
  BY ONLY <1>6 DEF PutInFront
<1>8. q \in Streams /\ u \in Streams /\ t \in Streams
  BY <1>7 DEF Stream!Sound, Stream!Typed, Streams
<1>9. Fits(l, b) /\ Same(w, b) /\ b.outstream = q /\ (b.ok <=> ~q.failed)
  <2>1. b.ok <=> Sink!fileout_seek_ok(s, Base)
    BY <1>1, <1>5, <1>8, SeeksTo DEF q
  <2>2. Fits(l, b) /\ Same(w, b) /\ b.outstream = q
    BY <1>1, <1>5, <1>8, SeeksTo DEF q
  <2> QED BY <1>1, <2>1, <2>2 DEF Sink!fileout_seek_ok, q
<1>10. Fits(l, m) /\ Same(b, m) /\ m.outstream = u
  <2>1. m = [b EXCEPT !.outstream = u]
    BY <1>5, <1>9 DEF PutAll, u
  <2>2. b \in Writers
    BY <1>9 DEF Fits
  <2>3. m \in Writers /\ Same(b, m) /\ m.outstream = u
    BY ONLY <1>8, <2>1, <2>2, NewStream
  <2> QED BY <1>9, <2>3, SameFits
<1>11. /\ Fits(l, r) /\ Same(m, r) /\ r.outstream = t
       /\ r.ok <=> Sink!fileout_seek_ok(u, Len(c))
  BY <1>5, <1>8, <1>10, SeeksTo DEF t
<1>12. r.ok <=> ~u.failed /\ u.seekable /\ ~t.failed
  BY <1>11 DEF Sink!fileout_seek_ok, t
<1>13. Same(w, r)
  BY ONLY <1>9, <1>10, <1>11 DEF Same
<1>14. CASE q.failed
  BY <1>1, <1>7, <1>9, <1>14 DEF Ready, Grows
<1>15. CASE ~q.failed
  <2>1. Len(s.disk) \in Nat /\ Len(q.disk) \in Nat /\ Len(t.disk) \in Nat
    <3>1. s \in Streams
      BY SoundStreams DEF Ready
    <3>2. s.disk \in Seq(Unit) /\ q.disk \in Seq(Unit) /\ t.disk \in Seq(Unit)
      BY ONLY <1>8, <3>1 DEF Streams
    <3> QED BY ONLY <3>2
  <2>2. Grows(s, t)
    BY <1>7, <2>1 DEF Grows
  <2> QED BY <1>7, <1>9, <1>11, <1>12, <1>13, <1>15, <2>2 DEF Ready, p
<1> QED BY <1>14, <1>15

\* The same, where the table is put as well.
LEMMA PutsTable ==
    ASSUME NEW l, NEW w, Fits(l, w), NEW v, NEW e, Ready(l, v, e),
           NEW k, k = PutAll(v, <<<<"version">>, <<"chunks", w.number_chunks>>>>),
           NEW r, r = PutAll(k, Rows(w))
    PROVE  /\ \E u \in Seq(Unit) : Ready(l, k, e \o u)
           /\ Ready(l, r, e \o Table(w)) /\ r.ok = v.ok /\ k.ok = v.ok
           /\ Grows(v.outstream, k.outstream) /\ Grows(v.outstream, r.outstream)
<1> DEFINE head == <<<<"version">>, <<"chunks", w.number_chunks>>>>
           rows == Rows(w)
<1>1. head \in Seq(Unit) /\ rows \in Seq(Unit) /\ Table(w) = head \o rows
  BY RowUnits, TableUnits DEF Table
<1>2. k = PutAll(v, head) /\ r = PutAll(k, rows)
  OBVIOUS
<1> HIDE DEF head, rows
<1>3. Ready(l, k, e \o head) /\ k.ok = v.ok /\ Grows(v.outstream, k.outstream)
  BY <1>1, <1>2, Puts
<1>4. Ready(l, r, (e \o head) \o rows) /\ r.ok = k.ok /\ Grows(k.outstream, r.outstream)
  BY <1>1, <1>2, <1>3, Puts
<1>5. e \in Seq(Unit)
  BY DEF Ready, Holds
<1>6. (e \o head) \o rows = e \o Table(w)
  <2>1. head \in Seq(Unit) /\ rows \in Seq(Unit) /\ Table(w) = head \o rows
    BY <1>1
  <2> HIDE DEF head, rows
  <2>2. (e \o head) \o rows = e \o (head \o rows)
    BY ONLY <1>5, <2>1, Associative
  <2> QED BY <2>1, <2>2
<1>7. v.outstream \in Streams /\ k.outstream \in Streams /\ r.outstream \in Streams
  BY <1>3, <1>4, SoundStreams DEF Ready
<1>8. Grows(v.outstream, r.outstream)
  BY <1>3, <1>4, <1>7, GrowsOn
<1> QED BY <1>1, <1>3, <1>4, <1>6, <1>8

LEMMA Tables ==
    ASSUME NEW l, NEW w, NEW c, Ready(l, w, c), w.ok, Chunked(l),
           l.seekable => Base < Len(c) /\ c[Base + 1] = Blank,
           NEW oom, NEW r, r = write_chunk_table(w, oom)
    PROVE  Tabled(l, w, c, r)
<1> DEFINE here    == w.outstream.pos
           back    == SeekTo(w, w.chunk_table_start_position)
           mid     == Put(back, Position(here))
           patched == SeekTo(mid, here)
           ahead   == IF w.chunk_table_start_position = -1 THEN w
                      ELSE IF ~back.ok THEN back ELSE patched
           counted == PutAll(ahead, <<<<"version">>, <<"chunks", w.number_chunks>>>>)
           rows    == PutAll(counted, Rows(w))
           last    == Put(rows, Position(here))
<1>1. r = IF ~ahead.ok THEN ahead
          ELSE IF w.number_chunks > 0 /\ oom = "ic" THEN Refused(counted)
          ELSE IF w.chunk_table_start_position = -1 THEN last
          ELSE rows
  BY DEF write_chunk_table, Position
<1>2. /\ Fits(l, w) /\ Holds(l, w.outstream, c) /\ c \in Seq(Unit)
      /\ w.outstream \in Streams /\ here \in Nat
  <2>1. Fits(l, w) /\ Holds(l, w.outstream, c) /\ c \in Seq(Unit)
    BY DEF Ready, Holds
  <2>2. w.outstream \in Streams
    BY <2>1, SoundStreams
  <2> QED BY <2>1, <2>2 DEF Streams
<1>3. w.chunk_table_start_position = IF l.seekable THEN Base ELSE -1
  BY <1>2 DEF Fits
<1>4. Base \in Nat /\ Base # -1
  BY WriterAssumption DEF Base
<1>5. \A v, e : Ready(l, v, e) /\ v.ok
        => /\ \E u \in Seq(Unit) : Ready(l, Refused(PutAll(v, <<<<"version">>, <<"chunks", w.number_chunks>>>>)), e \o u)
           /\ ~Refused(PutAll(v, <<<<"version">>, <<"chunks", w.number_chunks>>>>)).ok
           /\ Grows(v.outstream, Refused(PutAll(v, <<<<"version">>, <<"chunks", w.number_chunks>>>>)).outstream)
  <2> TAKE v, e
  <2> DEFINE k == PutAll(v, <<<<"version">>, <<"chunks", w.number_chunks>>>>)
  <2> HAVE Ready(l, v, e) /\ v.ok
  <2>3. k = PutAll(v, <<<<"version">>, <<"chunks", w.number_chunks>>>>)
        /\ Fits(l, w) /\ Ready(l, v, e)
    BY <1>2
  <2> HIDE DEF k
  <2>1. (\E u \in Seq(Unit) : Ready(l, k, e \o u)) /\ Grows(v.outstream, k.outstream)
    <3> DEFINE head == <<<<"version">>, <<"chunks", w.number_chunks>>>>
    <3>1. head \in Seq(Unit) /\ k = PutAll(v, head)
      BY <2>3, TableUnits
    <3> HIDE DEF head
    <3>2. Ready(l, k, e \o head) /\ Grows(v.outstream, k.outstream)
      BY ONLY <2>3, <3>1, Puts
    <3> QED BY ONLY <3>1, <3>2
  <2>2. PICK u \in Seq(Unit) : Ready(l, k, e \o u)
    BY <2>1
  <2> DEFINE f == Refused(k)
  <2>4. f = [k EXCEPT !.ok = FALSE]
    BY DEF Refused
  <2> HIDE DEF f
  <2>5. Ready(l, f, e \o u) /\ f.outstream = k.outstream /\ f.ok = FALSE
    BY ONLY <2>2, <2>4, Outcomes
  <2>6. Ready(l, f, e \o u) /\ ~f.ok /\ Grows(v.outstream, f.outstream)
    BY <2>1, <2>5
  <2> QED BY <2>6 DEF f, k
<1>6. CASE l.seekable
  <2>1. /\ back = SeekTo(w, Base) /\ ahead = IF ~back.ok THEN back ELSE patched
        /\ r = IF ~ahead.ok THEN ahead
               ELSE IF w.number_chunks > 0 /\ oom = "ic" THEN Refused(counted) ELSE rows
    BY <1>1, <1>3, <1>4, <1>6
  <2>2. CASE w.outstream.failed
    <3>1. Sink!fileout_seek(w.outstream, Base) = w.outstream
      BY <2>2 DEF Sink!fileout_seek
    <3>2. ~Sink!fileout_seek_ok(w.outstream, Base)
      BY <2>2 DEF Sink!fileout_seek_ok
    <3>3. Fits(l, back) /\ back.outstream = w.outstream /\ ~back.ok
      BY <1>2, <2>1, <3>1, <3>2, SeeksTo
    <3>4. r = back
      BY ONLY <2>1, <3>3
    <3>5. ~r.ok /\ Ready(l, r, c) /\ Grows(w.outstream, r.outstream)
      BY <1>2, <3>3, <3>4, SoundStreams DEF Ready
    <3> QED BY ONLY <3>5 DEF Tabled
  <2>3. CASE ~w.outstream.failed
    <3>1. here = Len(c)
      BY <1>2, <2>3 DEF Holds
    <3>2. /\ mid = Put(back, Position(Len(c))) /\ patched = SeekTo(mid, Len(c))
      BY <3>1
    <3>3. counted = PutAll(ahead, <<<<"version">>, <<"chunks", w.number_chunks>>>>)
          /\ rows = PutAll(counted, Rows(w))
      OBVIOUS
    <3>4. /\ ~back.ok => Ready(l, back, c) /\ Grows(w.outstream, back.outstream)
          /\ back.ok => /\ Ready(l, patched, Patched(c))
                        /\ Len(c) <= Len(patched.outstream.disk)
                        /\ Grows(w.outstream, patched.outstream)
                        /\ patched.ok <=> ~patched.outstream.failed
      <4>1. /\ Ready(l, w, c) /\ Base < Len(c) /\ c[Base + 1] = Blank
        BY <1>6
      <4> HIDE DEF back, mid, patched
      <4> QED BY ONLY <1>6, <2>1, <2>3, <3>2, <4>1, Patches
    <3> HIDE DEF here, back, mid, patched, ahead, counted, rows, last
    <3>5. CASE ~back.ok
      <4>1. r = back
        BY ONLY <2>1, <3>5
      <4> QED BY <3>4, <3>5, <4>1 DEF Tabled
    <3>6. CASE back.ok
      <4>1. ahead = patched /\ Ready(l, ahead, Patched(c))
        BY <2>1, <3>4, <3>6
      <4> DEFINE p == Patched(c)
      <4>2. p \in Seq(Unit)
        BY <1>6, <1>2, PatchedUnits
      <4>3. \A q \in Writers : /\ Grows(ahead.outstream, q.outstream)
               => Grows(w.outstream, q.outstream) /\ Len(c) <= Len(q.outstream.disk)
        <5> TAKE q \in Writers
        <5> HAVE Grows(ahead.outstream, q.outstream)
        <5>1. q.outstream \in Streams /\ ahead.outstream \in Streams
          <6>1. ahead.outstream \in Streams
            BY <4>1, SoundStreams DEF Ready
          <6>2. q.outstream \in Streams
            BY DEF Writers
          <6> QED BY <6>1, <6>2
        <5>2. Grows(w.outstream, q.outstream)
          BY <1>2, <3>4, <3>6, <4>1, <5>1, GrowsOn
        <5>3. Len(ahead.outstream.disk) <= Len(q.outstream.disk)
              /\ Len(c) <= Len(ahead.outstream.disk)
          BY <3>4, <3>6, <4>1 DEF Grows
        <5>4. q.outstream.disk \in Seq(Unit) /\ ahead.outstream.disk \in Seq(Unit)
          BY ONLY <5>1 DEF Streams
        <5>5. Len(c) \in Nat /\ Len(q.outstream.disk) \in Nat /\ Len(ahead.outstream.disk) \in Nat
          BY ONLY <1>2, <5>4
        <5> QED BY ONLY <5>2, <5>3, <5>5
      <4>4. ASSUME NEW u \in Seq(Unit), Ready(l, r, p \o u), Grows(ahead.outstream, r.outstream),
                   r.ok /\ ~r.outstream.failed => u = Table(w)
            PROVE  Tabled(l, w, c, r)
        <5>1. r \in Writers
          BY <4>4 DEF Ready, Fits
        <5>2. Grows(w.outstream, r.outstream) /\ Len(c) <= Len(r.outstream.disk)
          BY <4>3, <4>4, <5>1
        <5> QED BY ONLY <1>6, <2>3, <4>4, <5>2 DEF Tabled
      <4>5. CASE ~ahead.ok
        <5>1. r = ahead
          BY ONLY <2>1, <4>5
        <5>2. <<>> \in Seq(Unit) /\ p \o <<>> = p
          BY ONLY <4>2
        <5>3. Ready(l, r, p \o <<>>) /\ Grows(ahead.outstream, r.outstream)
          BY <4>1, <5>1, <5>2, SoundStreams DEF Ready
        <5> QED BY <4>4, <4>5, <5>1, <5>2, <5>3
      <4>6. CASE ahead.ok
        <5>1. CASE w.number_chunks > 0 /\ oom = "ic"
          <6>1. r = Refused(counted)
            BY ONLY <2>1, <4>6, <5>1
          <6>2. /\ \E u \in Seq(Unit) : Ready(l, r, p \o u)
                /\ ~r.ok /\ Grows(ahead.outstream, r.outstream)
            BY <1>5, <3>3, <4>1, <4>6, <6>1
          <6>3. PICK u \in Seq(Unit) : Ready(l, r, p \o u)
            BY <6>2
          <6> QED BY <4>4, <6>2, <6>3
        <5>2. CASE ~(w.number_chunks > 0 /\ oom = "ic")
          <6>1. r = rows
            BY ONLY <2>1, <4>6, <5>2
          <6>2. Ready(l, r, p \o Table(w)) /\ Grows(ahead.outstream, r.outstream)
            BY ONLY <1>2, <3>3, <4>1, <6>1, PutsTable
          <6> QED BY <1>2, <4>4, <6>2, TableUnits
        <5> QED BY <5>1, <5>2
      <4> QED BY <4>5, <4>6
    <3> QED BY <3>5, <3>6
  <2> QED BY <2>2, <2>3
<1>7. CASE ~l.seekable
  <2>1. /\ ahead = w
        /\ r = IF w.number_chunks > 0 /\ oom = "ic" THEN Refused(counted) ELSE last
    BY <1>1, <1>3, <1>7
  <2>2. counted = PutAll(w, <<<<"version">>, <<"chunks", w.number_chunks>>>>)
        /\ rows = PutAll(counted, Rows(w)) /\ last = Put(rows, Position(here))
    BY <2>1
  <2> HIDE DEF back, mid, patched, ahead, counted, rows, last
  <2>3. CASE w.number_chunks > 0 /\ oom = "ic"
    <3>1. /\ \E u \in Seq(Unit) : Ready(l, r, c \o u)
          /\ ~r.ok /\ Grows(w.outstream, r.outstream)
      BY <1>5, <2>1, <2>2, <2>3
    <3> QED BY <1>7, <3>1 DEF Tabled
  <2>4. CASE ~(w.number_chunks > 0 /\ oom = "ic")
    <3> DEFINE x == Position(here)
               y == <<x>>
    <3>1. x \in Unit
      <4>1. "position" \in Kinds
        BY DEF Kinds
      <4>2. \A k \in Kinds : \A m, j \in Int : <<k, m>> \in Unit
        BY UnitsAreUnits
      <4>3. here \in Int
        BY <1>2
      <4> QED BY ONLY <4>1, <4>2, <4>3 DEF Position
    <3>2. r = last /\ last = Put(rows, x)
      BY ONLY <2>1, <2>2, <2>4
    <3> HIDE DEF x
    <3>3. y \in Seq(Unit)
      BY <3>1, OneUnit
    <3>4. Ready(l, rows, c \o Table(w)) /\ Grows(w.outstream, rows.outstream)
      BY <1>2, <2>2, PutsTable
    <3>5. Ready(l, r, (c \o Table(w)) \o y) /\ Grows(rows.outstream, r.outstream)
      BY <3>1, <3>2, <3>4, PutsOne
    <3>6. Table(w) \in Seq(Unit) /\ Table(w) \o y \in Seq(Unit)
      <4>1. Table(w) \in Seq(Unit)
        BY <1>2, TableUnits
      <4> QED BY ONLY <3>3, <4>1
    <3>7. (c \o Table(w)) \o y = c \o (Table(w) \o y)
      BY <1>2, <3>3, <3>6, Associative
    <3>8. rows.outstream \in Streams /\ r.outstream \in Streams
      BY <3>4, <3>5, SoundStreams DEF Ready
    <3>9. Grows(w.outstream, r.outstream)
      BY <1>2, <3>4, <3>5, <3>8, GrowsOn
    <3>10. ~r.outstream.failed => y = <<Position(Len(c))>>
      <4>1. ~r.outstream.failed => ~w.outstream.failed
        BY <3>9 DEF Grows
      <4> QED BY <1>2, <4>1 DEF Holds, x, here
    <3>11. Ready(l, r, c \o (Table(w) \o y))
      BY <3>5, <3>7
    <3> QED BY ONLY <1>7, <3>6, <3>9, <3>10, <3>11 DEF Tabled
  <2> QED BY <2>3, <2>4
<1> QED BY <1>6, <1>7

\* All of it is in the file.
OnDisk(s, c) == ~s.failed => s.disk = c

LEMMA Flushes ==
    ASSUME NEW l, NEW w, NEW c, Ready(l, w, c), NEW r, r = Flushed(w)
    PROVE  /\ Ready(l, r, c) /\ Same(w, r) /\ r.ok = w.ok
           /\ Grows(w.outstream, r.outstream)
           /\ OnDisk(r.outstream, c)
<1> DEFINE t == Sink!fileout_flush(w.outstream)
<1>1. t = Stream!fileout_flush(w.outstream)
  BY SameStream
<1>2. w \in Writers /\ Holds(l, w.outstream, c) /\ Fits(l, w)
  BY DEF Ready, Fits
<1>3. r = [w EXCEPT !.outstream = t]
  BY DEF Flushed
<1> HIDE DEF t
<1>4. /\ Holds(l, t, c) /\ Len(w.outstream.disk) <= Len(t.disk)
      /\ w.outstream.failed => t.failed
      /\ ~t.failed => t.disk = c
  BY <1>1, <1>2, FlushHolds
<1>5. t \in Streams
  BY <1>4, SoundStreams
<1>6. r \in Writers /\ Same(w, r) /\ r.outstream = t /\ r.ok = w.ok
  BY ONLY <1>2, <1>3, <1>5, NewStream
<1>7. Fits(l, r)
  BY <1>2, <1>6, SameFits
<1> QED BY <1>4, <1>6, <1>7 DEF Ready, Grows, OnDisk

\* What the file comes to, and what follows the points in it.
Final(l, e) == IF Chunked(l) /\ l.seekable THEN Patched(e) ELSE e

Behind(l, v, e) == IF ~Chunked(l) THEN <<>>
                   ELSE IF l.seekable THEN Table(v)
                   ELSE Table(v) \o <<Position(Len(e))>>

\* The writer v, whose last chunk is closed, of the points e.
LastClosed(l, w, c, v, e) ==
    /\ Ready(l, v, e) /\ v.chunk_size = w.chunk_size
    /\ IF w.writers = "compressed"
       THEN /\ ~Spoilt(l, w) /\ e = c \o Closing(l, w)
            /\ Chunked(l) => Recorded(w, v)
       ELSE e = c /\ SameRows(w, v)

\* How laz_writepoint_done comes out: before the position is in place, or after.
Ended(l, w, c, r) ==
    /\ Grows(w.outstream, r.outstream)
    /\ r.outstream.failed => ~r.ok
    /\ \/ ~r.ok /\ \E u \in Seq(Unit) : Ready(l, r, c \o u)
       \/ \E v, e : /\ LastClosed(l, w, c, v, e)
                    /\ Grows(w.outstream, v.outstream)
                    /\ Grows(v.outstream, r.outstream)
                    /\ Chunked(l) /\ l.seekable => /\ Len(e) <= Len(r.outstream.disk)
                                                   /\ ~v.outstream.failed
                    /\ SameRows(v, r)
                    /\ \E u \in Seq(Unit) :
                          /\ Ready(l, r, Final(l, e) \o u)
                          /\ r.ok => /\ r.outstream.disk = Final(l, e) \o u
                                     /\ u = Behind(l, v, e)

ClosedLast(l, w) ==
    IF w.writers = "compressed" THEN close_chunk(l, Begun(w)) ELSE Begun(w)

RecordedLast(l, w, oom) ==
    IF w.writers = "compressed" /\ Chunked(l)
    THEN add_chunk_to_table(ClosedLast(l, w), oom) ELSE ClosedLast(l, w)

LEMMA DoneSteps ==
    ASSUME NEW l, NEW w, NEW oom
    PROVE  laz_writepoint_done(l, w, oom) =
             LET k == ClosedLast(l, w)
                 v == RecordedLast(l, w, oom)
                 t == IF Chunked(l) THEN write_chunk_table(v, oom) ELSE v
             IN  IF ~k.ok THEN k
                 ELSE IF ~v.ok THEN v
                 ELSE IF ~t.ok THEN t
                 ELSE Checked(Flushed(t))
BY DEF laz_writepoint_done, ClosedLast, RecordedLast, Begun

\* The last chunk is closed and has its row, or nothing behind it was started.
LEMMA ClosesLast ==
    ASSUME NEW l, NEW w, NEW c, Ready(l, w, c), NEW oom,
           NEW k, k = ClosedLast(l, w), NEW v, v = RecordedLast(l, w, oom)
    PROVE  /\ Grows(w.outstream, k.outstream) /\ Grows(w.outstream, v.outstream)
           /\ ~k.ok => \E u \in Seq(Unit) : Ready(l, k, c \o u)
           /\ k.ok /\ ~v.ok => \E u \in Seq(Unit) : Ready(l, v, c \o u)
           /\ k.ok /\ v.ok => \E e \in Seq(Unit) : /\ LastClosed(l, w, c, v, e)
                                                   /\ \E u \in Seq(Unit) : e = c \o u
<1> DEFINE b == Begun(w)
<1>1. Ready(l, b, c) /\ Same(w, b) /\ b.outstream = w.outstream /\ b.ok
  BY Begins
<1> HIDE DEF b
<1>2. Fits(l, w) /\ Fits(l, b) /\ Fits(l, w) /\ c \in Seq(Unit) /\ Grows(w.outstream, b.outstream)
  BY <1>1, SoundStreams DEF Ready
<1>3. w.outstream \in Streams
  BY SoundStreams DEF Ready
<1>4. CASE w.writers # "compressed"
  <2>1. k = b /\ v = b
    BY <1>4 DEF ClosedLast, RecordedLast, b
  <2>2. SameRows(w, v) /\ v.chunk_size = w.chunk_size
    BY ONLY <1>1, <2>1 DEF SameRows, Same
  <2>3. LastClosed(l, w, c, v, c)
    BY <1>1, <1>4, <2>1, <2>2 DEF LastClosed
  <2>4. <<>> \in Seq(Unit) /\ c = c \o <<>>
    BY <1>2
  <2> QED BY <1>1, <1>2, <2>1, <2>3, <2>4
<1>5. CASE w.writers = "compressed"
  <2>1. /\ k = close_chunk(l, b)
        /\ v = IF Chunked(l) THEN add_chunk_to_table(k, oom) ELSE k
    BY <1>5 DEF ClosedLast, RecordedLast, b
  <2>2. Closing(l, b) = Closing(l, w) /\ (Spoilt(l, b) <=> Spoilt(l, w))
        /\ w.chunk_count >= 1 /\ b.chunk_count = w.chunk_count
    BY <1>1, <1>2, <1>5 DEF Closing, Spoilt, Same, Fits
  <2>3. /\ Same(b, k) /\ Grows(b.outstream, k.outstream)
        /\ Spoilt(l, b) => ~k.ok /\ Ready(l, k, c \o <<<<"count", b.chunk_count>>>>)
        /\ ~Spoilt(l, b) => k.ok /\ Ready(l, k, c \o Closing(l, b))
    BY <1>1, <2>1, Closes
  <2>4. Grows(w.outstream, k.outstream)
    BY <1>1, <2>3
  <2>5. CASE Spoilt(l, w)
    <3>1. b \in Writers
      BY <1>2 DEF Fits
    <3>2. <<"count", b.chunk_count>> \in Unit
      BY <3>1, ClosingUnits
    <3> DEFINE x == <<"count", b.chunk_count>>
               y == <<x>>
    <3>3. Ready(l, k, c \o y) /\ ~k.ok
      BY <2>2, <2>3, <2>5
    <3> HIDE DEF x
    <3>4. y \in Seq(Unit)
      BY <3>2, OneUnit DEF x
    <3>5. v.outstream = k.outstream
      <4>1. CASE ~Chunked(l)
        BY <2>1, <4>1
      <4>2. CASE Chunked(l)
        <5>1. v = add_chunk_to_table(k, oom) 
          BY <2>1, <4>2
        <5>2. v.outstream = k.outstream
          <6>1. k \in Writers
            BY <3>3 DEF Ready, Fits
          <6> QED BY ONLY <5>1, <6>1 DEF add_chunk_to_table, Refused, Writers
        <5> QED BY <5>2
      <4> QED BY <4>1, <4>2
    <3> QED BY <2>4, <3>3, <3>4, <3>5
  <2>6. CASE ~Spoilt(l, w)
    <3> DEFINE e == c \o Closing(l, w)
    <3>1. k.ok /\ Ready(l, k, e)
      BY <2>2, <2>3, <2>6
    <3>2. Closing(l, w) \in Seq(Unit)
      BY <1>2, ClosingUnits DEF Fits
    <3>3. e \in Seq(Unit)
      BY <1>2, <3>2
    <3>4. k.chunk_size = w.chunk_size /\ k.chunk_count >= 1
      BY ONLY <1>1, <2>2, <2>3 DEF Same
    <3>5. CASE ~Chunked(l)
      <4>1. v = k
        BY <2>1, <3>5
      <4>2. LastClosed(l, w, c, v, e)
        BY <1>5, <2>6, <3>1, <3>4, <3>5, <4>1 DEF LastClosed
      <4> QED BY <2>4, <3>1, <3>2, <3>3, <4>1, <4>2
    <3>6. CASE Chunked(l)
      <4>1. v = add_chunk_to_table(k, oom)
        BY <2>1, <3>6
      <4>2. /\ Ready(l, v, e) /\ v.outstream = k.outstream
            /\ v.ok => Recorded(k, v)
        BY ONLY <3>1, <3>4, <4>1, Records
      <4>3. v.ok => LastClosed(l, w, c, v, e)
        <5>1. v.ok => Recorded(w, v)
          BY ONLY <1>1, <2>3, <4>2 DEF Recorded, Same
        <5> QED BY <1>5, <2>6, <3>4, <4>2, <5>1 DEF LastClosed, Recorded
      <4> QED BY <2>4, <3>1, <3>2, <3>3, <4>2, <4>3
    <3> QED BY <3>5, <3>6
  <2> QED BY <2>5, <2>6
<1> QED BY <1>4, <1>5

\* What is put in front of the points stays in front of them.
LEMMA InFront ==
    ASSUME NEW c \in Seq(Unit), NEW u \in Seq(Unit), Base < Len(c)
    PROVE  Base < Len(c \o u) /\ (c \o u)[Base + 1] = c[Base + 1]
<1>1. Base + 1 \in 1 .. Len(c) /\ Base \in Nat
  BY WriterAssumption DEF Base
<1> QED BY <1>1, EndToEnd

\* Closing it and flushing it is what makes the file of what is put.
\* Writing the table changes none of its rows.
Rowed(v, w) == DOMAIN w = DOMAIN v /\ SameRows(v, w)

LEMMA RowsStay ==
    ASSUME NEW v, {"number_chunks", "chunk_bytes", "chunk_sizes", "chunk_start_position"}
                     \subseteq DOMAIN v,
           NEW w, Rowed(v, w), NEW x
    PROVE  /\ Rowed(v, [w EXCEPT !.outstream = x]) /\ Rowed(v, [w EXCEPT !.ok = x])
           /\ \A y : Rowed(v, [w EXCEPT !.outstream = x, !.ok = y])
BY DEF Rowed, SameRows

LEMMA TableRows ==
    ASSUME NEW v, {"number_chunks", "chunk_bytes", "chunk_sizes", "chunk_start_position"}
                     \subseteq DOMAIN v,
           NEW oom
    PROVE  Rowed(v, v) /\ Rowed(v, write_chunk_table(v, oom))
<1> DEFINE here    == v.outstream.pos
           back    == SeekTo(v, v.chunk_table_start_position)
           mid     == Put(back, <<"position", here>>)
           patched == SeekTo(mid, here)
           ahead   == IF v.chunk_table_start_position = -1 THEN v
                      ELSE IF ~back.ok THEN back ELSE patched
           counted == PutAll(ahead, <<<<"version">>, <<"chunks", v.number_chunks>>>>)
           rows    == PutAll(counted, Rows(v))
           last    == Put(rows, <<"position", here>>)
           t       == write_chunk_table(v, oom)
<1>1. Rowed(v, v)
  BY DEF Rowed, SameRows
<1>2. ASSUME NEW w, Rowed(v, w), NEW x
      PROVE  Rowed(v, SeekTo(w, x)) /\ Rowed(v, Put(w, x)) /\ Rowed(v, PutAll(w, x))
             /\ Rowed(v, Refused(w))
  BY <1>2, RowsStay DEF SeekTo, Put, PutAll, Refused
<1>3. Rowed(v, back) /\ Rowed(v, mid) /\ Rowed(v, patched)
  BY ONLY <1>1, <1>2
<1>4. t = IF ~ahead.ok THEN ahead
          ELSE IF v.number_chunks > 0 /\ oom = "ic" THEN Refused(counted)
          ELSE IF v.chunk_table_start_position = -1 THEN last
          ELSE rows
  BY DEF write_chunk_table
<1>5. Rowed(v, ahead)
  <2> HIDE DEF back, patched
  <2> QED BY <1>1, <1>3
<1> HIDE DEF ahead
<1>6. Rowed(v, counted)
  BY ONLY <1>2, <1>5
<1> HIDE DEF counted
<1>7. Rowed(v, rows) /\ Rowed(v, Refused(counted))
  BY ONLY <1>2, <1>6
<1> HIDE DEF rows
<1>8. Rowed(v, last)
  BY ONLY <1>2, <1>7
<1> HIDE DEF last, t
<1>9. Rowed(v, t)
  BY ONLY <1>4, <1>5, <1>7, <1>8
<1> QED BY ONLY <1>1, <1>9 DEF t

LEMMA FinishRows ==
    ASSUME NEW l, NEW v, Fits(l, v), NEW oom,
           NEW t, t = IF Chunked(l) THEN write_chunk_table(v, oom) ELSE v
    PROVE  SameRows(v, t) /\ SameRows(v, Checked(Flushed(t)))
<1>1. {"number_chunks", "chunk_bytes", "chunk_sizes", "chunk_start_position"} \subseteq DOMAIN v
  BY DEF Fits, Writers
<1>2. Rowed(v, t)
  BY <1>1, TableRows
<1> DEFINE f == Flushed(t)
<1>3. Rowed(v, f)
  BY <1>1, <1>2, RowsStay DEF Flushed
<1> HIDE DEF f
<1>4. Rowed(v, Checked(f))
  BY <1>1, <1>3, RowsStay DEF Checked, Refused
<1> QED BY <1>2, <1>4 DEF f, Rowed

LEMMA Finishes ==
    ASSUME NEW l, NEW w, NEW c, Ready(l, w, c),
           Chunked(l) /\ l.seekable => Base < Len(c) /\ c[Base + 1] = Blank,
           NEW oom, NEW r, r = laz_writepoint_done(l, w, oom)
    PROVE  Ended(l, w, c, r)
<1> DEFINE k == ClosedLast(l, w)
           v == RecordedLast(l, w, oom)
           t == IF Chunked(l) THEN write_chunk_table(v, oom) ELSE v
           f == Flushed(t)
           z == Checked(f)
<1>1. r = IF ~k.ok THEN k ELSE IF ~v.ok THEN v ELSE IF ~t.ok THEN t ELSE z
  BY DoneSteps
<1>2. /\ Grows(w.outstream, k.outstream) /\ Grows(w.outstream, v.outstream)
      /\ ~k.ok => \E u \in Seq(Unit) : Ready(l, k, c \o u)
      /\ k.ok /\ ~v.ok => \E u \in Seq(Unit) : Ready(l, v, c \o u)
      /\ k.ok /\ v.ok => \E e \in Seq(Unit) : /\ LastClosed(l, w, c, v, e)
                                              /\ \E u \in Seq(Unit) : e = c \o u
  BY ClosesLast
<1>3. (Chunked(l) => t = write_chunk_table(v, oom)) /\ (~Chunked(l) => t = v)
      /\ f = Flushed(t) /\ z = Checked(f)
  OBVIOUS
<1>4. c \in Seq(Unit)
  BY DEF Ready, Holds
<1> HIDE DEF k, v, t, f, z
<1>5. CASE ~k.ok
  <2>1. r = k /\ ~r.ok
    BY ONLY <1>1, <1>5
  <2> QED BY ONLY <1>2, <2>1 DEF Ended
<1>6. CASE k.ok /\ ~v.ok
  <2>1. r = v /\ ~r.ok
    BY ONLY <1>1, <1>6
  <2> QED BY ONLY <1>2, <1>6, <2>1 DEF Ended
<1>7. CASE k.ok /\ v.ok
  <2>1. PICK e \in Seq(Unit) : LastClosed(l, w, c, v, e) /\ \E u \in Seq(Unit) : e = c \o u
    BY <1>2, <1>7
  <2>2. PICK q \in Seq(Unit) : e = c \o q
    BY <2>1
  <2>3. Ready(l, v, e)
    BY <2>1 DEF LastClosed
  <2>4. Chunked(l) /\ l.seekable => Base < Len(e) /\ e[Base + 1] = Blank
    BY <1>4, <2>2, InFront
  <2>5. w.outstream \in Streams /\ v.outstream \in Streams
    BY <2>3, SoundStreams DEF Ready
  <2> DEFINE g == Final(l, e)
             h == Behind(l, v, e)
  <2>6. g \in Seq(Unit)
    <3>1. CASE Chunked(l) /\ l.seekable
      BY <2>4, <3>1, PatchedUnits DEF Final
    <3>2. CASE ~(Chunked(l) /\ l.seekable)
      BY <3>2 DEF Final
    <3> QED BY <3>1, <3>2
  <2>7. \/ ~t.ok /\ Ready(l, t, e) /\ Grows(v.outstream, t.outstream)
        \/ /\ Grows(v.outstream, t.outstream)
           /\ Chunked(l) /\ l.seekable => /\ Len(e) <= Len(t.outstream.disk)
                                          /\ ~v.outstream.failed
           /\ \E u \in Seq(Unit) : /\ Ready(l, t, g \o u)
                                   /\ t.ok /\ ~t.outstream.failed => u = h
    <3>1. CASE ~Chunked(l)
      <4>1. t = v /\ g = e /\ h = <<>>
        BY <1>3, <3>1 DEF Final, Behind
      <4>2. e \o <<>> = e /\ <<>> \in Seq(Unit)
        OBVIOUS
      <4>3. Ready(l, t, g \o <<>>) /\ Grows(v.outstream, t.outstream)
        BY <2>3, <4>1, <4>2, SoundStreams DEF Ready
      <4> QED BY <3>1, <4>1, <4>2, <4>3
    <3>2. CASE Chunked(l)
      <4>1. t = write_chunk_table(v, oom)
        BY <1>3, <3>2
      <4>2. Tabled(l, v, e, t)
        BY ONLY <1>7, <2>3, <2>4, <3>2, <4>1, Tables
      <4>3. CASE l.seekable
        <5>1. g = Patched(e) /\ h = Table(v)
          BY <3>2, <4>3 DEF Final, Behind
        <5> HIDE DEF g, h
        <5> QED BY ONLY <4>2, <4>3, <5>1 DEF Tabled
      <4>4. CASE ~l.seekable
        <5>1. g = e /\ h = Table(v) \o <<Position(Len(e))>>
          BY <3>2, <4>4 DEF Final, Behind
        <5> HIDE DEF g, h
        <5> QED BY ONLY <4>2, <4>4, <5>1 DEF Tabled
      <4> QED BY <4>3, <4>4
    <3> QED BY <3>1, <3>2
  <2>11. SameRows(v, t) /\ SameRows(v, z)
    <3>1. Fits(l, v)
      BY <2>3 DEF Ready
    <3>2. t = IF Chunked(l) THEN write_chunk_table(v, oom) ELSE v
      BY DEF t
    <3>3. z = Checked(Flushed(t))
      BY DEF z, f
    <3> QED BY ONLY <3>1, <3>2, <3>3, FinishRows
  <2>8. t.outstream \in Streams /\ Grows(w.outstream, t.outstream)
    <3>1. t.outstream \in Streams /\ Grows(v.outstream, t.outstream)
      BY <2>7, SoundStreams DEF Ready
    <3> QED BY <1>2, <2>5, <3>1, GrowsOn
  <2>9. CASE ~t.ok /\ Ready(l, t, e)
    <3>1. r = t /\ ~r.ok /\ Ready(l, r, c \o q)
      BY <1>1, <1>7, <2>2, <2>9
    <3> QED BY ONLY <2>8, <3>1 DEF Ended
  <2>10. ASSUME NEW u \in Seq(Unit), Ready(l, t, g \o u),
                Grows(v.outstream, t.outstream),
                Chunked(l) /\ l.seekable => /\ Len(e) <= Len(t.outstream.disk)
                                            /\ ~v.outstream.failed,
                t.ok /\ ~t.outstream.failed => u = h
         PROVE  Ended(l, w, c, r)
    <3>1. CASE ~t.ok
      <4>1. r = t /\ ~r.ok
        BY ONLY <1>1, <1>7, <3>1
      <4> HIDE DEF h
      <4> QED BY ONLY <1>2, <2>1, <2>8, <2>10, <2>11, <4>1 DEF Ended
    <3>2. CASE t.ok
      <4>1. r = z
        BY ONLY <1>1, <1>7, <3>2
      <4>2. /\ Ready(l, f, g \o u) /\ f.ok /\ Grows(t.outstream, f.outstream)
            /\ ~f.outstream.failed => f.outstream.disk = g \o u
        <5> DEFINE d == g \o u
        <5>1. Ready(l, t, d)
          BY <2>10
        <5> HIDE DEF d
        <5>2. /\ Ready(l, f, d) /\ f.ok = t.ok /\ Grows(t.outstream, f.outstream)
              /\ ~f.outstream.failed => f.outstream.disk = d
          <6>1. f = Flushed(t)
            BY <1>3
          <6>2. Ready(l, f, d) /\ f.ok = t.ok /\ Grows(t.outstream, f.outstream)
            BY ONLY <6>1, <5>1, Flushes
          <6>3. OnDisk(f.outstream, d)
            BY ONLY <6>1, <5>1, Flushes
          <6> QED BY ONLY <6>2, <6>3 DEF OnDisk
        <5> QED BY <3>2, <5>2 DEF d
      <4>3. /\ Ready(l, z, g \o u) /\ z.outstream = f.outstream
            /\ z.ok <=> f.ok /\ ~f.outstream.failed
        BY ONLY <1>3, <4>2, ChecksLast
      <4>4. f.outstream \in Streams
        BY ONLY <4>2, SoundStreams DEF Ready
      <4>5. Grows(w.outstream, r.outstream) /\ Grows(v.outstream, r.outstream)
        BY ONLY <2>5, <2>8, <2>10, <4>1, <4>2, <4>3, <4>4, GrowsOn
      <4>6. Chunked(l) /\ l.seekable => /\ Len(e) <= Len(r.outstream.disk)
                                        /\ ~v.outstream.failed
        <5>1. t.outstream.disk \in Seq(Unit) /\ f.outstream.disk \in Seq(Unit)
          BY ONLY <2>8, <4>4 DEF Streams
        <5>2. Len(t.outstream.disk) \in Nat /\ Len(f.outstream.disk) \in Nat /\ Len(e) \in Nat
          BY ONLY <2>1, <5>1
        <5>3. Len(t.outstream.disk) <= Len(f.outstream.disk)
          BY <4>2 DEF Grows
        <5> QED BY ONLY <2>10, <4>1, <4>3, <5>2, <5>3
      <4>7. r.ok => ~r.outstream.failed /\ r.outstream.disk = g \o u
        BY ONLY <4>1, <4>2, <4>3
      <4>8. ~r.outstream.failed => ~t.outstream.failed
        BY ONLY <4>1, <4>2, <4>3 DEF Grows
      <4>9. r.ok => u = h
        BY ONLY <2>10, <3>2, <4>7, <4>8
      <4>10. r.outstream.failed => ~r.ok
        BY ONLY <4>7
      <4>11. Ready(l, r, g \o u)
        BY ONLY <4>1, <4>3
      <4> HIDE DEF g, h
      <4>12. g = Final(l, e) /\ h = Behind(l, v, e)
        BY DEF g, h
      <4>13. Grows(w.outstream, v.outstream)
        BY ONLY <1>2
      <4>14. SameRows(v, r)
        BY ONLY <2>11, <4>1
      <4> QED BY ONLY <2>1, <2>10, <4>5, <4>6, <4>7, <4>9, <4>10, <4>11, <4>12,
                       <4>13, <4>14 DEF Ended
    <3> QED BY <3>1, <3>2
  <2> QED BY <2>7, <2>9, <2>10
<1> QED BY <1>5, <1>6, <1>7

-----------------------------------------------------------------------------
(* The beginning of a file. *)

Placeholder(l) == Position(IF l.seekable THEN Base ELSE -1)

\* A file with these units behind what is there from the start.
Laid(l, body) ==
    IF Chunked(l) THEN (Preface \o <<Placeholder(l)>>) \o body ELSE Preface \o body

\* The place of the position is kept.
Fronted(l, c) == Chunked(l) /\ l.seekable => Base < Len(c) /\ c[Base + 1] = Blank

LEMMA PrefaceUnits == Preface \in Seq(Unit) /\ Len(Preface) = Base /\ Base \in Nat \ {0}
<1>1. Preface \in Seq(Seq(STRING \cup Int)) /\ Len(Preface) > 0
  BY WriterAssumption
<1>2. Seq(STRING \cup Int) \subseteq Unit
  <2> SUFFICES ASSUME NEW x \in Seq(STRING \cup Int) PROVE x \in Unit
    OBVIOUS
  <2>1. \A i \in 1 .. Len(x) : x[i] \in Kinds \cup STRING \cup Int
    <3> DEFINE S == STRING \cup Int
    <3>1. x \in Seq(S) 
      OBVIOUS
    <3> HIDE DEF S
    <3>2. \A i \in 1 .. Len(x) : x[i] \in S
      BY ONLY <3>1
    <3> QED BY <3>2 DEF S
  <2> QED BY <2>1 DEF Unit
<1>3. Preface \in Seq(Unit)
  <2> DEFINE S == Seq(STRING \cup Int)
  <2>1. Preface \in Seq(S) /\ S \subseteq Unit
    BY <1>1, <1>2
  <2> HIDE DEF S
  <2> QED BY ONLY <2>1
<1> QED BY <1>1, <1>3 DEF Base

LEMMA PlaceholderUnits ==
    ASSUME NEW l
    PROVE  /\ Placeholder(l) \in Unit /\ <<Placeholder(l)>> \in Seq(Unit)
           /\ Preface \o <<Placeholder(l)>> \in Seq(Unit)
           /\ Len(Preface \o <<Placeholder(l)>>) = Base + 1
           /\ (Preface \o <<Placeholder(l)>>)[Base + 1] = Placeholder(l)
<1> DEFINE x == Placeholder(l)
           y == <<x>>
<1>1. x \in Unit
  <2>1. "position" \in Kinds
    BY DEF Kinds
  <2>2. \A k \in Kinds : \A m, j \in Int : <<k, m>> \in Unit
    BY UnitsAreUnits
  <2>3. Base \in Int /\ -1 \in Int
    BY PrefaceUnits
  <2>4. (IF l.seekable THEN Base ELSE -1) \in Int
    BY <2>3
  <2> QED BY ONLY <2>1, <2>2, <2>4 DEF Placeholder, Position
<1> HIDE DEF x
<1>2. y \in Seq(Unit) /\ Len(y) = 1 /\ y[1] = x
  BY <1>1, OneUnit
<1> HIDE DEF y
<1>3. /\ Preface \o y \in Seq(Unit) /\ Len(Preface \o y) = Base + 1
      /\ (Preface \o y)[Base + 1] = x
  BY <1>2, PrefaceUnits, EndToEnd
<1> QED BY <1>1, <1>2, <1>3 DEF x, y

LEMMA LaidFronted ==
    ASSUME NEW l, NEW body \in Seq(Unit)
    PROVE  Laid(l, body) \in Seq(Unit) /\ Fronted(l, Laid(l, body))
<1>1. CASE ~Chunked(l)
  BY <1>1, PrefaceUnits, EndToEnd DEF Laid, Fronted
<1>2. CASE Chunked(l)
  <2> DEFINE f == Preface \o <<Placeholder(l)>>
  <2>1. /\ f \in Seq(Unit) /\ Len(f) = Base + 1 /\ f[Base + 1] = Placeholder(l)
        /\ Laid(l, body) = f \o body
    BY <1>2, PlaceholderUnits DEF Laid
  <2> HIDE DEF f
  <2>2. Base < Len(f) /\ Base \in Nat
    BY <2>1, PrefaceUnits
  <2>3. f \o body \in Seq(Unit) /\ Base < Len(f \o body) /\ (f \o body)[Base + 1] = f[Base + 1]
    BY <2>1, <2>2, InFront, EndToEnd
  <2>4. l.seekable => Placeholder(l) = Blank
    BY DEF Placeholder, Position, Blank
  <2> QED BY <2>1, <2>3, <2>4 DEF Fronted
<1> QED BY <1>1, <1>2

\* Laying more behind it.
LEMMA LaysOn ==
    ASSUME NEW l, NEW body \in Seq(Unit), NEW u \in Seq(Unit)
    PROVE  Laid(l, body) \o u = Laid(l, body \o u)
<1>1. body \in Seq(Unit) /\ u \in Seq(Unit)
  OBVIOUS
<1>2. CASE ~Chunked(l)
  <2>1. (Preface \o body) \o u = Preface \o (body \o u)
    BY ONLY <1>1, PrefaceUnits, Associative
  <2> QED BY <1>2, <2>1 DEF Laid
<1>3. CASE Chunked(l)
  <2> DEFINE p == Preface \o <<Placeholder(l)>>
  <2>1. p \in Seq(Unit)
    BY PlaceholderUnits
  <2> HIDE DEF p
  <2>2. (p \o body) \o u = p \o (body \o u)
    BY ONLY <1>1, <2>1, Associative
  <2> QED BY <1>3, <2>2 DEF Laid, p
<1> QED BY <1>2, <1>3

\* A writer that has written nothing.
Fresh(l, w) ==
    /\ w.chunk_count = 0 /\ w.number_chunks = 0 /\ w.chunk_sizes = <<>>
    /\ w.chunk_bytes = <<>> /\ w.layers = <<>> /\ ~w.layers_failed
    /\ w.writers = IF Compressed(l) THEN "NULL" ELSE "raw"
    /\ Chunked(l) /\ ~w.outstream.failed => w.chunk_start_position = Base + 1

LEMMA Opens ==
    ASSUME NEW l \in Layouts, NEW room \in Rooms, NEW seeks \in Seeks,
           NEW r, r = Opened(l, room, seeks)
    PROVE  /\ Ready(l, r, Laid(l, <<>>)) /\ Fresh(l, r)
           /\ Base <= Len(r.outstream.disk)
<1> DEFINE s == Sink!laz_outstream_new_file(Preface, l.seekable, room, seeks)
           here == IF l.seekable THEN s.pos ELSE -1
           w == [chunk_size |-> IF Chunked(l) /\ l.chunk_size # 0
                                THEN l.chunk_size ELSE U32_MAX,
                 chunk_count |-> 0, number_chunks |-> 0, alloced_chunks |-> 0,
                 chunk_sizes |-> <<>>, chunk_bytes |-> <<>>,
                 chunk_start_position |-> 0, chunk_table_start_position |-> 0,
                 writers |-> IF Compressed(l) THEN "NULL" ELSE "raw",
                 layers |-> <<>>, layers_failed |-> FALSE,
                 outstream |-> s, ok |-> TRUE]
           v == [w EXCEPT !.chunk_table_start_position = here]
           placed == Put(v, <<"position", here>>)
<1>1. r = IF Chunked(l) THEN [placed EXCEPT !.chunk_start_position = placed.outstream.pos]
          ELSE w
  BY DEF Opened
<1>2. s = [disk |-> Preface, at |-> Base, room |-> room, seeks |-> seeks,
           buf |-> <<>>, pos |-> Base, seekable |-> l.seekable, failed |-> FALSE]
  BY DEF Sink!laz_outstream_new_file, Base
<1> HIDE DEF s
<1>3. /\ Preface \in Seq(Unit) /\ Len(Preface) = Base /\ Base \in Nat /\ <<>> \in Seq(Unit)
      /\ Len(<<>>) = 0 /\ l.seekable \in BOOLEAN /\ room \in Nat /\ seeks \in Nat
      /\ FILE_BUF_SIZE \in Nat /\ Preface \o <<>> = Preface
  BY PrefaceUnits, WriterAssumption
<1>4. Stream!Typed(s)
  <2>1. s \in Streams
    BY ONLY <1>2, <1>3 DEF Streams
  <2> QED BY <1>2, <1>3, <2>1 DEF Stream!Typed, Streams
<1>5. Stream!Sound(s)
  BY <1>2, <1>3, <1>4 DEF Stream!Sound, Stream!Straight
<1>6. Holds(l, s, Preface)
  <2>1. Stream!Content(s) = Stream!Overlay(Preface, Len(Preface), <<>>)
    BY <1>2, <1>3 DEF Stream!Content
  <2>2. Stream!Content(s) = Preface
    BY <1>3, <2>1, OverlayAtEnd
  <2>3. Lies(l, s.disk, Preface)
    BY <1>2, <1>3 DEF Lies
  <2> QED BY <1>2, <1>3, <1>5, <2>2, <2>3 DEF Holds
<1>7. s \in Streams
  BY <1>6, SoundStreams
<1>8. w \in Writers
  <2>1. (IF Chunked(l) /\ l.chunk_size # 0 THEN l.chunk_size ELSE U32_MAX) \in 1 .. U32_MAX
    BY WriterAssumption
  <2>2. <<>> \in Seq(1 .. U32_MAX) /\ <<>> \in Seq(0 .. U32_MAX)
    OBVIOUS
  <2> QED BY ONLY <1>3, <1>7, <2>1, <2>2 DEF Writers
<1>9. CASE ~Chunked(l)
  <2>1. r = w
    BY <1>1, <1>9
  <2>2. w.writers = "raw" <=> ~Compressed(l)
    OBVIOUS
  <2>3. Fits(l, w)
    BY <1>3, <1>8, <1>9, <2>2, WriterAssumption DEF Fits
  <2>4. Fresh(l, w)
    BY <1>9 DEF Fresh
  <2>5. Laid(l, <<>>) = Preface
    BY <1>3, <1>9 DEF Laid
  <2>6. Base <= Len(w.outstream.disk)
    BY <1>2, <1>3
  <2> QED BY <1>6, <2>1, <2>3, <2>4, <2>5, <2>6 DEF Ready
<1>10. CASE Chunked(l)
  <2>1. Compressed(l)
    BY <1>10 DEF Chunked, Compressed
  <2>2. here = IF l.seekable THEN Base ELSE -1
    BY <1>2
  <2>3. here \in Nat \cup {-1}
    BY <1>3, <2>2
  <2> DEFINE x == <<"position", here>>
             y == <<x>>
             f == Preface \o y
  <2>4. x = Placeholder(l)
    BY <2>2 DEF Placeholder, Position
  <2> HIDE DEF here
  <2>5. v \in Writers
    BY ONLY <1>8, <2>3 DEF Writers
  <2>6. Fits(l, v)
    <3>1. v.writers = "raw" <=> ~Compressed(l)
      BY <2>1
    <3>2. v.chunk_table_start_position = here
      BY ONLY <1>8 DEF Writers
    <3> QED BY <1>3, <1>10, <2>1, <2>2, <2>5, <3>1, <3>2, WriterAssumption DEF Fits
  <2>7. Ready(l, v, Preface)
    BY <1>6, <2>6 DEF Ready
  <2>8. Fresh(l, [v EXCEPT !.chunk_start_position = Base + 1]) /\ v.ok
    BY <2>1 DEF Fresh
  <2>9. placed = Put(v, x) /\ v.outstream = s
    OBVIOUS
  <2>10. x \in Unit /\ f \in Seq(Unit) /\ Len(f) = Base + 1
    BY <2>4, PlaceholderUnits
  <2>11. f = Laid(l, <<>>)
    <3>1. \A a \in Seq(Unit) : a \o <<>> = a
      OBVIOUS
    <3>2. Laid(l, <<>>) = f \o <<>>
      BY <1>10, <2>4 DEF Laid
    <3> QED BY ONLY <2>10, <3>1, <3>2
  <2> HIDE DEF placed, v, w, x
  <2>12. /\ Ready(l, placed, Preface \o <<x>>) /\ Same(v, placed) /\ placed.ok = v.ok
         /\ Grows(v.outstream, placed.outstream)
    BY <2>7, <2>9, <2>10, PutsOne
  <2> DEFINE p == placed.outstream.pos
  <2>13. r = [placed EXCEPT !.chunk_start_position = p]
    BY <1>1, <1>10
  <2>14. placed \in Writers /\ placed.outstream \in Streams /\ p \in Nat
    <3>1. placed \in Writers /\ placed.outstream \in Streams
      BY <2>12, SoundStreams DEF Ready, Fits
    <3> QED BY <3>1 DEF Streams
  <2>15. ~placed.outstream.failed => p = Base + 1
    BY <2>10, <2>12 DEF Ready, Holds
  <2> HIDE DEF p
  <2>16. /\ r \in Writers /\ r.outstream = placed.outstream /\ r.chunk_start_position = p
         /\ r.chunk_size = placed.chunk_size /\ r.chunk_count = placed.chunk_count
         /\ r.number_chunks = placed.number_chunks
         /\ r.alloced_chunks = placed.alloced_chunks
         /\ r.chunk_sizes = placed.chunk_sizes /\ r.chunk_bytes = placed.chunk_bytes
         /\ r.chunk_table_start_position = placed.chunk_table_start_position
         /\ r.writers = placed.writers /\ r.layers = placed.layers
         /\ r.layers_failed = placed.layers_failed
    BY ONLY <2>13, <2>14 DEF Writers
  <2>17. Ready(l, r, f)
    BY ONLY <2>12, <2>16 DEF Ready, Fits
  <2>18. Fresh(l, r)
    <3>1. /\ v.chunk_count = 0 /\ v.number_chunks = 0 /\ v.chunk_sizes = <<>>
          /\ v.chunk_bytes = <<>> /\ v.layers = <<>> /\ v.layers_failed = FALSE
          /\ v.writers = "NULL"
      BY <2>1 DEF v, w
    <3> QED BY ONLY <2>1, <2>12, <2>15, <2>16, <3>1 DEF Fresh, Same
  <2>19. Base <= Len(r.outstream.disk)
    <3>1. s.disk = Preface /\ Len(s.disk) <= Len(r.outstream.disk)
      BY <1>2, <2>9, <2>12, <2>16 DEF Grows
    <3> QED BY <1>3, <3>1
  <2> QED BY <2>11, <2>17, <2>18, <2>19
<1> QED BY <1>9, <1>10

-----------------------------------------------------------------------------
(* One operation, whatever comes of it. *)

\* Nothing in front of what is put next changes, but for the position.
Extends(l, c, d) ==
    /\ Len(c) <= Len(d)
    /\ \A i \in 1 .. Len(c) : d[i] = c[i] \/ (l.seekable /\ i = Base + 1)

Goes(l, w, r) ==
    \E c, d : /\ Ready(l, w, c) /\ Ready(l, r, d) /\ Extends(l, c, d)
              /\ Grows(w.outstream, r.outstream)

LEMMA ExtendsOn ==
    ASSUME NEW l, NEW c \in Seq(Unit), NEW u \in Seq(Unit), NEW d,
           \/ d = c \o u
           \/ d = Final(l, c) \o u /\ (Chunked(l) /\ l.seekable => Base < Len(c))
    PROVE  d \in Seq(Unit) /\ Extends(l, c, d)
<1>1. CASE d = c \o u
  <2>1. /\ d \in Seq(Unit) /\ Len(d) = Len(c) + Len(u) /\ \A i \in 1 .. Len(c) : d[i] = c[i]
    BY <1>1, EndToEnd
  <2> QED BY <2>1 DEF Extends
<1>2. CASE d = Final(l, c) \o u /\ (Chunked(l) /\ l.seekable => Base < Len(c))
  <2>1. CASE Chunked(l) /\ l.seekable
    <3> DEFINE p == Patched(c)
    <3>1. /\ p \in Seq(Unit) /\ Len(p) = Len(c)
          /\ \A i \in 1 .. Len(c) : p[i] = IF i = Base + 1 THEN Position(Len(c)) ELSE c[i]
      BY <1>2, <2>1, PatchedUnits
    <3>2. d = p \o u
      BY <1>2, <2>1 DEF Final
    <3> HIDE DEF p
    <3>3. /\ d \in Seq(Unit) /\ Len(d) = Len(p) + Len(u) /\ \A i \in 1 .. Len(p) : d[i] = p[i]
      BY <3>1, <3>2, EndToEnd
    <3> QED BY <2>1, <3>1, <3>3 DEF Extends
  <2>2. CASE ~(Chunked(l) /\ l.seekable)
    <3>1. d = c \o u
      BY <1>2, <2>2 DEF Final
    <3> QED BY <1>1, <3>1
  <2> QED BY <2>1, <2>2
<1> QED BY <1>1, <1>2

LEMMA GoesOn ==
    ASSUME NEW l, NEW w, NEW c, Ready(l, w, c), NEW r, NEW u \in Seq(Unit),
           Ready(l, r, c \o u), Grows(w.outstream, r.outstream)
    PROVE  Goes(l, w, r)
<1>1. c \in Seq(Unit)
  BY DEF Ready, Holds
<1>2. Extends(l, c, c \o u)
  BY <1>1, ExtendsOn
<1> QED BY <1>2 DEF Goes

LEMMA EndsWell ==
    ASSUME NEW l, NEW w, NEW c, Ready(l, w, c), Fronted(l, c), NEW r, Ended(l, w, c, r)
    PROVE  Goes(l, w, r)
<1>1. c \in Seq(Unit) /\ Grows(w.outstream, r.outstream) /\ w \in Writers
  BY DEF Ready, Fits, Holds, Ended
<1>2. CASE \E u \in Seq(Unit) : Ready(l, r, c \o u)
  BY <1>1, <1>2, GoesOn
<1>3. ASSUME NEW v, NEW e, LastClosed(l, w, c, v, e),
             NEW u \in Seq(Unit), Ready(l, r, Final(l, e) \o u)
      PROVE  Goes(l, w, r)
  <2>1. \E q \in Seq(Unit) : e = c \o q
    <3>1. CASE w.writers = "compressed"
      <4>1. e = c \o Closing(l, w) /\ Closing(l, w) \in Seq(Unit)
        BY <1>1, <1>3, <3>1, ClosingUnits DEF LastClosed
      <4> QED BY <4>1
    <3>2. CASE w.writers # "compressed"
      <4>1. e = c
        BY <1>3, <3>2 DEF LastClosed
      <4>2. <<>> \in Seq(Unit) /\ c = c \o <<>>
        BY <1>1
      <4> QED BY <4>1, <4>2
    <3> QED BY <3>1, <3>2
  <2>2. PICK q \in Seq(Unit) : e = c \o q
    BY <2>1
  <2>3. e \in Seq(Unit) /\ Len(e) = Len(c) + Len(q) /\ \A i \in 1 .. Len(c) : e[i] = c[i]
    BY <1>1, <2>2, EndToEnd
  <2>4. Chunked(l) /\ l.seekable => Base < Len(e)
    BY <1>1, <2>2, InFront DEF Fronted
  <2> DEFINE d == Final(l, e) \o u
  <2>5. d \in Seq(Unit) /\ Extends(l, e, d)
    BY <2>3, <2>4, ExtendsOn
  <2> HIDE DEF d
  <2>6. Extends(l, c, d)
    <3>1. Len(c) \in Nat /\ Len(q) \in Nat /\ Len(d) \in Nat
      BY <1>1, <2>5
    <3> QED BY ONLY <2>3, <2>5, <3>1 DEF Extends
  <2>7. Ready(l, r, d)
    BY <1>3 DEF d
  <2> QED BY <1>1, <2>6, <2>7 DEF Goes
<1> QED BY <1>2, <1>3 DEF Ended

\* done() that worked has left nothing staged, and the file object at the end.
LEMMA DoneRests ==
    ASSUME NEW l, NEW w, NEW c, Ready(l, w, c), Fronted(l, c),
           NEW oom, NEW r, r = laz_writepoint_done(l, w, oom), r.ok
    PROVE  LET s == r.outstream
           IN  /\ ~s.failed /\ s.buf = <<>> /\ s.at = Len(s.disk)
               /\ s \in Streams /\ r \in Writers
<1> DEFINE k == ClosedLast(l, w)
           v == RecordedLast(l, w, oom)
           t == IF Chunked(l) THEN write_chunk_table(v, oom) ELSE v
           f == Flushed(t)
           s == r.outstream
<1>1. r = IF ~k.ok THEN k ELSE IF ~v.ok THEN v ELSE IF ~t.ok THEN t ELSE Checked(f)
  BY DoneSteps
<1>2. Ended(l, w, c, r)
  BY Finishes DEF Fronted
<1>3. PICK d : Ready(l, r, d)
  BY <1>2, EndsWell DEF Goes
<1>4. r \in Writers /\ s \in Streams /\ Holds(l, s, d)
  BY <1>3, SoundStreams DEF Ready, Fits
<1>5. r = f /\ ~s.failed
  <2>1. r = Checked(f)
    <3> HIDE DEF k, v, t, f
    <3> QED BY ONLY <1>1, r.ok
  <2> HIDE DEF f, s
  <2>2. f.outstream.failed => r = [f EXCEPT !.ok = FALSE]
    BY ONLY <2>1 DEF Checked, Refused
  <2>3. ~f.outstream.failed
    <3>1. "ok" \in DOMAIN r
      BY ONLY <1>4 DEF Writers
    <3> QED BY ONLY <2>2, <3>1, r.ok
  <2> QED BY ONLY <2>1, <2>3 DEF Checked, s
<1>6. s.buf = <<>>
  <2> DEFINE e == Sink!fileout_emit(t.outstream, t.outstream.buf)
             g == [e EXCEPT !.buf = <<>>]
  <2>1. r = [t EXCEPT !.outstream = g]
    BY ONLY <1>5 DEF Flushed, Sink!fileout_flush
  <2> HIDE DEF g, t
  <2>2. "outstream" \in DOMAIN r
    BY ONLY <1>4 DEF Writers
  <2>3. s = g
    BY ONLY <2>1, <2>2
  <2>4. "buf" \in DOMAIN g
    BY ONLY <1>4, <2>3 DEF Streams
  <2> HIDE DEF e
  <2> QED BY ONLY <2>3, <2>4 DEF g
<1>7. s.at = Len(s.disk)
  <2>1. /\ s.pos = Len(d) /\ Stream!Content(s) = d /\ s.pos = s.at + Len(s.buf)
        /\ s.at <= Len(s.disk)
    BY <1>4, <1>5 DEF Holds, Stream!Sound, Stream!Straight
  <2>2. Len(s.disk) \in Nat /\ s.at \in Nat /\ Len(s.buf) = 0
    BY <1>4, <1>6 DEF Streams
  <2>3. d = Stream!Overlay(s.disk, s.at, <<>>)
    BY <1>6, <2>1 DEF Stream!Content
  <2>4. Len(d) = Stream!Longer(Len(s.disk), s.at + 0)
    <3>1. s.disk \in Seq(Unit) /\ <<>> \in Seq(Unit) /\ s.at \in 0 .. Len(s.disk)
      BY <1>4, <2>1, <2>2 DEF Streams
    <3>2. Len(<<>>) = 0
      OBVIOUS
    <3> HIDE DEF s
    <3>3. /\ Stream!Overlay(s.disk, s.at, <<>>) \in Seq(Unit)
          /\ Len(Stream!Overlay(s.disk, s.at, <<>>)) = Stream!Longer(Len(s.disk), s.at + Len(<<>>))
      BY ONLY <3>1, StreamAssumption, Stream!OverlayIsASeq
    <3> QED BY ONLY <2>3, <3>2, <3>3
  <2> HIDE DEF s
  <2>5. Stream!Longer(Len(s.disk), s.at + 0) = Len(s.disk)
    BY ONLY <2>1, <2>2 DEF Stream!Longer
  <2>6. s.pos = s.at
    BY ONLY <2>1, <2>2
  <2>7. s.pos = Len(s.disk)
    BY ONLY <2>1, <2>4, <2>5
  <2> QED BY ONLY <2>6, <2>7
<1> QED BY <1>4, <1>5, <1>6, <1>7

\* The last-resort flush of a writer that is dropped.
LEMMA Drops ==
    ASSUME NEW l, NEW w, NEW c, Ready(l, w, c),
           NEW r, r = [w EXCEPT !.outstream = Sink!fileout_destroy(@)]
    PROVE  /\ Ready(l, r, c) /\ Same(w, r) /\ r.ok = w.ok
           /\ Grows(w.outstream, r.outstream)
<1>1. w \in Writers /\ w.outstream \in Streams
  BY SoundStreams DEF Ready, Fits
<1>2. CASE w.outstream.failed
  <2> DEFINE s == w.outstream
  <2>1. r = [w EXCEPT !.outstream = s] /\ s \in Streams
    BY <1>1, <1>2 DEF Sink!fileout_destroy
  <2>2. r \in Writers /\ Same(w, r) /\ r.outstream = s /\ r.ok = w.ok
    BY ONLY <1>1, <2>1, NewStream
  <2>3. Fits(l, r)
    BY <2>2, SameFits DEF Ready
  <2> QED BY <1>1, <2>2, <2>3, SoundStreams DEF Ready
<1>3. CASE ~w.outstream.failed
  <2>1. r = Flushed(w)
    BY <1>3 DEF Flushed, Sink!fileout_destroy
  <2> QED BY ONLY <2>1, Ready(l, w, c), Flushes
<1> QED BY <1>2, <1>3

\* A file object that takes nothing more is as good as one that has not been asked.
LEMMA Shuts ==
    ASSUME NEW l, NEW w, NEW c, Ready(l, w, c),
           NEW r, r = [w EXCEPT !.outstream = [@ EXCEPT !.room = 0, !.seeks = 0]]
    PROVE  Ready(l, r, c) /\ r.outstream.disk = w.outstream.disk
<1> DEFINE s == w.outstream
           t == [s EXCEPT !.room = 0, !.seeks = 0]
<1>1. w \in Writers /\ s \in Streams /\ Holds(l, s, c) /\ Fits(l, w)
  BY SoundStreams DEF Ready, Fits
<1>2. r = [w EXCEPT !.outstream = t]
  OBVIOUS
<1> HIDE DEF s
<1>3. /\ t \in Streams /\ t.disk = s.disk /\ t.at = s.at /\ t.buf = s.buf /\ t.pos = s.pos
      /\ t.seekable = s.seekable /\ t.failed = s.failed
  BY ONLY <1>1 DEF Streams
<1> HIDE DEF t
<1>4. Stream!Content(t) = Stream!Content(s)
  BY ONLY <1>3 DEF Stream!Content
<1>5. Stream!Sound(t)
  <2>1. Stream!Typed(t)
    BY <1>1, <1>3 DEF Holds, Stream!Sound, Stream!Typed, Streams
  <2>2. Stream!Straight(t)
    BY <1>1, <1>3 DEF Holds, Stream!Sound, Stream!Straight
  <2> QED BY <2>1, <2>2 DEF Stream!Sound
<1>6. Holds(l, t, c)
  BY ONLY <1>1, <1>3, <1>4, <1>5 DEF Holds
<1>7. r \in Writers /\ Same(w, r) /\ r.outstream = t
  BY ONLY <1>1, <1>2, <1>3, NewStream
<1>8. Fits(l, r)
  BY ONLY <1>1, <1>7, SameFits
<1> QED BY <1>3, <1>6, <1>7, <1>8 DEF Ready, s

\* An operation leaves the file as it is, up to the position.
LEMMA FileStays ==
    ASSUME NEW l, NEW w, NEW r, Goes(l, w, r)
    PROVE  /\ w.outstream.disk \in Seq(Unit) /\ r.outstream.disk \in Seq(Unit)
           /\ Len(w.outstream.disk) <= Len(r.outstream.disk)
           /\ \A i \in 1 .. Len(w.outstream.disk) :
                 r.outstream.disk[i] # w.outstream.disk[i] => i = Base + 1 /\ l.seekable
<1>1. PICK c, d : /\ Ready(l, w, c) /\ Ready(l, r, d) /\ Extends(l, c, d)
                  /\ Grows(w.outstream, r.outstream)
  BY DEF Goes
<1> DEFINE s == w.outstream.disk
           t == r.outstream.disk
<1>2. w.outstream \in Streams /\ r.outstream \in Streams /\ c \in Seq(Unit) /\ d \in Seq(Unit)
  BY <1>1, SoundStreams DEF Ready
<1>3. s \in Seq(Unit) /\ t \in Seq(Unit)
  BY <1>2 DEF Streams
<1>4. Lies(l, s, c) /\ Lies(l, t, d) /\ Len(s) <= Len(t)
  BY <1>1 DEF Ready, Holds, Grows
<1> HIDE DEF s, t
<1>5. Len(s) \in Nat /\ Len(t) \in Nat /\ Len(c) \in Nat /\ Len(d) \in Nat
  BY ONLY <1>2, <1>3
<1>6. ASSUME NEW i \in 1 .. Len(s), t[i] # s[i]
      PROVE  i = Base + 1 /\ l.seekable
  <2>1. i \in 1 .. Len(t) /\ i \in 1 .. Len(c)
    BY ONLY <1>4, <1>5, <1>6 DEF Lies
  <2>2. s[i] = c[i] \/ (l.seekable /\ i = Base + 1)
    BY ONLY <1>4, <1>6 DEF Lies
  <2>3. t[i] = d[i] \/ (l.seekable /\ i = Base + 1)
    BY ONLY <1>4, <2>1 DEF Lies
  <2>4. d[i] = c[i] \/ (l.seekable /\ i = Base + 1)
    BY ONLY <1>1, <2>1 DEF Extends
  <2> QED BY ONLY <1>6, <2>2, <2>3, <2>4
<1> QED BY <1>3, <1>4, <1>6 DEF s, t

-----------------------------------------------------------------------------
(* What holds of the writer wherever memory runs out. *)

Bookkeeping ==
    /\ layout \in Layouts /\ state \in {"open", "done", "failed", "dropped"}
    /\ out \in {"none", "ok", "error"}
    /\ written \in Seq(Nat) /\ index = Len(written)
    /\ offered \in Nat /\ index <= offered

\* The writer is one, of a stream that holds something, and while it is open
\* there is room for the position in front of the points.
Going ==
    /\ Bookkeeping
    /\ \E c : Ready(layout, wp, c) /\ (state = "open" => Fronted(layout, c))

LEMMA InitGoing == Init => Going
<1> SUFFICES ASSUME Init PROVE Going
  OBVIOUS
<1>1. PICK room \in Rooms, seeks \in Seeks : wp = Opened(layout, room, seeks)
  BY DEF Init
<1>2. layout \in Layouts
  BY DEF Init
<1>3. Ready(layout, wp, Laid(layout, <<>>))
  BY <1>1, <1>2, Opens
<1>4. Fronted(layout, Laid(layout, <<>>))
  <2>1. <<>> \in Seq(Unit)
    OBVIOUS
  <2> QED BY <2>1, LaidFronted
<1>5. Bookkeeping
  <2>1. <<>> \in Seq(Nat) /\ Len(<<>>) = 0
    OBVIOUS
  <2> QED BY <2>1 DEF Init, Bookkeeping
<1> QED BY <1>3, <1>4, <1>5 DEF Going

\* What the operation comes to is said.
Reports == ~wp.outstream.failed /\ wp'.outstream.failed /\ state' # "dropped" => out' = "error"

LEMMA NextGoing ==
    ASSUME Going, [Next]_wvars
    PROVE  Going' /\ Goes(layout, wp, wp') /\ Reports /\ layout' = layout
<1>1. PICK c : Ready(layout, wp, c) /\ (state = "open" => Fronted(layout, c))
  BY DEF Going
<1>2. Bookkeeping /\ c \in Seq(Unit) /\ <<>> \in Seq(Unit) /\ c \o <<>> = c
  <2>1. Bookkeeping /\ c \in Seq(Unit)
    BY <1>1 DEF Going, Ready, Holds
  <2> QED BY <2>1
<1>3. Goes(layout, wp, wp)
  <2>1. Grows(wp.outstream, wp.outstream)
    BY <1>1, SoundStreams DEF Ready
  <2> QED BY <1>1, <1>2, <2>1, GoesOn
<1>4. ASSUME NEW oom \in Ooms \cup {"no"}, state = "open", offered < MaxPoints,
             wp' = laz_writepoint_write(layout, wp, offered, oom),
             offered' = offered + 1,
             IF wp'.ok THEN index' = index + 1 /\ written' = Append(written, offered)
                       ELSE UNCHANGED <<index, written>>,
             out' = Outcome(wp'), UNCHANGED <<layout, state>>
      PROVE  Going' /\ Goes(layout, wp, wp') /\ Reports /\ layout' = layout
  <2>1. /\ \E u \in Seq(Unit) : Ready(layout, wp', c \o u)
        /\ Grows(wp.outstream, wp'.outstream)
        /\ wp'.outstream.failed => ~wp'.ok
    BY <1>1, <1>2, <1>4, Writes DEF Bookkeeping
  <2>2. PICK u \in Seq(Unit) : Ready(layout, wp', c \o u)
    BY <2>1
  <2>3. Fronted(layout, c \o u)
    BY <1>1, <1>2, <1>4, InFront DEF Fronted
  <2>4. Bookkeeping'
    <3>1. CASE wp'.ok
      <4>1. offered \in Nat /\ written \in Seq(Nat) /\ index = Len(written)
            /\ written' = Append(written, offered) /\ index' = index + 1
            /\ offered' = offered + 1 /\ index <= offered
        BY <1>2, <1>4, <3>1 DEF Bookkeeping
      <4>2. written' \in Seq(Nat) /\ index' = Len(written')
            /\ offered' \in Nat /\ index' <= offered'
        BY ONLY <4>1
      <4> QED BY <1>2, <1>4, <4>2 DEF Bookkeeping, Outcome
    <3>2. CASE ~wp'.ok
      BY <1>2, <1>4, <3>2 DEF Bookkeeping, Outcome
    <3> QED BY <3>1, <3>2
  <2>5. Going'
    BY <1>4, <2>2, <2>3, <2>4 DEF Going
  <2>6. Goes(layout, wp, wp')
    BY <1>1, <2>1, <2>2, GoesOn
  <2> QED BY <1>4, <2>1, <2>5, <2>6 DEF Reports, Outcome
<1>5. ASSUME NEW oom \in Ooms \cup {"no"}, state = "open",
             wp' = laz_writepoint_chunk(layout, wp, oom), out' = Outcome(wp'),
             UNCHANGED <<layout, state, index, offered, written>>
      PROVE  Going' /\ Goes(layout, wp, wp') /\ Reports /\ layout' = layout
  <2>1. /\ \E u \in Seq(Unit) : Ready(layout, wp', c \o u)
        /\ Grows(wp.outstream, wp'.outstream)
        /\ ~wp.outstream.failed /\ wp'.outstream.failed => ~wp'.ok
    BY <1>1, <1>5, Chunks
  <2>2. PICK u \in Seq(Unit) : Ready(layout, wp', c \o u)
    BY <2>1
  <2>3. Fronted(layout, c \o u)
    BY <1>1, <1>2, <1>5, InFront DEF Fronted
  <2>4. Going'
    BY <1>2, <1>5, <2>2, <2>3 DEF Going, Bookkeeping, Outcome
  <2>5. Goes(layout, wp, wp')
    BY <1>1, <2>1, <2>2, GoesOn
  <2> QED BY <1>5, <2>1, <2>4, <2>5 DEF Reports, Outcome
<1>6. ASSUME NEW oom \in Ooms \cup {"no"}, state = "open",
             wp' = laz_writepoint_done(layout, wp, oom), out' = Outcome(wp'),
             state' = IF wp'.ok THEN "done" ELSE "failed",
             UNCHANGED <<layout, index, offered, written>>
      PROVE  Going' /\ Goes(layout, wp, wp') /\ Reports /\ layout' = layout
  <2>1. Fronted(layout, c)
    BY <1>1, <1>6
  <2>2. Ended(layout, wp, c, wp')
    BY <1>1, <1>6, <2>1, Finishes DEF Fronted
  <2>3. Goes(layout, wp, wp')
    BY <1>1, <2>1, <2>2, EndsWell
  <2>4. \E d : Ready(layout, wp', d)
    BY <2>3 DEF Goes
  <2>5. Going'
    BY <1>2, <1>6, <2>4 DEF Going, Bookkeeping, Outcome
  <2>6. wp'.outstream.failed => ~wp'.ok
    BY <2>2 DEF Ended
  <2> QED BY <1>6, <2>3, <2>5, <2>6 DEF Reports, Outcome
<1>7. CASE Refuse
  <2>1. UNCHANGED <<layout, wp, state, index, offered, written>> /\ out' = "error"
        /\ state # "open"
    BY <1>7 DEF Refuse
  <2>2. Going'
    BY <1>1, <1>2, <2>1 DEF Going, Bookkeeping
  <2> QED BY <1>3, <2>1, <2>2 DEF Reports
<1>8. CASE Dropped
  <2>1. /\ wp' = [wp EXCEPT !.outstream = Sink!fileout_destroy(@)]
        /\ state' = "dropped" /\ out' = "none"
        /\ UNCHANGED <<layout, index, offered, written>>
    BY <1>8 DEF Dropped
  <2>2. Ready(layout, wp', c) /\ Grows(wp.outstream, wp'.outstream)
    BY <1>1, <2>1, Drops
  <2>3. Going'
    BY <1>2, <2>1, <2>2 DEF Going, Bookkeeping
  <2>4. Goes(layout, wp, wp')
    BY <1>1, <1>2, <2>2, GoesOn
  <2> QED BY <2>1, <2>3, <2>4 DEF Reports
<1>9. CASE UNCHANGED wvars
  <2>1. UNCHANGED <<layout, wp, state, index, offered, written, out>>
    BY <1>9 DEF wvars
  <2>2. Going'
    BY <1>1, <1>2, <2>1 DEF Going, Bookkeeping
  <2> QED BY <1>3, <2>1, <2>2 DEF Reports
<1>10. CASE Writer_write
  BY <1>4, <1>10 DEF Writer_write
<1>11. CASE Writer_chunk
  BY <1>5, <1>11 DEF Writer_chunk
<1>12. CASE Writer_done
  BY <1>6, <1>12 DEF Writer_done
<1> QED BY <1>7, <1>8, <1>9, <1>10, <1>11, <1>12 DEF Next

\* What the caller wrote before is there from the start, and stays.
StartsAsItDid ==
    /\ Base <= Len(wp.outstream.disk)
    /\ \A i \in 1 .. Base : wp.outstream.disk[i] = Preface[i]

LEMMA InitBegun == Init => StartsAsItDid
<1> SUFFICES ASSUME Init PROVE StartsAsItDid
  OBVIOUS
<1> DEFINE d == wp.outstream.disk
           c == Laid(layout, <<>>)
<1>1. PICK room \in Rooms, seeks \in Seeks : wp = Opened(layout, room, seeks)
  BY DEF Init
<1>2. layout \in Layouts
  BY DEF Init
<1>3. Ready(layout, wp, c) /\ Base <= Len(d)
  BY <1>1, <1>2, Opens
<1>4. d \in Seq(Unit) /\ Base \in Nat /\ Preface \in Seq(Unit) /\ Len(Preface) = Base
  BY <1>3, PrefaceUnits, SoundStreams DEF Ready, Streams
<1>5. \A i \in 1 .. Base : c[i] = Preface[i]
  <2>1. <<>> \in Seq(Unit)
    OBVIOUS
  <2>2. CASE ~Chunked(layout)
    BY <1>4, <2>1, <2>2, EndToEnd DEF Laid
  <2>3. CASE Chunked(layout)
    <3> DEFINE y == <<Placeholder(layout)>>
               f == Preface \o y
    <3>1. y \in Seq(Unit) /\ f \in Seq(Unit) /\ Len(f) = Base + 1
      BY PlaceholderUnits
    <3> HIDE DEF y
    <3>2. \A i \in 1 .. Base : f[i] = Preface[i]
      BY <1>4, <3>1, EndToEnd
    <3> HIDE DEF f
    <3>3. \A i \in 1 .. Base + 1 : (f \o <<>>)[i] = f[i]
      BY <2>1, <3>1, EndToEnd
    <3>4. c = f \o <<>>
      BY <2>3 DEF Laid, f, y
    <3> HIDE DEF c
    <3> QED BY ONLY <1>4, <3>2, <3>3, <3>4
  <2> QED BY <2>2, <2>3
<1>6. \A i \in 1 .. Base : d[i] = c[i]
  <2> TAKE i \in 1 .. Base
  <2>1. i \in 1 .. Len(d) /\ i # Base + 1
    BY <1>3, <1>4
  <2> QED BY <1>3, <2>1 DEF Ready, Holds, Lies
<1> QED BY <1>3, <1>5, <1>6 DEF StartsAsItDid

LEMMA NextBegun ==
    ASSUME Going, StartsAsItDid, [Next]_wvars
    PROVE  StartsAsItDid'
<1> DEFINE d == wp.outstream.disk
           e == wp'.outstream.disk
<1>1. Goes(layout, wp, wp')
  BY NextGoing
<1>2. /\ d \in Seq(Unit) /\ e \in Seq(Unit) /\ Len(d) <= Len(e)
      /\ \A i \in 1 .. Len(d) : e[i] # d[i] => i = Base + 1 /\ layout.seekable
  BY <1>1, FileStays
<1>3. Base \in Nat /\ Base <= Len(d) /\ \A i \in 1 .. Base : d[i] = Preface[i]
  BY PrefaceUnits DEF StartsAsItDid
<1> HIDE DEF d, e
<1>4. Base <= Len(e)
  BY <1>2, <1>3
<1>5. \A i \in 1 .. Base : e[i] = Preface[i]
  <2> TAKE i \in 1 .. Base
  <2>1. i \in 1 .. Len(d) /\ i # Base + 1
    BY <1>2, <1>3
  <2> QED BY <1>2, <1>3, <2>1
<1> QED BY <1>4, <1>5 DEF StartsAsItDid, d, e

LEMMA GoingTypeOK == Going => TypeOK
<1> SUFFICES ASSUME Going PROVE TypeOK
  OBVIOUS
<1>1. PICK c : Ready(layout, wp, c)
  BY DEF Going
<1>2. Fits(layout, wp) /\ wp \in Writers /\ Bookkeeping
  BY <1>1 DEF Going, Ready, Fits
<1>3. \A S : \A x \in Seq(S) : x \in [1 .. Len(x) -> S]
  OBVIOUS
<1>4. wp.chunk_bytes \in [1 .. wp.number_chunks -> 0 .. U32_MAX]
  <2>1. wp.chunk_bytes \in Seq(0 .. U32_MAX) /\ Len(wp.chunk_bytes) = wp.number_chunks
    BY <1>2 DEF Fits, Writers
  <2> QED BY ONLY <1>3, <2>1
<1>5. wp.chunk_sizes \in [1 .. (IF wp.chunk_size = U32_MAX THEN wp.number_chunks ELSE 0)
                            -> 1 .. U32_MAX]
  <2>1. /\ wp.chunk_sizes \in Seq(1 .. U32_MAX)
        /\ Len(wp.chunk_sizes) = IF wp.chunk_size = U32_MAX THEN wp.number_chunks ELSE 0
    BY <1>2 DEF Fits, Writers
  <2> QED BY ONLY <1>3, <2>1
<1>6. /\ wp.chunk_count \in 0 .. wp.chunk_size /\ wp.chunk_size \in 1 .. U32_MAX
      /\ wp.number_chunks \in 0 .. wp.alloced_chunks
  <2>1. /\ wp.chunk_count <= wp.chunk_size /\ wp.number_chunks <= wp.alloced_chunks
        /\ wp.chunk_count \in Nat /\ wp.number_chunks \in Nat /\ wp.alloced_chunks \in Nat
        /\ wp.chunk_size \in 1 .. U32_MAX
    BY <1>2 DEF Fits, Writers
  <2>2. U32_MAX \in Nat
    BY WriterAssumption
  <2> QED BY ONLY <2>1, <2>2
<1>7. /\ wp.writers \in {"NULL", "raw", "compressed"} /\ wp.chunk_start_position \in Nat
      /\ wp.chunk_table_start_position \in Nat \cup {-1}
      /\ wp.ok \in BOOLEAN /\ wp.layers_failed \in BOOLEAN
  BY <1>2 DEF Writers
<1> QED BY <1>2, <1>4, <1>5, <1>6, <1>7 DEF TypeOK, Bookkeeping

\* The writer's counters, its table and what the binding counts agree, whatever
\* the calls of write(), chunk() and done() come to (laz_writepoint.c,
\* cpylaz_writer.c).
THEOREM WriterTypes == Spec => []TypeOK
<1>1. Going /\ [Next]_wvars => Going'
  BY NextGoing
<1> QED BY <1>1, InitGoing, GoingTypeOK, PTL DEF Spec

\* A call in which the file object raises does not return as though it worked
\* (laz_writepoint_write, _chunk and _done).
THEOREM WriterReportsFailures == Spec => ReportsFailures
<1>1. Going /\ [Next]_wvars => Going'
  BY NextGoing
<1>2. Going /\ [Next]_wvars
        => [~wp.outstream.failed /\ wp'.outstream.failed /\ state' # "dropped"
              => out' = "error"]_wvars
  BY NextGoing DEF Reports
<1> QED BY <1>1, <1>2, InitGoing, PTL DEF Spec, ReportsFailures

\* Nothing in the file changes but the position in front of the points, and that
\* only where the file can be gone back in (write_chunk_table, fileout_seek).
THEOREM WriterPatchesOnlyThePlaceholder == Spec => OnlyThePlaceholderIsPatched
<1>1. Going /\ [Next]_wvars => Going'
  BY NextGoing
<1>2. Going /\ [Next]_wvars
        => [LET disk == wp.outstream.disk
            IN  \A i \in DOMAIN disk : /\ i \in DOMAIN wp'.outstream.disk
                                       /\ wp'.outstream.disk[i] # disk[i]
                                            => i = Base + 1 /\ layout.seekable]_wvars
  <2> SUFFICES ASSUME Going, [Next]_wvars, NEW i \in DOMAIN wp.outstream.disk
               PROVE  /\ i \in DOMAIN wp'.outstream.disk
                      /\ wp'.outstream.disk[i] # wp.outstream.disk[i]
                           => i = Base + 1 /\ layout.seekable
    OBVIOUS
  <2>1. Goes(layout, wp, wp')
    BY NextGoing
  <2> DEFINE s == wp.outstream.disk
             t == wp'.outstream.disk
  <2>2. /\ s \in Seq(Unit) /\ t \in Seq(Unit) /\ Len(s) <= Len(t)
        /\ \A k \in 1 .. Len(s) : t[k] # s[k] => k = Base + 1 /\ layout.seekable
    BY <2>1, FileStays
  <2>3. i \in DOMAIN s
    OBVIOUS
  <2> HIDE DEF s, t
  <2>4. DOMAIN s = 1 .. Len(s) /\ DOMAIN t = 1 .. Len(t) /\ Len(s) \in Nat /\ Len(t) \in Nat
    BY ONLY <2>2
  <2>5. i \in 1 .. Len(s) /\ i \in 1 .. Len(t)
    BY ONLY <2>2, <2>3, <2>4
  <2>6. i \in DOMAIN t /\ (t[i] # s[i] => i = Base + 1 /\ layout.seekable)
    BY ONLY <2>2, <2>4, <2>5
  <2> QED BY <2>6 DEF s, t
<1> QED BY <1>1, <1>2, InitGoing, PTL DEF Spec, OnlyThePlaceholderIsPatched
=============================================================================
