--------------------------- MODULE FileSinkProofs ---------------------------
(***************************************************************************)
(* Proof that the buffered output stream implements a file with no buffer  *)
(* (ImplementsByteFile), for every buffer size, every file object and      *)
(* every sequence of puts, flushes and seeks; on the way, its type         *)
(* invariant and that its position is the file object's with the staged    *)
(* bytes behind it (TypeOK, KeepsPosition), and that it never touches the  *)
(* file object again once that has raised (FailedIsInert).                 *)
(*                                                                         *)
(* The inductive invariant is Sound, a predicate on the stream's record:   *)
(* its type and KeepsPosition.  What the stream means, Content, is an      *)
(* overlay of the staged bytes on the disk, so that the refinement comes   *)
(* down to how overlays compose, which is proved first.                    *)
(***************************************************************************)
EXTENDS FileSink, SequenceTheorems, TLAPS

-----------------------------------------------------------------------------
(* About overlays. *)

\* Writing inside a sequence, or at its end, makes a sequence.
LEMMA OverlayIsASeq ==
    ASSUME NEW S, NEW d \in Seq(S), NEW b \in Seq(S), NEW at \in 0 .. Len(d)
    PROVE  /\ Overlay(d, at, b) \in Seq(S)
           /\ Len(Overlay(d, at, b)) = Longer(Len(d), at + Len(b))
<1> DEFINE n == Longer(Len(d), at + Len(b))
           e(i) == IF i > at /\ i <= at + Len(b) THEN b[i - at] ELSE d[i]
<1>1. n \in Nat
  BY DEF Longer
<1>2. ASSUME NEW i \in 1 .. n PROVE e(i) \in S
  <2>1. CASE i > at /\ i <= at + Len(b)
    <3>1. i - at \in 1 .. Len(b)
      BY <2>1
    <3> QED BY <2>1, <3>1
  <2>2. CASE ~(i > at /\ i <= at + Len(b))
    <3>1. i \in 1 .. Len(d)
      BY <2>2 DEF Longer
    <3> QED BY <2>2, <3>1
  <2> QED BY <2>1, <2>2
<1>3. [i \in 1 .. n |-> e(i)] \in Seq(S) /\ Len([i \in 1 .. n |-> e(i)]) = n
  <2> HIDE DEF e, n
  <2> QED BY <1>1, <1>2, IsASeq
<1> QED BY <1>3 DEF Overlay

\* What was written is there.
LEMMA OverlayHolds ==
    ASSUME NEW S, NEW d \in Seq(S), NEW b \in Seq(S), NEW at \in 0 .. Len(d)
    PROVE  SubSeq(Overlay(d, at, b), at + 1, at + Len(b)) = b
<1> DEFINE o == Overlay(d, at, b)
           u == SubSeq(o, at + 1, at + Len(b))
<1>1. o \in Seq(S) /\ Len(o) = Longer(Len(d), at + Len(b))
  BY OverlayIsASeq
<1>2. at + Len(b) <= Len(o) /\ at + 1 \in 1 .. Len(o) + 1 /\ at + Len(b) \in at .. Len(o)
  BY <1>1 DEF Longer
<1>3. \A i \in 1 .. Len(b) : o[at + i] = b[i]
  <2> TAKE i \in 1 .. Len(b)
  <2>1. at + i \in 1 .. Longer(Len(d), at + Len(b)) /\ at + i > at
        /\ at + i <= at + Len(b) /\ (at + i) - at = i
    BY DEF Longer
  <2> QED BY <2>1 DEF Overlay
<1> HIDE DEF o
<1>4. u \in Seq(S) /\ Len(u) = Len(b) /\ \A i \in 1 .. Len(b) : u[i] = o[at + i]
  BY <1>1, <1>2
<1>5. u = b
  <2> HIDE DEF u
  <2> QED BY <1>3, <1>4, SeqEqual
<1> QED BY <1>5 DEF o

\* Writing nothing changes nothing.
LEMMA OverlayNothing ==
    ASSUME NEW S, NEW d \in Seq(S), NEW at \in 0 .. Len(d)
    PROVE  Overlay(d, at, <<>>) = d
<1>1. Overlay(d, at, <<>>) = [i \in 1 .. Len(d) |-> d[i]]
  BY DEF Overlay, Longer
<1> QED BY <1>1

\* Writing on from where a write ended is one longer write.
LEMMA OverlayTwice ==
    ASSUME NEW S, NEW d \in Seq(S), NEW b \in Seq(S), NEW c \in Seq(S),
           NEW at \in 0 .. Len(d)
    PROVE  Overlay(Overlay(d, at, b), at + Len(b), c) = Overlay(d, at, b \o c)
<1> DEFINE o == Overlay(d, at, b)
           n == Longer(Len(d), at + Len(b \o c))
           l(i) == IF i > at + Len(b) /\ i <= at + Len(b) + Len(c)
                   THEN c[i - (at + Len(b))] ELSE o[i]
           r(i) == IF i > at /\ i <= at + Len(b \o c) THEN (b \o c)[i - at] ELSE d[i]
<1>1. o \in Seq(S) /\ Len(o) = Longer(Len(d), at + Len(b))
  BY OverlayIsASeq
<1>2. b \o c \in Seq(S) /\ Len(b \o c) = Len(b) + Len(c)
  OBVIOUS
<1>3. Longer(Len(o), at + Len(b) + Len(c)) = n
  BY <1>1, <1>2 DEF Longer
<1>4. ASSUME NEW i \in 1 .. n PROVE l(i) = r(i)
  <2>1. CASE i > at + Len(b) /\ i <= at + Len(b) + Len(c)
    <3>1. i - at \in 1 .. Len(b) + Len(c) /\ i - at > Len(b)
          /\ (i - at) - Len(b) = i - (at + Len(b))
      BY <2>1
    <3>2. (b \o c)[i - at] = c[(i - at) - Len(b)]
      BY <3>1
    <3>3. i > at /\ i <= at + Len(b \o c)
      BY <1>2, <2>1
    <3> HIDE DEF o
    <3> QED BY <2>1, <3>1, <3>2, <3>3
  <2>2. CASE i > at /\ i <= at + Len(b)
    <3>1. i \in 1 .. Longer(Len(d), at + Len(b)) /\ i - at \in 1 .. Len(b)
      BY <2>2 DEF Longer
    <3>2. o[i] = b[i - at]
      BY <2>2, <3>1 DEF Overlay
    <3>3. (b \o c)[i - at] = b[i - at]
      BY <3>1
    <3>4. i <= at + Len(b \o c) /\ ~(i > at + Len(b))
      BY <1>2, <2>2
    <3> HIDE DEF o
    <3> QED BY <2>2, <3>2, <3>3, <3>4
  <2>3. CASE ~(i > at /\ i <= at + Len(b) + Len(c))
    <3>1. i \in 1 .. Longer(Len(d), at + Len(b)) /\ ~(i > at /\ i <= at + Len(b))
      BY <1>2, <2>3 DEF Longer
    <3>2. o[i] = d[i]
      BY <3>1 DEF Overlay
    <3> HIDE DEF o
    <3> QED BY <1>2, <2>3, <3>2
  <2> QED BY <2>1, <2>2, <2>3
<1>5. [i \in 1 .. n |-> l(i)] = [i \in 1 .. n |-> r(i)]
  <2> HIDE DEF l, r, n
  <2> QED BY <1>4
<1>6. Overlay(o, at + Len(b), c) = [i \in 1 .. n |-> l(i)]
  <2> HIDE DEF o, n
  <2> QED BY <1>3 DEF Overlay
<1> QED BY <1>5, <1>6 DEF Overlay

-----------------------------------------------------------------------------
(* The stream's operators. *)

\* The stream's type, KeepsPosition, and both of them.
Typed(s) ==
    /\ s \in [disk : Seq(Byte), at : Nat, room : Nat, seeks : Nat, buf : Seq(Byte),
              pos : Nat, seekable : BOOLEAN, failed : BOOLEAN]
    /\ Len(s.buf) <= FILE_BUF_SIZE

Straight(s) == ~s.failed => s.pos = s.at + Len(s.buf) /\ s.at <= Len(s.disk)

Sound(s) == Typed(s) /\ Straight(s)

\* A stream is inside the file it stands for.
LEMMA ContentReachesPosition ==
    ASSUME NEW s, Sound(s), ~s.failed
    PROVE  /\ Content(s) \in Seq(Byte)
           /\ s.pos \in 0 .. Len(Content(s)) /\ s.at \in 0 .. Len(s.disk)
<1>1. s.at \in 0 .. Len(s.disk) /\ s.disk \in Seq(Byte) /\ s.buf \in Seq(Byte)
      /\ s.pos = s.at + Len(s.buf)
  BY DEF Sound, Typed, Straight
<1>2. /\ Content(s) \in Seq(Byte)
      /\ Len(Content(s)) = Longer(Len(s.disk), s.at + Len(s.buf))
  BY <1>1, OverlayIsASeq DEF Content
<1> QED BY <1>1, <1>2 DEF Longer

\* Emitting what was staged where the file object stands moves it behind that.
LEMMA Emit ==
    ASSUME NEW s, NEW bytes \in Seq(Byte), Sound(s)
    PROVE  LET t == fileout_emit(s, bytes)
           IN  /\ t \in [disk : Seq(Byte), at : Nat, room : Nat, seeks : Nat,
                          buf : Seq(Byte), pos : Nat, seekable : BOOLEAN,
                          failed : BOOLEAN]
               /\ t.buf = s.buf /\ t.pos = s.pos /\ t.seekable = s.seekable
               /\ t.seeks = s.seeks
               /\ s.failed => t = s
               /\ ~t.failed => /\ ~s.failed
                               /\ t.disk = Overlay(s.disk, s.at, bytes)
                               /\ t.at = s.at + Len(bytes) /\ t.at <= Len(t.disk)
<1> DEFINE t == fileout_emit(s, bytes)
           taken == IF Len(bytes) <= s.room THEN bytes ELSE SubSeq(bytes, 1, s.room)
<1>1. CASE s.failed
  <2>1. t = s
    BY <1>1 DEF fileout_emit
  <2> QED BY <1>1, <2>1 DEF Sound, Typed
<1>2. CASE ~s.failed
  <2>1. s.at \in 0 .. Len(s.disk) /\ s.disk \in Seq(Byte) /\ s.room \in Nat
    BY <1>2 DEF Sound, Typed, Straight
  <2>2. taken \in Seq(Byte) /\ Len(taken) <= s.room
        /\ (Len(bytes) <= s.room => taken = bytes)
    BY <2>1
  <2>3. /\ Overlay(s.disk, s.at, taken) \in Seq(Byte)
        /\ Len(Overlay(s.disk, s.at, taken)) = Longer(Len(s.disk), s.at + Len(taken))
    BY <2>1, <2>2, OverlayIsASeq
  <2>4. t = [s EXCEPT !.disk = Overlay(s.disk, s.at, taken),
                      !.at = s.at + Len(taken),
                      !.room = s.room - Len(taken),
                      !.failed = Len(bytes) > s.room]
    BY <1>2 DEF fileout_emit
  <2>5. s.at + Len(taken) \in Nat /\ s.room - Len(taken) \in Nat
        /\ s.at + Len(taken) <= Len(Overlay(s.disk, s.at, taken))
    <3>1. /\ s.at \in Nat /\ Len(taken) \in Nat /\ s.room \in Nat
          /\ Len(s.disk) \in Nat /\ Len(taken) <= s.room
      BY <2>1, <2>2
    <3>2. Longer(Len(s.disk), s.at + Len(taken)) >= s.at + Len(taken)
      BY <3>1 DEF Longer
    <3> HIDE DEF taken
    <3> QED BY <2>3, <3>1, <3>2
  <2>6. (Len(bytes) > s.room) \in BOOLEAN /\ (~(Len(bytes) > s.room) => taken = bytes)
    BY <2>1, <2>2
  <2> HIDE DEF t, taken
  <2>7. t \in [disk : Seq(Byte), at : Nat, room : Nat, seeks : Nat, buf : Seq(Byte),
               pos : Nat, seekable : BOOLEAN, failed : BOOLEAN]
    BY <2>3, <2>4, <2>5, <2>6 DEF Sound, Typed
  <2>8. /\ t.buf = s.buf /\ t.pos = s.pos /\ t.seekable = s.seekable
        /\ t.seeks = s.seeks
        /\ t.disk = Overlay(s.disk, s.at, taken) /\ t.at = s.at + Len(taken)
        /\ (t.failed <=> Len(bytes) > s.room)
    BY <2>4 DEF Sound, Typed
  <2> QED BY <1>2, <2>5, <2>6, <2>7, <2>8 DEF t
<1> QED BY <1>1, <1>2

\* Flushing leaves the file that the stream stands for as it was.
LEMMA Flush ==
    ASSUME NEW s, Sound(s)
    PROVE  LET t == fileout_flush(s)
           IN  /\ Sound(t) /\ t.buf = <<>> /\ t.seekable = s.seekable
               /\ s.failed => t.failed /\ t.disk = s.disk
               /\ ~t.failed => /\ ~s.failed /\ t.pos = s.pos /\ t.at = s.pos
                               /\ t.disk = Content(s) /\ Content(t) = Content(s)
<1> DEFINE e == fileout_emit(s, s.buf)
           t == fileout_flush(s)
<1>0. s.buf \in Seq(Byte) /\ FILE_BUF_SIZE \in Nat
  BY SinkAssumption DEF Sound, Typed
<1>1. /\ e \in [disk : Seq(Byte), at : Nat, room : Nat, seeks : Nat, buf : Seq(Byte),
                 pos : Nat, seekable : BOOLEAN, failed : BOOLEAN]
      /\ e.pos = s.pos /\ e.seekable = s.seekable
      /\ s.failed => e = s
      /\ ~e.failed => /\ ~s.failed
                      /\ e.disk = Overlay(s.disk, s.at, s.buf)
                      /\ e.at = s.at + Len(s.buf) /\ e.at <= Len(e.disk)
  BY <1>0, Emit
<1>2. t = [e EXCEPT !.buf = <<>>]
  BY DEF fileout_flush
<1> HIDE DEF e, t
<1>3. /\ Typed(t) /\ t.buf = <<>> /\ t.disk = e.disk /\ t.at = e.at /\ t.pos = e.pos
      /\ t.failed = e.failed /\ t.seekable = e.seekable
  <2>1. <<>> \in Seq(Byte) /\ Len(<<>>) = 0
    BY EmptySeq
  <2>2. /\ t \in [disk : Seq(Byte), at : Nat, room : Nat, seeks : Nat, buf : Seq(Byte),
                   pos : Nat, seekable : BOOLEAN, failed : BOOLEAN]
        /\ t.buf = <<>> /\ t.disk = e.disk /\ t.at = e.at /\ t.pos = e.pos
        /\ t.failed = e.failed /\ t.seekable = e.seekable
    BY <1>1, <1>2, <2>1
  <2>3. Len(t.buf) <= FILE_BUF_SIZE
    BY <1>0, <2>1, <2>2
  <2> QED BY <2>2, <2>3 DEF Typed
<1>4. CASE t.failed
  <2>1. Sound(t) /\ (s.failed => t.failed /\ t.disk = s.disk)
    BY <1>1, <1>3, <1>4 DEF Sound, Straight
  <2> QED BY <1>1, <1>3, <1>4, <2>1 DEF t
<1>5. CASE ~t.failed
  <2>1. s.pos = s.at + Len(s.buf) /\ s.at \in Nat /\ s.pos \in Nat
    BY <1>1, <1>3, <1>5 DEF Sound, Straight, Typed
  <2>2. t.pos = s.pos /\ t.at = s.pos /\ t.disk = Content(s) /\ t.at <= Len(t.disk)
    BY <1>1, <1>3, <1>5, <2>1 DEF Content
  <2>3. Sound(t)
    BY <1>3, <2>1, <2>2 DEF Sound, Straight
  <2>4. t.disk \in Seq(Byte) /\ t.at \in 0 .. Len(t.disk)
    BY <1>3, <1>5, <2>3, ContentReachesPosition DEF Typed
  <2>5. Content(t) = t.disk
    BY <1>3, <2>4, OverlayNothing DEF Content
  <2> QED BY <1>1, <1>3, <1>5, <2>2, <2>3, <2>5 DEF t
<1> QED BY <1>4, <1>5

\* Putting bytes writes them where the stream stands, in the file it stands for.
LEMMA PutBytes ==
    ASSUME NEW s, NEW bytes \in Seq(Byte), Sound(s)
    PROVE  LET t == fileout_put_bytes(s, bytes)
           IN  /\ Sound(t)
               /\ s.failed => t = s
               /\ ~t.failed => /\ ~s.failed /\ t.pos = s.pos + Len(bytes)
                               /\ Content(t) = Overlay(Content(s), s.pos, bytes)
<1> DEFINE t == fileout_put_bytes(s, bytes)
           full == Len(s.buf) + Len(bytes) > FILE_BUF_SIZE
           u == IF full THEN fileout_flush(s) ELSE s
<1> SUFFICES /\ Sound(t)
             /\ s.failed => t = s
             /\ ~t.failed => /\ ~s.failed /\ t.pos = s.pos + Len(bytes)
                             /\ Content(t) = Overlay(Content(s), s.pos, bytes)
  OBVIOUS
<1>1. /\ FILE_BUF_SIZE \in Nat /\ Len(s.buf) \in Nat /\ Len(bytes) \in Nat
      /\ s.pos \in Nat
  BY SinkAssumption DEF Sound, Typed
<1>2. CASE s.failed \/ bytes = <<>>
  <2>1. t = s
    BY <1>2 DEF fileout_put_bytes
  <2>2. CASE ~s.failed
    <3>1. Content(s) \in Seq(Byte) /\ s.pos \in 0 .. Len(Content(s))
      BY <2>2, ContentReachesPosition
    <3>2. bytes = <<>> /\ Len(<<>>) = 0
      BY <1>2, <2>2
    <3> QED BY <1>1, <2>1, <2>2, <3>1, <3>2, OverlayNothing
  <2> QED BY <2>1, <2>2
<1>3. CASE ~(s.failed \/ bytes = <<>>)
  <2>1. /\ Sound(u) /\ u.pos \in Nat
        /\ (full => u.buf = <<>>)
        /\ Len(u.buf) + Len(bytes) <= FILE_BUF_SIZE \/ Len(bytes) > FILE_BUF_SIZE
        /\ Len(bytes) > FILE_BUF_SIZE => u.buf = <<>>
        /\ ~u.failed => u.pos = s.pos /\ Content(u) = Content(s)
    <3>1. CASE full
      <4>1. /\ Sound(u) /\ u.buf = <<>>
            /\ ~u.failed => u.pos = s.pos /\ Content(u) = Content(s)
        BY <3>1, Flush
      <4>2. Len(u.buf) = 0
        BY <4>1
      <4> HIDE DEF u
      <4> QED BY <1>1, <3>1, <4>1, <4>2 DEF Sound, Typed
    <3>2. CASE ~full
      BY <1>1, <3>2 DEF Sound, Typed
    <3> QED BY <3>1, <3>2
  <2> HIDE DEF u
  <2>2. CASE Len(bytes) > FILE_BUF_SIZE
    <3> DEFINE e == fileout_emit(u, bytes)
    <3>1. /\ e \in [disk : Seq(Byte), at : Nat, room : Nat, seeks : Nat,
                     buf : Seq(Byte), pos : Nat, seekable : BOOLEAN, failed : BOOLEAN]
          /\ e.buf = u.buf
          /\ ~e.failed => /\ ~u.failed
                          /\ e.disk = Overlay(u.disk, u.at, bytes)
                          /\ e.at = u.at + Len(bytes) /\ e.at <= Len(e.disk)
      BY <2>1, Emit
    <3>2. t = [e EXCEPT !.pos = s.pos + Len(bytes)]
      BY <1>3, <2>2 DEF fileout_put_bytes, u
    <3> HIDE DEF e, t
    <3>3. u.buf = <<>> /\ Len(<<>>) = 0 /\ s.pos + Len(bytes) \in Nat
      BY <1>1, <2>1, <2>2
    <3>4. /\ t \in [disk : Seq(Byte), at : Nat, room : Nat, seeks : Nat,
                     buf : Seq(Byte), pos : Nat, seekable : BOOLEAN, failed : BOOLEAN]
          /\ t.buf = <<>> /\ t.disk = e.disk /\ t.at = e.at
          /\ t.pos = s.pos + Len(bytes) /\ t.failed = e.failed
      BY <3>1, <3>2, <3>3
    <3>5. Typed(t)
      <4>1. Len(t.buf) <= FILE_BUF_SIZE
        BY <1>1, <3>3, <3>4
      <4> QED BY <3>4, <4>1 DEF Typed
    <3>6. CASE ~t.failed
      <4>1. /\ ~u.failed /\ u.at \in Nat /\ u.disk \in Seq(Byte)
            /\ u.pos = u.at + Len(u.buf) /\ u.at \in 0 .. Len(u.disk)
        BY <2>1, <3>1, <3>4, <3>6 DEF Sound, Straight, Typed
      <4>2. u.pos = s.pos /\ u.pos = u.at /\ Content(u) = Content(s)
        BY <2>1, <3>3, <4>1
      <4>3. Content(u) = u.disk
        BY <3>3, <4>1, OverlayNothing DEF Content
      <4>4. t.disk = Overlay(Content(s), s.pos, bytes) /\ t.at = s.pos + Len(bytes)
            /\ t.at <= Len(t.disk)
        BY <3>1, <3>4, <3>6, <4>2, <4>3
      <4>5. Straight(t)
        BY <1>1, <3>3, <3>4, <4>4 DEF Straight
      <4>6. t.disk \in Seq(Byte) /\ t.at \in 0 .. Len(t.disk)
        BY <3>4, <4>4
      <4>7. Content(t) = t.disk
        BY <3>4, <4>6, OverlayNothing DEF Content
      <4> QED BY <1>3, <3>4, <3>5, <4>4, <4>5, <4>7 DEF Sound
    <3>7. CASE t.failed
      BY <1>3, <3>5, <3>7 DEF Sound, Straight
    <3> QED BY <3>6, <3>7
  <2>3. CASE Len(bytes) <= FILE_BUF_SIZE
    <3> DEFINE staged == u.buf \o bytes
    <3>1. t = [u EXCEPT !.buf = staged, !.pos = s.pos + Len(bytes)]
      BY <1>1, <1>3, <2>3 DEF fileout_put_bytes, u
    <3>2. /\ u.buf \in Seq(Byte) /\ staged \in Seq(Byte)
          /\ Len(staged) = Len(u.buf) + Len(bytes) /\ Len(staged) <= FILE_BUF_SIZE
          /\ s.pos + Len(bytes) \in Nat
      <4>1. u.buf \in Seq(Byte)
        BY <2>1 DEF Sound, Typed
      <4>2. /\ staged \in Seq(Byte)
            /\ Len(staged) = Len(u.buf) + Len(bytes)
        BY <4>1
      <4>3. Len(u.buf) + Len(bytes) <= FILE_BUF_SIZE
        <5>1. Len(bytes) \in Nat
          OBVIOUS
        <5> QED BY <1>1, <2>1, <2>3, <5>1
      <4>4. s.pos + Len(bytes) \in Nat
        BY <1>1
      <4> HIDE DEF staged
      <4> QED BY <4>1, <4>2, <4>3, <4>4
    <3> HIDE DEF staged, t
    <3>3. /\ t \in [disk : Seq(Byte), at : Nat, room : Nat, seeks : Nat,
                     buf : Seq(Byte), pos : Nat, seekable : BOOLEAN, failed : BOOLEAN]
          /\ t.buf = staged /\ t.disk = u.disk /\ t.at = u.at
          /\ t.pos = s.pos + Len(bytes) /\ t.failed = u.failed
      BY <2>1, <3>1, <3>2 DEF Sound, Typed
    <3>4. Typed(t)
      BY <3>2, <3>3 DEF Typed
    <3>5. CASE ~t.failed
      <4>1. /\ ~u.failed /\ u.at \in Nat /\ u.disk \in Seq(Byte)
            /\ u.pos = u.at + Len(u.buf) /\ u.at \in 0 .. Len(u.disk)
            /\ u.at <= Len(u.disk)
        BY <2>1, <3>3, <3>5 DEF Sound, Straight, Typed
      <4>2. u.pos = s.pos /\ Content(u) = Content(s)
        BY <2>1, <4>1
      <4>3. Straight(t)
        <5>1. /\ Len(u.buf) \in Nat /\ Len(bytes) \in Nat
              /\ Len(t.buf) = Len(u.buf) + Len(bytes)
          BY <1>1, <3>2, <3>3
        <5>2. t.pos = (u.at + Len(u.buf)) + Len(bytes) /\ u.at \in Nat
          BY <3>3, <4>1, <4>2
        <5>3. t.pos = t.at + Len(t.buf)
          BY <3>3, <5>1, <5>2
        <5>4. t.at <= Len(t.disk)
          BY <3>3, <4>1
        <5> QED BY <5>3, <5>4 DEF Straight
      <4>4. Content(t) = Overlay(Overlay(u.disk, u.at, u.buf), u.at + Len(u.buf), bytes)
        <5>1. \A d, b, c \in Seq(Byte) : \A at \in 0 .. Len(d) :
                 Overlay(Overlay(d, at, b), at + Len(b), c) = Overlay(d, at, b \o c)
          BY OverlayTwice
        <5>2. u.disk \in Seq(Byte) /\ u.buf \in Seq(Byte) /\ u.at \in 0 .. Len(u.disk)
          BY <3>2, <4>1
        <5>3. Overlay(Overlay(u.disk, u.at, u.buf), u.at + Len(u.buf), bytes)
              = Overlay(u.disk, u.at, staged)
          BY <5>1, <5>2 DEF staged
        <5> QED BY <3>3, <5>3 DEF Content
      <4>5. Content(t) = Overlay(Content(s), s.pos, bytes)
        BY <4>1, <4>2, <4>4 DEF Content
      <4> QED BY <1>3, <3>3, <3>4, <4>3, <4>5 DEF Sound
    <3>6. CASE t.failed
      BY <1>3, <3>4, <3>6 DEF Sound, Straight
    <3> QED BY <3>5, <3>6
  <2> QED BY <1>1, <2>2, <2>3
<1> QED BY <1>2, <1>3

\* A seek goes where it was told to, and changes nothing in the file.
LEMMA SeekTo ==
    ASSUME NEW s, Sound(s), NEW position \in Nat,
           ~s.failed => position <= Len(Content(s))
    PROVE  LET t == fileout_seek(s, position)
           IN  /\ Sound(t)
               /\ s.failed => t = s
               /\ ~t.failed => /\ ~s.failed
                               /\ t = s \/ (t.pos = position /\ Content(t) = Content(s))
<1> DEFINE t == fileout_seek(s, position)
           u == fileout_flush(s)
<1>1. CASE s.failed \/ ~s.seekable \/ position = s.pos
  BY <1>1 DEF fileout_seek
<1>2. CASE ~(s.failed \/ ~s.seekable \/ position = s.pos)
  <2>1. /\ Sound(u) /\ u.buf = <<>>
        /\ ~u.failed => u.disk = Content(s) /\ Content(u) = Content(s)
    BY Flush
  <2>2. t = IF u.failed THEN u
            ELSE IF u.seeks = 0 THEN [u EXCEPT !.failed = TRUE]
            ELSE [u EXCEPT !.at = position, !.pos = position, !.seeks = u.seeks - 1]
    BY <1>2 DEF fileout_seek
  <2> HIDE DEF t, u
  <2>3. CASE u.failed
    BY <1>2, <2>1, <2>2, <2>3 DEF t
  <2>4. CASE ~u.failed /\ u.seeks = 0
    <3>1. t = [u EXCEPT !.failed = TRUE]
      BY <2>2, <2>4
    <3>2. Sound(t) /\ t.failed
      BY <2>1, <3>1 DEF Sound, Typed, Straight
    <3> QED BY <1>2, <3>2 DEF t
  <2>5. CASE ~u.failed /\ u.seeks # 0
    <3>1. t = [u EXCEPT !.at = position, !.pos = position, !.seeks = u.seeks - 1]
      BY <2>2, <2>5
    <3>2. u.seeks - 1 \in Nat
      BY <2>1, <2>5 DEF Sound, Typed
    <3>3. Typed(t) /\ t.at = position /\ t.pos = position /\ t.disk = u.disk
          /\ t.buf = <<>> /\ Len(<<>>) = 0 /\ ~t.failed
      BY <2>1, <2>5, <3>1, <3>2 DEF Sound, Typed
    <3>4. position <= Len(t.disk)
      BY <1>2, <2>1, <2>5, <3>3
    <3>5. Sound(t)
      <4>1. Straight(t)
        BY <3>3, <3>4 DEF Straight
      <4> QED BY <3>3, <4>1 DEF Sound
    <3>6. Content(t) = Content(s)
      <4>1. t.disk \in Seq(Byte) /\ t.at \in 0 .. Len(t.disk)
        BY <3>3, <3>4 DEF Typed
      <4>2. Content(t) = t.disk
        BY <3>3, <4>1, OverlayNothing DEF Content
      <4> QED BY <2>1, <2>5, <3>3, <4>2
    <3> QED BY <1>2, <3>3, <3>5, <3>6 DEF t
  <2> QED BY <2>3, <2>4, <2>5
<1> QED BY <1>1, <1>2

-----------------------------------------------------------------------------
(* The specification. *)

LEMMA SoundInit == Init => Sound(sink)
<1> SUFFICES ASSUME NEW d \in {<<>>} \cup [1 .. 2 -> Byte], NEW seekable \in BOOLEAN,
                    NEW room \in Rooms, NEW seeks \in Seeks,
                    sink = laz_outstream_new_file(d, seekable, room, seeks)
             PROVE  Sound(sink)
  BY DEF Init
<1>1. d \in Seq(Byte)
  <2>1. CASE d = <<>>
    BY <2>1, EmptySeq
  <2>2. CASE d \in [1 .. 2 -> Byte]
    BY <2>2, SeqDef
  <2> QED BY <2>1, <2>2
<1>2. Len(d) \in Nat /\ room \in Nat /\ seeks \in Nat /\ FILE_BUF_SIZE \in Nat
  BY <1>1, SinkAssumption
<1>3. <<>> \in Seq(Byte) /\ Len(<<>>) = 0
  BY EmptySeq
<1> QED BY <1>1, <1>2, <1>3 DEF laz_outstream_new_file, Sound, Typed, Straight

\* What a step does to the file the stream stands for: the file object has
\* raised, or nothing happens, or bytes land at the position, or it moves.
Outcome ==
    \/ sink'.failed
    \/ UNCHANGED <<Content(sink), sink.pos, sink.failed>>
    \/ \E bytes \in Seq(Byte) :
          /\ bytes # <<>> /\ ~sink.failed /\ ~sink'.failed
          /\ sink'.pos = sink.pos + Len(bytes)
          /\ Content(sink') = Overlay(Content(sink), sink.pos, bytes)
    \/ /\ ~sink.failed /\ ~sink'.failed
       /\ sink'.pos \in 0 .. Len(Content(sink))
       /\ Content(sink') = Content(sink)

\* What a step of the specification does to the stream.
LEMMA SoundNext ==
    ASSUME Sound(sink), [Next]_sink
    PROVE  /\ Sound(sink')
           /\ sink.failed => sink'.failed /\ sink'.disk = sink.disk
           /\ Outcome
<1>1. ASSUME NEW n \in Lengths, NEW bytes \in [1 .. n -> Byte],
             sink' = fileout_put_bytes(sink, bytes)
      PROVE  /\ Sound(sink')
             /\ sink.failed => sink'.failed /\ sink'.disk = sink.disk
             /\ Outcome
  <2>1. n \in Nat /\ bytes \in Seq(Byte)
    BY SinkAssumption, SeqDef
  <2>2. /\ Sound(sink')
        /\ sink.failed => sink' = sink
        /\ ~sink'.failed =>
             /\ ~sink.failed /\ sink'.pos = sink.pos + Len(bytes)
             /\ Content(sink') = Overlay(Content(sink), sink.pos, bytes)
    BY <1>1, <2>1, PutBytes
  <2>3. CASE sink'.failed
    BY <2>2, <2>3 DEF Outcome
  <2>4. CASE ~sink'.failed /\ bytes = <<>>
    <3>1. sink' = sink
      BY <1>1, <2>2, <2>4 DEF fileout_put_bytes
    <3> QED BY <2>2, <3>1 DEF Outcome
  <2>5. CASE ~sink'.failed /\ bytes # <<>>
    BY <2>1, <2>2, <2>5 DEF Outcome
  <2> QED BY <2>3, <2>4, <2>5
<1>2. CASE flush
  <2>1. /\ Sound(sink')
        /\ sink.failed => sink'.failed /\ sink'.disk = sink.disk
        /\ ~sink'.failed => /\ ~sink.failed /\ sink'.pos = sink.pos
                            /\ Content(sink') = Content(sink)
    BY <1>2, Flush DEF flush
  <2>2. sink.failed \in BOOLEAN /\ sink'.failed \in BOOLEAN
    BY <2>1 DEF Sound, Typed
  <2> QED BY <2>1, <2>2 DEF Outcome
<1>3. ASSUME NEW position \in 0 .. Len(Content(sink)), sink' = fileout_seek(sink, position)
      PROVE  /\ Sound(sink')
             /\ sink.failed => sink'.failed /\ sink'.disk = sink.disk
             /\ Outcome
  <2>1. position \in Nat /\ (~sink.failed => position <= Len(Content(sink)))
    BY ContentReachesPosition
  <2>2. /\ Sound(sink')
        /\ sink.failed => sink' = sink
        /\ ~sink'.failed => /\ ~sink.failed
                            /\ \/ sink' = sink
                               \/ /\ sink'.pos = position
                                  /\ Content(sink') = Content(sink)
    BY <1>3, <2>1, SeekTo
  <2> QED BY <1>3, <2>2 DEF Outcome
<1>4. CASE UNCHANGED sink
  BY <1>4 DEF Outcome
<1> QED BY <1>1, <1>2, <1>3, <1>4 DEF Next, put_bytes, seek

LEMMA AlwaysSound == Spec => []Sound(sink)
<1>1. Sound(sink) /\ [Next]_sink => Sound(sink)'
  BY SoundNext
<1> QED BY <1>1, SoundInit, PTL DEF Spec

\* The stream is well typed throughout, and never stages more than its buffer
\* holds (FileOutImpl.buf, fileout_put_bytes), whatever the file object does.
THEOREM TypeCorrect == Spec => []TypeOK
<1>1. Sound(sink) => TypeOK
  BY DEF Sound, Typed, TypeOK
<1> QED BY <1>1, AlwaysSound, PTL

\* What laz_outstream_tell answers is where the next byte will land: the file
\* object's own position with what is staged behind it, with no gap in front
\* (FileOutImpl.pos, fileout_put_bytes, fileout_seek).
THEOREM PositionIsKept == Spec => []KeepsPosition
<1>1. Sound(sink) => KeepsPosition
  BY DEF Sound, Straight, KeepsPosition
<1> QED BY <1>1, AlwaysSound, PTL

\* Once the file object has raised, no put, flush or seek touches it again, and
\* the stream stays failed (the `failed` tests of fileout_emit and the others).
THEOREM FailedStaysInert == Spec => FailedIsInert
<1>1. Sound(sink) /\ [Next]_sink
      => [sink.failed => sink'.disk = sink.disk /\ sink'.failed]_sink
  BY SoundNext
<1> QED BY <1>1, AlwaysSound, PTL DEF Spec, FailedIsInert

\* The buffered stream is a file with no buffer: every step of it maps to a put
\* of the same bytes at the same position, a seek, a failure, or nothing, for
\* every buffer size and whatever is staged when (fileout_put_bytes and the
\* others over fileout_flush).
THEOREM SinkImplementsByteFile == Spec => ImplementsByteFile
<1>1. Init => File!Init
  <2> SUFFICES ASSUME Init PROVE File!Init
    OBVIOUS
  <2>1. Sound(sink) /\ sink.failed = FALSE
    <3>1. sink.failed = FALSE
      BY DEF Init, laz_outstream_new_file
    <3> QED BY <3>1, SoundInit
  <2>2. Content(sink) \in Seq(Byte) /\ sink.pos \in 0 .. Len(Content(sink))
    BY <2>1, ContentReachesPosition
  <2> QED BY <2>1, <2>2 DEF File!Init
<1>2. Sound(sink) /\ [Next]_sink => [File!Next]_File!bfvars
  <2> SUFFICES ASSUME Sound(sink), [Next]_sink PROVE [File!Next]_File!bfvars
    OBVIOUS
  <2>1. Sound(sink') /\ Outcome
    BY SoundNext
  <2>2. CASE sink'.failed
    BY <2>2 DEF File!Next, File!Break
  <2>3. CASE UNCHANGED <<Content(sink), sink.pos, sink.failed>>
    BY <2>3 DEF File!bfvars
  <2>4. ASSUME NEW bytes \in Seq(Byte), bytes # <<>>, ~sink.failed, ~sink'.failed,
               sink'.pos = sink.pos + Len(bytes),
               Content(sink') = Overlay(Content(sink), sink.pos, bytes)
        PROVE  File!Put
    <3>1. /\ Content(sink) \in Seq(Byte) /\ sink.pos \in 0 .. Len(Content(sink))
      BY <2>4, ContentReachesPosition
    <3>2. sink'.pos \in 0 .. Len(Content(sink'))
      BY <2>1, <2>4, ContentReachesPosition
    <3>3. SubSeq(Content(sink'), sink.pos + 1, sink'.pos) = bytes
      BY <2>4, <3>1, OverlayHolds
    <3>4. Len(bytes) \in Nat \ {0}
      BY <2>4, EmptySeq
    <3>5. sink'.pos \in sink.pos + 1 .. Len(Content(sink'))
      BY <2>4, <3>1, <3>2, <3>4
    <3>6. sink'.failed = sink.failed
      BY <2>1, <2>4 DEF Sound, Typed
    <3>7. Content(sink') = File!Overlay(Content(sink), sink.pos, bytes)
      BY <2>4 DEF Overlay, Longer, File!Overlay, File!Longer
    <3> QED BY <2>4, <3>3, <3>5, <3>6, <3>7 DEF File!Put
  <2>5. CASE /\ ~sink.failed /\ ~sink'.failed
             /\ sink'.pos \in 0 .. Len(Content(sink))
             /\ Content(sink') = Content(sink)
    <3>1. sink'.failed = sink.failed
      BY <2>1, <2>5 DEF Sound, Typed
    <3> QED BY <2>5, <3>1 DEF File!Next, File!Seek
  <2> QED BY <2>1, <2>2, <2>3, <2>4, <2>5 DEF Outcome, File!Next
<1> QED BY <1>1, <1>2, AlwaysSound, PTL DEF Spec, ImplementsByteFile, File!Spec
=============================================================================
