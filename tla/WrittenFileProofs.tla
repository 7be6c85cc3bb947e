------------------------- MODULE WrittenFileProofs -------------------------
(***************************************************************************)
(* Proof that a file done() returned for reads back as the points write()  *)
(* returned for (FinishedFilesReadBack), and that a file the writer was    *)
(* stopped in says so (InterruptedFilesSaySo), for every container, size   *)
(* of chunk, buffer and file object, and however many points and chunks.   *)
(*                                                                         *)
(* Two hypotheses.  Memory runs out in a layer or in the table's           *)
(* compressor only: where a chunk fails to be seeded and the caller goes   *)
(* on, the first of the two properties does not hold (writer_retried.cfg). *)
(* And a chunk does not come to U32_MAX points, where the counter wraps    *)
(* around.                                                                 *)
(*                                                                         *)
(* What the writer has made is a content c, as in ChunkWriterProofs.  Kept *)
(* says of it that it is whole chunks between the boundaries b, of the     *)
(* sizes and points the table's rows state, and behind them the points at  *)
(* hand, those still in a layer included; and that its points are the ones *)
(* write() returned for.  Lost is the other case: the file object has      *)
(* raised, or a layer could not grow.  That is never made up for, and      *)
(* done() fails.  One lemma per operator takes Kept to Kept or Lost; the   *)
(* last ones end in Last, and OnFile reads the table back from it, as      *)
(* StartOf does.  A spent writer has Sealed its file: the position is not  *)
(* put, or what it points behind is all in the file.  The inductive        *)
(* invariant is Keeping.                                                   *)
(*                                                                         *)
(* Points and StartOf are recursive functions, and what they make of       *)
(* longer data is shown by the least number it fails for (UpTo).           *)
(***************************************************************************)
EXTENDS ChunkWriterProofs, WellFoundedInduction

-----------------------------------------------------------------------------
(* Induction, over the set of the numbers something holds of. *)

LEMMA UpTo ==
    ASSUME NEW m \in Nat, NEW T, 0 \in T, \A i \in 1 .. m : i - 1 \in T => i \in T
    PROVE  0 .. m \subseteq T
<1> SUFFICES ASSUME ~(0 .. m \subseteq T) PROVE FALSE
  OBVIOUS
<1> DEFINE U == {i \in 0 .. m : i \notin T}
           R == OpToRel(<, Nat)
<1>1. U \subseteq Nat /\ U # {}
  OBVIOUS
<1>2. PICK t \in U : \A y \in U : ~ (<<y, t>> \in R)
  BY <1>1, NatLessThanWellFounded, WFMin
<1>R. R = {ss \in Nat \X Nat : ss[1] < ss[2]}
  BY DEF OpToRel
<1> HIDE DEF R
<1>3. t \in 1 .. m /\ t - 1 \in 0 .. m
  OBVIOUS
<1>4. t - 1 \notin U
  <2>1. <<t - 1, t>> \in R
    BY <1>R, <1>3
  <2> QED BY <1>2, <2>1
<1> QED BY <1>3, <1>4

-----------------------------------------------------------------------------
(* The points among some units. *)

IsPoint(x) == x[1] \in {"raw", "encoded"}

\* The points among the first n units, one unit after the other.
Gathers(u, n, g) ==
    g = [i \in 0 .. n |->
            IF i = 0 THEN <<>>
            ELSE IF IsPoint(u[i]) THEN Append(g[i - 1], u[i][2]) ELSE g[i - 1]]

LEMMA GathersInSteps ==
    ASSUME NEW u, NEW n \in Nat, NEW g
    PROVE  Gathers(u, n, g) <=>
             /\ g = [i \in 0 .. n |-> g[i]] /\ g[0] = <<>>
             /\ \A i \in 1 .. n : g[i] = IF IsPoint(u[i]) THEN Append(g[i - 1], u[i][2])
                                         ELSE g[i - 1]
<1> DEFINE e(i) == IF i = 0 THEN <<>>
                   ELSE IF IsPoint(u[i]) THEN Append(g[i - 1], u[i][2]) ELSE g[i - 1]
<1>1. Gathers(u, n, g) <=> g = [i \in 0 .. n |-> e(i)]
  BY DEF Gathers
<1>2. e(0) = <<>> /\ \A i \in 1 .. n : e(i) = IF IsPoint(u[i]) THEN Append(g[i - 1], u[i][2])
                                              ELSE g[i - 1]
  OBVIOUS
<1> HIDE DEF e
<1>3. (g = [i \in 0 .. n |-> e(i)])
        <=> g = [i \in 0 .. n |-> g[i]] /\ \A i \in 0 .. n : g[i] = e(i)
  OBVIOUS
<1>4. (\A i \in 0 .. n : g[i] = e(i)) <=> g[0] = e(0) /\ \A i \in 1 .. n : g[i] = e(i)
  OBVIOUS
<1> QED BY <1>1, <1>2, <1>3, <1>4

LEMMA GatheringExists ==
    ASSUME NEW u, NEW m \in Nat
    PROVE  \E g : Gathers(u, m, g)
<1> DEFINE T == {n \in 0 .. m : \E g : Gathers(u, n, g)}
<1>1. 0 \in T
  <2> DEFINE g == [i \in 0 .. 0 |-> <<>>]
  <2>1. g = [i \in 0 .. 0 |-> g[i]] /\ g[0] = <<>>
    OBVIOUS
  <2>2. Gathers(u, 0, g)
    BY <2>1, GathersInSteps
  <2> QED BY <2>2
<1>2. ASSUME NEW n \in 1 .. m, n - 1 \in T
      PROVE  n \in T
  <2>1. PICK g : Gathers(u, n - 1, g)
    BY <1>2
  <2> DEFINE x == IF IsPoint(u[n]) THEN Append(g[n - 1], u[n][2]) ELSE g[n - 1]
             h == [i \in 0 .. n |-> IF i = n THEN x ELSE g[i]]
  <2>2. g[0] = <<>> /\ \A i \in 1 .. n - 1 : g[i] = IF IsPoint(u[i]) THEN Append(g[i - 1], u[i][2])
                                                     ELSE g[i - 1]
    <3>1. n - 1 \in Nat
      OBVIOUS
    <3> QED BY ONLY <2>1, <3>1, GathersInSteps
  <2>3. h[n] = x /\ \A i \in 0 .. n - 1 : h[i] = g[i]
    OBVIOUS
  <2>4. ASSUME NEW i \in 1 .. n
        PROVE  h[i] = IF IsPoint(u[i]) THEN Append(h[i - 1], u[i][2]) ELSE h[i - 1]
    <3>1. i - 1 \in 0 .. n - 1 /\ h[i - 1] = g[i - 1]
      BY <2>3
    <3> HIDE DEF h
    <3>2. CASE i = n
      BY <2>3, <3>1, <3>2
    <3>3. CASE i # n
      BY <2>2, <2>3, <3>1, <3>3
    <3> QED BY <3>2, <3>3
  <2>5. h = [i \in 0 .. n |-> h[i]] /\ h[0] = <<>>
    BY <2>2
  <2> HIDE DEF h
  <2>6. Gathers(u, n, h)
    <3>1. n \in Nat
      OBVIOUS
    <3> QED BY ONLY <2>4, <2>5, <3>1, GathersInSteps
  <2> QED BY <2>6
<1>3. 0 .. m \subseteq T
  BY <1>1, <1>2, UpTo
<1> QED BY <1>3

LEMMA GatheringUnique ==
    ASSUME NEW u, NEW m \in Nat, NEW g, Gathers(u, m, g), NEW h, Gathers(u, m, h)
    PROVE  g = h
<1> DEFINE T == {n \in 0 .. m : g[n] = h[n]}
<1>1. /\ g = [i \in 0 .. m |-> g[i]] /\ g[0] = <<>>
      /\ h = [i \in 0 .. m |-> h[i]] /\ h[0] = <<>>
      /\ \A i \in 1 .. m : /\ g[i] = IF IsPoint(u[i]) THEN Append(g[i - 1], u[i][2])
                                     ELSE g[i - 1]
                           /\ h[i] = IF IsPoint(u[i]) THEN Append(h[i - 1], u[i][2])
                                     ELSE h[i - 1]
  BY GathersInSteps
<1>2. 0 \in T
  BY <1>1
<1>3. ASSUME NEW n \in 1 .. m, n - 1 \in T
      PROVE  n \in T
  <2>1. g[n - 1] = h[n - 1]
    BY <1>3
  <2> QED BY <1>1, <2>1
<1>4. 0 .. m \subseteq T
  BY <1>2, <1>3, UpTo
<1> QED BY <1>1, <1>4

LEMMA PointsGathered ==
    ASSUME NEW u, Len(u) \in Nat, NEW g, Gathers(u, Len(u), g)
    PROVE  Points(u) = g[Len(u)]
<1> DEFINE f == CHOOSE got : Gathers(u, Len(u), got)
<1>1. Gathers(u, Len(u), f)
  OBVIOUS
<1>2. f = g
  BY <1>1, GatheringUnique
<1>3. Points(u) = f[Len(u)]
  BY DEF Points, Gathers, IsPoint
<1> QED BY <1>2, <1>3

\* What the points are taken from is all that counts.
LEMMA PointsAlike ==
    ASSUME NEW u \in Seq(Unit), NEW v \in Seq(Unit), Len(u) = Len(v),
           \A i \in 1 .. Len(u) : u[i] = v[i] \/ ~(IsPoint(u[i]) \/ IsPoint(v[i]))
    PROVE  Points(u) = Points(v)
<1>n. Len(u) \in Nat /\ Len(v) \in Nat
  OBVIOUS
<1>1. PICK g : Gathers(u, Len(u), g)
  BY ONLY <1>n, GatheringExists
<1>2. /\ g = [i \in 0 .. Len(u) |-> g[i]] /\ g[0] = <<>>
      /\ \A i \in 1 .. Len(u) : g[i] = IF IsPoint(u[i]) THEN Append(g[i - 1], u[i][2])
                                       ELSE g[i - 1]
  <2> DEFINE m == Len(u)
  <2>1. m \in Nat /\ Gathers(u, m, g)
    BY <1>1, <1>n
  <2> HIDE DEF m
  <2>2. /\ g = [i \in 0 .. m |-> g[i]] /\ g[0] = <<>>
        /\ \A i \in 1 .. m : g[i] = IF IsPoint(u[i]) THEN Append(g[i - 1], u[i][2])
                                    ELSE g[i - 1]
    BY ONLY <2>1, GathersInSteps
  <2> QED BY <2>2 DEF m
<1>3. \A i \in 1 .. Len(u) : g[i] = IF IsPoint(v[i]) THEN Append(g[i - 1], v[i][2])
                                    ELSE g[i - 1]
  BY <1>2
<1>4. Gathers(v, Len(v), g)
  BY <1>2, <1>3, GathersInSteps
<1> QED BY <1>1, <1>4, PointsGathered

\* No points where no unit is one.
LEMMA NoPoints ==
    ASSUME NEW u \in Seq(Unit), \A i \in 1 .. Len(u) : ~IsPoint(u[i])
    PROVE  Points(u) = <<>>
<1> DEFINE g == [i \in 0 .. Len(u) |-> <<>>]
<1>1. g = [i \in 0 .. Len(u) |-> g[i]] /\ g[0] = <<>> /\ \A i \in 0 .. Len(u) : g[i] = <<>>
  OBVIOUS
<1> HIDE DEF g
<1>2. \A i \in 1 .. Len(u) : g[i] = IF IsPoint(u[i]) THEN Append(g[i - 1], u[i][2])
                                    ELSE g[i - 1]
  BY <1>1
<1>3. Gathers(u, Len(u), g)
  BY <1>1, <1>2, GathersInSteps
<1> QED BY <1>1, <1>3, PointsGathered

LEMMA PointsOfOne ==
    ASSUME NEW x \in Unit
    PROVE  Points(<<x>>) = IF IsPoint(x) THEN <<x[2]>> ELSE <<>>
<1> DEFINE u == <<x>>
           y == IF IsPoint(x) THEN <<x[2]>> ELSE <<>>
           g == [i \in 0 .. 1 |-> IF i = 0 THEN <<>> ELSE y]
<1>1. u \in Seq(Unit) /\ Len(u) = 1 /\ u[1] = x
  BY OneUnit
<1>2. g = [i \in 0 .. 1 |-> g[i]] /\ g[0] = <<>> /\ g[1] = y
  OBVIOUS
<1>3. y = IF IsPoint(x) THEN Append(<<>>, x[2]) ELSE <<>>
  OBVIOUS
<1> HIDE DEF u, g, y
<1>4. \A i \in 1 .. Len(u) : g[i] = IF IsPoint(u[i]) THEN Append(g[i - 1], u[i][2])
                                    ELSE g[i - 1]
  <2> SUFFICES ASSUME NEW i \in 1 .. 1
               PROVE  g[i] = IF IsPoint(u[i]) THEN Append(g[i - 1], u[i][2]) ELSE g[i - 1]
    BY <1>1
  <2>1. i = 1 /\ i - 1 = 0
    OBVIOUS
  <2> QED BY <1>1, <1>2, <1>3, <2>1
<1>5. Gathers(u, 1, g)
  <2>1. 1 \in Nat /\ \A i \in 1 .. 1 : g[i] = IF IsPoint(u[i]) THEN Append(g[i - 1], u[i][2])
                                             ELSE g[i - 1]
    BY <1>1, <1>4
  <2> QED BY ONLY <1>2, <2>1, GathersInSteps
<1>6. Points(u) = y
  <2>1. Len(u) \in Nat /\ Gathers(u, Len(u), g) /\ g[Len(u)] = y
    BY <1>1, <1>2, <1>5
  <2> QED BY ONLY <2>1, PointsGathered
<1> QED BY <1>6 DEF u, y

\* What is gathered is a sequence.
LEMMA GathersSeqs ==
    ASSUME NEW S, NEW u, NEW m \in Nat, NEW g, Gathers(u, m, g),
           \A i \in 1 .. m : IsPoint(u[i]) => u[i][2] \in S
    PROVE  \A i \in 0 .. m : g[i] \in Seq(S)
<1> DEFINE T == {n \in 0 .. m : g[n] \in Seq(S)}
<1>1. /\ g[0] = <<>>
      /\ \A i \in 1 .. m : g[i] = IF IsPoint(u[i]) THEN Append(g[i - 1], u[i][2])
                                  ELSE g[i - 1]
  BY GathersInSteps
<1>2. 0 \in T
  <2>1. g[0] \in Seq(S)
    <3>1. <<>> \in Seq(S)
      OBVIOUS
    <3> QED BY ONLY <1>1, <3>1
  <2>2. 0 \in 0 .. m
    OBVIOUS
  <2> QED BY <2>1, <2>2
<1>3. ASSUME NEW n \in 1 .. m, n - 1 \in T
      PROVE  n \in T
  <2>1. g[n - 1] \in Seq(S)
    BY <1>3
  <2>2. g[n] \in Seq(S)
    <3>1. CASE IsPoint(u[n])
      <4>1. u[n][2] \in S /\ g[n] = Append(g[n - 1], u[n][2])
        BY <1>1, <3>1
      <4> QED BY ONLY <2>1, <4>1
    <3>2. CASE ~IsPoint(u[n])
      BY <1>1, <2>1, <3>2
    <3> QED BY <3>1, <3>2
  <2> QED BY <2>2
<1>4. 0 .. m \subseteq T
  BY <1>2, <1>3, UpTo
<1> QED BY <1>4

LEMMA AppendBehind ==
    ASSUME NEW S, NEW a \in Seq(S), NEW x \in Seq(S), NEW y \in S
    PROVE  a \o Append(x, y) = Append(a \o x, y)
<1> DEFINE z == <<y>>
<1>1. z \in Seq(S) /\ z = <<y>> /\ a \o x \in Seq(S)
  OBVIOUS
<1> HIDE DEF z
<1>2. Append(x, y) = x \o z
  BY <1>1, AppendIsConcat
<1>3. Append(a \o x, y) = (a \o x) \o z
  BY <1>1, AppendIsConcat
<1>4. (a \o x) \o z = a \o (x \o z)
  BY <1>1, ConcatAssociative
<1> QED BY <1>2, <1>3, <1>4

\* The points of one part, then those of the other.
LEMMA PointsEndToEnd ==
    ASSUME NEW u \in Seq(Unit), NEW v \in Seq(Unit)
    PROVE  /\ Points(u \o v) = Points(u) \o Points(v)
           /\ \E S : Points(u) \in Seq(S) /\ Points(v) \in Seq(S)
<1> DEFINE m == Len(u)
           n == Len(v)
           w == u \o v
           S == {u[i][2] : i \in 1 .. m} \cup {v[i][2] : i \in 1 .. n}
<1>1. /\ w \in Seq(Unit) /\ Len(w) = m + n /\ m \in Nat /\ n \in Nat
      /\ \A i \in 1 .. m : w[i] = u[i]
      /\ \A i \in 1 .. n : w[m + i] = v[i]
  BY EndToEnd
<1>2. PICK g : Gathers(u, m, g)
  BY ONLY <1>1, GatheringExists
<1>3. PICK h : Gathers(v, n, h)
  BY ONLY <1>1, GatheringExists
<1>4. /\ \A i \in 1 .. m : IsPoint(u[i]) => u[i][2] \in S
      /\ \A i \in 1 .. n : IsPoint(v[i]) => v[i][2] \in S
  OBVIOUS
<1>m. m = Len(u) /\ n = Len(v)
  OBVIOUS
<1> HIDE DEF S, m, n, w
<1>5. (\A i \in 0 .. m : g[i] \in Seq(S)) /\ (\A i \in 0 .. n : h[i] \in Seq(S))
  BY <1>1, <1>2, <1>3, <1>4, GathersSeqs
<1> DEFINE a == g[m]
           f == [i \in 0 .. m + n |-> IF i <= m THEN g[i] ELSE a \o h[i - m]]
<1>6. /\ g[0] = <<>> /\ h[0] = <<>>
      /\ \A i \in 1 .. m : g[i] = IF IsPoint(u[i]) THEN Append(g[i - 1], u[i][2])
                                  ELSE g[i - 1]
      /\ \A i \in 1 .. n : h[i] = IF IsPoint(v[i]) THEN Append(h[i - 1], v[i][2])
                                  ELSE h[i - 1]
  BY <1>1, <1>2, <1>3, GathersInSteps
<1>7. a \in Seq(S) /\ a = g[m]
  BY <1>1, <1>5
<1>8. /\ f = [i \in 0 .. m + n |-> f[i]] /\ \A i \in 0 .. m : f[i] = g[i]
      /\ \A i \in 0 .. n : f[m + i] = a \o h[i]
  <2>1. ASSUME NEW i \in 0 .. n PROVE f[m + i] = a \o h[i]
    <3>1. m + i \in 0 .. m + n /\ (m + i <= m <=> i = 0) /\ (m + i) - m = i
      BY <1>1
    <3>2. CASE i = 0
      <4>1. f[m + i] = a
        BY <1>1, <3>1, <3>2
      <4>2. a \o <<>> = a
        BY <1>7
      <4> QED BY <1>6, <3>2, <4>1, <4>2
    <3>3. CASE i # 0
      BY <3>1, <3>3
    <3> QED BY <3>2, <3>3
  <2>2. ASSUME NEW i \in 0 .. m PROVE f[i] = g[i]
    BY <1>1
  <2> QED BY <2>1, <2>2
<1> HIDE DEF f, a
<1>9. ASSUME NEW i \in 1 .. m + n
      PROVE  f[i] = IF IsPoint(w[i]) THEN Append(f[i - 1], w[i][2]) ELSE f[i - 1]
  <2>1. CASE i <= m
    <3>1. i \in 1 .. m /\ i - 1 \in 0 .. m /\ i \in 0 .. m
      BY <1>1, <2>1
    <3> QED BY <1>1, <1>6, <1>8, <3>1
  <2>2. CASE ~(i <= m)
    <3> DEFINE j == i - m
    <3>1. j \in 1 .. n /\ j - 1 \in 0 .. n /\ j \in 0 .. n /\ i = m + j /\ i - 1 = m + (j - 1)
      BY <1>1, <2>2
    <3> HIDE DEF j
    <3>2. f[i] = a \o h[j] /\ f[i - 1] = a \o h[j - 1] /\ w[i] = v[j]
      BY <1>1, <1>8, <3>1
    <3>3. h[j] = IF IsPoint(v[j]) THEN Append(h[j - 1], v[j][2]) ELSE h[j - 1]
      BY <1>6, <3>1
    <3>4. CASE IsPoint(v[j])
      <4>1. v[j][2] \in S /\ h[j - 1] \in Seq(S)
        BY <1>4, <1>5, <3>1, <3>4
      <4>2. a \o Append(h[j - 1], v[j][2]) = Append(a \o h[j - 1], v[j][2])
        <5> DEFINE x == h[j - 1]
                   y == v[j][2]
        <5>1. x \in Seq(S) /\ y \in S /\ a \in Seq(S)
          BY ONLY <1>7, <4>1
        <5> HIDE DEF x, y, S
        <5>2. a \o Append(x, y) = Append(a \o x, y)
          BY ONLY <5>1, AppendBehind
        <5> QED BY <5>2 DEF x, y
      <4> QED BY <3>2, <3>3, <3>4, <4>2
    <3>5. CASE ~IsPoint(v[j])
      BY <3>2, <3>3, <3>5
    <3> QED BY <3>4, <3>5
  <2> QED BY <2>1, <2>2
<1>10. f[0] = <<>>
  <2>1. 0 \in 0 .. m
    BY <1>1
  <2> QED BY ONLY <1>6, <1>8, <2>1
<1>11. Gathers(w, m + n, f)
  <2>1. m + n \in Nat
    BY ONLY <1>1
  <2> QED BY ONLY <1>8, <1>9, <1>10, <2>1, GathersInSteps
<1>12. Points(w) = f[m + n] /\ Points(u) = g[m] /\ Points(v) = h[n]
  <2>1. m + n \in Nat /\ Len(w) = m + n
    BY ONLY <1>1
  <2>2. Points(w) = f[m + n]
    BY ONLY <1>11, <2>1, PointsGathered
  <2>3. Points(u) = g[m] /\ Points(v) = h[n]
    BY ONLY <1>1, <1>2, <1>3, <1>m, PointsGathered
  <2> QED BY <2>2, <2>3
<1>13. f[m + n] = a \o h[n]
  <2>1. n \in 0 .. n
    BY ONLY <1>1
  <2> QED BY ONLY <1>8, <2>1
<1>14. Points(w) = Points(u) \o Points(v)
  BY <1>7, <1>12, <1>13
<1>15. Points(u) \in Seq(S) /\ Points(v) \in Seq(S)
  BY <1>1, <1>5, <1>12
<1> QED BY <1>14, <1>15 DEF w

LEMMA PointsAfter ==
    ASSUME NEW u \in Seq(Unit), NEW x \in Unit, NEW pts \in Seq(Nat), Points(u) = pts
    PROVE  /\ IsPoint(x) /\ x[2] \in Nat => Points(u \o <<x>>) = Append(pts, x[2])
           /\ ~IsPoint(x) => Points(u \o <<x>>) = pts
<1> DEFINE y == <<x>>
<1>1. y \in Seq(Unit)
  BY OneUnit
<1>2. Points(y) = IF IsPoint(x) THEN <<x[2]>> ELSE <<>>
  BY PointsOfOne
<1> HIDE DEF y
<1>3. Points(u \o y) = pts \o Points(y)
  BY <1>1, PointsEndToEnd
<1>4. CASE IsPoint(x) /\ x[2] \in Nat
  <2> DEFINE p == x[2]
  <2>1. p \in Nat /\ Points(u \o y) = pts \o <<p>>
    BY <1>2, <1>3, <1>4
  <2> HIDE DEF p
  <2>2. pts \o <<p>> = Append(pts, p)
    BY ONLY <2>1, pts \in Seq(Nat), AppendIsConcat
  <2> QED BY <1>4, <2>1, <2>2 DEF p, y
<1>5. CASE ~IsPoint(x)
  <2>1. pts \o <<>> = pts
    OBVIOUS
  <2> QED BY <1>2, <1>3, <1>5, <2>1 DEF y
<1> QED BY <1>4, <1>5 DEF y

\* Where the table says the chunks start.
StartsAt(disk, at, m, b) ==
    /\ m \in Nat /\ b[1] = Base + 1
    /\ \A k \in 2 .. m : b[k] = b[k - 1] + disk[at + 1 + k][2]

LEMMA StartsAre ==
    ASSUME NEW disk, NEW at, NEW m, NEW b, StartsAt(disk, at, m, b)
    PROVE  \A i \in 1 .. m : StartOf(disk, at, i) = b[i]
<1> SUFFICES ASSUME NEW i \in 1 .. m PROVE StartOf(disk, at, i) = b[i]
  OBVIOUS
<1>0. /\ m \in Nat /\ b[1] = Base + 1
      /\ \A k \in 2 .. m : b[k] = b[k - 1] + disk[at + 1 + k][2]
  BY DEF StartsAt
<1> DEFINE P(g) == g = [k \in 1 .. i |->
                          IF k = 1 THEN Base + 1 ELSE g[k - 1] + disk[at + 1 + k][2]]
           h == [k \in 1 .. i |-> b[k]]
           f == CHOOSE begin : P(begin)
           T == {n \in 0 .. i - 1 : f[n + 1] = b[n + 1]}
<1>1. P(h)
  <2>1. \A k \in 1 .. i : h[k] = IF k = 1 THEN Base + 1 ELSE h[k - 1] + disk[at + 1 + k][2]
    BY <1>0
  <2> QED BY <2>1
<1>2. P(f)
  <2> HIDE DEF h
  <2>1. \E g : P(g)
    BY <1>1
  <2> QED BY <2>1
<1>3. StartOf(disk, at, i) = f[i]
  BY DEF StartOf
<1> HIDE DEF f
<1>4. /\ f[1] = Base + 1
      /\ \A k \in 2 .. i : f[k] = f[k - 1] + disk[at + 1 + k][2]
  BY <1>2
<1>5. 0 \in T
  BY <1>0, <1>4
<1>6. ASSUME NEW n \in 1 .. i - 1, n - 1 \in T
      PROVE  n \in T
  <2>1. n + 1 \in 2 .. i /\ n + 1 \in 2 .. m /\ (n + 1) - 1 = n /\ (n - 1) + 1 = n
    BY <1>0
  <2>2. f[n] = b[n]
    BY <1>6, <2>1
  <2>3. f[n + 1] = b[n + 1]
    BY <1>0, <1>4, <2>1, <2>2
  <2> QED BY <2>3
<1>7. 0 .. i - 1 \subseteq T
  <2>1. i - 1 \in Nat
    OBVIOUS
  <2> HIDE DEF T
  <2> QED BY <1>5, <1>6, <2>1, UpTo
<1>8. i - 1 \in T /\ (i - 1) + 1 = i
  BY <1>7
<1> QED BY <1>3, <1>8

LEMMA Part ==
    ASSUME NEW c \in Seq(Unit), NEW m \in Nat, NEW n \in Nat, m <= n, n <= Len(c)
    PROVE  /\ SubSeq(c, m + 1, n) \in Seq(Unit) /\ Len(SubSeq(c, m + 1, n)) = n - m
           /\ \A i \in 1 .. n - m : SubSeq(c, m + 1, n)[i] = c[m + i]
<1>1. \A i \in m + 1 .. n : c[i] \in Unit
  OBVIOUS
<1>2. /\ Len(SubSeq(c, m + 1, n)) = n - m
      /\ \A i \in 1 .. n - m : SubSeq(c, m + 1, n)[i] = c[m + i]
  OBVIOUS
<1>3. SubSeq(c, m + 1, n) \in Seq(Unit)
  BY SubSeqProperties
<1> QED BY <1>2, <1>3

LEMMA SamePart ==
    ASSUME NEW c \in Seq(Unit), NEW d \in Seq(Unit), NEW m \in Nat, NEW n \in Nat,
           m <= n, n <= Len(c), n <= Len(d), \A i \in m + 1 .. n : c[i] = d[i]
    PROVE  SubSeq(c, m + 1, n) = SubSeq(d, m + 1, n)
<1> DEFINE x == SubSeq(c, m + 1, n)
           y == SubSeq(d, m + 1, n)
<1>1. /\ x \in Seq(Unit) /\ Len(x) = n - m /\ \A i \in 1 .. n - m : x[i] = c[m + i]
      /\ y \in Seq(Unit) /\ Len(y) = n - m /\ \A i \in 1 .. n - m : y[i] = d[m + i]
  BY Part
<1>2. \A i \in 1 .. n - m : c[m + i] = d[m + i]
  <2> TAKE i \in 1 .. n - m
  <2>1. m + i \in m + 1 .. n
    OBVIOUS
  <2> QED BY <2>1
<1> HIDE DEF x, y
<1>3. \A i \in 1 .. Len(x) : x[i] = y[i]
  BY <1>1, <1>2
<1>4. x = y
  BY ONLY <1>1, <1>3, SeqEqual
<1> QED BY <1>4 DEF x, y

-----------------------------------------------------------------------------
(* What is behind what is there from the start: whole chunks and an open one. *)

First(l) == Base + (IF Chunked(l) THEN 1 ELSE 0)

\* In front of the chunks there is no point.
Led(l, c) ==
    /\ First(l) <= Len(c) /\ \A i \in 1 .. First(l) : ~IsPoint(c[i])
    /\ Chunked(l) => c[Base + 1] = Placeholder(l)

\* A row of the table says how many points its chunk holds, or it holds as many
\* as all do, the last excepted.
Says(w, i) ==
    LET held == w.chunk_bytes[i] - 1
    IN  IF w.chunk_size = U32_MAX THEN w.chunk_sizes[i] = held
        ELSE held <= w.chunk_size /\ (i < w.number_chunks => held = w.chunk_size)

\* The chunks of w lie in c one behind the other, the i-th from b[i] on.
HasChunks(l, w, c, b) ==
    /\ b \in [1 .. w.number_chunks + 1 -> Nat] /\ b[1] = First(l)
    /\ b[w.number_chunks + 1] <= Len(c)
    /\ IF Chunked(l) THEN b[w.number_chunks + 1] = w.chunk_start_position
       ELSE w.number_chunks = 0
    /\ \A i \in 1 .. w.number_chunks :
          /\ b[i + 1] = b[i] + w.chunk_bytes[i] /\ b[i + 1] <= Len(c)
          /\ IsChunk(l, SubSeq(c, b[i] + 1, b[i + 1])) /\ Says(w, i)

\* Every chunk is as large as it may be.
Full(w) == w.chunk_size # U32_MAX =>
             \A i \in 1 .. w.number_chunks : w.chunk_bytes[i] = w.chunk_size + 1

\* The open chunk, from f on.
AtHand(l, w, c, f) ==
    /\ w.writers = "NULL" => Len(c) = f /\ w.chunk_count = 0
    /\ w.writers = "raw" => \A i \in f + 1 .. Len(c) : c[i][1] = "raw"
    /\ w.writers = "compressed" =>
         /\ f < Len(c) /\ c[f + 1][1] = "raw"
         /\ IF Layered(l)
            THEN /\ Len(c) = f + 1 /\ w.chunk_count = Len(w.layers) + 1
                 /\ \A i \in 1 .. Len(w.layers) : w.layers[i][1] = "encoded"
            ELSE /\ Len(c) = f + w.chunk_count
                 /\ \A i \in f + 2 .. Len(c) : c[i][1] = "encoded"

\* What of the open chunk is not in the stream yet.
Pending(l, w) == IF Layered(l) /\ w.writers = "compressed" THEN w.layers ELSE <<>>

\* Everything the caller was told is written is there.
Kept(l, w, c, b, pts, k) ==
    /\ Ready(l, w, c) /\ ~w.outstream.failed /\ ~w.layers_failed
    /\ Led(l, c) /\ HasChunks(l, w, c, b) /\ Full(w)
    /\ AtHand(l, w, c, b[w.number_chunks + 1])
    /\ w.chunk_count <= k /\ k < U32_MAX /\ k \in Nat
    /\ pts \in Seq(Nat) /\ Points(c \o Pending(l, w)) = pts

\* The file object has raised, or a layer could not grow: what is missing will
\* not be made up, and the file is not finished either.
Lost(l, w) ==
    w.outstream.failed \/ (w.layers_failed /\ Layered(l) /\ w.writers = "compressed")

LEMMA KeptFacts ==
    ASSUME NEW l, NEW w, NEW c, NEW b, NEW pts, NEW k, Kept(l, w, c, b, pts, k)
    PROVE  /\ c \in Seq(Unit) /\ Len(c) \in Nat /\ w \in Writers /\ Fits(l, w)
           /\ w.number_chunks \in Nat /\ w.chunk_count \in Nat /\ w.layers \in Seq(Unit)
           /\ w.chunk_start_position \in Nat /\ w.chunk_size \in 1 .. U32_MAX
           /\ w.chunk_bytes \in Seq(0 .. U32_MAX) /\ Len(w.chunk_bytes) = w.number_chunks
           /\ b[w.number_chunks + 1] \in Nat /\ b[w.number_chunks + 1] <= Len(c)
           /\ w.outstream.pos = Len(c) /\ First(l) \in Nat /\ Base \in Nat
<1>1. c \in Seq(Unit) /\ w \in Writers /\ Fits(l, w) /\ w.outstream.pos = Len(c)
  BY DEF Kept, Ready, Fits, Holds
<1>2. /\ w.number_chunks \in Nat /\ w.chunk_count \in Nat /\ w.layers \in Seq(Unit)
      /\ w.chunk_start_position \in Nat /\ w.chunk_size \in 1 .. U32_MAX
      /\ w.chunk_bytes \in Seq(0 .. U32_MAX)
  BY <1>1 DEF Writers
<1>3. Len(w.chunk_bytes) = w.number_chunks
  BY <1>1 DEF Fits
<1>4. b \in [1 .. w.number_chunks + 1 -> Nat] /\ b[w.number_chunks + 1] <= Len(c)
  BY DEF Kept, HasChunks
<1>5. First(l) \in Nat /\ Base \in Nat
  BY PrefaceUnits DEF First
<1> QED BY <1>1, <1>2, <1>3, <1>4, <1>5

LEMMA NotPoints ==
    ASSUME NEW x
    PROVE  /\ ~IsPoint(<<"end">>) /\ ~IsPoint(<<"count", x>>) /\ ~IsPoint(<<"position", x>>)
           /\ IsPoint(<<"raw", x>>) /\ IsPoint(<<"encoded", x>>)
BY DEF IsPoint

\* Closing the open chunk makes it whole and adds no points.
Whole(l, w, c, pts, f, e) ==
    /\ e \in Seq(Unit) /\ Len(e) = f + w.chunk_count + 1 /\ w.chunk_count >= 1
    /\ IsChunk(l, SubSeq(e, f + 1, Len(e)))
    /\ Points(e) = pts
    /\ Len(c) <= Len(e) /\ \A i \in 1 .. Len(c) : e[i] = c[i]

LEMMA MakesWhole ==
    ASSUME NEW l, NEW w, NEW c, NEW b, NEW pts, NEW k, Kept(l, w, c, b, pts, k),
           w.writers = "compressed", NEW f, f = b[w.number_chunks + 1],
           NEW e, e = c \o Closing(l, w)
    PROVE  Whole(l, w, c, pts, f, e)
<1> DEFINE n == w.chunk_count
           z == SubSeq(e, f + 1, Len(e))
<1>1. /\ c \in Seq(Unit) /\ Len(c) \in Nat /\ w \in Writers /\ n \in Nat
      /\ w.layers \in Seq(Unit) /\ f \in Nat /\ f <= Len(c)
  BY KeptFacts
<1>2. AtHand(l, w, c, f) /\ Points(c \o Pending(l, w)) = pts /\ pts \in Seq(Nat)
  BY DEF Kept
<1>3. /\ <<"end">> \in Unit /\ <<"count", n>> \in Unit /\ Closing(l, w) \in Seq(Unit)
  BY <1>1, ClosingUnits
<1>4. n >= 1
  BY DEF Kept, Ready, Fits
<1>5. /\ e \in Seq(Unit) /\ Len(e) = Len(c) + Len(Closing(l, w))
      /\ \A i \in 1 .. Len(c) : e[i] = c[i]
      /\ \A i \in 1 .. Len(Closing(l, w)) : e[Len(c) + i] = Closing(l, w)[i]
  BY <1>1, <1>3, EndToEnd
<1> HIDE DEF n
<1>6. CASE ~Layered(l)
  <2> DEFINE x == <<"end">>
             y == <<x>>
  <2>1. x \in Unit /\ Closing(l, w) = y
    BY <1>3, <1>6 DEF Closing
  <2>2. ~IsPoint(x) /\ x = <<"end">>
    BY NotPoints
  <2> HIDE DEF x
  <2>3. y \in Seq(Unit) /\ Len(y) = 1 /\ y[1] = x
    BY <2>1, OneUnit
  <2>4. Len(c) = f + n /\ c[f + 1][1] = "raw" /\ \A i \in f + 2 .. Len(c) : c[i][1] = "encoded"
    BY <1>2, <1>6 DEF AtHand, n
  <2>5. e = c \o y
    BY <2>1
  <2> HIDE DEF y
  <2>6. Len(e) = f + n + 1 /\ e[f + n + 1] = x
    BY ONLY <1>1, <1>5, <2>1, <2>3, <2>4
  <2>7. /\ z \in Seq(Unit) /\ Len(z) = n + 1 /\ \A i \in 1 .. n + 1 : z[i] = e[f + i]
    <3>1. Len(e) \in Nat /\ f <= Len(e) /\ Len(e) <= Len(e) /\ Len(e) - f = n + 1
      <4>1. Len(e) \in Nat
        BY ONLY <1>5
      <4> QED BY ONLY <1>1, <2>6, <4>1
    <3> QED BY ONLY <1>1, <1>5, <3>1, Part
  <2> HIDE DEF z
  <2>8. z[1][1] = "raw" /\ z[n + 1] = <<"end">> /\ \A i \in 2 .. n : z[i][1] = "encoded"
    <3>1. z[1] = c[f + 1]
      BY ONLY <1>1, <1>4, <1>5, <2>4, <2>7
    <3>2. z[n + 1] = x
      BY ONLY <1>1, <2>6, <2>7
    <3>3. ASSUME NEW i \in 2 .. n PROVE z[i][1] = "encoded"
      <4>1. i \in 1 .. n + 1 /\ f + i \in f + 2 .. Len(c) /\ f + i \in 1 .. Len(c)
        BY ONLY <1>1, <2>4, <3>3
      <4> QED BY ONLY <1>5, <2>4, <2>7, <4>1
    <3> QED BY <2>2, <2>4, <3>1, <3>2, <3>3
  <2>9. IsChunk(l, z)
    <3>1. Len(z) - 1 = n
      BY ONLY <1>1, <2>7
    <3> QED BY <1>4, <1>6, <2>8, <3>1 DEF IsChunk
  <2>10. Points(e) = pts
    <3>1. c \o <<>> = c
      BY <1>1
    <3>2. Points(c) = pts
      BY <1>2, <1>6, <3>1 DEF Pending
    <3> QED BY <1>1, <1>2, <2>1, <2>2, <2>5, <3>2, PointsAfter DEF y
  <2> QED BY <1>1, <1>4, <1>5, <2>6, <2>9, <2>10 DEF z, n, Whole
<1>7. CASE Layered(l)
  <2> DEFINE x == <<"count", n>>
             y == <<x>>
             a == w.layers
             d == y \o a
  <2>1. x \in Unit /\ Closing(l, w) = d
    BY <1>3, <1>7 DEF Closing, n
  <2>2. ~IsPoint(x) /\ x = <<"count", n>>
    BY NotPoints
  <2> HIDE DEF x
  <2>3. y \in Seq(Unit) /\ Len(y) = 1 /\ y[1] = x
    BY <2>1, OneUnit
  <2>4. /\ Len(c) = f + 1 /\ c[f + 1][1] = "raw" /\ n = Len(a) + 1
        /\ \A i \in 1 .. Len(a) : a[i][1] = "encoded"
    BY <1>2, <1>7 DEF AtHand, n
  <2>5. Points(c \o a) = pts /\ a \in Seq(Unit)
    BY <1>1, <1>2, <1>7 DEF Pending
  <2>e. e = c \o d
    BY <2>1
  <2> HIDE DEF y, a
  <2>6. /\ Len(d) = 1 + Len(a) /\ d[1] = x /\ d \in Seq(Unit)
        /\ \A i \in 1 .. Len(a) : d[1 + i] = a[i]
    <3>1. /\ y \o a \in Seq(Unit) /\ Len(y \o a) = Len(y) + Len(a)
          /\ \A i \in 1 .. Len(y) : (y \o a)[i] = y[i]
          /\ \A i \in 1 .. Len(a) : (y \o a)[Len(y) + i] = a[i]
      BY ONLY <2>3, <2>5, EndToEnd
    <3>2. 1 \in 1 .. Len(y)
      BY ONLY <2>3
    <3> QED BY ONLY <2>3, <3>1, <3>2
  <2> HIDE DEF d
  <2>7. Len(e) = f + n + 1 /\ Len(a) \in Nat /\ Len(d) = n
    BY ONLY <1>1, <1>5, <2>1, <2>4, <2>5, <2>6
  <2>8. /\ z \in Seq(Unit) /\ Len(z) = n + 1 /\ \A i \in 1 .. n + 1 : z[i] = e[f + i]
    <3>1. Len(e) \in Nat /\ f <= Len(e) /\ Len(e) <= Len(e) /\ Len(e) - f = n + 1
      <4>1. Len(e) \in Nat
        BY ONLY <1>5
      <4> QED BY ONLY <1>1, <2>7, <4>1
    <3> QED BY ONLY <1>1, <1>5, <3>1, Part
  <2> HIDE DEF z
  <2>9. z[1][1] = "raw" /\ z[2] = x /\ \A i \in 3 .. n + 1 : z[i][1] = "encoded"
    <3>1. z[1] = c[f + 1]
      BY ONLY <1>1, <1>4, <1>5, <2>4, <2>8
    <3>2. z[2] = x
      <4>1. z[2] = e[f + 2] /\ f + 2 = Len(c) + 1 /\ 1 \in 1 .. Len(d)
        BY ONLY <1>1, <1>4, <2>4, <2>7, <2>8
      <4> QED BY ONLY <1>5, <2>1, <2>6, <4>1
    <3>3. ASSUME NEW i \in 3 .. n + 1 PROVE z[i][1] = "encoded"
      <4> DEFINE j == i - 2
      <4>1. /\ i \in 1 .. n + 1 /\ j \in 1 .. Len(a) /\ j + 1 \in 1 .. Len(d)
            /\ f + i = Len(c) + (1 + j) /\ 1 + j \in 1 .. Len(d)
        BY ONLY <1>1, <2>4, <2>7, <3>3
      <4> HIDE DEF j
      <4>2. z[i] = e[Len(c) + (1 + j)]
        BY ONLY <2>8, <4>1
      <4>3. e[Len(c) + (1 + j)] = d[1 + j]
        BY ONLY <1>5, <2>1, <4>1
      <4>4. d[1 + j] = a[j]
        BY ONLY <2>1, <2>6, <4>1
      <4> QED BY <2>4, <4>1, <4>2, <4>3, <4>4
    <3> QED BY <2>4, <3>1, <3>2, <3>3
  <2>10. IsChunk(l, z)
    <3>1. Len(z) - 1 = n
      BY ONLY <1>1, <2>8
    <3> QED BY <1>4, <1>7, <2>2, <2>9, <3>1 DEF IsChunk
  <2>11. Points(e) = pts
    <3>1. Points(y) = <<>>
      BY <2>1, <2>2, PointsOfOne DEF y
    <3>2. Points(d) = <<>> \o Points(a)
      BY <2>3, <2>5, <3>1, PointsEndToEnd DEF d
    <3>3. PICK S : Points(a) \in Seq(S)
      BY <2>5, PointsEndToEnd
    <3>4. Points(d) = Points(a)
      BY <3>2, <3>3, ConcatEmptySeq
    <3>5. Points(e) = Points(c) \o Points(a)
      BY <1>1, <2>6, <2>e, <3>4, PointsEndToEnd
    <3>6. Points(c \o a) = Points(c) \o Points(a)
      BY <1>1, <2>5, PointsEndToEnd
    <3> QED BY <2>5, <3>5, <3>6
  <2> QED BY <1>1, <1>4, <1>5, <2>7, <2>10, <2>11 DEF z, n, Whole
<1> QED BY <1>6, <1>7

LEMMA LedOn ==
    ASSUME NEW l, NEW c \in Seq(Unit), NEW e \in Seq(Unit), Led(l, c),
           Len(c) <= Len(e), \A i \in 1 .. Len(c) : e[i] = c[i]
    PROVE  Led(l, e)
<1>1. First(l) \in Nat /\ Base \in Nat /\ (Chunked(l) => First(l) = Base + 1)
  BY PrefaceUnits DEF First
<1>2. First(l) <= Len(c) /\ Len(c) \in Nat /\ Len(e) \in Nat
  BY DEF Led
<1>3. \A i \in 1 .. First(l) : e[i] = c[i]
  BY <1>1, <1>2
<1>4. Chunked(l) => e[Base + 1] = c[Base + 1]
  BY <1>1, <1>3
<1> QED BY <1>1, <1>2, <1>3, <1>4 DEF Led

\* A chunk lies where it lay.
LEMMA StaysAChunk ==
    ASSUME NEW l, NEW c \in Seq(Unit), NEW e \in Seq(Unit), NEW m \in Nat, NEW n \in Nat,
           m <= n, n <= Len(c), n <= Len(e), \A i \in m + 1 .. n : e[i] = c[i],
           IsChunk(l, SubSeq(c, m + 1, n))
    PROVE  IsChunk(l, SubSeq(e, m + 1, n))
<1>1. SubSeq(c, m + 1, n) = SubSeq(e, m + 1, n)
  BY SamePart
<1> QED BY <1>1

\* The row the chunk gets, with what it says.
RowAdded(w, v, e) ==
    /\ v.number_chunks = w.number_chunks + 1 /\ v.chunk_start_position = Len(e)
    /\ \A i \in 1 .. w.number_chunks : v.chunk_bytes[i] = w.chunk_bytes[i]
    /\ v.chunk_bytes[w.number_chunks + 1] = w.chunk_count + 1
    /\ \A i \in 1 .. v.number_chunks : Says(v, i)

LEMMA AddsRow ==
    ASSUME NEW l, NEW w, NEW c, NEW b, NEW pts, NEW k, Kept(l, w, c, b, pts, k),
           Chunked(l), w.writers = "compressed", NEW e, e = c \o Closing(l, w),
           NEW v, Recorded(w, v), v.outstream.pos = Len(e)
    PROVE  RowAdded(w, v, e)
<1> DEFINE n == w.number_chunks
           f == b[n + 1]
           m == w.chunk_count
           B == 0 .. U32_MAX
           C == 1 .. U32_MAX
           x == (v.outstream.pos - w.chunk_start_position) % (U32_MAX + 1)
<1>1. /\ c \in Seq(Unit) /\ w \in Writers /\ Fits(l, w) /\ n \in Nat /\ m \in Nat
      /\ w.chunk_bytes \in Seq(B) /\ Len(w.chunk_bytes) = n /\ f \in Nat
      /\ w.chunk_size \in 1 .. U32_MAX
  BY KeptFacts
<1>2. Len(e) = f + m + 1 /\ m >= 1
  <2>1. /\ Kept(l, w, c, b, pts, k) /\ w.writers = "compressed" /\ e = c \o Closing(l, w)
        /\ f = b[w.number_chunks + 1]
    OBVIOUS
  <2> HIDE DEF f
  <2>2. Whole(l, w, c, pts, f, e)
    BY ONLY <2>1, MakesWhole
  <2> QED BY <2>2 DEF Whole
<1>3. /\ w.chunk_start_position = f /\ Full(w) /\ m <= k /\ k < U32_MAX /\ k \in Nat
      /\ U32_MAX \in Nat /\ \A i \in 1 .. n : Says(w, i)
  BY WriterAssumption DEF Kept, HasChunks
<1>4. m <= w.chunk_size /\ (w.chunk_size = U32_MAX => Len(w.chunk_sizes) = n)
      /\ w.chunk_sizes \in Seq(C)
  BY <1>1 DEF Fits, Writers
<1>5. /\ v.number_chunks = n + 1 /\ v.chunk_bytes = Append(w.chunk_bytes, x)
      /\ v.chunk_sizes = IF w.chunk_size = U32_MAX THEN Append(w.chunk_sizes, m)
                         ELSE w.chunk_sizes
      /\ v.chunk_start_position = v.outstream.pos /\ v.chunk_size = w.chunk_size
  BY DEF Recorded
<1>6. x = m + 1 /\ m + 1 \in B /\ m \in C
  <2>1. v.outstream.pos - w.chunk_start_position = m + 1
    BY <1>1, <1>2, <1>3
  <2>2. m + 1 \in 0 .. U32_MAX /\ m \in 1 .. U32_MAX
    <3>1. m \in Nat /\ m >= 1 /\ m <= k /\ k < U32_MAX /\ k \in Nat /\ U32_MAX \in Nat
      BY <1>1, <1>2, <1>3
    <3> HIDE DEF m
    <3> QED BY ONLY <3>1
  <2>3. \A y \in 0 .. U32_MAX : y % (U32_MAX + 1) = y
    BY ONLY <1>3
  <2> QED BY <2>1, <2>2, <2>3
<1> HIDE DEF B, C, x, n, m, f
<1>7. /\ v.chunk_bytes[n + 1] = m + 1
      /\ \A i \in 1 .. n : v.chunk_bytes[i] = w.chunk_bytes[i]
  <2> DEFINE y == m + 1
             t == w.chunk_bytes
  <2>1. v.chunk_bytes = Append(t, y) /\ y \in B /\ t \in Seq(B) /\ Len(t) = n
    BY <1>1, <1>5, <1>6
  <2> HIDE DEF y, t
  <2>2. v.chunk_bytes[Len(t) + 1] = y /\ \A i \in 1 .. Len(t) : v.chunk_bytes[i] = t[i]
    BY ONLY <2>1, AppendProperties
  <2> QED BY <2>1, <2>2 DEF y, t
<1>8. w.chunk_size = U32_MAX
        => v.chunk_sizes[n + 1] = m /\ \A i \in 1 .. n : v.chunk_sizes[i] = w.chunk_sizes[i]
  <2> SUFFICES ASSUME w.chunk_size = U32_MAX
               PROVE  v.chunk_sizes[n + 1] = m
                      /\ \A i \in 1 .. n : v.chunk_sizes[i] = w.chunk_sizes[i]
    OBVIOUS
  <2> DEFINE t == w.chunk_sizes
  <2>1. v.chunk_sizes = Append(t, m) /\ Len(t) = n /\ m \in C /\ t \in Seq(C)
    BY <1>4, <1>5, <1>6
  <2> HIDE DEF t
  <2>2. v.chunk_sizes[Len(t) + 1] = m /\ \A i \in 1 .. Len(t) : v.chunk_sizes[i] = t[i]
    BY ONLY <2>1, AppendProperties
  <2> QED BY <2>1, <2>2 DEF t
<1>9. ASSUME NEW i \in 1 .. v.number_chunks PROVE Says(v, i)
  <2>1. CASE i = n + 1
    <3>1. v.chunk_bytes[i] - 1 = m /\ ~(i < v.number_chunks)
      <4>1. v.number_chunks = n + 1 /\ v.chunk_bytes[i] = m + 1 /\ m \in Nat /\ n \in Nat
        BY <1>1, <1>5, <1>7, <2>1
      <4> QED BY ONLY <2>1, <4>1
    <3> QED BY <1>4, <1>5, <1>8, <2>1, <3>1 DEF Says
  <2>2. CASE i # n + 1
    <3>1. i \in 1 .. n /\ Says(w, i)
      BY <1>1, <1>3, <1>5, <2>2
    <3>2. v.chunk_bytes[i] = w.chunk_bytes[i]
      BY <1>7, <3>1
    <3>3. CASE w.chunk_size = U32_MAX
      BY <1>5, <1>8, <3>1, <3>2, <3>3 DEF Says
    <3>4. CASE w.chunk_size # U32_MAX
      <4>1. w.chunk_bytes[i] = w.chunk_size + 1
        BY <1>3, <3>1, <3>4 DEF Full, n
      <4>2. v.chunk_bytes[i] - 1 = v.chunk_size /\ v.chunk_size <= v.chunk_size
        BY <1>1, <1>5, <3>2, <4>1
      <4> QED BY <1>5, <3>4, <4>2 DEF Says
    <3> QED BY <3>3, <3>4
  <2> QED BY <2>1, <2>2
<1>10. v.chunk_start_position = Len(e)
  BY <1>5
<1> QED BY <1>5, <1>7, <1>9, <1>10 DEF n, m, RowAdded

\* What is recorded is one more chunk, and ends where the stream is.
ClosedAt(l, v, e, b) ==
    /\ Led(l, e) /\ HasChunks(l, v, e, b) /\ b[v.number_chunks + 1] = Len(e)

LEMMA AddsChunk ==
    ASSUME NEW l, NEW w, NEW c, NEW b, NEW pts, NEW k, Kept(l, w, c, b, pts, k),
           Chunked(l), w.writers = "compressed", NEW e, e = c \o Closing(l, w),
           NEW v, Recorded(w, v), v.outstream.pos = Len(e)
    PROVE  \E d : ClosedAt(l, v, e, d)
<1> DEFINE n == w.number_chunks
           f == b[n + 1]
           m == w.chunk_count
           d == [i \in 1 .. n + 2 |-> IF i = n + 2 THEN Len(e) ELSE b[i]]
<1>1. /\ c \in Seq(Unit) /\ n \in Nat /\ m \in Nat /\ f \in Nat /\ f <= Len(c)
      /\ w.chunk_bytes \in Seq(0 .. U32_MAX) /\ Len(w.chunk_bytes) = n /\ Len(c) \in Nat
  BY KeptFacts
<1>2. /\ e \in Seq(Unit) /\ Len(e) = f + m + 1 /\ IsChunk(l, SubSeq(e, f + 1, Len(e)))
      /\ Len(c) <= Len(e) /\ \A i \in 1 .. Len(c) : e[i] = c[i]
  <2>1. /\ Kept(l, w, c, b, pts, k) /\ w.writers = "compressed" /\ e = c \o Closing(l, w)
        /\ f = b[w.number_chunks + 1]
    OBVIOUS
  <2> HIDE DEF f
  <2>2. Whole(l, w, c, pts, f, e)
    BY ONLY <2>1, MakesWhole
  <2> QED BY <2>2 DEF Whole
<1>3. /\ v.number_chunks = n + 1 /\ v.chunk_start_position = Len(e)
      /\ \A i \in 1 .. n : v.chunk_bytes[i] = w.chunk_bytes[i]
      /\ v.chunk_bytes[n + 1] = m + 1
      /\ \A i \in 1 .. v.number_chunks : Says(v, i)
  <2>1. RowAdded(w, v, e)
    BY AddsRow
  <2> QED BY <2>1 DEF RowAdded
<1>4. /\ b \in [1 .. n + 1 -> Nat] /\ b[1] = First(l)
      /\ \A i \in 1 .. n : /\ b[i + 1] = b[i] + w.chunk_bytes[i] /\ b[i + 1] <= Len(c)
                           /\ IsChunk(l, SubSeq(c, b[i] + 1, b[i + 1]))
  BY DEF Kept, HasChunks
<1>5. Led(l, e)
  <2>1. Led(l, c)
    BY DEF Kept
  <2> QED BY <1>1, <1>2, <2>1, LedOn
<1>6. Len(e) \in Nat /\ \A i \in 1 .. n : w.chunk_bytes[i] \in Nat
  <2> DEFINE B == 0 .. U32_MAX
             t == w.chunk_bytes
  <2>1. t \in Seq(B) /\ Len(t) = n /\ B \subseteq Nat
    BY <1>1
  <2> HIDE DEF B, t
  <2>2. \A i \in 1 .. n : t[i] \in Nat
    <3>1. \A i \in 1 .. Len(t) : t[i] \in B
      BY ONLY <2>1, ElementOfSeq
    <3> QED BY <2>1, <3>1
  <2>3. Len(e) \in Nat
    BY ONLY <1>2
  <2> QED BY <2>2, <2>3 DEF t
<1>7. /\ d \in [1 .. n + 2 -> Nat] /\ d[n + 2] = Len(e) /\ \A i \in 1 .. n + 1 : d[i] = b[i]
  <2> DEFINE h(i) == IF i = n + 2 THEN Len(e) ELSE b[i]
  <2>1. h(n + 2) = Len(e) /\ \A i \in 1 .. n + 1 : h(i) = b[i]
    BY ONLY <1>1
  <2>2. \A i \in 1 .. n + 2 : i = n + 2 \/ i \in 1 .. n + 1
    BY ONLY <1>1
  <2>3. \A i \in 1 .. n + 1 : b[i] \in Nat
    BY ONLY <1>4
  <2> HIDE DEF n
  <2>4. \A i \in 1 .. n + 2 : h(i) \in Nat
    BY ONLY <1>6, <2>1, <2>2, <2>3
  <2>5. d = [i \in 1 .. n + 2 |-> h(i)]
    OBVIOUS
  <2>6. n + 2 \in 1 .. n + 2 /\ \A i \in 1 .. n + 1 : i \in 1 .. n + 2
    BY ONLY <1>1
  <2> HIDE DEF h, d
  <2> QED BY ONLY <2>1, <2>4, <2>5, <2>6
<1>8. (n + 1) + 1 = n + 2 /\ 1 \in 1 .. n + 1 /\ n + 1 \in 1 .. n + 1
  BY <1>1
<1>f. f = b[n + 1]
  OBVIOUS
<1> HIDE DEF d, f, n, m
<1>9. ASSUME NEW i \in 1 .. v.number_chunks
      PROVE  /\ d[i + 1] = d[i] + v.chunk_bytes[i] /\ d[i + 1] <= Len(e)
             /\ IsChunk(l, SubSeq(e, d[i] + 1, d[i + 1]))
  <2>1. CASE i = n + 1
    <3>1. i + 1 = n + 2 /\ d[i + 1] = Len(e) /\ d[i] = f
      BY <1>7, <1>8, <1>f, <2>1
    <3>2. d[i + 1] = d[i] + v.chunk_bytes[i]
      BY ONLY <1>1, <1>2, <1>3, <2>1, <3>1
    <3> QED BY <1>2, <1>6, <3>1, <3>2
  <2>2. CASE i # n + 1
    <3>1. i \in 1 .. n /\ i + 1 \in 1 .. n + 1 /\ i \in 1 .. n + 1
      BY ONLY <1>1, <1>3, <1>9, <2>2
    <3> DEFINE p == b[i]
               q == b[i + 1]
    <3>2. d[i] = p /\ d[i + 1] = q /\ v.chunk_bytes[i] = w.chunk_bytes[i]
      BY <1>3, <1>7, <3>1
    <3>3. /\ p \in Nat /\ q \in Nat /\ q = p + w.chunk_bytes[i] /\ q <= Len(c)
          /\ IsChunk(l, SubSeq(c, p + 1, q)) /\ w.chunk_bytes[i] \in Nat
      BY <1>4, <1>6, <3>1
    <3> HIDE DEF p, q
    <3>4. p <= q /\ q <= Len(e) /\ \A j \in p + 1 .. q : e[j] = c[j]
      <4>1. p <= q /\ q <= Len(e)
        <5>1. Len(c) \in Nat /\ Len(e) \in Nat /\ Len(c) <= Len(e)
          BY ONLY <1>1, <1>2, <1>6
        <5>2. p \in Nat /\ q \in Nat /\ w.chunk_bytes[i] \in Nat
              /\ q = p + w.chunk_bytes[i] /\ q <= Len(c)
          BY ONLY <3>3
        <5> QED BY ONLY <5>1, <5>2
      <4>2. p + 1 .. q \subseteq 1 .. Len(c)
        BY ONLY <1>1, <3>3
      <4> QED BY ONLY <1>2, <4>1, <4>2
    <3>5. IsChunk(l, SubSeq(e, p + 1, q))
      BY ONLY <1>1, <1>2, <3>3, <3>4, StaysAChunk
    <3> QED BY <3>2, <3>3, <3>4, <3>5
  <2> QED BY <2>1, <2>2
<1>10. v.number_chunks + 1 = n + 2 /\ d[1] = First(l)
  BY <1>1, <1>3, <1>4, <1>7, <1>8
<1>11. HasChunks(l, v, e, d) /\ d[v.number_chunks + 1] = Len(e)
  BY <1>3, <1>6, <1>7, <1>9, <1>10 DEF HasChunks
<1> QED BY <1>5, <1>11 DEF ClosedAt

-----------------------------------------------------------------------------
(* What is kept, one operation on. *)

LEMMA KeptSame ==
    ASSUME NEW l, NEW w, NEW c, NEW b, NEW pts, NEW k, Kept(l, w, c, b, pts, k),
           NEW r, Same(w, r), Ready(l, r, c), ~r.outstream.failed
    PROVE  Kept(l, r, c, b, pts, k)
<1>1. /\ Led(l, c) /\ HasChunks(l, w, c, b) /\ Full(w) /\ ~w.layers_failed
      /\ AtHand(l, w, c, b[w.number_chunks + 1])
      /\ w.chunk_count <= k /\ k < U32_MAX /\ k \in Nat
      /\ pts \in Seq(Nat) /\ Points(c \o Pending(l, w)) = pts
  BY DEF Kept
<1>2. HasChunks(l, r, c, b) /\ Full(r)
  BY <1>1 DEF HasChunks, Says, Same, Full
<1>3. AtHand(l, r, c, b[r.number_chunks + 1])
  BY <1>1 DEF AtHand, Same
<1>4. Pending(l, r) = Pending(l, w) /\ r.chunk_count = w.chunk_count
      /\ r.layers_failed = w.layers_failed
  BY DEF Pending, Same
<1> QED BY <1>1, <1>2, <1>3, <1>4 DEF Kept

\* A writer as it should be, or one whose file object has raised.
KeptOn(l, r, pts, k) == r.outstream.failed \/ \E e, d : Kept(l, r, e, d, pts, k)

LEMMA KeptCloses ==
    ASSUME NEW l, NEW w, NEW c, NEW b, NEW pts, NEW k, Kept(l, w, c, b, pts, k), w.ok,
           Chunked(l), w.writers = "compressed",
           w.chunk_size = U32_MAX \/ w.chunk_count = w.chunk_size,
           NEW oom, oom # "table", NEW r, r = close_and_record(l, w, oom)
    PROVE  r.ok /\ KeptOn(l, r, pts, k) /\ r.writers = "NULL"
<1> DEFINE e == c \o Closing(l, w)
<1>1. Ready(l, w, c) /\ w.chunk_count >= 1 /\ Compressed(l) /\ ~Spoilt(l, w)
  BY DEF Kept, Ready, Fits, Spoilt, Chunked, Compressed
<1>2. /\ r.ok => /\ Ready(l, r, c \o Closing(l, w)) /\ Recorded(w, r)
                 /\ r.chunk_count = 0 /\ r.writers = "NULL"
      /\ ~r.ok => Spoilt(l, w) \/ oom = "table"
  BY ONLY <1>1, w.ok, r = close_and_record(l, w, oom), ClosesAndRecords
<1>3. /\ r.ok /\ Ready(l, r, e) /\ Recorded(w, r) /\ r.chunk_count = 0
      /\ r.writers = "NULL"
  BY <1>1, <1>2
<1>e. e = c \o Closing(l, w)
  OBVIOUS
<1> HIDE DEF e
<1>4. ASSUME ~r.outstream.failed
      PROVE  \E d : Kept(l, r, e, d, pts, k)
  <2>1. r.outstream.pos = Len(e)
    BY <1>3, <1>4 DEF Ready, Holds
  <2>2. PICK d : ClosedAt(l, r, e, d)
    BY <1>3, <1>e, <2>1, AddsChunk
  <2>3. /\ r.number_chunks = w.number_chunks + 1
        /\ \A i \in 1 .. w.number_chunks : r.chunk_bytes[i] = w.chunk_bytes[i]
        /\ r.chunk_bytes[w.number_chunks + 1] = w.chunk_count + 1
    <3>1. RowAdded(w, r, e)
      BY <1>3, <1>e, <2>1, AddsRow
    <3> QED BY <3>1 DEF RowAdded
  <2>4. w.number_chunks \in Nat /\ r.chunk_size = w.chunk_size /\ r.layers_failed = w.layers_failed
    BY <1>3, KeptFacts DEF Recorded
  <2>5. Full(r)
    <3>1. ASSUME r.chunk_size # U32_MAX, NEW i \in 1 .. r.number_chunks
          PROVE  r.chunk_bytes[i] = r.chunk_size + 1
      <4>1. w.chunk_count = w.chunk_size /\ Full(w)
        BY <2>4, <3>1 DEF Kept
      <4>2. CASE i = w.number_chunks + 1
        BY <2>3, <2>4, <4>1, <4>2
      <4>3. CASE i # w.number_chunks + 1
        <5>1. i \in 1 .. w.number_chunks
          BY <2>3, <2>4, <3>1, <4>3
        <5> QED BY <2>3, <2>4, <3>1, <4>1, <5>1 DEF Full
      <4> QED BY <4>2, <4>3
    <3> QED BY <3>1 DEF Full
  <2>6. AtHand(l, r, e, d[r.number_chunks + 1])
    BY <1>3, <2>2 DEF AtHand, ClosedAt
  <2>7. Points(e) = pts /\ e \in Seq(Unit)
    <3> DEFINE f == b[w.number_chunks + 1]
    <3>1. /\ Kept(l, w, c, b, pts, k) /\ w.writers = "compressed" /\ e = c \o Closing(l, w)
          /\ f = b[w.number_chunks + 1]
      BY <1>e
    <3> HIDE DEF f
    <3>2. Whole(l, w, c, pts, f, e)
      BY ONLY <3>1, MakesWhole
    <3> QED BY <3>2 DEF Whole
  <2>8. Points(e \o Pending(l, r)) = pts
    <3>1. Pending(l, r) = <<>>
      BY <1>3 DEF Pending
    <3>2. e \o <<>> = e
      BY <2>7
    <3> QED BY <2>7, <3>1, <3>2
  <2>9. k < U32_MAX /\ k \in Nat /\ pts \in Seq(Nat) /\ ~w.layers_failed
    BY DEF Kept
  <2>10. r.chunk_count <= k
    BY <1>3, <2>9
  <2>11. Kept(l, r, e, d, pts, k)
    BY <1>3, <1>4, <2>2, <2>4, <2>5, <2>6, <2>8, <2>9, <2>10 DEF Kept, ClosedAt
  <2> QED BY <2>11
<1> QED BY <1>3, <1>4 DEF KeptOn

LEMMA OneBehind ==
    ASSUME NEW c \in Seq(Unit), NEW x \in Unit, NEW e, e = c \o <<x>>
    PROVE  /\ Len(e) = Len(c) + 1 /\ e[Len(c) + 1] = x
           /\ \A i \in 1 .. Len(c) : e[i] = c[i]
<1> DEFINE y == <<x>>
<1>1. y \in Seq(Unit) /\ Len(y) = 1 /\ y[1] = x
  BY OneUnit
<1>2. e = c \o y
  OBVIOUS
<1> HIDE DEF y
<1>3. /\ Len(e) = Len(c) + Len(y) /\ \A i \in 1 .. Len(c) : e[i] = c[i]
      /\ \A i \in 1 .. Len(y) : e[Len(c) + i] = y[i]
  BY ONLY <1>1, <1>2, EndToEnd
<1>4. 1 \in 1 .. Len(y)
  BY <1>1
<1> QED BY ONLY <1>1, <1>3, <1>4

\* What a point adds to what is kept.
LEMMA KeptGrows ==
    ASSUME NEW l, NEW w, NEW c, NEW b, NEW pts, NEW k, Kept(l, w, c, b, pts, k),
           NEW r, NEW x \in Unit, Ready(l, r, c \o <<x>>), ~r.outstream.failed,
           IsPoint(x), x[2] = k, Pending(l, w) = <<>>, Pending(l, r) = <<>>,
           r.number_chunks = w.number_chunks, r.chunk_bytes = w.chunk_bytes,
           r.chunk_sizes = w.chunk_sizes, r.chunk_size = w.chunk_size,
           r.chunk_start_position = w.chunk_start_position,
           r.layers_failed = w.layers_failed,
           r.chunk_count <= k + 1, k + 1 < U32_MAX,
           AtHand(l, r, c \o <<x>>, b[w.number_chunks + 1])
    PROVE  Kept(l, r, c \o <<x>>, b, Append(pts, k), k + 1)
<1> DEFINE y == <<x>>
           e == c \o y
<1>1. /\ c \in Seq(Unit) /\ Len(c) \in Nat /\ w.number_chunks \in Nat
      /\ w.chunk_bytes \in Seq(0 .. U32_MAX) /\ Len(w.chunk_bytes) = w.number_chunks
  BY KeptFacts
<1>2. y \in Seq(Unit) /\ Len(y) = 1
  BY OneUnit
<1>3. /\ e \in Seq(Unit) /\ Len(e) = Len(c) + 1
      /\ \A i \in 1 .. Len(c) : e[i] = c[i]
  BY <1>1, <1>2, EndToEnd
<1>4. /\ Led(l, c) /\ HasChunks(l, w, c, b) /\ Full(w) /\ ~w.layers_failed
      /\ k \in Nat /\ pts \in Seq(Nat) /\ Points(c \o <<>>) = pts
  BY DEF Kept
<1>5. c \o <<>> = c
  BY <1>1
<1>6. Points(e) = Append(pts, k)
  <2>1. Points(c) = pts /\ x[2] \in Nat
    BY <1>4, <1>5
  <2> QED BY <1>1, <1>4, <2>1, PointsAfter
<1>7. Append(pts, k) \in Seq(Nat) /\ k + 1 \in Nat
  BY <1>4
<1> HIDE DEF e, y
<1>8. Led(l, e) /\ Len(c) <= Len(e)
  BY <1>1, <1>3, <1>4, LedOn
<1>9. HasChunks(l, r, e, b)
  <2>1. /\ b \in [1 .. w.number_chunks + 1 -> Nat] /\ b[1] = First(l)
        /\ b[w.number_chunks + 1] <= Len(c)
        /\ \A i \in 1 .. w.number_chunks :
              /\ b[i + 1] = b[i] + w.chunk_bytes[i] /\ b[i + 1] <= Len(c)
              /\ IsChunk(l, SubSeq(c, b[i] + 1, b[i + 1]))
    BY <1>4 DEF HasChunks
  <2>2. b[w.number_chunks + 1] <= Len(e)
    BY <1>1, <1>3, <2>1
  <2>3. ASSUME NEW i \in 1 .. w.number_chunks
        PROVE  b[i + 1] <= Len(e) /\ IsChunk(l, SubSeq(e, b[i] + 1, b[i + 1]))
    <3> DEFINE p == b[i]
               q == b[i + 1]
    <3>1. p \in Nat /\ q \in Nat /\ q <= Len(c) /\ IsChunk(l, SubSeq(c, p + 1, q))
          /\ q = p + w.chunk_bytes[i]
      <4>1. i \in 1 .. w.number_chunks + 1 /\ i + 1 \in 1 .. w.number_chunks + 1
        BY <1>1
      <4> QED BY <2>1, <4>1
    <3>2. w.chunk_bytes[i] \in Nat
      <4> DEFINE B == 0 .. U32_MAX
                 t == w.chunk_bytes
      <4>1. t \in Seq(B) /\ i \in 1 .. Len(t) /\ B \subseteq Nat
        BY <1>1
      <4> HIDE DEF B, t
      <4>2. t[i] \in B
        BY ONLY <4>1, ElementOfSeq
      <4> QED BY <4>1, <4>2 DEF t
    <3> HIDE DEF p, q
    <3>3. p <= q /\ q <= Len(e) /\ p + 1 .. q \subseteq 1 .. Len(c)
      <4>1. Len(c) \in Nat /\ Len(e) = Len(c) + 1
        BY ONLY <1>1, <1>3
      <4>2. p \in Nat /\ q \in Nat /\ w.chunk_bytes[i] \in Nat
            /\ q = p + w.chunk_bytes[i] /\ q <= Len(c)
        BY ONLY <3>1, <3>2
      <4> QED BY ONLY <4>1, <4>2
    <3>4. \A j \in p + 1 .. q : e[j] = c[j]
      BY ONLY <1>3, <3>3
    <3>5. IsChunk(l, SubSeq(e, p + 1, q))
      BY ONLY <1>1, <1>3, <3>1, <3>3, <3>4, StaysAChunk
    <3> QED BY <3>3, <3>5 DEF p, q
  <2>4. \A i \in 1 .. w.number_chunks : Says(r, i) <=> Says(w, i)
    BY DEF Says
  <2> QED BY <1>4, <2>2, <2>3, <2>4 DEF HasChunks
<1>10. Full(r)
  BY <1>4 DEF Full
<1>11. e \o Pending(l, r) = e
  BY <1>3
<1>12. AtHand(l, r, e, b[r.number_chunks + 1]) /\ Ready(l, r, e)
  BY DEF e, y
<1>13. Kept(l, r, e, b, Append(pts, k), k + 1)
  BY <1>4, <1>6, <1>7, <1>8, <1>9, <1>10, <1>11, <1>12 DEF Kept
<1> QED BY <1>13 DEF e, y

\* The same where the point is put into a layer.
LEMMA KeptLayers ==
    ASSUME NEW l, NEW w, NEW c, NEW b, NEW pts, NEW k, Kept(l, w, c, b, pts, k),
           Layered(l), w.writers = "compressed", k + 1 < U32_MAX,
           NEW r, Ready(l, r, c), ~r.outstream.failed, SameRows(w, r),
           r.chunk_size = w.chunk_size, r.writers = w.writers,
           r.chunk_count = w.chunk_count + 1, r.layers_failed = w.layers_failed,
           r.layers = Append(w.layers, <<"encoded", k>>)
    PROVE  Kept(l, r, c, b, Append(pts, k), k + 1)
<1> DEFINE x == <<"encoded", k>>
           y == <<x>>
           a == w.layers
           f == b[w.number_chunks + 1]
<1>1. /\ c \in Seq(Unit) /\ Len(c) \in Nat /\ a \in Seq(Unit) /\ w.chunk_count \in Nat
  BY KeptFacts
<1>2. /\ Led(l, c) /\ HasChunks(l, w, c, b) /\ Full(w) /\ ~w.layers_failed
      /\ AtHand(l, w, c, f) /\ w.chunk_count <= k
      /\ k \in Nat /\ pts \in Seq(Nat) /\ Points(c \o a) = pts
  BY DEF Kept, Pending
<1>3. x \in Unit
  BY <1>2, PointsAreUnits DEF PointUnits
<1>4. IsPoint(x) /\ x[2] = k
  BY NotPoints
<1>5. r.layers = Append(a, x) /\ x[1] = "encoded"
  OBVIOUS
<1> HIDE DEF x
<1>6. y \in Seq(Unit)
  BY <1>3, OneUnit
<1>7. r.layers = a \o y
  BY ONLY <1>1, <1>3, <1>5, AppendIsConcat
<1>8. /\ Len(r.layers) = Len(a) + 1 /\ Len(a) \in Nat
      /\ \A i \in 1 .. Len(a) : r.layers[i] = a[i]
      /\ r.layers[Len(a) + 1] = x
  <2>1. /\ Len(r.layers) = Len(a) + 1 /\ \A i \in 1 .. Len(a) : r.layers[i] = a[i]
        /\ r.layers[Len(a) + 1] = x
    BY ONLY <1>1, <1>3, <1>5, AppendProperties
  <2> QED BY <1>1, <2>1
<1>9. Points(c \o r.layers) = Append(pts, k)
  <2>1. c \o r.layers = (c \o a) \o y
    <3> HIDE DEF y, a
    <3>1. (c \o a) \o y = c \o (a \o y)
      BY ONLY <1>1, <1>6, Associative
    <3> QED BY <1>7, <3>1
  <2>2. c \o a \in Seq(Unit)
    BY <1>1
  <2> QED BY <1>2, <1>3, <1>4, <2>1, <2>2, PointsAfter
<1>10. AtHand(l, r, c, f)
  <2>1. /\ f < Len(c) /\ c[f + 1][1] = "raw" /\ Len(c) = f + 1
        /\ w.chunk_count = Len(a) + 1 /\ \A i \in 1 .. Len(a) : a[i][1] = "encoded"
    BY <1>2 DEF AtHand
  <2>2. r.chunk_count = Len(r.layers) + 1
    BY <1>8, <2>1
  <2>3. ASSUME NEW i \in 1 .. Len(r.layers) PROVE r.layers[i][1] = "encoded"
    <3>1. CASE i = Len(a) + 1
      BY <1>5, <1>8, <3>1
    <3>2. CASE i # Len(a) + 1
      <4>1. i \in 1 .. Len(a)
        BY <1>8, <3>2
      <4> QED BY <1>8, <2>1, <4>1
    <3> QED BY <3>1, <3>2
  <2> HIDE DEF a, f
  <2> QED BY <2>1, <2>2, <2>3 DEF AtHand
<1>11. HasChunks(l, r, c, b) /\ Full(r)
  BY <1>2 DEF HasChunks, Says, SameRows, Full
<1>12. Pending(l, r) = r.layers
  BY DEF Pending
<1>13. Append(pts, k) \in Seq(Nat) /\ k + 1 \in Nat /\ r.chunk_count <= k + 1
  BY <1>1, <1>2
<1>14. r.number_chunks = w.number_chunks
  BY DEF SameRows
<1> QED BY <1>2, <1>9, <1>10, <1>11, <1>12, <1>13, <1>14 DEF Kept

LEMMA KeptPlaces ==
    ASSUME NEW l, NEW v, NEW c, NEW b, NEW pts, NEW k, Kept(l, v, c, b, pts, k), v.ok,
           Compressed(l) => v.chunk_count < v.chunk_size, k + 1 < U32_MAX,
           NEW oom, oom \notin {"start", "encode"},
           NEW u, u = Counted(l, v), NEW r, r = Placed(l, u, k, oom)
    PROVE  r.ok /\ (KeptOn(l, r, Append(pts, k), k + 1) \/ Lost(l, r))
<1> DEFINE f == b[v.number_chunks + 1]
<1>1. /\ Ready(l, v, c) /\ c \in Seq(Unit) /\ Len(c) \in Nat /\ k \in Nat
      /\ v.chunk_count \in Nat /\ v.chunk_count <= k /\ f \in Nat /\ f <= Len(c)
      /\ AtHand(l, v, c, f) /\ Fits(l, v) /\ ~v.layers_failed
  BY KeptFacts DEF Kept
<1>2. /\ Ready(l, u, c) /\ u.outstream = v.outstream /\ u.ok
      /\ u.writers = v.writers /\ u.layers = v.layers
      /\ u.layers_failed = v.layers_failed /\ u.number_chunks = v.number_chunks
      /\ u.chunk_bytes = v.chunk_bytes /\ u.chunk_sizes = v.chunk_sizes
      /\ u.chunk_start_position = v.chunk_start_position
      /\ Compressed(l) => u.chunk_count = v.chunk_count + 1 /\ u.chunk_count >= 1
  <2>1. /\ v.ok /\ u = Counted(l, v)
        /\ Compressed(l) => v.chunk_count < v.chunk_size
    OBVIOUS
  <2> QED BY ONLY <1>1, <2>1, Counts
<1>3. u.chunk_size = v.chunk_size
  BY <1>1, <1>2 DEF Ready, Fits
<1>4. v.writers \in {"raw", "NULL", "compressed"} /\ (v.writers # "raw" => Compressed(l))
  BY <1>1 DEF Fits, Writers
<1>5. PointUnits(k) \subseteq Unit
  BY <1>1, PointsAreUnits
<1>f. f = b[v.number_chunks + 1]
  OBVIOUS
<1> HIDE DEF f
<1>6. CASE v.writers = "raw"
  <2> DEFINE x == <<"raw", k>>
             y == <<x>>
             e == c \o y
  <2>1. x \in Unit /\ IsPoint(x) /\ x[2] = k /\ x[1] = "raw"
    BY <1>5, NotPoints DEF PointUnits
  <2>2. r = Put(u, x)
    BY <1>2, <1>6 DEF Placed
  <2> HIDE DEF x
  <2>3. Ready(l, r, e) /\ Same(u, r) /\ r.ok = u.ok
    <3>1. Ready(l, r, c \o <<x>>) /\ Same(u, r) /\ r.ok = u.ok
      BY ONLY <1>2, <2>1, <2>2, PutsOne
    <3> QED BY <3>1
  <2>4. ~Compressed(l)
    BY <1>1, <1>6 DEF Fits
  <2>5. u = v
    BY <2>4 DEF Counted
  <2>6. y \in Seq(Unit) /\ Len(y) = 1 /\ y[1] = x
    BY <2>1, OneUnit
  <2>e. e = c \o y
    OBVIOUS
  <2> HIDE DEF y, e
  <2>7. Len(e) = Len(c) + 1 /\ e[Len(c) + 1] = x /\ \A i \in 1 .. Len(c) : e[i] = c[i]
    BY ONLY <1>1, <2>1, <2>6, <2>e, OneBehind DEF y
  <2>8. r.writers = "raw" /\ r.chunk_count = v.chunk_count
    BY <1>6, <2>3, <2>5 DEF Same
  <2>9. AtHand(l, r, e, f)
    <3>1. ASSUME NEW i \in f + 1 .. Len(e) PROVE e[i][1] = "raw"
      <4>1. CASE i = Len(c) + 1
        BY <2>1, <2>7, <4>1
      <4>2. CASE i # Len(c) + 1
        <5>1. i \in f + 1 .. Len(c) /\ i \in 1 .. Len(c)
          BY <1>1, <2>7, <4>2
        <5> QED BY <1>1, <1>6, <2>7, <5>1 DEF AtHand
      <4> QED BY <4>1, <4>2
    <3> QED BY <2>8, <3>1 DEF AtHand
  <2>10. Pending(l, v) = <<>> /\ Pending(l, r) = <<>>
    BY <1>6, <2>8 DEF Pending
  <2>11. /\ r.number_chunks = v.number_chunks /\ r.chunk_bytes = v.chunk_bytes
         /\ r.chunk_sizes = v.chunk_sizes /\ r.chunk_size = v.chunk_size
         /\ r.chunk_start_position = v.chunk_start_position
         /\ r.layers_failed = v.layers_failed
    BY <2>3, <2>5 DEF Same
  <2>12. r.chunk_count <= k + 1
    BY <1>1, <2>8
  <2>13. ~r.outstream.failed => Kept(l, r, c \o <<x>>, b, Append(pts, k), k + 1)
    BY <1>f, <2>1, <2>3, <2>9, <2>10, <2>11, <2>12, KeptGrows DEF e, y
  <2> QED BY <1>2, <2>3, <2>13 DEF KeptOn
<1>7. CASE v.writers = "NULL"
  <2> DEFINE x == <<"raw", k>>
             y == <<x>>
             e == c \o y
  <2>1. x \in Unit /\ IsPoint(x) /\ x[2] = k /\ x[1] = "raw"
    BY <1>5, NotPoints DEF PointUnits
  <2>2. r = start(u, k, oom)
    BY <1>2, <1>7 DEF Placed
  <2>3. Compressed(l) /\ u.chunk_count >= 1 /\ u.chunk_count = v.chunk_count + 1
    BY <1>2, <1>4, <1>7
  <2>4. /\ Ready(l, r, e) /\ r.ok /\ r.writers = "compressed" /\ r.layers = <<>>
        /\ r.chunk_count = u.chunk_count /\ r.number_chunks = u.number_chunks
        /\ r.chunk_bytes = u.chunk_bytes /\ r.chunk_sizes = u.chunk_sizes
        /\ r.chunk_start_position = u.chunk_start_position
        /\ r.layers_failed = u.layers_failed
    <3>1. /\ Ready(l, r, c \o <<<<"raw", k>>>>)
          /\ r.chunk_count = u.chunk_count /\ r.number_chunks = u.number_chunks
          /\ r.chunk_bytes = u.chunk_bytes /\ r.chunk_sizes = u.chunk_sizes
          /\ r.chunk_start_position = u.chunk_start_position
          /\ r.layers_failed = u.layers_failed
          /\ oom # "start" => r.ok = u.ok /\ r.writers = "compressed" /\ r.layers = <<>>
      <4>1. k \in Nat /\ Ready(l, u, c) /\ u.writers = "NULL" /\ u.chunk_count >= 1
        BY <1>1, <1>2, <1>7, <2>3
      <4> QED BY ONLY <4>1, <2>2, Starts
    <3> QED BY <1>2, <3>1
  <2> HIDE DEF x
  <2>6. y \in Seq(Unit) /\ Len(y) = 1 /\ y[1] = x
    BY <2>1, OneUnit
  <2>e. e = c \o y
    OBVIOUS
  <2> HIDE DEF y, e
  <2>7. Len(e) = Len(c) + 1 /\ e[Len(c) + 1] = x
    BY ONLY <1>1, <2>1, <2>6, <2>e, OneBehind DEF y
  <2>8. Len(c) = f /\ v.chunk_count = 0
    BY <1>1, <1>7 DEF AtHand
  <2>9. AtHand(l, r, e, f)
    <3>1. f < Len(e) /\ e[f + 1][1] = "raw" /\ Len(e) = f + 1 /\ r.chunk_count = 1
      BY <1>1, <2>1, <2>3, <2>4, <2>7, <2>8
    <3>2. Len(r.layers) = 0 /\ \A i \in f + 2 .. Len(e) : FALSE
      BY <1>1, <2>4, <3>1
    <3>3. \A i \in 1 .. Len(r.layers) : FALSE
      BY <3>2
    <3> QED BY <2>4, <3>1, <3>2, <3>3 DEF AtHand
  <2>10. Pending(l, v) = <<>> /\ Pending(l, r) = <<>>
    BY <1>7, <2>4 DEF Pending
  <2>11. r.chunk_count <= k + 1 /\ r.chunk_size = v.chunk_size
    <3>1. r.chunk_size = v.chunk_size
      BY <1>1, <2>4 DEF Ready, Fits
    <3> QED BY <1>1, <2>3, <2>4, <3>1
  <2>12. ~r.outstream.failed => Kept(l, r, c \o <<x>>, b, Append(pts, k), k + 1)
    BY <1>2, <1>f, <2>1, <2>4, <2>9, <2>10, <2>11, KeptGrows DEF e, y
  <2> QED BY <2>4, <2>12 DEF KeptOn
<1>8. CASE v.writers = "compressed"
  <2> DEFINE x == <<"encoded", k>>
             y == <<x>>
             e == c \o y
  <2>1. x \in Unit /\ IsPoint(x) /\ x[2] = k /\ x[1] = "encoded"
    BY <1>5, NotPoints DEF PointUnits
  <2>2. r = encode(l, u, k, oom)
    BY <1>2, <1>8 DEF Placed
  <2>3. Encoded(l, u, c, k, oom, r)
    BY <1>1, <1>2, <2>2, Encodes
  <2>4. Compressed(l) /\ u.chunk_count = v.chunk_count + 1
    BY <1>2, <1>4, <1>8
  <2>5. r.ok
    BY <1>2, <2>3 DEF Encoded
  <2>6. r.chunk_size = v.chunk_size
    <3>1. \E d : Ready(l, r, d)
      BY <2>3 DEF Encoded
    <3> QED BY <1>1, <3>1 DEF Ready, Fits
  <2>7. CASE ~Layered(l)
    <3>1. Same(u, r) /\ Ready(l, r, e)
      BY <2>3, <2>7 DEF Encoded
    <3> HIDE DEF x
    <3>2. y \in Seq(Unit) /\ Len(y) = 1 /\ y[1] = x
      BY <2>1, OneUnit
    <3>e. e = c \o y
      OBVIOUS
    <3> HIDE DEF y, e
    <3>3. Len(e) = Len(c) + 1 /\ e[Len(c) + 1] = x /\ \A i \in 1 .. Len(c) : e[i] = c[i]
      BY ONLY <1>1, <2>1, <3>2, <3>e, OneBehind DEF y
    <3>4. /\ r.writers = "compressed" /\ r.chunk_count = v.chunk_count + 1
          /\ r.number_chunks = v.number_chunks /\ r.chunk_bytes = v.chunk_bytes
          /\ r.chunk_sizes = v.chunk_sizes
          /\ r.chunk_start_position = v.chunk_start_position
          /\ r.layers_failed = v.layers_failed
      BY <1>2, <1>8, <2>4, <3>1 DEF Same
    <3>5. /\ f < Len(c) /\ c[f + 1][1] = "raw" /\ Len(c) = f + v.chunk_count
          /\ \A i \in f + 2 .. Len(c) : c[i][1] = "encoded"
      BY <1>1, <1>8, <2>7 DEF AtHand
    <3>6. AtHand(l, r, e, f)
      <4>1. f < Len(e) /\ Len(e) = f + r.chunk_count
        <5>1. Len(e) = Len(c) + 1 /\ r.chunk_count = v.chunk_count + 1
              /\ Len(c) = f + v.chunk_count /\ f < Len(c)
          BY ONLY <3>3, <3>4, <3>5
        <5>2. f \in Nat /\ Len(c) \in Nat /\ v.chunk_count \in Nat
          BY ONLY <1>1
        <5> QED BY ONLY <5>1, <5>2
      <4>2. e[f + 1][1] = "raw"
        <5>1. f + 1 \in 1 .. Len(c)
          BY ONLY <1>1, <3>5
        <5> QED BY ONLY <5>1, <3>3, <3>5
      <4>3. ASSUME NEW i \in f + 2 .. Len(e) PROVE e[i][1] = "encoded"
        <5>1. CASE i = Len(c) + 1
          BY <2>1, <3>3, <5>1
        <5>2. CASE i # Len(c) + 1
          <6>1. i \in f + 2 .. Len(c) /\ i \in 1 .. Len(c)
            BY <1>1, <3>3, <5>2
          <6> QED BY <3>3, <3>5, <6>1
        <5> QED BY <5>1, <5>2
      <4> QED BY <2>7, <3>4, <4>1, <4>2, <4>3 DEF AtHand
    <3>7. Pending(l, v) = <<>> /\ Pending(l, r) = <<>>
      BY <2>7 DEF Pending
    <3>8. r.chunk_count <= k + 1
      BY <1>1, <3>4
    <3>9. ~r.outstream.failed => Kept(l, r, c \o <<x>>, b, Append(pts, k), k + 1)
      BY <1>f, <2>1, <2>6, <3>1, <3>4, <3>6, <3>7, <3>8, KeptGrows DEF e, y
    <3> QED BY <2>5, <3>9 DEF KeptOn
  <2>8. CASE Layered(l) /\ (oom = "layer" \/ u.layers_failed)
    <3>1. r.layers_failed /\ r.writers = u.writers
      BY <2>3, <2>8 DEF Encoded
    <3> QED BY <1>2, <1>8, <2>5, <2>8, <3>1 DEF Lost
  <2>9. CASE Layered(l) /\ ~(oom = "layer" \/ u.layers_failed)
    <3>1. /\ Ready(l, r, c) /\ SameRows(u, r) /\ r.outstream = u.outstream
          /\ r.chunk_count = u.chunk_count /\ r.writers = u.writers
          /\ r.layers_failed = u.layers_failed
          /\ r.layers = Append(u.layers, <<"encoded", k>>)
      BY <2>3, <2>9 DEF Encoded
    <3>2. SameRows(v, r)
      BY <1>2, <3>1 DEF SameRows
    <3>3. ~r.outstream.failed => Kept(l, r, c, b, Append(pts, k), k + 1)
      BY <1>2, <1>8, <2>4, <2>6, <2>9, <3>1, <3>2, KeptLayers
    <3> QED BY <2>5, <3>3 DEF KeptOn
  <2> QED BY <2>7, <2>8, <2>9
<1> QED BY <1>4, <1>6, <1>7, <1>8

\* A full chunk is closed in front of the next point.
LEMMA KeptClosesFirst ==
    ASSUME NEW l, NEW w, NEW c, NEW b, NEW pts, NEW k, Kept(l, w, c, b, pts, k),
           NEW oom, oom # "table", NEW v, v = ClosedFirst(l, w, oom)
    PROVE  v.ok /\ KeptOn(l, v, pts, k)
<1> DEFINE g == Begun(w)
<1>1. Ready(l, w, c) /\ ~w.outstream.failed
  BY DEF Kept
<1>2. Ready(l, g, c) /\ Same(w, g) /\ g.outstream = w.outstream /\ g.ok
  BY <1>1, Begins
<1>3. Kept(l, g, c, b, pts, k)
  BY <1>1, <1>2, KeptSame
<1>4. g.chunk_count = w.chunk_count /\ g.chunk_size = w.chunk_size
  BY <1>2 DEF Same
<1>5. v = IF Compressed(l) /\ w.chunk_count = w.chunk_size
          THEN close_and_record(l, g, oom) ELSE g
  BY DEF ClosedFirst
<1> HIDE DEF g
<1>6. CASE Compressed(l) /\ w.chunk_count = w.chunk_size
  <2>1. /\ g.chunk_count = g.chunk_size /\ g.chunk_size \in 1 .. U32_MAX
        /\ g.chunk_count <= k /\ k < U32_MAX /\ k \in Nat /\ U32_MAX \in Nat
    BY <1>3, <1>4, <1>6, KeptFacts, WriterAssumption DEF Kept
  <2>2. Fits(l, g) /\ AtHand(l, g, c, b[g.number_chunks + 1]) /\ g \in Writers
    BY <1>3 DEF Kept, Ready, Fits
  <2>3. Chunked(l)
    <3>1. g.chunk_size # U32_MAX
      BY ONLY <2>1
    <3> QED BY <2>2, <3>1 DEF Fits
  <2>4. g.writers = "compressed"
    <3>1. g.writers \in {"NULL", "raw", "compressed"} /\ (g.writers = "raw" <=> ~Compressed(l))
      BY <2>2 DEF Fits, Writers
    <3>2. g.writers = "NULL" => g.chunk_count = 0
      BY <2>2 DEF AtHand
    <3>3. g.chunk_count # 0
      BY ONLY <2>1
    <3> QED BY <1>6, <3>1, <3>2, <3>3
  <2>5. v = close_and_record(l, g, oom)
    BY <1>5, <1>6
  <2> QED BY <1>2, <1>3, <2>1, <2>3, <2>4, <2>5, KeptCloses
<1>7. CASE ~(Compressed(l) /\ w.chunk_count = w.chunk_size)
  <2>1. v = g
    BY <1>5, <1>7
  <2> QED BY <1>2, <1>3, <2>1 DEF KeptOn
<1> QED BY <1>6, <1>7

\* A write keeps the point, or something is lost.
LEMMA KeptWrites ==
    ASSUME NEW l, NEW w, NEW c, NEW b, NEW pts, NEW k, Kept(l, w, c, b, pts, k),
           k + 1 < U32_MAX, NEW oom, oom \notin {"start", "encode", "table"},
           NEW r, r = laz_writepoint_write(l, w, k, oom)
    PROVE  \/ Lost(l, r)
           \/ r.ok /\ \E e, d : Kept(l, r, e, d, Append(pts, k), k + 1)
<1> DEFINE v == ClosedFirst(l, w, oom)
           u == Counted(l, v)
           q == Placed(l, u, k, oom)
<1>1. Ready(l, w, c) /\ k \in Nat
  BY DEF Kept
<1>2. r = IF ~v.ok THEN v ELSE Checked(q)
  BY WriteSteps
<1>3. v.ok /\ KeptOn(l, v, pts, k)
  BY KeptClosesFirst
<1>4. /\ \E x \in Seq(Unit) : Ready(l, v, c \o x)
      /\ Compressed(l) => v.chunk_count < v.chunk_size
  BY <1>1, <1>3, ClosesWhatIsFull
<1>v. u = Counted(l, v) /\ q = Placed(l, u, k, oom)
  OBVIOUS
<1> HIDE DEF v, u, q
<1>5. PICK x \in Seq(Unit) : Ready(l, v, c \o x)
  BY <1>4
<1>6. /\ Ready(l, u, c \o x) /\ u.outstream = v.outstream
      /\ Compressed(l) => u.chunk_count >= 1
  BY ONLY <1>4, <1>5, <1>v, Counts
<1>7. /\ Grows(u.outstream, q.outstream)
      /\ \E y \in Seq(Unit) : Ready(l, q, (c \o x) \o y)
  BY ONLY <1>1, <1>6, <1>v, Places
<1>8. r = Checked(q)
  BY <1>2, <1>3
<1>9. \A e : Ready(l, q, e) =>
         /\ Ready(l, r, e) /\ Same(q, r) /\ r.outstream = q.outstream
         /\ r.ok <=> q.ok /\ ~q.outstream.failed
  BY ONLY <1>8, ChecksLast
<1>10. Same(q, r) /\ r.outstream = q.outstream /\ (r.ok <=> q.ok /\ ~q.outstream.failed)
  BY ONLY <1>7, <1>9
<1>11. CASE r.outstream.failed
  BY <1>11 DEF Lost
<1>12. CASE ~r.outstream.failed
  <2>1. ~v.outstream.failed
    BY ONLY <1>6, <1>7, <1>10, <1>12 DEF Grows
  <2>2. PICK e, d : Kept(l, v, e, d, pts, k)
    BY <1>3, <2>1 DEF KeptOn
  <2>3. q.ok /\ (KeptOn(l, q, Append(pts, k), k + 1) \/ Lost(l, q))
    <3>1. k + 1 < U32_MAX /\ oom \notin {"start", "encode"}
      OBVIOUS
    <3> QED BY ONLY <1>3, <1>4, <1>v, <2>2, <3>1, KeptPlaces
  <2>4. CASE Lost(l, q)
    BY <1>10, <2>4 DEF Lost, Same
  <2>5. CASE KeptOn(l, q, Append(pts, k), k + 1)
    <3>1. PICK f, h : Kept(l, q, f, h, Append(pts, k), k + 1)
      BY <1>10, <1>12, <2>5 DEF KeptOn
    <3>2. Ready(l, r, f)
      BY <1>9, <3>1 DEF Kept
    <3>3. Kept(l, r, f, h, Append(pts, k), k + 1)
      BY ONLY <1>10, <1>12, <3>1, <3>2, KeptSame
    <3> QED BY <1>10, <1>12, <2>3, <3>3
  <2> QED BY <2>3, <2>4, <2>5
<1> QED BY <1>11, <1>12

\* chunk() keeps every point too.
LEMMA KeptChunks ==
    ASSUME NEW l, NEW w, NEW c, NEW b, NEW pts, NEW k, Kept(l, w, c, b, pts, k),
           NEW oom, oom # "table", NEW r, r = laz_writepoint_chunk(l, w, oom)
    PROVE  KeptOn(l, r, pts, k)
<1> DEFINE g == Begun(w)
           v == close_and_record(l, g, oom)
<1>1. Ready(l, w, c) /\ ~w.outstream.failed
  BY DEF Kept
<1>2. Ready(l, g, c) /\ Same(w, g) /\ g.outstream = w.outstream /\ g.ok
  BY <1>1, Begins
<1>3. Kept(l, g, c, b, pts, k)
  BY <1>1, <1>2, KeptSame
<1>4. r = IF ~Chunked(l) \/ w.chunk_size # U32_MAX THEN Refused(w)
          ELSE IF w.writers # "compressed" THEN g
          ELSE IF ~v.ok THEN v ELSE Checked(v)
  BY DEF laz_writepoint_chunk, Begun
<1>v. v = close_and_record(l, g, oom)
  OBVIOUS
<1> HIDE DEF g, v
<1>5. CASE ~Chunked(l) \/ w.chunk_size # U32_MAX
  <2>1. r = [w EXCEPT !.ok = FALSE]
    BY <1>4, <1>5 DEF Refused
  <2>2. Ready(l, r, c) /\ Same(w, r) /\ r.outstream = w.outstream
    BY ONLY <1>1, <2>1, Outcomes
  <2>3. Kept(l, r, c, b, pts, k)
    BY <1>1, <2>2, KeptSame
  <2> QED BY <2>3 DEF KeptOn
<1>6. CASE ~(~Chunked(l) \/ w.chunk_size # U32_MAX) /\ w.writers # "compressed"
  <2>1. r = g
    BY <1>4, <1>6
  <2> QED BY <1>3, <2>1 DEF KeptOn
<1>7. CASE ~(~Chunked(l) \/ w.chunk_size # U32_MAX) /\ w.writers = "compressed"
  <2>1. g.writers = "compressed" /\ g.chunk_size = U32_MAX /\ Chunked(l)
    BY <1>2, <1>7 DEF Same
  <2>2. v.ok /\ KeptOn(l, v, pts, k)
    BY <1>2, <1>3, <1>v, <2>1, KeptCloses
  <2>3. r = Checked(v)
    BY <1>4, <1>7, <2>2
  <2>4. CASE v.outstream.failed
    <3>1. r = [v EXCEPT !.ok = FALSE]
      BY <2>3, <2>4 DEF Checked, Refused
    <3>2. r.outstream.failed
      <4>1. g.chunk_count >= 1 /\ Compressed(l)
        BY <1>2, <2>1 DEF Ready, Fits, Chunked, Compressed
      <4>2. Ready(l, v, c \o Closing(l, g))
        BY ONLY <1>2, <1>v, <2>2, <4>1, ClosesAndRecords
      <4>3. r.outstream = v.outstream
        BY ONLY <2>3, <4>2, ChecksLast
      <4> QED BY <2>4, <4>3
    <3> QED BY <3>2 DEF KeptOn
  <2>5. CASE ~v.outstream.failed
    <3>1. r = v
      BY <2>3, <2>5 DEF Checked
    <3> QED BY <2>2, <3>1
  <2> QED BY <2>4, <2>5
<1> QED BY <1>5, <1>6, <1>7

\* What is lost stays lost.
LEMMA LostWrites ==
    ASSUME NEW l, NEW w, NEW c, Ready(l, w, c), Lost(l, w), NEW k \in Nat, NEW oom,
           NEW r, r = laz_writepoint_write(l, w, k, oom)
    PROVE  Lost(l, r)
<1> DEFINE g == Begun(w)
           v == ClosedFirst(l, w, oom)
           u == Counted(l, v)
           q == Placed(l, u, k, oom)
<1>1. CASE w.outstream.failed
  <2>1. Grows(w.outstream, r.outstream)
    BY Writes
  <2> QED BY <1>1, <2>1 DEF Grows, Lost
<1>2. CASE w.layers_failed /\ Layered(l) /\ w.writers = "compressed"
  <2>1. r = IF ~v.ok THEN v ELSE Checked(q)
    BY WriteSteps
  <2>2. Ready(l, g, c) /\ Same(w, g) /\ g.outstream = w.outstream /\ g.ok
    BY Begins
  <2>3. /\ v = IF Compressed(l) /\ w.chunk_count = w.chunk_size
               THEN close_and_record(l, g, oom) ELSE g
        /\ u = Counted(l, v) /\ q = Placed(l, u, k, oom)
    BY DEF ClosedFirst
  <2>4. /\ \E x \in Seq(Unit) : Ready(l, v, c \o x)
        /\ v.ok /\ Compressed(l) => v.chunk_count < v.chunk_size
    BY ClosesWhatIsFull
  <2>5. Compressed(l) /\ g.chunk_count >= 1 /\ Spoilt(l, g)
    BY <1>2, <2>2 DEF Ready, Fits, Same, Spoilt, Layered, Compressed
  <2> HIDE DEF g, v, u, q
  <2>6. CASE w.chunk_count = w.chunk_size
    <3>1. v = close_and_record(l, g, oom)
      BY <2>3, <2>5, <2>6
    <3>2. ~v.ok /\ Same(g, v)
      BY ONLY <2>2, <2>5, <3>1, ClosesAndRecords
    <3>3. r = v
      BY <2>1, <3>2
    <3> QED BY <1>2, <2>2, <3>2, <3>3 DEF Same, Lost
  <2>7. CASE w.chunk_count # w.chunk_size
    <3>1. v = g
      BY <2>3, <2>7
    <3>2. /\ Ready(l, u, c) /\ u.writers = v.writers /\ u.layers_failed = v.layers_failed
      BY ONLY <2>2, <2>3, <2>4, <3>1, Counts
    <3>3. u.writers = "compressed" /\ u.layers_failed
      BY <1>2, <2>2, <3>1, <3>2 DEF Same
    <3>4. q = encode(l, u, k, oom)
      BY <2>3, <3>3 DEF Placed
    <3>5. Encoded(l, u, c, k, oom, q)
      BY ONLY <3>2, <3>4, k \in Nat, Encodes
    <3>6. q.layers_failed /\ q.writers = "compressed" /\ Ready(l, q, c)
      BY <1>2, <3>3, <3>5 DEF Encoded
    <3>7. r = Checked(q)
      BY <2>1, <2>2, <3>1
    <3>8. Same(q, r)
      BY ONLY <3>6, <3>7, ChecksLast
    <3> QED BY <1>2, <3>6, <3>8 DEF Same, Lost
  <2> QED BY <2>6, <2>7
<1> QED BY <1>1, <1>2 DEF Lost

LEMMA LostChunks ==
    ASSUME NEW l, NEW w, NEW c, Ready(l, w, c), Lost(l, w), NEW oom,
           NEW r, r = laz_writepoint_chunk(l, w, oom)
    PROVE  Lost(l, r)
<1> DEFINE g == Begun(w)
           v == close_and_record(l, g, oom)
<1>1. CASE w.outstream.failed
  <2>1. Grows(w.outstream, r.outstream)
    BY Chunks
  <2> QED BY <1>1, <2>1 DEF Grows, Lost
<1>2. CASE w.layers_failed /\ Layered(l) /\ w.writers = "compressed"
  <2>1. Ready(l, g, c) /\ Same(w, g) /\ g.outstream = w.outstream /\ g.ok
    BY Begins
  <2>2. r = IF ~Chunked(l) \/ w.chunk_size # U32_MAX THEN Refused(w)
            ELSE IF w.writers # "compressed" THEN g
            ELSE IF ~v.ok THEN v ELSE Checked(v)
    BY DEF laz_writepoint_chunk, Begun
  <2>3. Compressed(l) /\ g.chunk_count >= 1 /\ Spoilt(l, g)
    BY <1>2, <2>1 DEF Ready, Fits, Same, Spoilt, Layered, Compressed
  <2>v. v = close_and_record(l, g, oom)
    OBVIOUS
  <2> HIDE DEF g, v
  <2>4. ~v.ok /\ Same(g, v)
    BY ONLY <2>1, <2>3, <2>v, ClosesAndRecords
  <2>5. CASE ~Chunked(l) \/ w.chunk_size # U32_MAX
    <3>1. r = [w EXCEPT !.ok = FALSE]
      BY <2>2, <2>5 DEF Refused
    <3>w. Ready(l, w, c)
      OBVIOUS
    <3>2. Same(w, r)
      BY ONLY <3>w, <3>1, Outcomes
    <3> QED BY <1>2, <3>2 DEF Same, Lost
  <2>6. CASE ~(~Chunked(l) \/ w.chunk_size # U32_MAX)
    <3>1. r = v
      BY <1>2, <2>2, <2>4, <2>6
    <3> QED BY <1>2, <2>1, <2>4, <3>1 DEF Same, Lost
  <2> QED BY <2>5, <2>6
<1> QED BY <1>1, <1>2 DEF Lost

-----------------------------------------------------------------------------
(* The first file, and the last one. *)

LEMMA LaidLed ==
    ASSUME NEW l, NEW c, c = Laid(l, <<>>)
    PROVE  c \in Seq(Unit) /\ Len(c) = First(l) /\ Led(l, c)
<1>1. Preface \in Seq(Unit) /\ Len(Preface) = Base /\ Base \in Nat
  BY PrefaceUnits
<1>2. \A i \in 1 .. Base : ~IsPoint(Preface[i])
  BY WriterAssumption DEF Base, IsPoint
<1>3. CASE ~Chunked(l)
  <2>1. c = Preface /\ First(l) = Base
    BY <1>1, <1>3 DEF Laid, First
  <2> QED BY <1>1, <1>2, <1>3, <2>1 DEF Led
<1>4. CASE Chunked(l)
  <2> DEFINE x == Placeholder(l)
             p == Preface \o <<x>>
  <2>1. x \in Unit /\ ~IsPoint(x) /\ p \in Seq(Unit)
    BY PlaceholderUnits, NotPoints DEF Placeholder, Position
  <2>2. c = p /\ First(l) = Base + 1
    <3>1. c = p \o <<>>
      BY <1>4 DEF Laid
    <3> HIDE DEF p
    <3> QED BY <1>4, <2>1, <3>1 DEF First
  <2>p. p = Preface \o <<x>> /\ x = Placeholder(l)
    OBVIOUS
  <2> HIDE DEF x, p
  <2>3. Len(c) = Base + 1 /\ c[Base + 1] = x /\ \A i \in 1 .. Base : c[i] = Preface[i]
    BY ONLY <1>1, <2>1, <2>2, <2>p, OneBehind
  <2>4. \A i \in 1 .. First(l) : ~IsPoint(c[i])
    BY ONLY <1>1, <1>2, <2>1, <2>2, <2>3
  <2>5. Len(c) = First(l) /\ First(l) <= Len(c)
    BY ONLY <1>1, <2>2, <2>3
  <2> QED BY ONLY <2>1, <2>2, <2>3, <2>4, <2>5, <2>p DEF Led
<1> QED BY <1>3, <1>4

\* A writer that has written nothing keeps nothing.
LEMMA KeptOpens ==
    ASSUME NEW l, NEW w, Ready(l, w, Laid(l, <<>>)), Fresh(l, w), ~w.outstream.failed
    PROVE  \E c, b : Kept(l, w, c, b, <<>>, 0)
<1> DEFINE c == Laid(l, <<>>)
           b == [i \in 1 .. 1 |-> First(l)]
<1>1. c \in Seq(Unit) /\ Len(c) = First(l) /\ Led(l, c) /\ Ready(l, w, c)
  BY LaidLed
<1> HIDE DEF c
<1>2. Base \in Nat /\ First(l) \in Nat /\ (Chunked(l) => First(l) = Base + 1)
  BY PrefaceUnits DEF First
<1>3. b \in [1 .. 1 -> Nat] /\ b[1] = First(l)
  BY <1>2
<1> HIDE DEF b
<1>4. /\ w.chunk_count = 0 /\ w.number_chunks = 0 /\ ~w.layers_failed
      /\ w.writers = IF Compressed(l) THEN "NULL" ELSE "raw"
      /\ Chunked(l) => w.chunk_start_position = Base + 1
  BY DEF Fresh
<1>5. HasChunks(l, w, c, b)
  <2>1. w.number_chunks + 1 = 1 /\ 1 .. w.number_chunks = {}
    BY <1>4
  <2>2. b[1] <= Len(c)
    BY <1>1, <1>2, <1>3
  <2> QED BY ONLY <1>2, <1>3, <1>4, <2>1, <2>2 DEF HasChunks
<1>6. Full(w)
  BY <1>4 DEF Full
<1>7. AtHand(l, w, c, b[w.number_chunks + 1])
  <2>1. b[w.number_chunks + 1] = Len(c) /\ Len(c) + 1 .. Len(c) = {}
    BY <1>1, <1>2, <1>3, <1>4
  <2>2. w.writers # "compressed"
    BY <1>4
  <2> QED BY ONLY <1>4, <2>1, <2>2 DEF AtHand
<1>8. Points(c \o Pending(l, w)) = <<>>
  <2>1. Pending(l, w) = <<>>
    BY <1>4 DEF Pending
  <2>2. c \o <<>> = c
    BY <1>1
  <2>3. \A i \in 1 .. Len(c) : ~IsPoint(c[i])
    BY <1>1 DEF Led
  <2> QED BY ONLY <1>1, <2>1, <2>2, <2>3, NoPoints
<1>9. w.chunk_count <= 0 /\ 0 < U32_MAX /\ 0 \in Nat /\ <<>> \in Seq(Nat)
  BY <1>4, WriterAssumption
<1>10. Kept(l, w, c, b, <<>>, 0)
  BY ONLY <1>1, <1>4, <1>5, <1>6, <1>7, <1>8, <1>9, ~w.outstream.failed DEF Kept
<1> QED BY <1>10

\* All the points, in front of the table, with the last chunk closed.
Last(l, v, e, pts) ==
    /\ e \in Seq(Unit) /\ Led(l, e) /\ Points(e) = pts
    /\ IF Chunked(l) THEN \E d : ClosedAt(l, v, e, d) ELSE ReadsBack(l, e)

LEMMA KeptLast ==
    ASSUME NEW l, NEW w, NEW c, NEW b, NEW pts, NEW k, Kept(l, w, c, b, pts, k),
           NEW v, NEW e, LastClosed(l, w, c, v, e), ~v.outstream.failed
    PROVE  Last(l, v, e, pts)
<1> DEFINE f == b[w.number_chunks + 1]
<1>1. /\ c \in Seq(Unit) /\ Len(c) \in Nat /\ f \in Nat /\ f <= Len(c) /\ Base \in Nat
      /\ w \in Writers
  BY KeptFacts
<1>2. /\ Led(l, c) /\ HasChunks(l, w, c, b) /\ AtHand(l, w, c, f)
      /\ Points(c \o Pending(l, w)) = pts /\ Fits(l, w)
  BY DEF Kept, Ready
<1>3. e \in Seq(Unit) /\ v.outstream.pos = Len(e)
  BY DEF LastClosed, Ready, Holds
<1>4. ~Chunked(l) => f = Base
  <2>1. ~Chunked(l) => f = First(l)
    BY <1>2 DEF HasChunks
  <2> QED BY <1>1, <2>1 DEF First
<1>f. f = b[w.number_chunks + 1]
  OBVIOUS
<1> HIDE DEF f
<1>5. CASE w.writers = "compressed"
  <2>1. e = c \o Closing(l, w) /\ (Chunked(l) => Recorded(w, v))
    BY <1>5 DEF LastClosed
  <2>2. Whole(l, w, c, pts, f, e)
    BY <1>5, <1>f, <2>1, MakesWhole
  <2>3. Points(e) = pts /\ Len(c) <= Len(e) /\ (\A i \in 1 .. Len(c) : e[i] = c[i])
        /\ IsChunk(l, SubSeq(e, f + 1, Len(e))) /\ Len(e) = f + w.chunk_count + 1
    BY ONLY <2>2 DEF Whole
  <2>4. Led(l, e)
    BY ONLY <1>1, <1>2, <1>3, <2>3, LedOn
  <2>5. CASE Chunked(l)
    <3>1. \E d : ClosedAt(l, v, e, d)
      BY <1>3, <1>5, <2>1, <2>5, AddsChunk
    <3> QED BY <1>3, <2>3, <2>4, <2>5, <3>1 DEF Last
  <2>6. CASE ~Chunked(l)
    <3>1. Compressed(l)
      BY <1>2, <1>5 DEF Fits
    <3>2. IsChunk(l, SubSeq(e, Base + 1, Len(e)))
      BY <1>4, <2>3, <2>6
    <3>3. w.chunk_count \in Nat
      BY <1>1 DEF Writers
    <3>4. Len(e) > Base
      BY ONLY <1>1, <1>4, <2>3, <2>6, <3>3
    <3>5. ReadsBack(l, e)
      BY <2>6, <3>1, <3>2, <3>4 DEF ReadsBack
    <3> QED BY <1>3, <2>3, <2>4, <2>6, <3>5 DEF Last
  <2> QED BY <2>5, <2>6
<1>6. CASE w.writers # "compressed"
  <2>1. e = c /\ SameRows(w, v) /\ v.chunk_size = w.chunk_size
    BY <1>6 DEF LastClosed
  <2>2. Points(e) = pts
    <3>1. Pending(l, w) = <<>> /\ c \o <<>> = c
      BY <1>1, <1>6 DEF Pending
    <3> QED BY <1>2, <2>1, <3>1
  <2>3. CASE Chunked(l)
    <3>1. w.writers = "NULL"
      BY <1>1, <1>2, <1>6, <2>3 DEF Fits, Writers, Chunked, Compressed
    <3>2. Len(c) = f
      BY <1>2, <3>1 DEF AtHand
    <3>3. HasChunks(l, v, e, b) /\ b[v.number_chunks + 1] = Len(e)
      BY <1>2, <1>f, <2>1, <3>2 DEF HasChunks, SameRows, Says
    <3>4. ClosedAt(l, v, e, b)
      BY <1>2, <2>1, <3>3 DEF ClosedAt
    <3> QED BY <1>2, <1>3, <2>1, <2>2, <2>3, <3>4 DEF Last
  <2>4. CASE ~Chunked(l)
    <3>1. CASE Compressed(l)
      <4>1. w.writers = "NULL"
        BY <1>1, <1>2, <1>6, <3>1 DEF Fits, Writers
      <4>2. Len(e) = Base
        BY <1>2, <1>4, <2>1, <2>4, <4>1 DEF AtHand
      <4>3. ~(Len(e) > Base) /\ Base + 1 .. Len(e) = {}
        BY ONLY <1>1, <4>2
      <4> QED BY <1>2, <1>3, <2>1, <2>2, <2>4, <4>3 DEF ReadsBack, Last
    <3>2. CASE ~Compressed(l)
      <4>1. w.writers = "raw"
        BY <1>2, <3>2 DEF Fits
      <4>2. \A i \in Base + 1 .. Len(e) : e[i][1] = "raw"
        BY <1>2, <1>4, <2>1, <2>4, <4>1 DEF AtHand
      <4>3. ReadsBack(l, e)
        BY <2>4, <3>2, <4>2 DEF ReadsBack
      <4> QED BY <1>2, <1>3, <2>1, <2>2, <2>4, <4>3 DEF Last
    <3> QED BY <3>1, <3>2
  <2> QED BY <2>3, <2>4
<1> QED BY <1>5, <1>6

-----------------------------------------------------------------------------
(* Reading the file back. *)

\* A part of a sequence from its beginning is two parts end to end.
LEMMA TwoParts ==
    ASSUME NEW c \in Seq(Unit), NEW m \in Nat, NEW n \in Nat, m <= n, n <= Len(c)
    PROVE  /\ SubSeq(c, 1, n) = SubSeq(c, 1, m) \o SubSeq(c, m + 1, n)
           /\ SubSeq(c, 1, m) \in Seq(Unit) /\ Len(SubSeq(c, 1, m)) = m
           /\ \A i \in 1 .. m : SubSeq(c, 1, m)[i] = c[i]
<1> DEFINE x == SubSeq(c, 1, m)
           y == SubSeq(c, m + 1, n)
           z == SubSeq(c, 1, n)
<1>1. /\ y \in Seq(Unit) /\ Len(y) = n - m /\ \A i \in 1 .. n - m : y[i] = c[m + i]
  BY Part
<1>2. /\ x \in Seq(Unit) /\ Len(x) = m /\ \A i \in 1 .. m : x[i] = c[i]
      /\ z \in Seq(Unit) /\ Len(z) = n /\ \A i \in 1 .. n : z[i] = c[i]
  <2>1. 0 \in Nat /\ 0 <= m /\ 0 <= n /\ m <= Len(c) /\ 0 + 1 = 1 /\ m - 0 = m /\ n - 0 = n
        /\ \A i \in 1 .. n : 0 + i = i
    OBVIOUS
  <2>2. /\ SubSeq(c, 0 + 1, m) \in Seq(Unit) /\ Len(SubSeq(c, 0 + 1, m)) = m - 0
        /\ \A i \in 1 .. m - 0 : SubSeq(c, 0 + 1, m)[i] = c[0 + i]
    BY <2>1, Part
  <2>3. /\ SubSeq(c, 0 + 1, n) \in Seq(Unit) /\ Len(SubSeq(c, 0 + 1, n)) = n - 0
        /\ \A i \in 1 .. n - 0 : SubSeq(c, 0 + 1, n)[i] = c[0 + i]
    BY <2>1, Part
  <2> QED BY <2>1, <2>2, <2>3
<1>m. m \in Nat /\ n \in Nat /\ m <= n
  OBVIOUS
<1> HIDE DEF x, y, z
<1>3. /\ x \o y \in Seq(Unit) /\ Len(x \o y) = n /\ \A i \in 1 .. n : (x \o y)[i] = c[i]
  <2>0. /\ x \o y \in Seq(Unit) /\ Len(x \o y) = Len(x) + Len(y)
        /\ \A i \in 1 .. Len(x) : (x \o y)[i] = x[i]
        /\ \A i \in 1 .. Len(y) : (x \o y)[Len(x) + i] = y[i]
    <3>1. x \in Seq(Unit) /\ y \in Seq(Unit)
      BY <1>1, <1>2
    <3> QED BY ONLY <3>1, EndToEnd
  <2>1. /\ x \o y \in Seq(Unit) /\ Len(x \o y) = m + (n - m)
        /\ \A i \in 1 .. m : (x \o y)[i] = x[i]
        /\ \A i \in 1 .. n - m : (x \o y)[m + i] = y[i]
    <3>1. Len(x) = m /\ Len(y) = n - m
      BY <1>1, <1>2
    <3> QED BY ONLY <2>0, <3>1
  <2>2. ASSUME NEW i \in 1 .. n PROVE (x \o y)[i] = c[i]
    <3>1. CASE i <= m
      BY ONLY <1>2, <1>m, <2>1, <3>1
    <3>2. CASE ~(i <= m)
      <4> DEFINE j == i - m
      <4>1. j \in 1 .. n - m /\ i = m + j
        BY ONLY <1>m, <3>2
      <4> HIDE DEF j
      <4> QED BY ONLY <1>1, <2>1, <4>1
    <3> QED BY <3>1, <3>2
  <2>3. m + (n - m) = n
    BY ONLY <1>m
  <2> QED BY <2>1, <2>2, <2>3
<1>4. z = x \o y
  BY ONLY <1>2, <1>3, SeqEqual
<1> QED BY <1>2, <1>4 DEF x, y, z

\* In front of the points there is nothing to read.
LEMMA PointsBehind ==
    ASSUME NEW c \in Seq(Unit), NEW m \in Nat, NEW n \in Nat, m <= n, n <= Len(c),
           \A i \in 1 .. m : ~IsPoint(c[i])
    PROVE  Points(SubSeq(c, m + 1, n)) = Points(SubSeq(c, 1, n))
<1> DEFINE x == SubSeq(c, 1, m)
           y == SubSeq(c, m + 1, n)
           z == SubSeq(c, 1, n)
<1>1. /\ z = x \o y /\ x \in Seq(Unit) /\ Len(x) = m
      /\ \A i \in 1 .. m : x[i] = c[i]
  BY TwoParts
<1>2. y \in Seq(Unit)
  BY Part
<1> HIDE DEF x, y, z
<1>3. Points(x) = <<>>
  BY <1>1, NoPoints
<1>4. Points(z) = Points(x) \o Points(y) /\ \E S : Points(y) \in Seq(S)
  BY ONLY <1>1, <1>2, PointsEndToEnd
<1>5. \A S : \A p \in Seq(S) : <<>> \o p = p
  OBVIOUS
<1> QED BY <1>3, <1>4, <1>5 DEF y, z

LEMMA AllOfIt == \A c \in Seq(Unit) : SubSeq(c, 1, Len(c)) = c
OBVIOUS

\* Nor is any chunk in front of the first.
LEMMA ChunksBehind ==
    ASSUME NEW l, NEW v, NEW e, NEW b, HasChunks(l, v, e, b), Fits(l, v)
    PROVE  \A i \in 1 .. v.number_chunks + 1 : b[i] \in Nat /\ b[i] >= First(l)
<1> DEFINE n == v.number_chunks
           t == v.chunk_bytes
           T == {i \in 0 .. n : b[i + 1] >= First(l)}
<1>1. n \in Nat /\ First(l) \in Nat
  BY PrefaceUnits DEF Fits, Writers, First
<1>2. \A i \in 1 .. n : t[i] \in Nat
  <2> DEFINE B == 0 .. U32_MAX
  <2>1. t \in Seq(B) /\ Len(t) = n /\ B \subseteq Nat
    BY WriterAssumption DEF Fits, Writers
  <2> HIDE DEF B, t, n
  <2>2. \A i \in 1 .. Len(t) : t[i] \in B
    BY ONLY <2>1, ElementOfSeq
  <2> QED BY <2>1, <2>2
<1>3. b \in [1 .. n + 1 -> Nat] /\ b[1] = First(l) /\ \A i \in 1 .. n : b[i + 1] = b[i] + t[i]
  BY DEF HasChunks
<1> HIDE DEF n, t
<1>4. 0 \in T
  BY ONLY <1>1, <1>3
<1>5. ASSUME NEW i \in 1 .. n, i - 1 \in T
      PROVE  i \in T
  <2>1. (i - 1) + 1 = i /\ i \in 0 .. n /\ i \in 1 .. n + 1
    BY <1>1
  <2>2. b[i] >= First(l) /\ b[i] \in Nat /\ b[i + 1] = b[i] + t[i] /\ t[i] \in Nat
    BY <1>2, <1>3, <1>5, <2>1
  <2> QED BY ONLY <1>1, <2>1, <2>2
<1> HIDE DEF T
<1>6. 0 .. n \subseteq T
  BY ONLY <1>1, <1>4, <1>5, UpTo
<1>7. \A i \in 1 .. n + 1 : b[i] \in Nat /\ b[i] >= First(l)
  <2> TAKE i \in 1 .. n + 1
  <2>1. i - 1 \in 0 .. n /\ (i - 1) + 1 = i
    BY ONLY <1>1
  <2> QED BY <1>3, <1>6, <2>1 DEF T
<1> QED BY <1>7 DEF n

\* The position in front of the points, or the one behind them, is this one.
Leads(disk, at) ==
    \/ disk[Base + 1] = Position(at)
    \/ disk[Base + 1] = Position(-1) /\ disk[Len(disk)] = Position(at)

\* The table of v lies behind the points e.
OnFile(v, e, disk) ==
    /\ disk \in Seq(Unit) /\ Len(e) + 2 + v.number_chunks <= Len(disk)
    /\ \A i \in 1 .. Len(e) : i # Base + 1 => disk[i] = e[i]
    /\ ~IsPoint(disk[Base + 1])
    /\ TablePosition(disk) = Len(e) /\ Leads(disk, Len(e))
    /\ disk[Len(e) + 1] = <<"version">>
    /\ disk[Len(e) + 2] = <<"chunks", v.number_chunks>>
    /\ \A i \in 1 .. v.number_chunks : disk[Len(e) + 2 + i] = Rows(v)[i]

LEMMA TableOnFile ==
    ASSUME NEW l, NEW v, Fits(l, v), Chunked(l), NEW e \in Seq(Unit), Led(l, e),
           NEW disk, disk = Final(l, e) \o Behind(l, v, e)
    PROVE  OnFile(v, e, disk)
<1> DEFINE g == Final(l, e)
           h == Behind(l, v, e)
           t == Table(v)
           a == Len(e)
           n == v.number_chunks
           rows == Rows(v)
<1>1. a \in Nat /\ Base \in Nat /\ Base < a /\ n \in Nat /\ e[Base + 1] = Placeholder(l)
      /\ e \in Seq(Unit)
  <2>1. Base + 1 <= Len(e) /\ e[Base + 1] = Placeholder(l)
    BY DEF Led, First
  <2>2. Base \in Nat /\ n \in Nat
    BY PrefaceUnits DEF Fits, Writers
  <2>3. e \in Seq(Unit) /\ Len(e) \in Nat
    OBVIOUS
  <2> HIDE DEF n
  <2> QED BY ONLY <2>1, <2>2, <2>3
<1>2. /\ t \in Seq(Unit) /\ Len(t) = n + 2 /\ t[1] = <<"version">> /\ t[2] = <<"chunks", n>>
      /\ \A i \in 1 .. n : t[i + 2] = rows[i]
  BY TableUnits
<1>3. /\ g \in Seq(Unit) /\ Len(g) = a /\ \A i \in 1 .. a : i # Base + 1 => g[i] = e[i]
      /\ g[Base + 1] = Position(IF l.seekable THEN a ELSE -1)
  <2>1. CASE l.seekable
    <3>1. g = Patched(e)
      BY <2>1 DEF Final
    <3> HIDE DEF g
    <3>2. /\ g \in Seq(Unit) /\ Len(g) = a
          /\ \A i \in 1 .. a : g[i] = IF i = Base + 1 THEN Position(a) ELSE e[i]
      BY <1>1, <3>1, PatchedUnits
    <3>3. Base + 1 \in 1 .. a
      BY ONLY <1>1
    <3> QED BY <2>1, <3>2, <3>3
  <2>2. CASE ~l.seekable
    <3>1. g = e /\ Placeholder(l) = Position(-1)
      BY <2>2 DEF Final, Placeholder
    <3> HIDE DEF g
    <3> QED BY <1>1, <2>2, <3>1
  <2> QED BY <2>1, <2>2
<1>4. /\ h \in Seq(Unit) /\ Len(h) >= n + 2 /\ Len(h) \in Nat
      /\ \A i \in 1 .. n + 2 : h[i] = t[i]
      /\ ~l.seekable => h[Len(h)] = Position(a)
  <2>1. CASE l.seekable
    <3>1. h = t
      BY <2>1 DEF Behind
    <3> HIDE DEF h, t, n
    <3> QED BY <1>1, <1>2, <2>1, <3>1
  <2>2. CASE ~l.seekable
    <3> DEFINE x == Position(a)
    <3>1. x \in Unit /\ h = t \o <<x>>
      BY <1>1, <2>2, PatchedUnits DEF Behind
    <3> HIDE DEF h, t, n, x
    <3>2. Len(h) = Len(t) + 1 /\ h[Len(t) + 1] = x /\ \A i \in 1 .. Len(t) : h[i] = t[i]
      BY ONLY <1>2, <3>1, OneBehind
    <3>3. h \in Seq(Unit)
      BY ONLY <1>2, <3>1, EndToEnd, OneUnit
    <3>4. Len(t) \in Nat /\ Len(t) = n + 2
      BY ONLY <1>1, <1>2
    <3>5. Len(h) >= n + 2 /\ Len(h) \in Nat
      BY ONLY <1>1, <3>2, <3>4
    <3> QED BY <3>2, <3>3, <3>4, <3>5 DEF x
  <2> QED BY <2>1, <2>2
<1>5. disk = g \o h
  OBVIOUS
<1>a. a = Len(e) /\ n = v.number_chunks /\ rows = Rows(v)
  OBVIOUS
<1> HIDE DEF g, h, t, a, n, rows
<1>6. /\ disk \in Seq(Unit) /\ Len(disk) = a + Len(h)
      /\ \A i \in 1 .. a : disk[i] = g[i]
      /\ \A i \in 1 .. Len(h) : disk[a + i] = h[i]
  BY ONLY <1>3, <1>4, <1>5, EndToEnd
<1>7. a + 2 + n <= Len(disk) /\ a + 2 + n = a + (2 + n)
  BY ONLY <1>1, <1>4, <1>6
<1>8. disk[Base + 1] = Position(IF l.seekable THEN a ELSE -1)
  BY ONLY <1>1, <1>3, <1>6
<1>9. TablePosition(disk) = a /\ Leads(disk, a)
  <2>1. CASE l.seekable
    <3>1. a # -1 /\ disk[Base + 1] = <<"position", a>>
      BY <1>1, <1>8, <2>1 DEF Position
    <3> QED BY ONLY <3>1 DEF TablePosition, Leads, Position
  <2>2. CASE ~l.seekable
    <3>1. disk[Base + 1] = <<"position", -1>>
      BY <1>8, <2>2 DEF Position
    <3>2. Len(h) \in 1 .. Len(h)
      BY ONLY <1>1, <1>4
    <3>3. disk[Len(disk)] = <<"position", a>>
      BY <1>4, <1>6, <2>2, <3>2 DEF Position
    <3> QED BY ONLY <3>1, <3>3 DEF TablePosition, Leads, Position
  <2> QED BY <2>1, <2>2
<1>10. disk[a + 1] = <<"version">> /\ disk[a + 2] = <<"chunks", n>>
  <2>1. 1 \in 1 .. Len(h) /\ 2 \in 1 .. Len(h) /\ 1 \in 1 .. n + 2 /\ 2 \in 1 .. n + 2
    BY ONLY <1>1, <1>4
  <2> QED BY ONLY <1>2, <1>4, <1>6, <2>1
<1>11. ASSUME NEW i \in 1 .. n PROVE disk[a + 2 + i] = rows[i]
  <2>1. i + 2 \in 1 .. n + 2 /\ i + 2 \in 1 .. Len(h) /\ a + 2 + i = a + (i + 2)
    BY ONLY <1>1, <1>4
  <2> QED BY ONLY <1>2, <1>4, <1>6, <2>1
<1>12. \A i \in 1 .. a : i # Base + 1 => disk[i] = e[i]
  BY ONLY <1>3, <1>6
<1>13. ~IsPoint(disk[Base + 1])
  BY ONLY <1>8, NotPoints DEF Position
<1> QED BY ONLY <1>6, <1>7, <1>9, <1>10, <1>11, <1>12, <1>13, <1>a DEF OnFile

LEMMA ReadsOnFile ==
    ASSUME NEW l, NEW v, Fits(l, v), Chunked(l), l.chunk_size \in 0 .. U32_MAX,
           NEW e \in Seq(Unit), NEW b, ClosedAt(l, v, e, b), NEW disk, OnFile(v, e, disk)
    PROVE  /\ ReadsBack(l, disk)
           /\ PointArea(l, disk) = SubSeq(disk, Base + 1, Len(e))
<1> DEFINE a == Len(e)
           n == v.number_chunks
           rows == Rows(v)
           size == v.chunk_size
           held(i) == v.chunk_bytes[i] - 1
           chunk(i) == SubSeq(disk, StartOf(disk, a, i) + 1, StartOf(disk, a, i + 1))
           adaptive == l.chunk_size \in {0, U32_MAX}
<1>1. /\ a \in Nat /\ n \in Nat /\ Base \in Nat /\ First(l) = Base + 1
      /\ size = IF l.chunk_size # 0 THEN l.chunk_size ELSE U32_MAX
  BY PrefaceUnits DEF Fits, Writers, First
<1>2. /\ disk \in Seq(Unit) /\ a + 2 + n <= Len(disk)
      /\ \A i \in 1 .. a : i # Base + 1 => disk[i] = e[i]
      /\ TablePosition(disk) = a
      /\ disk[a + 1] = <<"version">> /\ disk[a + 2] = <<"chunks", n>>
      /\ \A i \in 1 .. n : disk[a + 2 + i] = rows[i]
  BY DEF OnFile
<1>3. \A i \in 1 .. n : rows[i] = IF size = U32_MAX
                                  THEN <<"row", v.chunk_bytes[i], v.chunk_sizes[i]>>
                                  ELSE <<"row", v.chunk_bytes[i]>>
  BY RowUnits
<1>4. /\ b \in [1 .. n + 1 -> Nat] /\ b[1] = Base + 1 /\ b[n + 1] = a
      /\ \A i \in 1 .. n : /\ b[i + 1] = b[i] + v.chunk_bytes[i] /\ b[i + 1] <= a
                           /\ IsChunk(l, SubSeq(e, b[i] + 1, b[i + 1])) /\ Says(v, i)
  BY <1>1 DEF ClosedAt, HasChunks
<1>5. \A i \in 1 .. n + 1 : b[i] \in Nat /\ b[i] >= Base + 1
  BY <1>1, ChunksBehind DEF ClosedAt
<1>6. \A i \in 1 .. n : v.chunk_bytes[i] \in Nat
  <2> DEFINE B == 0 .. U32_MAX
             t == v.chunk_bytes
  <2>1. t \in Seq(B) /\ Len(t) = n /\ B \subseteq Nat
    BY WriterAssumption DEF Fits, Writers
  <2> HIDE DEF B, t, n
  <2>2. \A i \in 1 .. Len(t) : t[i] \in B
    BY ONLY <2>1, ElementOfSeq
  <2> QED BY <2>1, <2>2 DEF t
<1>says. \A i \in 1 .. n : IF size = U32_MAX THEN v.chunk_sizes[i] = held(i)
                        ELSE held(i) <= size /\ (i < n => held(i) = size)
  BY <1>4 DEF Says
<1>n. a = Len(e) /\ n = v.number_chunks
  OBVIOUS
<1> HIDE DEF a, n, rows, size
<1>7. \A i \in 1 .. n : /\ disk[a + 2 + i][1] = "row"
                        /\ disk[a + 2 + i][2] = v.chunk_bytes[i]
                        /\ size = U32_MAX => disk[a + 2 + i][3] = v.chunk_sizes[i]
  <2> TAKE i \in 1 .. n
  <2>1. disk[a + 2 + i] = IF size = U32_MAX
                          THEN <<"row", v.chunk_bytes[i], v.chunk_sizes[i]>>
                          ELSE <<"row", v.chunk_bytes[i]>>
    BY ONLY <1>2, <1>3
  <2> QED BY ONLY <2>1
<1>8. \A i \in 1 .. n + 1 : StartOf(disk, a, i) = b[i]
  <2>1. \A k \in 2 .. n + 1 : b[k] = b[k - 1] + disk[a + 1 + k][2]
    <3> TAKE k \in 2 .. n + 1
    <3> DEFINE i == k - 1
    <3>1. i \in 1 .. n /\ i + 1 = k /\ a + 2 + i = a + 1 + k
      BY ONLY <1>1
    <3> HIDE DEF i
    <3>2. b[k] = b[i] + disk[a + 1 + k][2]
      BY ONLY <1>4, <1>7, <3>1
    <3> QED BY <3>2 DEF i
  <2> DEFINE m == n + 1
  <2>2. m \in Nat
    BY <1>1
  <2>4. b[1] = Base + 1
    BY <1>4
  <2>5. \A k \in 2 .. m : b[k] = b[k - 1] + disk[a + 1 + k][2]
    BY <2>1
  <2> HIDE DEF m, chunk, held, adaptive
  <2>3. \A i \in 1 .. m : StartOf(disk, a, i) = b[i]
    <3>1. StartsAt(disk, a, m, b)
      BY ONLY <2>2, <2>4, <2>5 DEF StartsAt
    <3> QED BY ONLY <3>1, StartsAre
  <2> QED BY <2>3 DEF m
<1>9. ASSUME NEW i \in 1 .. n
      PROVE  /\ IsChunk(l, chunk(i)) /\ Len(chunk(i)) - 1 = held(i)
  <2> DEFINE p == b[i]
             q == b[i + 1]
  <2>1. i \in 1 .. n + 1 /\ i + 1 \in 1 .. n + 1
    BY ONLY <1>1
  <2>2. /\ p \in Nat /\ q \in Nat /\ p >= Base + 1 /\ q = p + v.chunk_bytes[i] /\ q <= a
        /\ IsChunk(l, SubSeq(e, p + 1, q)) /\ v.chunk_bytes[i] \in Nat
    BY ONLY <1>4, <1>5, <1>6, <2>1
  <2>3. chunk(i) = SubSeq(disk, p + 1, q)
    BY ONLY <1>8, <2>1
  <2> HIDE DEF p, q, chunk
  <2>4. Len(disk) \in Nat
    BY ONLY <1>2
  <2>5. p <= q /\ q <= Len(disk)
    <3>1. q <= a /\ a + 2 + n <= Len(disk) /\ a \in Nat /\ n \in Nat
      BY ONLY <1>1, <1>2, <2>2
    <3>2. p \in Nat /\ q \in Nat /\ v.chunk_bytes[i] \in Nat /\ q = p + v.chunk_bytes[i]
      BY ONLY <2>2
    <3> QED BY ONLY <2>4, <3>1, <3>2
  <2>6. \A j \in p + 1 .. q : disk[j] = e[j]
    <3> TAKE j \in p + 1 .. q
    <3>1. j \in 1 .. a /\ j # Base + 1
      BY ONLY <1>1, <2>2
    <3> QED BY ONLY <1>2, <3>1
  <2>7. IsChunk(l, SubSeq(disk, p + 1, q))
    <3>1. e \in Seq(Unit) /\ q <= Len(e)
      BY <1>n, <2>2
    <3> QED BY ONLY <1>2, <2>2, <2>5, <2>6, <3>1, StaysAChunk
  <2>8. Len(SubSeq(disk, p + 1, q)) = q - p
    BY ONLY <1>2, <2>2, <2>5, Part
  <2>9. q - p = v.chunk_bytes[i]
    BY ONLY <2>2
  <2> QED BY <2>3, <2>7, <2>8, <2>9
<1>10. size = U32_MAX <=> adaptive
  BY <1>1, WriterAssumption
<1>11. ~adaptive => size = l.chunk_size
  BY <1>1
<1>12. n + 1 \in 1 .. n + 1 /\ a <= a
  BY ONLY <1>1
<1>13. StartOf(disk, a, n + 1) = a
  BY ONLY <1>4, <1>8, <1>12
<1>14. a + 2 <= Len(disk)
  <2>1. Len(disk) \in Nat
    BY ONLY <1>2
  <2> QED BY ONLY <1>1, <1>2, <2>1
<1>15. ASSUME NEW i \in 1 .. n
       PROVE  /\ IsChunk(l, chunk(i))
              /\ IF adaptive THEN disk[a + 2 + i][3] = Len(chunk(i)) - 1
                 ELSE IF i < n THEN Len(chunk(i)) - 1 = l.chunk_size
                 ELSE Len(chunk(i)) - 1 <= l.chunk_size
  <2>1. IsChunk(l, chunk(i)) /\ Len(chunk(i)) - 1 = held(i)
    BY <1>9
  <2> HIDE DEF chunk, adaptive, held
  <2>2. CASE adaptive
    BY ONLY <1>7, <1>10, <1>says, <2>1, <2>2
  <2>3. CASE ~adaptive
    BY ONLY <1>10, <1>11, <1>says, <2>1, <2>3
  <2> QED BY <2>2, <2>3
<1>16. ReadsByTable(l, disk)
  <2>1. disk[a + 2][2] = n /\ disk[a + 2][1] = "chunks" /\ disk[a + 1] = <<"version">>
    BY <1>2
  <2>2. \A i \in 1 .. n : disk[a + 2 + i][1] = "row"
    BY <1>7
  <2>3. StartOf(disk, a, n + 1) <= a
    BY <1>12, <1>13
  <2>4. TablePosition(disk) = a
    BY <1>2
  <2>5. \A i \in 1 .. n :
           /\ IsChunk(l, chunk(i))
           /\ IF adaptive THEN disk[a + 2 + i][3] = Len(chunk(i)) - 1
              ELSE IF i < n THEN Len(chunk(i)) - 1 = l.chunk_size
              ELSE Len(chunk(i)) - 1 <= l.chunk_size
    BY <1>15
  <2> QED BY ONLY <1>14, <2>1, <2>2, <2>3, <2>4, <2>5 DEF ReadsByTable
<1>17. PointArea(l, disk) = SubSeq(disk, Base + 1, a)
  <2>1. TablePosition(disk) = a /\ disk[a + 2][2] = n
    BY <1>2
  <2> QED BY ONLY <1>13, <2>1, Chunked(l) DEF PointArea
<1> QED BY <1>16, <1>17, <1>n DEF ReadsBack

\* The file of a finished writer is whole.
HoldsAll(l, disk, pts) == ReadsBack(l, disk) /\ Points(PointArea(l, disk)) = pts

LEMMA LastReads ==
    ASSUME NEW l, NEW v, Fits(l, v), l.chunk_size \in 0 .. U32_MAX,
           NEW e, NEW pts, Last(l, v, e, pts),
           NEW disk, disk = Final(l, e) \o Behind(l, v, e)
    PROVE  HoldsAll(l, disk, pts)
<1> USE DEF HoldsAll
<1>1. e \in Seq(Unit) /\ Led(l, e) /\ Points(e) = pts
  BY DEF Last
<1>2. Base \in Nat /\ Base <= Len(e) /\ Len(e) \in Nat /\ \A i \in 1 .. Base : ~IsPoint(e[i])
  BY <1>1, PrefaceUnits DEF Led, First
<1>3. CASE ~Chunked(l)
  <2>1. disk = e
    BY <1>1, <1>3 DEF Final, Behind
  <2>2. PointArea(l, disk) = SubSeq(e, Base + 1, Len(e))
    BY <1>3, <2>1 DEF PointArea
  <2>3. Points(SubSeq(e, Base + 1, Len(e))) = Points(SubSeq(e, 1, Len(e)))
    <3>1. Len(e) <= Len(e)
      BY <1>2
    <3> QED BY ONLY <1>1, <1>2, <3>1, PointsBehind
  <2>4. SubSeq(e, 1, Len(e)) = e
    BY ONLY <1>1, AllOfIt
  <2> QED BY <1>1, <1>3, <2>1, <2>2, <2>3, <2>4 DEF Last
<1>4. CASE Chunked(l)
  <2>1. OnFile(v, e, disk)
    BY <1>1, <1>4, TableOnFile
  <2>2. PICK b : ClosedAt(l, v, e, b)
    BY <1>4 DEF Last
  <2>3. ReadsBack(l, disk) /\ PointArea(l, disk) = SubSeq(disk, Base + 1, Len(e))
    BY <1>1, <1>4, <2>1, <2>2, ReadsOnFile
  <2> DEFINE z == SubSeq(disk, 1, Len(e))
  <2>4. /\ disk \in Seq(Unit) /\ ~IsPoint(disk[Base + 1])
        /\ \A i \in 1 .. Len(e) : i # Base + 1 => disk[i] = e[i]
    BY <2>1 DEF OnFile
  <2>5. Len(e) <= Len(disk) /\ ~IsPoint(e[Base + 1])
    <3>1. v.number_chunks \in Nat /\ Len(e) + 2 + v.number_chunks <= Len(disk)
      BY <2>1 DEF OnFile, Fits, Writers
    <3>2. Len(disk) \in Nat
      BY <2>4
    <3>3. ~IsPoint(e[Base + 1])
      BY <1>1, <1>2, <1>4 DEF Led, First
    <3> QED BY ONLY <1>2, <3>1, <3>2, <3>3
  <2>6. Points(SubSeq(disk, Base + 1, Len(e))) = Points(z)
    <3>1. \A i \in 1 .. Base : ~IsPoint(disk[i])
      <4> TAKE i \in 1 .. Base
      <4>1. i \in 1 .. Len(e) /\ i # Base + 1
        BY ONLY <1>2
      <4> QED BY <1>2, <2>4, <4>1
    <3> QED BY ONLY <1>2, <2>4, <2>5, <3>1, PointsBehind
  <2>7. z \in Seq(Unit) /\ Len(z) = Len(e) /\ \A i \in 1 .. Len(e) : z[i] = disk[i]
    <3> DEFINE n == Len(e)
    <3>1. n \in Nat /\ n <= Len(disk) /\ 0 \in Nat /\ 0 <= n /\ 0 + 1 = 1 /\ n - 0 = n
          /\ \A i \in 1 .. n : 0 + i = i
      BY ONLY <1>2, <2>5
    <3> HIDE DEF n
    <3>2. /\ SubSeq(disk, 0 + 1, n) \in Seq(Unit) /\ Len(SubSeq(disk, 0 + 1, n)) = n - 0
          /\ \A i \in 1 .. n - 0 : SubSeq(disk, 0 + 1, n)[i] = disk[0 + i]
      BY ONLY <2>4, <3>1, Part
    <3> QED BY ONLY <3>1, <3>2 DEF n
  <2> HIDE DEF z
  <2>8. \A i \in 1 .. Len(z) : z[i] = e[i] \/ ~(IsPoint(z[i]) \/ IsPoint(e[i]))
    BY ONLY <2>4, <2>5, <2>7
  <2>9. Points(z) = Points(e)
    BY ONLY <1>1, <2>7, <2>8, PointsAlike
  <2> QED BY <1>1, <2>3, <2>6, <2>9
<1> QED BY <1>3, <1>4

-----------------------------------------------------------------------------
(* What a file says of itself, finished or not. *)

LEMMA FirstPart ==
    ASSUME NEW c \in Seq(Unit), NEW n \in Nat, n <= Len(c)
    PROVE  /\ SubSeq(c, 1, n) \in Seq(Unit) /\ Len(SubSeq(c, 1, n)) = n
           /\ \A i \in 1 .. n : SubSeq(c, 1, n)[i] = c[i]
<1>1. 0 \in Nat /\ 0 <= n /\ 0 + 1 = 1 /\ n - 0 = n /\ \A i \in 1 .. n : 0 + i = i
  OBVIOUS
<1>2. /\ SubSeq(c, 0 + 1, n) \in Seq(Unit) /\ Len(SubSeq(c, 0 + 1, n)) = n - 0
      /\ \A i \in 1 .. n - 0 : SubSeq(c, 0 + 1, n)[i] = c[0 + i]
  BY <1>1, Part
<1> QED BY ONLY <1>1, <1>2

\* A writer that is spent: the position has not been put, or all the points are
\* in the file.
Sealed(l, w, pts) ==
    \E c : /\ Ready(l, w, c)
           /\ \/ Fronted(l, c)
              \/ \E e, u \in Seq(Unit) :
                    /\ c = Patched(e) \o u /\ Base < Len(e) /\ ~IsPoint(e[Base + 1])
                    /\ Points(e) = pts /\ Len(e) <= Len(w.outstream.disk)

\* InterruptedFilesSaySo, of one file.
SaysSo(disk, pts) ==
    Len(disk) > Base =>
      LET placed == disk[Base + 1]
      IN  \/ placed = <<"position", Base>>
          \/ /\ placed[1] = "position" /\ placed[2] <= Len(disk)
             /\ Points(SubSeq(disk, 1, placed[2])) = pts

LEMMA SealedSaysSo ==
    ASSUME NEW l, NEW w, NEW pts, Chunked(l), l.seekable, Sealed(l, w, pts)
    PROVE  SaysSo(w.outstream.disk, pts)
<1> DEFINE disk == w.outstream.disk
<1>1. PICK c : /\ Ready(l, w, c)
               /\ \/ Fronted(l, c)
                  \/ \E e, u \in Seq(Unit) :
                        /\ c = Patched(e) \o u /\ Base < Len(e) /\ ~IsPoint(e[Base + 1])
                        /\ Points(e) = pts /\ Len(e) <= Len(disk)
  BY DEF Sealed
<1>2. disk \in Seq(Unit) /\ c \in Seq(Unit) /\ Lies(l, disk, c)
  BY <1>1 DEF Ready, Holds, Stream!Sound, Stream!Typed
<1>d. disk = w.outstream.disk
  OBVIOUS
<1> HIDE DEF disk
<1>3. Len(disk) \in Nat /\ Base \in Nat
  BY <1>2, PrefaceUnits
<1> SUFFICES ASSUME Len(disk) > Base PROVE SaysSo(disk, pts)
  BY <1>d DEF SaysSo
<1>4. Base + 1 \in 1 .. Len(disk)
  BY ONLY <1>3, Len(disk) > Base
<1>5. disk[Base + 1] = c[Base + 1] \/ disk[Base + 1] = Blank
  BY ONLY <1>2, <1>4 DEF Lies
<1>6. CASE disk[Base + 1] = Blank
  BY ONLY <1>6 DEF SaysSo, Blank
<1>7. CASE Fronted(l, c)
  <2>1. c[Base + 1] = Blank
    BY <1>7 DEF Fronted
  <2> QED BY ONLY <1>5, <1>6, <2>1
<1>8. ASSUME NEW e \in Seq(Unit), NEW u \in Seq(Unit),
             c = Patched(e) \o u, Base < Len(e), ~IsPoint(e[Base + 1]),
             Points(e) = pts, Len(e) <= Len(disk), disk[Base + 1] # Blank
      PROVE  SaysSo(disk, pts)
  <2> DEFINE p == Patched(e)
             n == Len(e)
             z == SubSeq(disk, 1, n)
  <2>1. /\ p \in Seq(Unit) /\ Len(p) = n /\ n \in Nat
        /\ \A i \in 1 .. n : p[i] = IF i = Base + 1 THEN Position(n) ELSE e[i]
    BY <1>8, PatchedUnits
  <2>2. \A i \in 1 .. n : c[i] = p[i]
    <3>1. c = p \o u
      BY <1>8
    <3> HIDE DEF p
    <3>2. \A i \in 1 .. Len(p) : c[i] = p[i]
      BY <2>1, <3>1, EndToEnd
    <3> QED BY <2>1, <3>2
  <2>3. n <= Len(disk) /\ Base < n
    BY <1>8
  <2>e. e \in Seq(Unit) /\ n = Len(e) /\ Points(e) = pts /\ ~IsPoint(e[Base + 1])
    BY <1>8
  <2> HIDE DEF p, n
  <2>4. disk[Base + 1] = Position(n)
    <3>1. Base + 1 \in 1 .. n
      BY ONLY <1>3, <2>1, <2>3
    <3> QED BY <1>5, <1>8, <2>1, <2>2, <3>1
  <2>5. \A i \in 1 .. n : i # Base + 1 => disk[i] = e[i]
    <3> TAKE i \in 1 .. n
    <3>1. i \in 1 .. Len(disk)
      BY ONLY <1>3, <2>1, <2>3
    <3>2. i # Base + 1 => disk[i] = c[i]
      BY ONLY <1>2, <3>1 DEF Lies
    <3> QED BY ONLY <2>1, <2>2, <3>2
  <2>6. z \in Seq(Unit) /\ Len(z) = n /\ \A i \in 1 .. n : z[i] = disk[i]
    BY ONLY <1>2, <2>1, <2>3, FirstPart
  <2> HIDE DEF z
  <2>7. ~IsPoint(Position(n))
    BY ONLY NotPoints DEF Position
  <2>8. Len(z) = Len(e) /\ \A i \in 1 .. Len(z) : z[i] = e[i] \/ ~(IsPoint(z[i]) \/ IsPoint(e[i]))
    BY ONLY <2>4, <2>5, <2>6, <2>7, <2>e
  <2>9. Points(z) = Points(e)
    BY ONLY <2>6, <2>8, <2>e, PointsAlike
  <2>10. disk[Base + 1][1] = "position" /\ disk[Base + 1][2] = n
    BY ONLY <2>4 DEF Position
  <2>11. Points(SubSeq(disk, 1, disk[Base + 1][2])) = pts
    BY ONLY <2>9, <2>10, <2>e DEF z
  <2> QED BY ONLY <2>3, <2>10, <2>11 DEF SaysSo
<1> QED BY <1>1, <1>6, <1>7, <1>8

\* While the writer is open the file says that there is no table.
LEMMA FrontedSealed ==
    ASSUME NEW l, NEW w, NEW c, Ready(l, w, c), Fronted(l, c), NEW pts
    PROVE  Sealed(l, w, pts)
BY DEF Sealed

LEMMA SealedDrops ==
    ASSUME NEW l, NEW w, NEW pts, Sealed(l, w, pts),
           NEW r, r = [w EXCEPT !.outstream = Sink!fileout_destroy(@)]
    PROVE  Sealed(l, r, pts)
<1>1. PICK c : /\ Ready(l, w, c)
               /\ \/ Fronted(l, c)
                  \/ \E e, u \in Seq(Unit) :
                        /\ c = Patched(e) \o u /\ Base < Len(e) /\ ~IsPoint(e[Base + 1])
                        /\ Points(e) = pts /\ Len(e) <= Len(w.outstream.disk)
  BY DEF Sealed
<1>2. Ready(l, r, c) /\ Len(w.outstream.disk) <= Len(r.outstream.disk)
  BY <1>1, Drops DEF Grows
<1>3. w.outstream.disk \in Seq(Unit) /\ r.outstream.disk \in Seq(Unit)
  BY <1>1, <1>2 DEF Ready, Holds, Stream!Sound, Stream!Typed
<1>4. CASE Fronted(l, c)
  BY <1>2, <1>4, FrontedSealed
<1>5. ASSUME NEW e \in Seq(Unit), NEW u \in Seq(Unit),
             c = Patched(e) \o u, Base < Len(e), ~IsPoint(e[Base + 1]),
             Points(e) = pts, Len(e) <= Len(w.outstream.disk)
      PROVE  Sealed(l, r, pts)
  <2>1. Len(e) \in Nat /\ Len(w.outstream.disk) \in Nat /\ Len(r.outstream.disk) \in Nat
    BY <1>3
  <2>2. Len(e) <= Len(r.outstream.disk)
    BY ONLY <1>2, <1>5, <2>1
  <2> QED BY ONLY <1>2, <1>5, <2>2 DEF Sealed
<1> QED BY <1>1, <1>4, <1>5

LEMMA KeptFronted ==
    ASSUME NEW l, NEW w, NEW c, NEW b, NEW pts, NEW k, Kept(l, w, c, b, pts, k)
    PROVE  Ready(l, w, c) /\ Fronted(l, c)
<1>1. Ready(l, w, c) /\ Led(l, c) /\ c \in Seq(Unit) /\ Base \in Nat
  BY PrefaceUnits DEF Kept, Ready, Holds
<1>2. ASSUME Chunked(l), l.seekable PROVE Base < Len(c) /\ c[Base + 1] = Blank
  <2>1. Base + 1 <= Len(c) /\ c[Base + 1] = Placeholder(l)
    BY <1>1, <1>2 DEF Led, First
  <2>2. Placeholder(l) = Blank
    BY <1>2 DEF Placeholder, Position, Blank
  <2> QED BY <1>1, <2>1, <2>2
<1> QED BY <1>1, <1>2 DEF Fronted

\* What is on the disk of w, which is done: the points of e, with the last chunk
\* closed, and behind them the table.
Filed(l, w, pts) ==
    \E v, e : /\ Fits(l, v) /\ Last(l, v, e, pts) /\ SameRows(v, w)
              /\ w.chunk_size = v.chunk_size
              /\ w.outstream.disk = Final(l, e) \o Behind(l, v, e)

LEMMA FiledHoldsAll ==
    ASSUME NEW l, l.chunk_size \in 0 .. U32_MAX, NEW w, NEW pts, Filed(l, w, pts)
    PROVE  HoldsAll(l, w.outstream.disk, pts)
<1>1. PICK v, e : /\ Fits(l, v) /\ Last(l, v, e, pts)
                  /\ w.outstream.disk = Final(l, e) \o Behind(l, v, e)
  BY DEF Filed
<1> QED BY <1>1, LastReads

\* done() of a writer that has kept everything.
LEMMA KeptFinishes ==
    ASSUME NEW l, l.chunk_size \in 0 .. U32_MAX,
           NEW w, NEW c, NEW b, NEW pts, NEW k, Kept(l, w, c, b, pts, k),
           NEW oom, NEW r, r = laz_writepoint_done(l, w, oom)
    PROVE  Sealed(l, r, pts) /\ (r.ok => Filed(l, r, pts))
<1>1. Ready(l, w, c) /\ Fronted(l, c) /\ c \in Seq(Unit)
  <2>1. Ready(l, w, c) /\ Fronted(l, c)
    BY KeptFronted
  <2> QED BY <2>1 DEF Ready, Holds
<1>2. Ended(l, w, c, r)
  BY <1>1, Finishes DEF Fronted
<1>3. ASSUME ~r.ok, NEW u \in Seq(Unit), Ready(l, r, c \o u)
      PROVE  Sealed(l, r, pts)
  <2>1. Fronted(l, c \o u)
    BY <1>1, InFront DEF Fronted
  <2> QED BY <1>3, <2>1, FrontedSealed
<1>4. ASSUME NEW v, NEW e, LastClosed(l, w, c, v, e), Grows(v.outstream, r.outstream),
             Chunked(l) /\ l.seekable => /\ Len(e) <= Len(r.outstream.disk)
                                         /\ ~v.outstream.failed,
             SameRows(v, r),
             NEW u \in Seq(Unit), Ready(l, r, Final(l, e) \o u),
             r.ok => r.outstream.disk = Final(l, e) \o u /\ u = Behind(l, v, e)
      PROVE  Sealed(l, r, pts) /\ (r.ok => Filed(l, r, pts))
  <2>1. ~v.outstream.failed => Last(l, v, e, pts)
    BY <1>4, KeptLast
  <2>2. Sealed(l, r, pts)
    <3>1. CASE ~(Chunked(l) /\ l.seekable)
      <4>1. Fronted(l, Final(l, e) \o u)
        BY <3>1 DEF Fronted
      <4> QED BY <1>4, <4>1, FrontedSealed
    <3>2. CASE Chunked(l) /\ l.seekable
      <4>1. Final(l, e) = Patched(e) /\ Last(l, v, e, pts) /\ Len(e) <= Len(r.outstream.disk)
        BY <1>4, <2>1, <3>2 DEF Final
      <4>2. e \in Seq(Unit) /\ Led(l, e) /\ Points(e) = pts
        BY <4>1 DEF Last
      <4>3. Base < Len(e) /\ ~IsPoint(e[Base + 1])
        BY <3>2, <4>2, PrefaceUnits DEF Led, First
      <4>4. Ready(l, r, Patched(e) \o u)
        BY <1>4, <4>1
      <4> QED BY ONLY u \in Seq(Unit), <4>1, <4>2, <4>3, <4>4 DEF Sealed
    <3> QED BY <3>1, <3>2
  <2>3. ASSUME r.ok PROVE Filed(l, r, pts)
    <3>1. ~r.outstream.failed
      BY <1>2, <2>3 DEF Ended
    <3>2. ~v.outstream.failed
      BY <1>4, <3>1 DEF Grows
    <3>3. Last(l, v, e, pts) /\ Fits(l, v)
      BY <1>4, <2>1, <3>2 DEF LastClosed, Ready
    <3>4. r.outstream.disk = Final(l, e) \o Behind(l, v, e)
      BY <1>4, <2>3
    <3>5. r.chunk_size = v.chunk_size
      BY <1>4, <3>3 DEF Ready, Fits
    <3>6. SameRows(v, r)
      BY <1>4
    <3> QED BY ONLY <3>3, <3>4, <3>5, <3>6 DEF Filed
  <2> QED BY <2>2, <2>3
<1> QED BY <1>2, <1>3, <1>4 DEF Ended

\* done() of one that has lost something fails.
LEMMA LostFinishes ==
    ASSUME NEW l, NEW w, NEW c, Ready(l, w, c), Fronted(l, c), Lost(l, w), NEW pts,
           NEW oom, NEW r, r = laz_writepoint_done(l, w, oom)
    PROVE  ~r.ok /\ Sealed(l, r, pts)
<1>1. c \in Seq(Unit) /\ Ended(l, w, c, r)
  BY Finishes DEF Fronted, Ready, Holds
<1>2. ASSUME ~r.ok, NEW u \in Seq(Unit), Ready(l, r, c \o u)
      PROVE  ~r.ok /\ Sealed(l, r, pts)
  <2>1. Fronted(l, c \o u)
    BY <1>1, InFront DEF Fronted
  <2> QED BY <1>2, <2>1, FrontedSealed
<1>3. ASSUME NEW v, NEW e, LastClosed(l, w, c, v, e), Grows(w.outstream, v.outstream),
             Grows(v.outstream, r.outstream),
             Chunked(l) /\ l.seekable => ~v.outstream.failed,
             NEW u \in Seq(Unit), Ready(l, r, Final(l, e) \o u)
      PROVE  ~r.ok /\ Sealed(l, r, pts)
  <2>1. w.outstream.failed
    BY <1>3 DEF LastClosed, Spoilt, Lost
  <2>2. v.outstream.failed /\ ~r.ok
    BY <1>1, <1>3, <2>1 DEF Grows, Ended
  <2>3. Fronted(l, Final(l, e) \o u)
    BY <1>3, <2>2 DEF Fronted
  <2> QED BY <1>3, <2>2, <2>3, FrontedSealed
<1> QED BY <1>1, <1>2, <1>3 DEF Ended

-----------------------------------------------------------------------------
(* How many points a finished file holds, and how large its chunks are. *)

\* Every unit is a point, or every one but the k-th.
LEMMA PointsBut ==
    ASSUME NEW u \in Seq(Unit), NEW k \in 1 .. Len(u) + 1,
           \A i \in 1 .. Len(u) : IsPoint(u[i]) <=> i # k
    PROVE  Len(Points(u)) = IF k <= Len(u) THEN Len(u) - 1 ELSE Len(u)
<1> DEFINE n == Len(u)
           S == {u[i][2] : i \in 1 .. n}
           upto(i) == IF i < k THEN i ELSE i - 1
<1>1. n \in Nat /\ n = Len(u)
  OBVIOUS
<1>2. \A i \in 1 .. n : IsPoint(u[i]) => u[i][2] \in S
  OBVIOUS
<1>k. k \in 1 .. n + 1 /\ \A i \in 1 .. n : IsPoint(u[i]) <=> i # k
  OBVIOUS
<1> HIDE DEF n, S
<1>3. PICK g : Gathers(u, n, g)
  BY ONLY <1>1, GatheringExists
<1>4. \A i \in 0 .. n : g[i] \in Seq(S)
  BY ONLY <1>1, <1>2, <1>3, GathersSeqs
<1>5. g[0] = <<>> /\ \A i \in 1 .. n : g[i] = IF IsPoint(u[i]) THEN Append(g[i - 1], u[i][2])
                                              ELSE g[i - 1]
  BY ONLY <1>1, <1>3, GathersInSteps
<1> DEFINE T == {i \in 0 .. n : Len(g[i]) = upto(i)}
<1>6. 0 \in T
  BY <1>1, <1>5, <1>k
<1>7. ASSUME NEW i \in 1 .. n, i - 1 \in T
      PROVE  i \in T
  <2>1. g[i - 1] \in Seq(S) /\ Len(g[i - 1]) = upto(i - 1)
    BY <1>1, <1>4, <1>7
  <2>2. CASE i = k
    <3>1. g[i] = g[i - 1] /\ upto(i) = upto(i - 1)
      BY <1>1, <1>5, <1>k, <2>2
    <3> QED BY <2>1, <3>1
  <2>3. CASE i # k
    <3> DEFINE x == g[i - 1]
               y == u[i][2]
    <3>1. g[i] = Append(x, y) /\ y \in S /\ x \in Seq(S)
      BY <1>2, <1>5, <1>k, <2>1, <2>3
    <3>2. upto(i) = upto(i - 1) + 1
      BY <1>1, <1>k, <2>3
    <3> HIDE DEF x, y, upto
    <3>3. Len(Append(x, y)) = Len(x) + 1
      BY ONLY <3>1
    <3>4. Len(x) = upto(i - 1)
      BY <2>1 DEF x
    <3> QED BY <3>1, <3>2, <3>3, <3>4
  <2> QED BY <2>2, <2>3
<1> HIDE DEF T
<1>8. n \in T
  <2>1. 0 .. n \subseteq T
    BY ONLY <1>1, <1>6, <1>7, UpTo
  <2> QED BY ONLY <1>1, <2>1
<1>9. Points(u) = g[n]
  BY <1>1, <1>3, PointsGathered
<1>10. Len(g[n]) = upto(n)
  BY <1>8 DEF T
<1>11. upto(n) = IF k <= n THEN n - 1 ELSE n
  BY <1>1, <1>k
<1> QED BY <1>1, <1>9, <1>10, <1>11

\* A chunk of n points is n + 1 units.
LEMMA ChunkPoints ==
    ASSUME NEW l, NEW u \in Seq(Unit), IsChunk(l, u)
    PROVE  Len(u) >= 2 /\ Len(Points(u)) = Len(u) - 1
<1> DEFINE n == Len(u) - 1
           k == IF Layered(l) THEN 2 ELSE n + 1
<1>1. /\ n >= 1 /\ u[1][1] = "raw"
      /\ IF Layered(l)
         THEN u[2] = <<"count", n>> /\ \A i \in 3 .. n + 1 : u[i][1] = "encoded"
         ELSE u[n + 1] = <<"end">> /\ \A i \in 2 .. n : u[i][1] = "encoded"
  BY DEF IsChunk
<1>2. n + 1 = Len(u) /\ Len(u) \in Nat /\ n \in Int
  OBVIOUS
<1> HIDE DEF n
<1>3. k \in 1 .. Len(u) /\ k \in 1 .. Len(u) + 1 /\ k <= Len(u)
  BY ONLY <1>1, <1>2
<1>4. \A i \in 1 .. Len(u) : IsPoint(u[i]) <=> i # k
  <2> TAKE i \in 1 .. Len(u)
  <2>1. i = 1 => u[i][1] = "raw" /\ i # k
    BY ONLY <1>1, <1>2
  <2>2. i # 1 /\ i # k => u[i][1] = "encoded"
    BY ONLY <1>1, <1>2
  <2>3. i = k => u[i][1] \in {"count", "end"}
    BY ONLY <1>1, <1>2
  <2> QED BY ONLY <2>1, <2>2, <2>3 DEF IsPoint
<1> HIDE DEF k
<1>5. Len(Points(u)) = IF k <= Len(u) THEN Len(u) - 1 ELSE Len(u)
  BY ONLY <1>3, <1>4, u \in Seq(Unit), PointsBut
<1> QED BY <1>1, <1>2, <1>3, <1>5

\* Between the boundaries b lie as many points as there are units, but for one
\* in each chunk.
LEMMA ChunksHold ==
    ASSUME NEW l, NEW v, NEW e \in Seq(Unit), NEW b, Fits(l, v), Chunked(l),
           ClosedAt(l, v, e, b)
    PROVE  /\ \A i \in 1 .. v.number_chunks : b[i + 1] >= b[i] + 2
           /\ \A i \in 0 .. v.number_chunks :
                 /\ i + 1 \in 1 .. v.number_chunks + 1 /\ b[i + 1] \in Nat
                 /\ Len(Points(SubSeq(e, 1, b[i + 1]))) = b[i + 1] - (Base + 1) - i
<1> DEFINE n == v.number_chunks
           till(i) == Points(SubSeq(e, 1, b[i + 1]))
           T == {i \in 0 .. n : Len(till(i)) = b[i + 1] - (Base + 1) - i}
<1>1. n \in Nat /\ Base \in Nat /\ First(l) = Base + 1 /\ Len(e) \in Nat
  BY PrefaceUnits DEF Fits, Writers, First
<1>2. /\ b[1] = Base + 1 /\ Base + 1 <= Len(e) /\ \A i \in 1 .. Base + 1 : ~IsPoint(e[i])
      /\ \A i \in 1 .. n : /\ b[i + 1] = b[i] + v.chunk_bytes[i] /\ b[i + 1] <= Len(e)
                           /\ IsChunk(l, SubSeq(e, b[i] + 1, b[i + 1]))
  BY <1>1 DEF ClosedAt, HasChunks, Led
<1>3. /\ \A i \in 1 .. n + 1 : b[i] \in Nat
      /\ \A i \in 1 .. n : v.chunk_bytes[i] \in Nat
  <2>1. \A i \in 1 .. n + 1 : b[i] \in Nat
    BY ChunksBehind DEF ClosedAt
  <2> DEFINE B == 0 .. U32_MAX
             t == v.chunk_bytes
  <2>2. t \in Seq(B) /\ Len(t) = n /\ B \subseteq Nat
    BY WriterAssumption DEF Fits, Writers
  <2> HIDE DEF B, t, n
  <2>3. \A i \in 1 .. Len(t) : t[i] \in B
    BY ONLY <2>2, ElementOfSeq
  <2> QED BY <2>1, <2>2, <2>3 DEF t
<1>n. n = v.number_chunks
  OBVIOUS
<1> HIDE DEF n
<1>4. ASSUME NEW i \in 1 .. n
      PROVE  /\ b[i + 1] >= b[i] + 2
             /\ i - 1 \in T => i \in T
  <2> DEFINE p == b[i]
             q == b[i + 1]
             x == SubSeq(e, 1, p)
             y == SubSeq(e, p + 1, q)
             z == SubSeq(e, 1, q)
  <2>1. i \in 1 .. n + 1 /\ i + 1 \in 1 .. n + 1 /\ (i - 1) + 1 = i /\ i \in 0 .. n
    BY ONLY <1>1
  <2>2. p \in Nat /\ q \in Nat /\ p <= q /\ q <= Len(e) /\ IsChunk(l, y)
    BY ONLY <1>2, <1>3, <2>1
  <2>3. z = x \o y /\ x \in Seq(Unit) /\ y \in Seq(Unit) /\ Len(y) = q - p
    <3> HIDE DEF p, q
    <3>1. SubSeq(e, 1, q) = SubSeq(e, 1, p) \o SubSeq(e, p + 1, q)
          /\ SubSeq(e, 1, p) \in Seq(Unit)
      BY ONLY <2>2, e \in Seq(Unit), TwoParts
    <3>2. SubSeq(e, p + 1, q) \in Seq(Unit) /\ Len(SubSeq(e, p + 1, q)) = q - p
      BY ONLY <2>2, e \in Seq(Unit), Part
    <3> QED BY ONLY <3>1, <3>2
  <2>4. till(i) = Points(z) /\ till(i - 1) = Points(x)
    BY <2>1
  <2>5. p = b[i] /\ q = b[i + 1]
    OBVIOUS
  <2> HIDE DEF p, q, x, y, z, till
  <2>6. Len(y) >= 2 /\ Len(Points(y)) = Len(y) - 1
    BY ONLY <2>2, <2>3, ChunkPoints
  <2>7. PICK S : Points(z) = Points(x) \o Points(y) /\ Points(x) \in Seq(S) /\ Points(y) \in Seq(S)
    BY ONLY <2>3, PointsEndToEnd
  <2>8. Len(Points(z)) = Len(Points(x)) + Len(Points(y)) /\ Len(Points(x)) \in Nat
    BY ONLY <2>7
  <2>9. q >= p + 2 /\ (Len(Points(x)) = p - (Base + 1) - (i - 1)
                        => Len(Points(z)) = q - (Base + 1) - i)
    <3>1. /\ p \in Nat /\ q \in Nat /\ Base \in Nat /\ i \in Nat
          /\ q - p >= 2 /\ Len(Points(y)) = q - p - 1
      BY ONLY <1>1, <2>1, <2>2, <2>3, <2>6
    <3> QED BY ONLY <2>8, <3>1
  <2>10. i - 1 \in T => Len(Points(x)) = p - (Base + 1) - (i - 1)
    BY <2>1, <2>4, <2>5
  <2>11. Len(Points(z)) = q - (Base + 1) - i => i \in T
    BY <2>1, <2>4, <2>5
  <2> QED BY ONLY <2>5, <2>9, <2>10, <2>11
<1>5. 0 \in T
  <2> DEFINE z == SubSeq(e, 1, Base + 1)
  <2>1. Base + 1 \in Nat /\ Base + 1 <= Base + 1
    BY ONLY <1>1
  <2>2. z \in Seq(Unit) /\ Len(z) = Base + 1 /\ \A i \in 1 .. Base + 1 : z[i] = e[i]
    BY ONLY <1>2, <2>1, e \in Seq(Unit), TwoParts
  <2> HIDE DEF z
  <2>3. Points(z) = <<>>
    BY ONLY <1>2, <2>2, NoPoints
  <2>4. Len(till(0)) = 0
    BY <1>2, <2>3 DEF z
  <2> HIDE DEF till
  <2> QED BY <1>1, <1>2, <2>4
<1> HIDE DEF T
<1>6. 0 .. n \subseteq T
  BY ONLY <1>1, <1>4, <1>5, UpTo
<1>7. \A i \in 0 .. n : i + 1 \in 1 .. n + 1 /\ b[i + 1] \in Nat
  BY ONLY <1>1, <1>3
<1> QED BY <1>4, <1>6, <1>7, <1>n DEF T

\* The file of w has n chunks, the i-th from b[i] on, and the table behind them
\* states their sizes, and the points they hold where that varies.
Charted(w, pts, b, n) ==
    LET disk == w.outstream.disk
        held(i) == b[i + 1] - b[i] - 1
    IN  /\ n \in Nat \ {0} /\ b \in [1 .. n + 1 -> Nat] /\ b[1] = Base + 1
        /\ disk \in Seq(Unit) /\ b[n + 1] + 2 + n <= Len(disk)
        /\ Len(pts) = b[n + 1] - (Base + 1) - n
        /\ Leads(disk, b[n + 1]) /\ disk[b[n + 1] + 2][2] = n
        /\ w.chunk_size \in 1 .. U32_MAX
        /\ w.chunk_sizes \in Seq(1 .. U32_MAX)
        /\ w.chunk_size = U32_MAX => Len(w.chunk_sizes) = n
        /\ \A i \in 1 .. n :
              /\ held(i) \in 1 .. U32_MAX /\ disk[b[n + 1] + 2 + i][2] = held(i) + 1
              /\ IF w.chunk_size = U32_MAX
                 THEN disk[b[n + 1] + 2 + i][3] = held(i) /\ w.chunk_sizes[i] = held(i)
                 ELSE held(i) <= w.chunk_size /\ (i < n => held(i) = w.chunk_size)

LEMMA FiledCharts ==
    ASSUME NEW l, Chunked(l), NEW w, NEW pts \in Seq(Nat), pts # <<>>, Filed(l, w, pts)
    PROVE  \E b, n : Charted(w, pts, b, n)
<1>1. PICK v, e : /\ Fits(l, v) /\ Last(l, v, e, pts) /\ SameRows(v, w)
                  /\ w.chunk_size = v.chunk_size
                  /\ w.outstream.disk = Final(l, e) \o Behind(l, v, e)
  BY DEF Filed
<1>2. e \in Seq(Unit) /\ Led(l, e) /\ Points(e) = pts
  BY <1>1 DEF Last
<1>3. PICK b : ClosedAt(l, v, e, b)
  BY <1>1 DEF Last
<1> DEFINE disk == w.outstream.disk
           n == v.number_chunks
           at == b[n + 1]
           size == v.chunk_size
           held(i) == b[i + 1] - b[i] - 1
<1>4. OnFile(v, e, disk)
  BY <1>1, <1>2, TableOnFile
<1>5. /\ n \in Nat /\ Base \in Nat /\ First(l) = Base + 1 /\ U32_MAX \in Nat
      /\ size \in 1 .. U32_MAX /\ v.chunk_sizes \in Seq(1 .. U32_MAX)
      /\ v.chunk_bytes \in Seq(0 .. U32_MAX) /\ Len(v.chunk_bytes) = n
      /\ size = U32_MAX => Len(v.chunk_sizes) = n
  BY <1>1, PrefaceUnits, WriterAssumption DEF Fits, Writers, First
<1>6. /\ \A i \in 1 .. n : b[i + 1] >= b[i] + 2
      /\ \A i \in 0 .. n : /\ i + 1 \in 1 .. n + 1 /\ b[i + 1] \in Nat
                            /\ Len(Points(SubSeq(e, 1, b[i + 1]))) = b[i + 1] - (Base + 1) - i
  <2>1. Fits(l, v) /\ Chunked(l) /\ e \in Seq(Unit) /\ ClosedAt(l, v, e, b)
    BY <1>1, <1>2, <1>3
  <2> QED BY ONLY <2>1, ChunksHold
<1>7. /\ b \in [1 .. n + 1 -> Nat] /\ b[1] = Base + 1 /\ at = Len(e)
      /\ \A i \in 1 .. n : b[i + 1] = b[i] + v.chunk_bytes[i] /\ Says(v, i)
  BY <1>3, <1>5 DEF ClosedAt, HasChunks
<1>8. /\ disk \in Seq(Unit) /\ Len(e) + 2 + n <= Len(disk) /\ Leads(disk, Len(e))
      /\ disk[Len(e) + 2] = <<"chunks", n>>
      /\ \A i \in 1 .. n : disk[Len(e) + 2 + i] = Rows(v)[i]
  BY <1>4 DEF OnFile
<1>9. \A i \in 1 .. n : Rows(v)[i] = IF size = U32_MAX
                                     THEN <<"row", v.chunk_bytes[i], v.chunk_sizes[i]>>
                                     ELSE <<"row", v.chunk_bytes[i]>>
  BY <1>1, RowUnits
<1>10. w.chunk_size = size /\ w.chunk_sizes = v.chunk_sizes
  BY <1>1 DEF SameRows
<1>11. Len(pts) = at - (Base + 1) - n
  <2>1. n \in 0 .. n
    BY <1>5
  <2>2. SubSeq(e, 1, Len(e)) = e
    BY ONLY <1>2, AllOfIt
  <2> HIDE DEF n
  <2> QED BY <1>2, <1>6, <1>7, <2>1, <2>2
<1>12. \A i \in 1 .. n : v.chunk_bytes[i] \in 0 .. U32_MAX
  <2> DEFINE B == 0 .. U32_MAX
             t == v.chunk_bytes
  <2>1. t \in Seq(B) /\ Len(t) = n
    BY <1>5
  <2> HIDE DEF B, t, n
  <2>2. \A i \in 1 .. Len(t) : t[i] \in B
    BY ONLY <2>1, ElementOfSeq
  <2> QED BY <2>1, <2>2 DEF t, B
<1>13. n # 0
  <2>1. Len(pts) # 0
    OBVIOUS
  <2> QED BY <1>5, <1>7, <1>11, <2>1
<1>says. \A i \in 1 .. n : IF size = U32_MAX THEN v.chunk_sizes[i] = v.chunk_bytes[i] - 1
                           ELSE /\ v.chunk_bytes[i] - 1 <= size
                                /\ i < n => v.chunk_bytes[i] - 1 = size
  BY <1>7 DEF Says
<1> HIDE DEF n, disk, size
<1>14. ASSUME NEW i \in 1 .. n
       PROVE  /\ held(i) \in 1 .. U32_MAX /\ disk[at + 2 + i][2] = held(i) + 1
              /\ IF w.chunk_size = U32_MAX
                 THEN disk[at + 2 + i][3] = held(i) /\ w.chunk_sizes[i] = held(i)
                 ELSE held(i) <= w.chunk_size /\ (i < n => held(i) = w.chunk_size)
  <2>1. i \in 1 .. n + 1 /\ i + 1 \in 1 .. n + 1
    BY ONLY <1>5
  <2>2. b[i] \in Nat /\ b[i + 1] \in Nat
    BY ONLY <1>7, <2>1
  <2>3. v.chunk_bytes[i] = held(i) + 1 /\ held(i) \in 1 .. U32_MAX
    <3>1. b[i + 1] = b[i] + v.chunk_bytes[i] /\ b[i + 1] >= b[i] + 2
          /\ v.chunk_bytes[i] \in 0 .. U32_MAX
      BY ONLY <1>6, <1>7, <1>12
    <3> DEFINE x == v.chunk_bytes[i]
               p == b[i]
               q == b[i + 1]
    <3>2. /\ p \in Nat /\ q \in Nat /\ U32_MAX \in Nat
          /\ x \in 0 .. U32_MAX /\ q = p + x /\ q >= p + 2
      BY ONLY <1>5, <2>2, <3>1
    <3> HIDE DEF x, p, q
    <3>3. x = q - p - 1 + 1 /\ q - p - 1 \in 1 .. U32_MAX
      BY ONLY <3>2
    <3> QED BY <3>3 DEF x, p, q
  <2>4. disk[at + 2 + i] = IF size = U32_MAX
                           THEN <<"row", v.chunk_bytes[i], v.chunk_sizes[i]>>
                           ELSE <<"row", v.chunk_bytes[i]>>
    BY ONLY <1>7, <1>8, <1>9
  <2>5. v.chunk_bytes[i] - 1 = held(i)
    BY ONLY <2>2, <2>3
  <2> HIDE DEF held, at
  <2>6. disk[at + 2 + i][2] = held(i) + 1
    BY ONLY <2>3, <2>4
  <2>7. CASE size = U32_MAX
    BY ONLY <1>10, <1>says, <2>3, <2>4, <2>5, <2>6, <2>7
  <2>8. CASE size # U32_MAX
    BY ONLY <1>10, <1>says, <2>3, <2>5, <2>6, <2>8
  <2> QED BY <2>7, <2>8
<1>15. Charted(w, pts, b, n)
  <2>1. disk[at + 2][2] = n /\ at + 2 + n <= Len(disk) /\ Leads(disk, at)
    BY ONLY <1>7, <1>8
  <2> QED BY <1>5, <1>7, <1>8, <1>10, <1>11, <1>13, <1>14, <2>1 DEF Charted, disk
<1> QED BY <1>15

\* A file of one stretch of points: a unit for each, and the end of the stream.
LEMMA FiledPlainly ==
    ASSUME NEW l, l.chunk_size \in 0 .. U32_MAX, ~Chunked(l),
           NEW w, NEW pts \in Seq(Nat), pts # <<>>, Filed(l, w, pts)
    PROVE  /\ w.outstream.disk \in Seq(Unit) /\ w.chunk_size \in 1 .. U32_MAX
           /\ Len(w.outstream.disk) = Base + Len(pts) + (IF Compressed(l) THEN 1 ELSE 0)
<1> DEFINE disk == w.outstream.disk
           u == SubSeq(disk, Base + 1, Len(disk))
<1>1. PICK v, e : /\ Fits(l, v) /\ Last(l, v, e, pts) /\ w.chunk_size = v.chunk_size
                  /\ disk = Final(l, e) \o Behind(l, v, e)
  BY DEF Filed
<1>2. disk = e /\ e \in Seq(Unit) /\ Base \in Nat /\ Base <= Len(e) /\ Len(e) \in Nat
  BY <1>1, PrefaceUnits DEF Last, Final, Behind, Led, First
<1>3. w.chunk_size \in 1 .. U32_MAX
  BY <1>1 DEF Fits, Writers
<1>4. ReadsBack(l, disk) /\ Points(PointArea(l, disk)) = pts
  BY FiledHoldsAll DEF HoldsAll
<1>5. Points(u) = pts
  BY <1>4 DEF PointArea
<1> HIDE DEF disk
<1>6. u \in Seq(Unit) /\ Len(u) = Len(disk) - Base
      /\ \A i \in 1 .. Len(disk) - Base : u[i] = disk[Base + i]
  <2>1. Len(disk) \in Nat /\ Base <= Len(disk) /\ Len(disk) <= Len(disk)
    BY <1>2
  <2> QED BY <1>2, <2>1, Part
<1>u. u = SubSeq(disk, Base + 1, Len(disk))
  OBVIOUS
<1> HIDE DEF u
<1>7. CASE Compressed(l) /\ Len(disk) > Base
  <2>1. IsChunk(l, u)
    BY <1>4, <1>7, <1>u DEF ReadsBack
  <2>2. Len(pts) = Len(u) - 1
    BY <1>5, <1>6, <2>1, ChunkPoints
  <2> QED BY <1>2, <1>3, <1>6, <1>7, <2>2 DEF disk
<1>8. CASE ~(Compressed(l) /\ Len(disk) > Base)
  <2>1. \A i \in Base + 1 .. Len(disk) : disk[i][1] = "raw"
    BY <1>4, <1>8 DEF ReadsBack
  <2>2. Len(u) + 1 \in 1 .. Len(u) + 1 /\ ~(Len(u) + 1 <= Len(u))
    BY <1>2, <1>6
  <2>3. \A i \in 1 .. Len(u) : IsPoint(u[i]) <=> i # Len(u) + 1
    <3> TAKE i \in 1 .. Len(u)
    <3>1. Base + i \in Base + 1 .. Len(disk) /\ u[i] = disk[Base + i] /\ i # Len(u) + 1
      BY <1>2, <1>6
    <3> QED BY <2>1, <3>1 DEF IsPoint
  <2>4. Len(pts) = Len(u)
    <3> DEFINE k == Len(u) + 1
    <3>1. k \in 1 .. Len(u) + 1 /\ ~(k <= Len(u))
          /\ \A i \in 1 .. Len(u) : IsPoint(u[i]) <=> i # k
      BY <2>2, <2>3
    <3> HIDE DEF k
    <3> QED BY <1>5, <1>6, <3>1, PointsBut
  <2>5. Len(pts) > 0
    OBVIOUS
  <2>6. ~Compressed(l)
    BY <1>2, <1>6, <1>8, <2>4, <2>5
  <2> QED BY <1>2, <1>3, <1>6, <2>4, <2>6 DEF disk
<1> QED BY <1>7, <1>8

-----------------------------------------------------------------------------
(* A finished file with something else in front of its points. *)

LEMMA ChunkKinds ==
    ASSUME NEW l, NEW u \in Seq(Unit), IsChunk(l, u)
    PROVE  \A i \in 1 .. Len(u) : u[i][1] \in Kinds
<1> DEFINE n == Len(u) - 1
<1>1. /\ n \in Nat /\ n >= 1 /\ Len(u) = n + 1 /\ u[1][1] = "raw"
      /\ IF Layered(l)
         THEN u[2] = <<"count", n>> /\ \A i \in 3 .. n + 1 : u[i][1] = "encoded"
         ELSE u[n + 1] = <<"end">> /\ \A i \in 2 .. n : u[i][1] = "encoded"
  BY DEF IsChunk
<1>2. {"raw", "count", "encoded", "end"} \subseteq Kinds
  BY DEF Kinds
<1> SUFFICES ASSUME NEW i \in 1 .. Len(u) PROVE u[i][1] \in Kinds
  OBVIOUS
<1> HIDE DEF n
<1>3. i = 1 \/ i = 2 \/ i = n + 1 \/ (i \in 3 .. n + 1 /\ i \in 2 .. n)
  BY ONLY <1>1, i \in 1 .. Len(u)
<1>4. <<"count", n>>[1] = "count" /\ <<"end">>[1] = "end"
  OBVIOUS
<1>5. CASE Layered(l)
  <2>1. i = 1 \/ i = 2 \/ i \in 3 .. n + 1
    BY ONLY <1>1, i \in 1 .. Len(u)
  <2> QED BY ONLY <1>1, <1>2, <1>4, <1>5, <2>1
<1>6. CASE ~Layered(l)
  <2>1. i = 1 \/ i = n + 1 \/ i \in 2 .. n
    BY ONLY <1>1, i \in 1 .. Len(u)
  <2> QED BY ONLY <1>1, <1>2, <1>4, <1>6, <2>1
<1> QED BY <1>5, <1>6

LEMMA ChunksKinds ==
    ASSUME NEW l, NEW v, Fits(l, v), NEW e \in Seq(Unit), NEW b, ClosedAt(l, v, e, b)
    PROVE  \A i \in First(l) + 1 .. Len(e) : e[i][1] \in Kinds
<1> DEFINE n == v.number_chunks
           T == {k \in 0 .. n : \A i \in First(l) + 1 .. b[k + 1] : e[i][1] \in Kinds}
<1>1. n \in Nat /\ First(l) \in Nat /\ Len(e) \in Nat
  BY PrefaceUnits DEF Fits, Writers, First
<1>2. /\ b \in [1 .. n + 1 -> Nat] /\ b[1] = First(l) /\ b[n + 1] = Len(e)
      /\ \A i \in 1 .. n : /\ b[i + 1] = b[i] + v.chunk_bytes[i] /\ b[i + 1] <= Len(e)
                           /\ IsChunk(l, SubSeq(e, b[i] + 1, b[i + 1]))
  BY DEF ClosedAt, HasChunks
<1>3. \A i \in 1 .. n : v.chunk_bytes[i] \in Nat
  <2> DEFINE B == 0 .. U32_MAX
             t == v.chunk_bytes
  <2>1. t \in Seq(B) /\ Len(t) = n /\ B \subseteq Nat
    BY WriterAssumption DEF Fits, Writers
  <2> HIDE DEF B, t, n
  <2>2. \A i \in 1 .. Len(t) : t[i] \in B
    BY ONLY <2>1, ElementOfSeq
  <2> QED BY <2>1, <2>2 DEF t
<1> HIDE DEF n
<1>4. 0 \in T
  <2>1. First(l) + 1 .. First(l) = {} /\ 0 + 1 = 1 /\ 0 \in 0 .. n
    BY ONLY <1>1
  <2> QED BY <1>2, <2>1
<1>5. ASSUME NEW k \in 1 .. n, k - 1 \in T
      PROVE  k \in T
  <2> DEFINE p == b[k]
             q == b[k + 1]
             u == SubSeq(e, p + 1, q)
  <2>1. (k - 1) + 1 = k /\ k \in 0 .. n /\ k \in 1 .. n + 1 /\ k + 1 \in 1 .. n + 1
    BY ONLY <1>1, k \in 1 .. n
  <2>2. p \in Nat /\ q \in Nat /\ p <= q /\ q <= Len(e) /\ IsChunk(l, u)
    <3>1. p \in Nat /\ q \in Nat
      BY ONLY <1>2, <2>1
    <3>2. q = p + v.chunk_bytes[k] /\ v.chunk_bytes[k] \in Nat /\ q <= Len(e) /\ IsChunk(l, u)
      BY ONLY <1>2, <1>3, k \in 1 .. n
    <3> QED BY ONLY <3>1, <3>2
  <2>3. /\ u \in Seq(Unit) /\ Len(u) = q - p
        /\ \A i \in 1 .. q - p : u[i] = e[p + i]
    <3> HIDE DEF p, q
    <3> QED BY ONLY e \in Seq(Unit), <2>2, Part
  <2>4. \A i \in 1 .. Len(u) : u[i][1] \in Kinds
    BY <2>2, <2>3, ChunkKinds
  <2>5. \A i \in First(l) + 1 .. p : e[i][1] \in Kinds
    <3>1. \A i \in First(l) + 1 .. b[(k - 1) + 1] : e[i][1] \in Kinds
      BY ONLY <1>5
    <3> QED BY ONLY <2>1, <3>1
  <2>6. \A i \in First(l) + 1 .. q : e[i][1] \in Kinds
    <3> TAKE i \in First(l) + 1 .. q
    <3>1. i \in First(l) + 1 .. p \/ (i - p \in 1 .. q - p /\ p + (i - p) = i)
      BY ONLY <1>1, <2>2, i \in First(l) + 1 .. q
    <3> QED BY ONLY <2>3, <2>4, <2>5, <3>1
  <2> QED BY ONLY <2>1, <2>6
<1> HIDE DEF T
<1>6. 0 .. n \subseteq T
  BY ONLY <1>1, <1>4, <1>5, UpTo
<1>7. n \in T
  BY ONLY <1>1, <1>6
<1> QED BY <1>2, <1>7 DEF T

LEMMA BehindKinds ==
    ASSUME NEW l, NEW v, Fits(l, v), NEW e \in Seq(Unit)
    PROVE  /\ Behind(l, v, e) \in Seq(Unit)
           /\ \A i \in 1 .. Len(Behind(l, v, e)) : Behind(l, v, e)[i][1] \in Kinds
<1> DEFINE t == Table(v)
           n == v.number_chunks
           x == Position(Len(e))
           z == <<x>>
<1>1. /\ t \in Seq(Unit) /\ Len(t) = n + 2 /\ t[1] = <<"version">> /\ t[2] = <<"chunks", n>>
      /\ \A i \in 1 .. n : t[i + 2] = Rows(v)[i]
  BY TableUnits
<1>2. n \in Nat /\ \A i \in 1 .. n : Rows(v)[i][1] = "row"
  <2>2. \A i \in 1 .. n : Rows(v)[i] = IF v.chunk_size = U32_MAX
                              THEN <<"row", v.chunk_bytes[i], v.chunk_sizes[i]>>
                              ELSE <<"row", v.chunk_bytes[i]>>
    BY RowUnits
  <2>3. n \in Nat
    BY DEF Fits, Writers
  <2>4. ASSUME NEW i \in 1 .. n PROVE Rows(v)[i][1] = "row"
    <3>1. CASE v.chunk_size = U32_MAX
      <4>1. Rows(v)[i] = <<"row", v.chunk_bytes[i], v.chunk_sizes[i]>>
        BY <2>2, <3>1
      <4> QED BY ONLY <4>1
    <3>2. CASE v.chunk_size # U32_MAX
      <4>1. Rows(v)[i] = <<"row", v.chunk_bytes[i]>>
        BY <2>2, <3>2
      <4> QED BY ONLY <4>1
    <3> QED BY <3>1, <3>2
  <2> QED BY <2>3, <2>4
<1>3. {"version", "chunks", "row", "position"} \subseteq Kinds
  BY DEF Kinds
<1>4. \A i \in 1 .. Len(t) : t[i][1] \in Kinds
  <2> TAKE i \in 1 .. Len(t)
  <2> HIDE DEF t, n
  <2>1. i = 1 \/ i = 2 \/ (i - 2 \in 1 .. n /\ (i - 2) + 2 = i)
    BY ONLY <1>1, <1>2, i \in 1 .. Len(t)
  <2>2. <<"version">>[1] = "version" /\ <<"chunks", n>>[1] = "chunks"
    OBVIOUS
  <2> QED BY ONLY <1>1, <1>2, <1>3, <2>1, <2>2
<1>5. z \in Seq(Unit) /\ Len(z) = 1 /\ z[1] = x /\ x[1] = "position"
  <2>1. x \in Unit
    <3>1. Len(e) \in Int /\ "position" \in Kinds
      BY <1>3
    <3>2. \A k \in Kinds : \A m, j \in Int : <<k, m>> \in Unit
      BY UnitsAreUnits
    <3> QED BY ONLY <3>1, <3>2 DEF Position
  <2> QED BY <2>1, OneUnit DEF Position
<1> HIDE DEF t, z, x
<1>6. /\ t \o z \in Seq(Unit) /\ Len(t \o z) = Len(t) + 1
      /\ \A i \in 1 .. Len(t) + 1 : (t \o z)[i][1] \in Kinds
  <2>1. /\ t \o z \in Seq(Unit) /\ Len(t \o z) = Len(t) + 1
        /\ \A i \in 1 .. Len(t) : (t \o z)[i] = t[i]
        /\ (t \o z)[Len(t) + 1] = z[1]
    <3>1. t \in Seq(Unit) /\ z \in Seq(Unit) /\ Len(z) = 1 /\ 1 \in 1 .. 1
      BY <1>1, <1>5
    <3> QED BY ONLY <3>1, EndToEnd
  <2>2. \A i \in 1 .. Len(t) + 1 : i \in 1 .. Len(t) \/ i = Len(t) + 1
    BY ONLY <1>1, <1>2
  <2> QED BY ONLY <1>3, <1>4, <1>5, <2>1, <2>2
<1>7. Behind(l, v, e) \in {<<>>, t, t \o z}
  BY DEF Behind, t, z, x
<1>8. <<>> \in Seq(Unit) /\ 1 .. Len(<<>>) = {}
  OBVIOUS
<1> QED BY <1>1, <1>4, <1>6, <1>7, <1>8

\* Behind the preface there is nothing but what the point writer puts there.
LEMMA FiledKinds ==
    ASSUME NEW l, NEW w, NEW pts, Filed(l, w, pts)
    PROVE  /\ w.outstream.disk \in Seq(Unit) /\ Base <= Len(w.outstream.disk)
           /\ \A i \in Base + 1 .. Len(w.outstream.disk) : w.outstream.disk[i][1] \in Kinds
<1> DEFINE disk == w.outstream.disk
<1>1. PICK v, e : /\ Fits(l, v) /\ Last(l, v, e, pts)
                  /\ disk = Final(l, e) \o Behind(l, v, e)
  BY DEF Filed
<1>2. e \in Seq(Unit) /\ Led(l, e) /\ Base \in Nat /\ First(l) \in Nat
      /\ First(l) <= Len(e) /\ Base <= Len(e) /\ Len(e) \in Nat
  BY <1>1, PrefaceUnits DEF Last, Led, First
<1> DEFINE f == Final(l, e)
           u == Behind(l, v, e)
<1>3. u \in Seq(Unit) /\ \A i \in 1 .. Len(u) : u[i][1] \in Kinds
  BY <1>1, <1>2, BehindKinds
<1>4. \A i \in First(l) + 1 .. Len(e) : e[i][1] \in Kinds
  <2>1. CASE Chunked(l)
    BY <1>1, <1>2, <2>1, ChunksKinds DEF Last
  <2>2. CASE ~Chunked(l)
    <3> DEFINE c == SubSeq(e, Base + 1, Len(e))
    <3>1. First(l) = Base /\ ReadsBack(l, e) /\ {"raw"} \subseteq Kinds
      BY <1>1, <1>2, <2>2 DEF First, Last, Kinds
    <3>2. /\ c \in Seq(Unit) /\ Len(c) = Len(e) - Base
          /\ \A i \in 1 .. Len(e) - Base : c[i] = e[Base + i]
      <4>1. Len(e) <= Len(e)
        BY <1>2
      <4> QED BY ONLY <1>2, <4>1, Part
    <3> HIDE DEF c
    <3>3. CASE Compressed(l) /\ Len(e) > Base
      <4>1. IsChunk(l, c)
        BY <2>2, <3>1, <3>3 DEF ReadsBack, c
      <4>2. \A i \in 1 .. Len(c) : c[i][1] \in Kinds
        BY <3>2, <4>1, ChunkKinds
      <4> TAKE i \in First(l) + 1 .. Len(e)
      <4>3. i - Base \in 1 .. Len(e) - Base /\ Base + (i - Base) = i
        BY ONLY <1>2, <3>1, i \in First(l) + 1 .. Len(e)
      <4> QED BY ONLY <3>2, <4>2, <4>3
    <3>4. CASE ~(Compressed(l) /\ Len(e) > Base)
      BY <2>2, <3>1, <3>4 DEF ReadsBack
    <3> QED BY <3>3, <3>4
  <2> QED BY <2>1, <2>2
<1>5. f \in Seq(Unit) /\ Len(f) = Len(e) /\ \A i \in Base + 1 .. Len(e) : f[i][1] \in Kinds
  <2>0. \A n : Position(n)[1] = "position"
    BY DEF Position
  <2>1. CASE ~(Chunked(l) /\ l.seekable)
    <3>1. f = e
      BY <2>1 DEF Final
    <3>2. ASSUME NEW i \in Base + 1 .. Len(e), ~(i \in First(l) + 1 .. Len(e))
          PROVE  e[i][1] \in Kinds
      <4>1. Chunked(l) /\ i = Base + 1
        BY <1>2, <3>2 DEF First
      <4>2. e[i] = Placeholder(l) /\ "position" \in Kinds
        BY <1>2, <4>1 DEF Led, Kinds
      <4> QED BY <2>0, <4>2 DEF Placeholder
    <3> QED BY <1>2, <1>4, <3>1, <3>2
  <2>2. CASE Chunked(l) /\ l.seekable
    <3> DEFINE x == Position(Len(e))
    <3>1. f = [e EXCEPT ![Base + 1] = x] /\ First(l) = Base + 1
      BY <2>2 DEF Final, Patched, First
    <3>2. x \in Unit /\ x[1] = "position" /\ "position" \in Kinds
      <4>1. Len(e) \in Int /\ "position" \in Kinds
        BY <1>2 DEF Kinds
      <4>2. \A k \in Kinds : \A m, j \in Int : <<k, m>> \in Unit
        BY UnitsAreUnits
      <4> QED BY ONLY <2>0, <4>1, <4>2 DEF Position
    <3>3. Base + 1 \in 1 .. Len(e)
      BY ONLY <1>2, <3>1
    <3> HIDE DEF x, f
    <3>4. f \in Seq(Unit) /\ Len(f) = Len(e)
          /\ \A i \in 1 .. Len(e) : f[i] = IF i = Base + 1 THEN x ELSE e[i]
      BY ONLY <1>2, <3>1, <3>2, <3>3, ExceptSeq
    <3>5. \A i \in Base + 1 .. Len(e) : i \in 1 .. Len(e)
                                       /\ (i = Base + 1 \/ i \in First(l) + 1 .. Len(e))
      BY ONLY <1>2, <3>1
    <3> QED BY ONLY <1>4, <3>2, <3>4, <3>5
  <2> QED BY <2>1, <2>2
<1> HIDE DEF f, u
<1>6. /\ f \o u \in Seq(Unit) /\ Len(f \o u) = Len(f) + Len(u)
      /\ \A i \in 1 .. Len(f) : (f \o u)[i] = f[i]
      /\ \A i \in 1 .. Len(u) : (f \o u)[Len(f) + i] = u[i]
  BY <1>3, <1>5, EndToEnd
<1>7. disk = f \o u
  BY <1>1 DEF f, u
<1> HIDE DEF disk
<1>8. ASSUME NEW i \in Base + 1 .. Len(disk)
      PROVE  disk[i][1] \in Kinds
  <2>0. Len(f) \in Nat /\ Len(u) \in Nat /\ Len(disk) = Len(f) + Len(u)
    BY ONLY <1>2, <1>3, <1>5, <1>6, <1>7
  <2>1. \/ i \in Base + 1 .. Len(e) /\ i \in 1 .. Len(f)
        \/ (i - Len(f) \in 1 .. Len(u) /\ Len(f) + (i - Len(f)) = i)
    BY ONLY <1>2, <1>5, <1>8, <2>0
  <2> QED BY ONLY <1>3, <1>5, <1>6, <1>7, <2>1
<1>9. Base <= Len(disk)
  <2>1. Len(u) \in Nat /\ Len(disk) = Len(e) + Len(u)
    BY ONLY <1>3, <1>5, <1>6, <1>7
  <2> QED BY ONLY <1>2, <2>1
<1> QED BY <1>6, <1>7, <1>8, <1>9 DEF disk

\* What is in front of the points is not looked at.
LEMMA LastAnew ==
    ASSUME NEW l, NEW v, Fits(l, v), NEW e, NEW pts, Last(l, v, e, pts),
           NEW c \in Seq(Unit), Len(c) = Len(e),
           \A i \in Base + 1 .. Len(e) : c[i] = e[i],
           \A i \in 1 .. Base : ~IsPoint(c[i])
    PROVE  Last(l, v, c, pts)
<1>1. e \in Seq(Unit) /\ Led(l, e) /\ Points(e) = pts
  BY DEF Last
<1>2. /\ Base \in Nat /\ First(l) \in Nat /\ Base <= First(l) /\ First(l) <= Len(e)
      /\ Len(e) \in Nat /\ \A i \in 1 .. First(l) : ~IsPoint(e[i])
      /\ Chunked(l) => e[Base + 1] = Placeholder(l) /\ First(l) = Base + 1
      /\ ~Chunked(l) => First(l) = Base
  BY <1>1, PrefaceUnits DEF Led, First
<1>3. Led(l, c)
  <2>1. ASSUME NEW i \in 1 .. First(l) PROVE ~IsPoint(c[i])
    <3>1. i \in 1 .. Base \/ i \in Base + 1 .. Len(e)
      BY ONLY <1>2, <2>1
    <3>2. i \in Base + 1 .. Len(e) => ~IsPoint(e[i]) /\ c[i] = e[i]
      BY <1>2
    <3> QED BY <3>1, <3>2
  <2>2. Chunked(l) => c[Base + 1] = e[Base + 1]
    <3>1. Chunked(l) => Base + 1 \in Base + 1 .. Len(e)
      BY ONLY <1>2
    <3> QED BY <3>1
  <2> QED BY <1>2, <2>1, <2>2 DEF Led
<1>4. Points(c) = pts
  <2>1. \A i \in 1 .. Len(c) : c[i] = e[i] \/ ~(IsPoint(c[i]) \/ IsPoint(e[i]))
    <3> TAKE i \in 1 .. Len(c)
    <3>1. i \in 1 .. Base \/ i \in Base + 1 .. Len(e)
      BY ONLY <1>2, Len(c) = Len(e), i \in 1 .. Len(c)
    <3>2. i \in 1 .. Base => i \in 1 .. First(l)
      BY ONLY <1>2
    <3> QED BY <1>2, <3>1, <3>2
  <2>2. Points(c) = Points(e)
    BY ONLY <1>1, <2>1, c \in Seq(Unit), Len(c) = Len(e), PointsAlike
  <2> QED BY <1>1, <2>2
<1>5. ASSUME NEW m \in Nat, NEW n \in Nat, Base <= m, m <= n, n <= Len(e)
      PROVE  SubSeq(c, m + 1, n) = SubSeq(e, m + 1, n)
  <2>1. \A i \in m + 1 .. n : c[i] = e[i]
    <3> TAKE i \in m + 1 .. n
    <3>1. i \in Base + 1 .. Len(e)
      BY ONLY <1>2, <1>5
    <3> QED BY <3>1
  <2> QED BY ONLY <1>1, <1>5, <2>1, c \in Seq(Unit), Len(c) = Len(e), SamePart
<1>6. ASSUME Chunked(l), NEW b, ClosedAt(l, v, e, b)
      PROVE  ClosedAt(l, v, c, b)
  <2> DEFINE n == v.number_chunks
  <2>1. /\ HasChunks(l, v, e, b) /\ b[n + 1] = Len(e) /\ n \in Nat
        /\ b \in [1 .. n + 1 -> Nat] /\ b[1] = First(l) /\ b[n + 1] = v.chunk_start_position
        /\ \A i \in 1 .. n : /\ b[i + 1] = b[i] + v.chunk_bytes[i] /\ b[i + 1] <= Len(e)
                             /\ IsChunk(l, SubSeq(e, b[i] + 1, b[i + 1])) /\ Says(v, i)
    BY <1>6 DEF ClosedAt, HasChunks, Fits, Writers
  <2>2. \A i \in 1 .. n + 1 : b[i] \in Nat /\ b[i] >= First(l)
    BY <2>1, ChunksBehind
  <2>3. \A i \in 1 .. n : v.chunk_bytes[i] \in Nat
    <3> DEFINE B == 0 .. U32_MAX
               t == v.chunk_bytes
    <3>1. t \in Seq(B) /\ Len(t) = n /\ B \subseteq Nat
      BY WriterAssumption DEF Fits, Writers
    <3> HIDE DEF B, t, n
    <3>2. \A i \in 1 .. Len(t) : t[i] \in B
      BY ONLY <3>1, ElementOfSeq
    <3> QED BY <3>1, <3>2 DEF t
  <2> HIDE DEF n
  <2>4. ASSUME NEW i \in 1 .. n
        PROVE  SubSeq(c, b[i] + 1, b[i + 1]) = SubSeq(e, b[i] + 1, b[i + 1])
    <3> DEFINE p == b[i]
               q == b[i + 1]
               y == v.chunk_bytes[i]
    <3>1. i \in 1 .. n + 1 /\ i + 1 \in 1 .. n + 1
      BY ONLY <2>1, <2>4
    <3>2. /\ p \in Nat /\ q \in Nat /\ p >= First(l) /\ q = p + y
          /\ y \in Nat /\ q <= Len(e)
      BY ONLY <2>1, <2>2, <2>3, <2>4, <3>1
    <3> HIDE DEF p, q, y
    <3>3. Base <= p /\ p <= q
      BY ONLY <1>2, <3>2
    <3>4. SubSeq(c, p + 1, q) = SubSeq(e, p + 1, q)
      BY ONLY <1>5, <3>2, <3>3
    <3> QED BY <3>4 DEF p, q
  <2>5. \A i \in 1 .. n : IsChunk(l, SubSeq(c, b[i] + 1, b[i + 1]))
    BY <2>1, <2>4
  <2>6. b[n + 1] <= Len(c) /\ \A i \in 1 .. n : b[i + 1] <= Len(c)
    <3>1. \A i \in 1 .. n : b[i + 1] <= Len(c)
      BY ONLY <2>1, Len(c) = Len(e)
    <3>2. b[n + 1] <= Len(c)
      <4>1. b[n + 1] = Len(c)
        BY ONLY <2>1, Len(c) = Len(e)
      <4>2. Len(c) \in Nat
        BY ONLY <1>2, Len(c) = Len(e)
      <4> QED BY ONLY <4>1, <4>2
    <3> QED BY ONLY <3>1, <3>2
  <2>7. HasChunks(l, v, c, b)
    BY <1>6, <2>1, <2>5, <2>6 DEF HasChunks, n
  <2> QED BY <1>3, <2>1, <2>7 DEF ClosedAt, n
<1>7. ASSUME ~Chunked(l), ReadsBack(l, e)
      PROVE  ReadsBack(l, c)
  <2>1. SubSeq(c, Base + 1, Len(c)) = SubSeq(e, Base + 1, Len(e))
    <3>1. Base <= Base /\ Base <= Len(e) /\ Len(e) <= Len(e)
      BY ONLY <1>2
    <3> QED BY <1>2, <1>5, <3>1
  <2> QED BY <1>7, <2>1 DEF ReadsBack
<1> QED BY <1>1, <1>3, <1>4, <1>6, <1>7 DEF Last

LEMMA FiledAnew ==
    ASSUME NEW l, l.chunk_size \in 0 .. U32_MAX, NEW w, NEW pts, Filed(l, w, pts),
           NEW d \in Seq(Unit), Len(d) = Len(w.outstream.disk),
           \A i \in Base + 1 .. Len(d) : d[i] = w.outstream.disk[i],
           \A i \in 1 .. Base : ~IsPoint(d[i])
    PROVE  HoldsAll(l, d, pts)
<1> DEFINE disk == w.outstream.disk
<1>1. PICK v, e : /\ Fits(l, v) /\ Last(l, v, e, pts)
                  /\ disk = Final(l, e) \o Behind(l, v, e)
  BY DEF Filed
<1>2. e \in Seq(Unit) /\ Led(l, e) /\ Base \in Nat /\ First(l) <= Len(e) /\ Len(e) \in Nat
      /\ Base <= Len(e) /\ (Chunked(l) => Base + 1 <= Len(e))
  BY <1>1, PrefaceUnits DEF Last, Led, First
<1> DEFINE u == Behind(l, v, e)
           c == [i \in 1 .. Len(e) |-> IF i <= Base THEN d[i] ELSE e[i]]
<1>3. u \in Seq(Unit)
  BY <1>1, <1>2, BehindKinds
<1>f. ASSUME NEW x \in Seq(Unit), Len(x) = Len(e)
      PROVE  /\ Final(l, x) \in Seq(Unit) /\ Len(Final(l, x)) = Len(e)
             /\ \A i \in 1 .. Len(e) :
                   Final(l, x)[i] = IF Chunked(l) /\ l.seekable /\ i = Base + 1
                                    THEN Position(Len(e)) ELSE x[i]
  <2>1. CASE ~(Chunked(l) /\ l.seekable)
    BY <1>f, <2>1 DEF Final
  <2>2. CASE Chunked(l) /\ l.seekable
    <3> DEFINE p == Position(Len(e))
    <3>1. Final(l, x) = [x EXCEPT ![Base + 1] = p] /\ Base + 1 \in 1 .. Len(x)
      BY <1>2, <1>f, <2>2 DEF Final, Patched
    <3>2. p \in Unit
      <4>1. Len(e) \in Int /\ "position" \in Kinds
        BY <1>2 DEF Kinds
      <4>2. \A k \in Kinds : \A m, j \in Int : <<k, m>> \in Unit
        BY UnitsAreUnits
      <4> QED BY ONLY <4>1, <4>2 DEF Position
    <3> HIDE DEF p
    <3>3. /\ Final(l, x) \in Seq(Unit) /\ Len(Final(l, x)) = Len(x)
          /\ \A i \in 1 .. Len(x) : Final(l, x)[i] = IF i = Base + 1 THEN p ELSE x[i]
      BY ONLY <1>f, <3>1, <3>2, ExceptSeq
    <3> QED BY <1>f, <2>2, <3>3 DEF p
  <2> QED BY <2>1, <2>2
<1>4. /\ Len(disk) = Len(e) + Len(u)
      /\ \A i \in 1 .. Len(e) : disk[i] = Final(l, e)[i]
      /\ \A i \in 1 .. Len(u) : disk[Len(e) + i] = u[i]
  <2>1. Final(l, e) \in Seq(Unit) /\ Len(Final(l, e)) = Len(e)
    BY ONLY <1>2, <1>f
  <2> HIDE DEF u
  <2>2. disk = Final(l, e) \o u
    BY <1>1 DEF u
  <2> HIDE DEF disk
  <2> DEFINE f == Final(l, e)
             g == f \o u
  <2>3. /\ Len(g) = Len(f) + Len(u) /\ \A i \in 1 .. Len(f) : g[i] = f[i]
        /\ \A i \in 1 .. Len(u) : g[Len(f) + i] = u[i]
    BY ONLY <1>3, <2>1, EndToEnd
  <2>4. disk = g
    BY ONLY <2>2
  <2> HIDE DEF g
  <2> QED BY ONLY <2>1, <2>3, <2>4
<1>5. Len(d) = Len(disk) /\ d \in Seq(Unit) /\ Len(u) \in Nat
      /\ \A i \in Base + 1 .. Len(d) : d[i] = disk[i]
  BY <1>3
<1> HIDE DEF disk, u
<1>6. /\ c \in Seq(Unit) /\ Len(c) = Len(e)
      /\ \A i \in Base + 1 .. Len(e) : c[i] = e[i]
      /\ \A i \in 1 .. Base : c[i] = d[i]
  <2>1. \A i \in 1 .. Len(e) : d[i] \in Unit /\ e[i] \in Unit
    BY <1>2, <1>4, <1>5
  <2>2. c \in Seq(Unit) /\ Len(c) = Len(e)
    BY <1>2, <2>1
  <2>3. \A i \in 1 .. Len(e) : c[i] = IF i <= Base THEN d[i] ELSE e[i]
    OBVIOUS
  <2> HIDE DEF c
  <2>4. \A i \in Base + 1 .. Len(e) : i \in 1 .. Len(e) /\ ~(i <= Base)
    BY ONLY <1>2
  <2>5. \A i \in 1 .. Base : i \in 1 .. Len(e) /\ i <= Base
    BY ONLY <1>2
  <2> QED BY ONLY <2>2, <2>3, <2>4, <2>5
<1> HIDE DEF c
<1>7. Last(l, v, c, pts)
  <2>1. \A i \in 1 .. Base : ~IsPoint(c[i])
    BY <1>6
  <2> QED BY <1>1, <1>6, <2>1, LastAnew
<1>8. Behind(l, v, c) = u
  BY <1>6 DEF Behind, u
<1>9. d = Final(l, c) \o Behind(l, v, c)
  <2> DEFINE f == Final(l, c)
             g == f \o u
  <2>1. /\ f \in Seq(Unit) /\ Len(f) = Len(e)
        /\ \A i \in 1 .. Len(e) :
              f[i] = IF Chunked(l) /\ l.seekable /\ i = Base + 1
                     THEN Position(Len(e)) ELSE c[i]
    BY ONLY <1>6, <1>f
  <2>2. \A i \in 1 .. Len(e) :
           disk[i] = IF Chunked(l) /\ l.seekable /\ i = Base + 1
                     THEN Position(Len(e)) ELSE e[i]
    <3>1. \A i \in 1 .. Len(e) :
             Final(l, e)[i] = IF Chunked(l) /\ l.seekable /\ i = Base + 1
                              THEN Position(Len(e)) ELSE e[i]
      BY ONLY <1>2, <1>f
    <3> QED BY <1>4, <3>1
  <2> HIDE DEF f
  <2>3. /\ g \in Seq(Unit) /\ Len(g) = Len(e) + Len(u)
        /\ \A i \in 1 .. Len(e) : g[i] = f[i]
        /\ \A i \in 1 .. Len(u) : g[Len(e) + i] = u[i]
    <3>1. f \in Seq(Unit) /\ Len(f) = Len(e)
      BY <2>1
    <3>2. /\ g \in Seq(Unit) /\ Len(g) = Len(f) + Len(u)
          /\ \A i \in 1 .. Len(f) : g[i] = f[i]
          /\ \A i \in 1 .. Len(u) : g[Len(f) + i] = u[i]
      BY ONLY <1>3, <3>1, EndToEnd
    <3> HIDE DEF g
    <3> QED BY ONLY <3>1, <3>2
  <2> HIDE DEF g
  <2>4. ASSUME NEW i \in 1 .. Len(d) PROVE d[i] = g[i]
    <3>1. CASE i \in 1 .. Base
      <4>1. i \in 1 .. Len(e) /\ i # Base + 1
        BY ONLY <1>2, <3>1
      <4> QED BY ONLY <1>6, <2>1, <2>3, <3>1, <4>1
    <3>2. CASE i \in Base + 1 .. Len(e)
      <4>1. i \in 1 .. Len(e) /\ i \in Base + 1 .. Len(d)
        BY ONLY <1>2, <1>4, <1>5, <3>2
      <4>2. d[i] = disk[i] /\ c[i] = e[i] /\ g[i] = f[i]
        BY ONLY <1>5, <1>6, <2>3, <3>2, <4>1
      <4>3. disk[i] = f[i]
        BY ONLY <2>1, <2>2, <4>1, <4>2
      <4> QED BY ONLY <4>2, <4>3
    <3>3. CASE i > Len(e)
      <4>1. i \in Base + 1 .. Len(d) /\ \E j \in 1 .. Len(u) : Len(e) + j = i
        <5> DEFINE m == Len(e)
                   k == Len(u)
        <5>1. /\ m \in Nat /\ k \in Nat /\ Base \in Nat /\ Base <= m /\ i > m
              /\ i \in 1 .. m + k
          <6>1. Len(d) = m + k
            BY ONLY <1>4, <1>5
          <6> QED BY ONLY <1>2, <1>5, <2>4, <3>3, <6>1
        <5> HIDE DEF m, k
        <5>2. i \in Base + 1 .. m + k /\ i - m \in 1 .. k /\ m + (i - m) = i
          BY ONLY <5>1
        <5> QED BY ONLY <1>4, <1>5, <5>2 DEF m, k
      <4>2. d[i] = disk[i]
        BY ONLY <1>5, <4>1
      <4>3. disk[i] = g[i]
        <5>1. PICK j \in 1 .. Len(u) : Len(e) + j = i
          BY ONLY <4>1
        <5>2. \A k \in 1 .. Len(u) : disk[Len(e) + k] = g[Len(e) + k]
          BY ONLY <1>4, <2>3
        <5>3. disk[Len(e) + j] = g[Len(e) + j]
          BY ONLY <5>1, <5>2
        <5> QED BY ONLY <5>1, <5>3
      <4> QED BY ONLY <4>2, <4>3
    <3>4. i \in 1 .. Base \/ i \in Base + 1 .. Len(e) \/ i > Len(e)
      BY ONLY <1>2, <2>4, <1>5, <1>4
    <3> QED BY <3>1, <3>2, <3>3, <3>4
  <2>5. d = g
    <3>1. Len(d) = Len(g)
      BY ONLY <1>4, <1>5, <2>3
    <3> QED BY ONLY <1>5, <2>3, <2>4, <3>1, SeqEqual
  <2> QED BY ONLY <1>8, <2>5 DEF g, f
<1> QED BY ONLY <1>1, <1>7, <1>9, l.chunk_size \in 0 .. U32_MAX, LastReads

-----------------------------------------------------------------------------
(* The writer, where memory only runs out in a layer or while the table is *)
(* compressed, and no chunk can come to U32_MAX points.                    *)

Modest == Ooms \subseteq {"layer", "ic"} /\ MaxPoints < U32_MAX

\* The points are numbered as they are offered: none of k was refused.
Numbered(pts, k) == Len(pts) = k /\ \A i \in 1 .. k : pts[i] = i - 1

LEMMA NextNumber ==
    ASSUME NEW pts \in Seq(Nat), NEW k \in Nat, Numbered(pts, k)
    PROVE  Numbered(Append(pts, k), k + 1)
<1> DEFINE q == Append(pts, k)
<1>1. Len(pts) = k /\ \A i \in 1 .. k : pts[i] = i - 1
  BY DEF Numbered
<1>2. Len(q) = k + 1 /\ q[k + 1] = k /\ \A i \in 1 .. k : q[i] = pts[i]
  BY <1>1
<1>3. \A i \in 1 .. k + 1 : i = k + 1 \/ i \in 1 .. k
  OBVIOUS
<1> HIDE DEF q
<1>4. \A i \in 1 .. k + 1 : q[i] = i - 1
  BY ONLY <1>1, <1>2, <1>3, k \in Nat
<1> QED BY <1>2, <1>4 DEF Numbered, q

\* While the writer is open it has kept every point write() was called for, or lost
\* something for good; and when it is spent its file says which.
Keeping ==
    /\ Going
    /\ state = "open" => \/ Lost(layout, wp)
                         \/ /\ \E c, b : Kept(layout, wp, c, b, written, offered)
                            /\ Numbered(written, offered)
    /\ state # "open" => Sealed(layout, wp, written)
    /\ state = "done" => Filed(layout, wp, written) /\ Numbered(written, offered)

LEMMA InitKeeping == Init => Keeping
<1> SUFFICES ASSUME Init PROVE Keeping
  OBVIOUS
<1>1. PICK room \in Rooms, seeks \in Seeks : wp = Opened(layout, room, seeks)
  BY DEF Init
<1>2. /\ layout \in Layouts /\ written = <<>> /\ offered = 0
      /\ state = IF wp.outstream.failed THEN "failed" ELSE "open"
  BY DEF Init
<1>3. Ready(layout, wp, Laid(layout, <<>>)) /\ Fresh(layout, wp)
  BY <1>1, <1>2, Opens
<1>4. Fronted(layout, Laid(layout, <<>>))
  <2>1. <<>> \in Seq(Unit)
    OBVIOUS
  <2> QED BY <2>1, LaidFronted
<1>5. state = "open" => \E c, b : Kept(layout, wp, c, b, written, offered)
  BY <1>2, <1>3, KeptOpens
<1>6. Sealed(layout, wp, written)
  BY <1>3, <1>4, FrontedSealed
<1>7. state # "done"
  BY <1>2
<1>8. Numbered(written, offered)
  BY <1>2 DEF Numbered
<1> QED BY <1>5, <1>6, <1>7, <1>8, InitGoing DEF Keeping

LEMMA NextKeeping ==
    ASSUME Modest, Keeping, [Next]_wvars
    PROVE  Keeping'
<1>1. Going /\ Going' /\ layout' = layout
  BY NextGoing DEF Keeping
<1>2. /\ layout \in Layouts /\ layout.chunk_size \in 0 .. U32_MAX
      /\ offered \in Nat /\ MaxPoints \in Nat /\ U32_MAX \in Nat /\ MaxPoints < U32_MAX
      /\ Ooms \subseteq {"layer", "ic"}
  BY <1>1, WriterAssumption DEF Going, Bookkeeping, Modest
<1>3. PICK f : Ready(layout, wp, f) /\ (state = "open" => Fronted(layout, f))
  BY <1>1 DEF Going
<1>4. ASSUME NEW oom \in Ooms \cup {"no"}, state = "open", offered < MaxPoints,
             wp' = laz_writepoint_write(layout, wp, offered, oom),
             offered' = offered + 1,
             IF wp'.ok THEN index' = index + 1 /\ written' = Append(written, offered)
                       ELSE UNCHANGED <<index, written>>,
             UNCHANGED <<layout, state>>
      PROVE  Keeping'
  <2>1. oom \notin {"start", "encode", "table"}
    BY <1>2, <1>4
  <2>2. CASE Lost(layout, wp)
    <3>1. Lost(layout, wp')
      BY <1>2, <1>3, <1>4, <2>2, LostWrites
    <3> QED BY <1>1, <1>4, <3>1 DEF Keeping
  <2>3. ASSUME NEW c, NEW b, Kept(layout, wp, c, b, written, offered), Numbered(written, offered)
        PROVE  Keeping'
    <3>1. offered + 1 < U32_MAX
      BY ONLY <1>2, <1>4
    <3>2. \/ Lost(layout, wp')
          \/ wp'.ok /\ \E e, d : Kept(layout, wp', e, d, Append(written, offered), offered + 1)
      BY ONLY <1>4, <2>1, <2>3, <3>1, KeptWrites
    <3>3. Lost(layout, wp') \/ (wp'.ok /\ \E e, d : Kept(layout, wp', e, d, written', offered'))
      BY <1>4, <3>2
    <3>4. wp'.ok => Numbered(written', offered')
      <4>1. Numbered(Append(written, offered), offered + 1)
        BY <1>1, <1>2, <2>3, NextNumber DEF Going, Bookkeeping
      <4> QED BY ONLY <1>4, <4>1
    <3> QED BY <1>1, <1>4, <3>3, <3>4 DEF Keeping
  <2> QED BY <1>4, <2>2, <2>3 DEF Keeping
<1>5. ASSUME NEW oom \in Ooms \cup {"no"}, state = "open",
             wp' = laz_writepoint_chunk(layout, wp, oom),
             UNCHANGED <<layout, state, index, offered, written>>
      PROVE  Keeping'
  <2>1. oom # "table"
    BY <1>2, <1>5
  <2>2. CASE Lost(layout, wp)
    <3>1. Lost(layout, wp')
      BY <1>3, <1>5, <2>2, LostChunks
    <3> QED BY <1>1, <1>5, <3>1 DEF Keeping
  <2>3. ASSUME NEW c, NEW b, Kept(layout, wp, c, b, written, offered), Numbered(written, offered)
        PROVE  Keeping'
    <3>1. KeptOn(layout, wp', written, offered)
      BY ONLY <1>5, <2>1, <2>3, KeptChunks
    <3>2. Lost(layout, wp') \/ \E e, d : Kept(layout, wp', e, d, written, offered)
      BY <3>1 DEF KeptOn, Lost
    <3>3. Numbered(written', offered')
      BY <1>5, <2>3
    <3> QED BY <1>1, <1>5, <3>2, <3>3 DEF Keeping
  <2> QED BY <1>5, <2>2, <2>3 DEF Keeping
<1>6. ASSUME NEW oom \in Ooms \cup {"no"}, state = "open",
             wp' = laz_writepoint_done(layout, wp, oom),
             state' = IF wp'.ok THEN "done" ELSE "failed",
             UNCHANGED <<layout, index, offered, written>>
      PROVE  Keeping'
  <2>1. /\ Sealed(layout, wp', written)
        /\ wp'.ok => Filed(layout, wp', written) /\ Numbered(written, offered)
    <3>1. CASE Lost(layout, wp)
      <4>1. ~wp'.ok /\ Sealed(layout, wp', written)
        BY <1>3, <1>6, <3>1, LostFinishes
      <4> QED BY <4>1
    <3>2. ASSUME NEW c, NEW b, Kept(layout, wp, c, b, written, offered), Numbered(written, offered)
          PROVE  /\ Sealed(layout, wp', written)
                 /\ wp'.ok => Filed(layout, wp', written) /\ Numbered(written, offered)
      BY <1>2, <1>6, <3>2, KeptFinishes
    <3> QED BY <1>6, <3>1, <3>2 DEF Keeping
  <2>2. state' = "done" => Filed(layout', wp', written') /\ Numbered(written', offered')
    BY <1>6, <2>1
  <2>3. state' # "open" /\ Sealed(layout', wp', written')
    BY <1>6, <2>1
  <2> QED BY <1>1, <2>2, <2>3 DEF Keeping
<1>7. CASE Refuse
  <2>1. UNCHANGED <<layout, wp, state, index, offered, written>>
    BY <1>7 DEF Refuse
  <2> QED BY <1>1, <2>1 DEF Keeping
<1>8. CASE Dropped
  <2>1. /\ wp' = [wp EXCEPT !.outstream = Sink!fileout_destroy(@)]
        /\ state' = "dropped" /\ UNCHANGED <<layout, index, offered, written>>
    BY <1>8 DEF Dropped
  <2>2. Sealed(layout, wp, written)
    BY <1>3, FrontedSealed DEF Keeping
  <2>3. Sealed(layout, wp', written)
    BY <2>1, <2>2, SealedDrops
  <2> QED BY <1>1, <2>1, <2>3 DEF Keeping
<1>9. CASE UNCHANGED wvars
  <2>1. UNCHANGED <<layout, wp, state, index, offered, written>>
    BY <1>9 DEF wvars
  <2> QED BY <1>1, <2>1 DEF Keeping
<1>10. CASE Writer_write
  BY <1>4, <1>10 DEF Writer_write
<1>11. CASE Writer_chunk
  BY <1>5, <1>11 DEF Writer_chunk
<1>12. CASE Writer_done
  BY <1>6, <1>12 DEF Writer_done
<1> QED BY <1>7, <1>8, <1>9, <1>10, <1>11, <1>12 DEF Next

LEMMA KeepingReadsBack == Keeping => FinishedFilesReadBack
<1> SUFFICES ASSUME Keeping, state = "done" PROVE HoldsAll(layout, wp.outstream.disk, written)
  BY DEF FinishedFilesReadBack, HoldsAll
<1>1. layout \in Layouts /\ layout.chunk_size \in 0 .. U32_MAX
  BY WriterAssumption DEF Keeping, Going, Bookkeeping
<1> QED BY <1>1, FiledHoldsAll DEF Keeping

LEMMA KeepingSaysSo == Keeping => InterruptedFilesSaySo
<1> SUFFICES ASSUME Keeping, Chunked(layout), layout.seekable PROVE InterruptedFilesSaySo
  BY DEF InterruptedFilesSaySo
<1>1. PICK f : Ready(layout, wp, f) /\ (state = "open" => Fronted(layout, f))
  BY DEF Keeping, Going
<1>2. Sealed(layout, wp, written)
  BY <1>1, FrontedSealed DEF Keeping
<1>3. SaysSo(wp.outstream.disk, written)
  BY <1>2, SealedSaysSo
<1> QED BY <1>3 DEF SaysSo, InterruptedFilesSaySo

\* A file done() returned for reads back as the points write() returned for, in
\* whole chunks that lie where the table says (laz_writepoint_done,
\* close_and_record, add_chunk_to_table, write_chunk_table).
THEOREM FinishedFilesAreWhole ==
    ASSUME Ooms \subseteq {"layer", "ic"}, MaxPoints < U32_MAX
    PROVE  Spec => []FinishedFilesReadBack
<1>1. Keeping /\ [Next]_wvars => Keeping'
  BY NextKeeping DEF Modest
<1> QED BY <1>1, InitKeeping, KeepingReadsBack, PTL DEF Spec

\* Whenever the writer is interrupted, the position in front of the points either
\* says that there is no table yet or every point is in front of where it points
\* (write_chunk_table, fileout_seek).
THEOREM InterruptedFilesAreHonest ==
    ASSUME Ooms \subseteq {"layer", "ic"}, MaxPoints < U32_MAX
    PROVE  Spec => []InterruptedFilesSaySo
<1>1. Keeping /\ [Next]_wvars => Keeping'
  BY NextKeeping DEF Modest
<1> QED BY <1>1, InitKeeping, KeepingSaysSo, PTL DEF Spec
=============================================================================
