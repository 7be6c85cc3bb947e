------------------------- MODULE RegionReaderProofs -------------------------
(***************************************************************************)
(* Proofs about the spatial index, for any file, cell size, minimum and    *)
(* maximum: every point added stays covered while cells are merged and     *)
(* runs joined (PointsStayCovered); whatever an index says, no query       *)
(* leaves the file or its region (SpansAlwaysStay); and a query with an    *)
(* index of the points themselves is a scan of the whole file              *)
(* (QueriesAreFilteredScans).                                              *)
(*                                                                         *)
(* BuildInv says what the builder holds: cells that ascend, none of which  *)
(* lies in another once they are merged, and each point in its leaf or     *)
(* above it.  QueryInv says that an index that was read is sound, and one  *)
(* of the points themselves has them all; that the spans are spans of the  *)
(* file; and that what was handed out is inside.  FilterInv says how far   *)
(* a query has come: all up to a position has been handed out, and the     *)
(* spans that are left have the rest.  It rests on the descent: the path   *)
(* of a point to its leaf is one a query that selects it takes, down to    *)
(* the cell that has it (HeldIsHit).                                       *)
(***************************************************************************)
EXTENDS RegionReader, SequenceTheorems, FiniteSetTheorems, WellFoundedInduction, TLAPS

-----------------------------------------------------------------------------
(* Induction, and what the recursive functions compute. *)

\* A set that has 0, and k with k - 1, has all numbers up to m.
LEMMA UpTo ==
    ASSUME NEW m \in Nat, NEW T, 0 \in T, \A i \in 1 .. m : i - 1 \in T => i \in T
    PROVE  0 .. m \subseteq T
<1> SUFFICES ASSUME ~(0 .. m \subseteq T) PROVE FALSE
  OBVIOUS
<1> DEFINE U == {i \in 0 .. m : i \notin T}
           R == OpToRel(<, Nat)
<1>1. U \subseteq Nat /\ U # {}
  OBVIOUS
<1>2. PICK t \in U : \A y \in U : ~ (<<y, t>> \in R)
  BY <1>1, NatLessThanWellFounded, WFMin
<1>R. R = {ss \in Nat \X Nat : ss[1] < ss[2]}
  BY DEF OpToRel
<1> HIDE DEF R
<1>3. t \in 1 .. m /\ t - 1 \in 0 .. m
  OBVIOUS
<1>4. t - 1 \notin U
  <2>1. <<t - 1, t>> \in R
    BY <1>R, <1>3
  <2> QED BY <1>2, <2>1
<1> QED BY <1>3, <1>4

\* What the recursion of LevelOffset computes.
LEMMA OffsetSteps ==
    ASSUME NEW level, NEW n \in Nat, n = level
    PROVE  \E f : /\ f[0] = 0
                  /\ \A k \in 1 .. n : f[k] = 4 * f[k - 1] + 1
                  /\ LevelOffset(level) = f[n]
<1> DEFINE base == 0
           step(x, k) == 4 * x + 1
           Rec(f, m) == f = [k \in 0 .. m |-> IF k = 0 THEN base ELSE step(f[k - 1], k)]
           T == {m \in 0 .. n : \E f : Rec(f, m)}
<1>1. LevelOffset(level) = (CHOOSE f : Rec(f, n))[n]
  BY DEF LevelOffset
<1>2. \A k \in 1 .. n : \A x : step(x, k) = 4 * x + 1
  OBVIOUS
<1> HIDE DEF step
<1>3. \A f : \A m \in Nat :
          (f = [k \in 0 .. m |-> f[k]] /\ \A k \in 0 .. m : f[k] = IF k = 0 THEN base ELSE step(f[k - 1], k))
            => Rec(f, m)
  OBVIOUS
<1>4. \A f : \A m \in Nat :
          Rec(f, m) => \A k \in 0 .. m : f[k] = IF k = 0 THEN base ELSE step(f[k - 1], k)
  OBVIOUS
<1> HIDE DEF Rec, base
<1>5. 0 \in T
  <2> DEFINE g == [k \in 0 .. 0 |-> base]
  <2>1. g = [k \in 0 .. 0 |-> g[k]] /\ \A k \in 0 .. 0 : g[k] = IF k = 0 THEN base ELSE step(g[k - 1], k)
    OBVIOUS
  <2> HIDE DEF g
  <2>2. Rec(g, 0)
    BY <2>1, <1>3
  <2> QED BY <2>2
<1>6. ASSUME NEW m \in 1 .. n, m - 1 \in T PROVE m \in T
  <2>1. PICK g : Rec(g, m - 1)
    BY <1>6
  <2> DEFINE x == step(g[m - 1], m)
             h == [k \in 0 .. m |-> IF k = m THEN x ELSE g[k]]
  <2>2. h[m] = x /\ \A k \in 0 .. m - 1 : h[k] = g[k]
    OBVIOUS
  <2>3. h = [k \in 0 .. m |-> h[k]]
    OBVIOUS
  <2> HIDE DEF h
  <2>4. \A k \in 0 .. m - 1 : g[k] = IF k = 0 THEN base ELSE step(g[k - 1], k)
    BY <2>1, <1>4
  <2>5. ASSUME NEW k \in 0 .. m
        PROVE  h[k] = IF k = 0 THEN base ELSE step(h[k - 1], k)
    <3>1. k # 0 => k - 1 \in 0 .. m - 1
      OBVIOUS
    <3>2. CASE k = m
      BY <2>2, <3>1, <3>2
    <3>3. CASE k # m
      <4>1. k \in 0 .. m - 1 /\ h[k] = g[k]
        BY <2>2, <3>3
      <4>2. k # 0 => h[k - 1] = g[k - 1]
        BY <2>2, <3>1
      <4> QED BY <2>4, <4>1, <4>2
    <3> QED BY <3>2, <3>3
  <2>6. Rec(h, m)
    <3>1. m \in Nat /\ \A k \in 0 .. m : h[k] = IF k = 0 THEN base ELSE step(h[k - 1], k)
      BY <2>5
    <3> QED BY ONLY <1>3, <2>3, <3>1
  <2> QED BY <2>6
<1>7. 0 .. n \subseteq T
  BY <1>5, <1>6, UpTo
<1> DEFINE f == CHOOSE g : Rec(g, n)
<1>8. Rec(f, n)
  BY <1>7
<1> HIDE DEF f
<1>9. f[0] = base /\ \A k \in 1 .. n : f[k] = step(f[k - 1], k)
  BY <1>4, <1>8
<1> QED BY <1>1, <1>2, <1>9 DEF f, base

\* The recursion of Ancestors.
LEMMA UpSteps ==
    ASSUME NEW cell, NEW n \in Nat, n = LevelOf(cell)
    PROVE  \E f : /\ f[0] = cell
                  /\ \A k \in 1 .. n : f[k] = Parent(f[k - 1])
                  /\ Ancestors(cell) = [k \in 1 .. n |-> f[k]]
<1> DEFINE base == cell
           step(x, k) == Parent(x)
           Rec(f, m) == f = [k \in 0 .. m |-> IF k = 0 THEN base ELSE step(f[k - 1], k)]
           T == {m \in 0 .. n : \E f : Rec(f, m)}
<1>1. Ancestors(cell) = [k \in 1 .. n |-> (CHOOSE f : Rec(f, n))[k]]
  BY DEF Ancestors
<1>2. \A k \in 1 .. n : \A x : step(x, k) = Parent(x)
  OBVIOUS
<1> HIDE DEF step
<1>3. \A f : \A m \in Nat :
          (f = [k \in 0 .. m |-> f[k]] /\ \A k \in 0 .. m : f[k] = IF k = 0 THEN base ELSE step(f[k - 1], k))
            => Rec(f, m)
  OBVIOUS
<1>4. \A f : \A m \in Nat :
          Rec(f, m) => \A k \in 0 .. m : f[k] = IF k = 0 THEN base ELSE step(f[k - 1], k)
  OBVIOUS
<1> HIDE DEF Rec, base
<1>5. 0 \in T
  <2> DEFINE g == [k \in 0 .. 0 |-> base]
  <2>1. g = [k \in 0 .. 0 |-> g[k]] /\ \A k \in 0 .. 0 : g[k] = IF k = 0 THEN base ELSE step(g[k - 1], k)
    OBVIOUS
  <2> HIDE DEF g
  <2>2. Rec(g, 0)
    BY <2>1, <1>3
  <2> QED BY <2>2
<1>6. ASSUME NEW m \in 1 .. n, m - 1 \in T PROVE m \in T
  <2>1. PICK g : Rec(g, m - 1)
    BY <1>6
  <2> DEFINE x == step(g[m - 1], m)
             h == [k \in 0 .. m |-> IF k = m THEN x ELSE g[k]]
  <2>2. h[m] = x /\ \A k \in 0 .. m - 1 : h[k] = g[k]
    OBVIOUS
  <2>3. h = [k \in 0 .. m |-> h[k]]
    OBVIOUS
  <2> HIDE DEF h
  <2>4. \A k \in 0 .. m - 1 : g[k] = IF k = 0 THEN base ELSE step(g[k - 1], k)
    BY <2>1, <1>4
  <2>5. ASSUME NEW k \in 0 .. m
        PROVE  h[k] = IF k = 0 THEN base ELSE step(h[k - 1], k)
    <3>1. k # 0 => k - 1 \in 0 .. m - 1
      OBVIOUS
    <3>2. CASE k = m
      BY <2>2, <3>1, <3>2
    <3>3. CASE k # m
      <4>1. k \in 0 .. m - 1 /\ h[k] = g[k]
        BY <2>2, <3>3
      <4>2. k # 0 => h[k - 1] = g[k - 1]
        BY <2>2, <3>1
      <4> QED BY <2>4, <4>1, <4>2
    <3> QED BY <3>2, <3>3
  <2>6. Rec(h, m)
    <3>1. m \in Nat /\ \A k \in 0 .. m : h[k] = IF k = 0 THEN base ELSE step(h[k - 1], k)
      BY <2>5
    <3> QED BY ONLY <1>3, <2>3, <3>1
  <2> QED BY <2>6
<1>7. 0 .. n \subseteq T
  BY <1>5, <1>6, UpTo
<1> DEFINE f == CHOOSE g : Rec(g, n)
<1>8. Rec(f, n)
  BY <1>7
<1> HIDE DEF f
<1>9. f[0] = base /\ \A k \in 1 .. n : f[k] = step(f[k - 1], k)
  BY <1>4, <1>8
<1> QED BY <1>1, <1>2, <1>9 DEF f, base

\* What Picked computes.
LEMMA PickedSteps ==
    ASSUME NEW s, NEW places, NEW n \in Nat, n = Len(s)
    PROVE  \E f : /\ f[0] = <<>>
                  /\ \A k \in 1 .. n : f[k] = IF k \in places THEN Append(f[k - 1], s[k]) ELSE f[k - 1]
                  /\ Picked(s, places) = f[n]
<1> DEFINE base == <<>>
           step(x, k) == IF k \in places THEN Append(x, s[k]) ELSE x
           Rec(f, m) == f = [k \in 0 .. m |-> IF k = 0 THEN base ELSE step(f[k - 1], k)]
           T == {m \in 0 .. n : \E f : Rec(f, m)}
<1>1. Picked(s, places) = (CHOOSE f : Rec(f, n))[n]
  BY DEF Picked
<1>2. \A k \in 1 .. n : \A x : step(x, k) = IF k \in places THEN Append(x, s[k]) ELSE x
  OBVIOUS
<1> HIDE DEF step
<1>3. \A f : \A m \in Nat :
          (f = [k \in 0 .. m |-> f[k]] /\ \A k \in 0 .. m : f[k] = IF k = 0 THEN base ELSE step(f[k - 1], k))
            => Rec(f, m)
  OBVIOUS
<1>4. \A f : \A m \in Nat :
          Rec(f, m) => \A k \in 0 .. m : f[k] = IF k = 0 THEN base ELSE step(f[k - 1], k)
  OBVIOUS
<1> HIDE DEF Rec, base
<1>5. 0 \in T
  <2> DEFINE g == [k \in 0 .. 0 |-> base]
  <2>1. g = [k \in 0 .. 0 |-> g[k]] /\ \A k \in 0 .. 0 : g[k] = IF k = 0 THEN base ELSE step(g[k - 1], k)
    OBVIOUS
  <2> HIDE DEF g
  <2>2. Rec(g, 0)
    BY <2>1, <1>3
  <2> QED BY <2>2
<1>6. ASSUME NEW m \in 1 .. n, m - 1 \in T PROVE m \in T
  <2>1. PICK g : Rec(g, m - 1)
    BY <1>6
  <2> DEFINE x == step(g[m - 1], m)
             h == [k \in 0 .. m |-> IF k = m THEN x ELSE g[k]]
  <2>2. h[m] = x /\ \A k \in 0 .. m - 1 : h[k] = g[k]
    OBVIOUS
  <2>3. h = [k \in 0 .. m |-> h[k]]
    OBVIOUS
  <2> HIDE DEF h
  <2>4. \A k \in 0 .. m - 1 : g[k] = IF k = 0 THEN base ELSE step(g[k - 1], k)
    BY <2>1, <1>4
  <2>5. ASSUME NEW k \in 0 .. m
        PROVE  h[k] = IF k = 0 THEN base ELSE step(h[k - 1], k)
    <3>1. k # 0 => k - 1 \in 0 .. m - 1
      OBVIOUS
    <3>2. CASE k = m
      BY <2>2, <3>1, <3>2
    <3>3. CASE k # m
      <4>1. k \in 0 .. m - 1 /\ h[k] = g[k]
        BY <2>2, <3>3
      <4>2. k # 0 => h[k - 1] = g[k - 1]
        BY <2>2, <3>1
      <4> QED BY <2>4, <4>1, <4>2
    <3> QED BY <3>2, <3>3
  <2>6. Rec(h, m)
    <3>1. m \in Nat /\ \A k \in 0 .. m : h[k] = IF k = 0 THEN base ELSE step(h[k - 1], k)
      BY <2>5
    <3> QED BY ONLY <1>3, <2>3, <3>1
  <2> QED BY <2>6
<1>7. 0 .. n \subseteq T
  BY <1>5, <1>6, UpTo
<1> DEFINE f == CHOOSE g : Rec(g, n)
<1>8. Rec(f, n)
  BY <1>7
<1> HIDE DEF f
<1>9. f[0] = base /\ \A k \in 1 .. n : f[k] = step(f[k - 1], k)
  BY <1>4, <1>8
<1> QED BY <1>1, <1>2, <1>9 DEF f, base

\* What Order computes.
LEMMA OrderSteps ==
    ASSUME NEW before, NEW N, NEW n \in Nat, n = N
    PROVE  \E f : /\ f[0] = <<>>
                  /\ \A k \in 1 .. n : f[k] = Placed(f[k - 1], k, before)
                  /\ Order(n, before) = f[n]
<1> DEFINE base == <<>>
           step(x, k) == Placed(x, k, before)
           Rec(f, m) == f = [k \in 0 .. m |-> IF k = 0 THEN base ELSE step(f[k - 1], k)]
           T == {m \in 0 .. n : \E f : Rec(f, m)}
<1>1. Order(n, before) = (CHOOSE f : Rec(f, n))[n]
  BY DEF Order
<1>2. \A k \in 1 .. n : \A x : step(x, k) = Placed(x, k, before)
  OBVIOUS
<1> HIDE DEF step
<1>3. \A f : \A m \in Nat :
          (f = [k \in 0 .. m |-> f[k]] /\ \A k \in 0 .. m : f[k] = IF k = 0 THEN base ELSE step(f[k - 1], k))
            => Rec(f, m)
  OBVIOUS
<1>4. \A f : \A m \in Nat :
          Rec(f, m) => \A k \in 0 .. m : f[k] = IF k = 0 THEN base ELSE step(f[k - 1], k)
  OBVIOUS
<1> HIDE DEF Rec, base
<1>5. 0 \in T
  <2> DEFINE g == [k \in 0 .. 0 |-> base]
  <2>1. g = [k \in 0 .. 0 |-> g[k]] /\ \A k \in 0 .. 0 : g[k] = IF k = 0 THEN base ELSE step(g[k - 1], k)
    OBVIOUS
  <2> HIDE DEF g
  <2>2. Rec(g, 0)
    BY <2>1, <1>3
  <2> QED BY <2>2
<1>6. ASSUME NEW m \in 1 .. n, m - 1 \in T PROVE m \in T
  <2>1. PICK g : Rec(g, m - 1)
    BY <1>6
  <2> DEFINE x == step(g[m - 1], m)
             h == [k \in 0 .. m |-> IF k = m THEN x ELSE g[k]]
  <2>2. h[m] = x /\ \A k \in 0 .. m - 1 : h[k] = g[k]
    OBVIOUS
  <2>3. h = [k \in 0 .. m |-> h[k]]
    OBVIOUS
  <2> HIDE DEF h
  <2>4. \A k \in 0 .. m - 1 : g[k] = IF k = 0 THEN base ELSE step(g[k - 1], k)
    BY <2>1, <1>4
  <2>5. ASSUME NEW k \in 0 .. m
        PROVE  h[k] = IF k = 0 THEN base ELSE step(h[k - 1], k)
    <3>1. k # 0 => k - 1 \in 0 .. m - 1
      OBVIOUS
    <3>2. CASE k = m
      BY <2>2, <3>1, <3>2
    <3>3. CASE k # m
      <4>1. k \in 0 .. m - 1 /\ h[k] = g[k]
        BY <2>2, <3>3
      <4>2. k # 0 => h[k - 1] = g[k - 1]
        BY <2>2, <3>1
      <4> QED BY <2>4, <4>1, <4>2
    <3> QED BY <3>2, <3>3
  <2>6. Rec(h, m)
    <3>1. m \in Nat /\ \A k \in 0 .. m : h[k] = IF k = 0 THEN base ELSE step(h[k - 1], k)
      BY <2>5
    <3> QED BY ONLY <1>3, <2>3, <3>1
  <2> QED BY <2>6
<1>7. 0 .. n \subseteq T
  BY <1>5, <1>6, UpTo
<1> DEFINE f == CHOOSE g : Rec(g, n)
<1>8. Rec(f, n)
  BY <1>7
<1> HIDE DEF f
<1>9. f[0] = base /\ \A k \in 1 .. n : f[k] = step(f[k - 1], k)
  BY <1>4, <1>8
<1> QED BY <1>1, <1>2, <1>9 DEF f, base

Only(x) == <<x>>

\* What Coalesce computes.
LEMMA ListSteps ==
    ASSUME NEW runs, NEW threshold, NEW n \in Nat, n = Len(runs), n > 1
    PROVE  \E f : /\ f[1] = Only(ByStart(runs)[1])
                  /\ \A k \in 2 .. n : f[k] = Joined(f[k - 1], ByStart(runs)[k], threshold)
                  /\ Coalesce(runs, threshold) = f[n]
<1> DEFINE base == <<ByStart(runs)[1]>>
           step(x, k) == Joined(x, ByStart(runs)[k], threshold)
           Rec(f, m) == f = [k \in 1 .. m |-> IF k = 1 THEN base ELSE step(f[k - 1], k)]
           T == {m \in 0 .. n : m > 0 => \E f : Rec(f, m)}
<1>1. Coalesce(runs, threshold) = (CHOOSE f : Rec(f, n))[n]
  BY DEF Coalesce
<1>2. \A k \in 2 .. n : \A x : step(x, k) = Joined(x, ByStart(runs)[k], threshold)
  OBVIOUS
<1> HIDE DEF step
<1>3. \A f : \A m \in Nat :
          (f = [k \in 1 .. m |-> f[k]] /\ \A k \in 1 .. m : f[k] = IF k = 1 THEN base ELSE step(f[k - 1], k))
            => Rec(f, m)
  OBVIOUS
<1>4. \A f : \A m \in Nat :
          Rec(f, m) => \A k \in 1 .. m : f[k] = IF k = 1 THEN base ELSE step(f[k - 1], k)
  OBVIOUS
<1> HIDE DEF Rec, base
<1>5. \E f : Rec(f, 1)
  <2> DEFINE g == [k \in 1 .. 1 |-> base]
  <2>1. g = [k \in 1 .. 1 |-> g[k]] /\ \A k \in 1 .. 1 : g[k] = IF k = 1 THEN base ELSE step(g[k - 1], k)
    OBVIOUS
  <2> HIDE DEF g
  <2>2. Rec(g, 1)
    BY <2>1, <1>3
  <2> QED BY <2>2
<1>6. ASSUME NEW m \in 1 .. n, m - 1 \in T PROVE m \in T
  <2>0. CASE m = 1
    BY <1>5, <2>0
  <2> SUFFICES ASSUME m # 1 PROVE m \in T
    BY <2>0
  <2>1. PICK g : Rec(g, m - 1)
    BY <1>6
  <2> DEFINE x == step(g[m - 1], m)
             h == [k \in 1 .. m |-> IF k = m THEN x ELSE g[k]]
  <2>2. h[m] = x /\ \A k \in 1 .. m - 1 : h[k] = g[k]
    OBVIOUS
  <2>3. h = [k \in 1 .. m |-> h[k]]
    OBVIOUS
  <2> HIDE DEF h
  <2>4. \A k \in 1 .. m - 1 : g[k] = IF k = 1 THEN base ELSE step(g[k - 1], k)
    BY <2>1, <1>4
  <2>5. ASSUME NEW k \in 1 .. m
        PROVE  h[k] = IF k = 1 THEN base ELSE step(h[k - 1], k)
    <3>1. k # 1 => k - 1 \in 1 .. m - 1
      OBVIOUS
    <3>2. CASE k = m
      BY <2>2, <3>1, <3>2
    <3>3. CASE k # m
      <4>1. k \in 1 .. m - 1 /\ h[k] = g[k]
        BY <2>2, <3>3
      <4>2. k # 1 => h[k - 1] = g[k - 1]
        BY <2>2, <3>1
      <4> QED BY <2>4, <4>1, <4>2
    <3> QED BY <3>2, <3>3
  <2>6. Rec(h, m)
    <3>1. m \in Nat /\ \A k \in 1 .. m : h[k] = IF k = 1 THEN base ELSE step(h[k - 1], k)
      BY <2>5
    <3> QED BY ONLY <1>3, <2>3, <3>1
  <2> QED BY <2>6
<1>7. 0 .. n \subseteq T
  <2>1. 0 \in T
    OBVIOUS
  <2> QED BY <1>6, <2>1, UpTo
<1> DEFINE f == CHOOSE g : Rec(g, n)
<1>8. Rec(f, n)
  BY <1>7
<1> HIDE DEF f
<1>9. f[1] = base /\ \A k \in 2 .. n : f[k] = step(f[k - 1], k)
  BY <1>4, <1>8
<1> QED BY <1>1, <1>2, <1>9 DEF f, base, Only

-----------------------------------------------------------------------------
(* Sequences. *)

\* What has one more element than a sequence has all of its elements.
LEMMA InsertAtProperties ==
    ASSUME NEW S, NEW s \in Seq(S), NEW at \in 1 .. Len(s) + 1, NEW x \in S
    PROVE  /\ InsertAt(s, at, x) \in Seq(S)
           /\ Len(InsertAt(s, at, x)) = Len(s) + 1
           /\ \A i \in 1 .. Len(s) + 1 :
                  InsertAt(s, at, x)[i] = IF i < at THEN s[i] ELSE IF i = at THEN x ELSE s[i - 1]
<1> DEFINE a == SubSeq(s, 1, at - 1)
           b == SubSeq(s, at, Len(s))
<1>1. Len(s) \in Nat /\ \A i \in 1 .. Len(s) : s[i] \in S
  BY LenProperties, ElementOfSeq
<1>2. a \in Seq(S) /\ Len(a) = at - 1 /\ \A i \in 1 .. at - 1 : a[i] = s[i]
  <2>1. \A i \in 1 .. at - 1 : s[i] \in S
    BY <1>1
  <2> QED BY <1>1, <2>1, SubSeqProperties
<1>3. b \in Seq(S) /\ Len(b) = Len(s) - at + 1 /\ \A i \in 1 .. Len(s) - at + 1 : b[i] = s[at + i - 1]
  <2>1. \A i \in at .. Len(s) : s[i] \in S
    BY <1>1
  <2> QED BY <1>1, <2>1, SubSeqProperties
<1>4. <<x>> \in Seq(S) /\ Len(<<x>>) = 1 /\ <<x>>[1] = x
  OBVIOUS
<1> DEFINE c == a \o <<x>>
<1> HIDE DEF a, b
<1>5. /\ c \in Seq(S) /\ Len(c) = at
      /\ \A i \in 1 .. at : c[i] = IF i < at THEN s[i] ELSE x
  BY <1>2, <1>4, ConcatProperties
<1> HIDE DEF c
<1>6. /\ c \o b \in Seq(S) /\ Len(c \o b) = Len(s) + 1
      /\ \A i \in 1 .. Len(s) + 1 : (c \o b)[i] = IF i <= at THEN c[i] ELSE b[i - at]
  <2>1. /\ c \o b \in Seq(S) /\ Len(c \o b) = Len(c) + Len(b)
        /\ \A i \in 1 .. Len(c) + Len(b) : (c \o b)[i] = IF i <= Len(c) THEN c[i] ELSE b[i - Len(c)]
    BY <1>3, <1>5, ConcatProperties
  <2>2. Len(c) = at /\ Len(c) + Len(b) = Len(s) + 1
    BY <1>1, <1>3, <1>5
  <2> QED BY <2>1, <2>2
<1>7. InsertAt(s, at, x) = c \o b
  BY DEF InsertAt, a, b, c
<1> DEFINE t == c \o b
<1> HIDE DEF t
<1>8. ASSUME NEW i \in 1 .. Len(s) + 1
      PROVE  t[i] = IF i < at THEN s[i] ELSE IF i = at THEN x ELSE s[i - 1]
  <2>1. t[i] = IF i <= at THEN c[i] ELSE b[i - at]
    BY <1>6 DEF t
  <2>2. CASE i <= at
    BY <1>5, <2>1, <2>2
  <2>3. CASE i > at
    <3>1. i - at \in 1 .. Len(s) - at + 1 /\ at + (i - at) - 1 = i - 1
      BY <1>1, <2>3
    <3>2. t[i] = b[i - at]
      BY <1>1, <2>1, <2>3
    <3> QED BY <1>1, <1>3, <2>3, <3>1, <3>2
  <2> QED BY <1>1, <2>2, <2>3
<1> QED BY <1>6, <1>7, <1>8 DEF t

\* One element after the other is at a later place.
Rises(m) == \A i, j \in DOMAIN m : i < j => m[i] < m[j]

\* What is picked from a sequence are the elements of the places asked for.
Picks(s, places, t, m) ==
    /\ m \in [1 .. Len(t) -> 1 .. Len(s)]
    /\ Rises(m)
    /\ \A i \in 1 .. Len(t) : t[i] = s[m[i]] /\ m[i] \in places
    /\ \A k \in 1 .. Len(s) : k \in places => \E i \in 1 .. Len(t) : m[i] = k

\* What Picked computes: what is at the places, in order, and nothing else.
LEMMA PickedProperties ==
    ASSUME NEW S, NEW s \in Seq(S), NEW places
    PROVE  /\ Picked(s, places) \in Seq(S)
           /\ \E m : Picks(s, places, Picked(s, places), m)
<1> DEFINE n == Len(s)
<1>0. n \in Nat /\ \A i \in 1 .. n : s[i] \in S
  BY LenProperties, ElementOfSeq
<1>1. PICK f : /\ f[0] = <<>>
               /\ \A k \in 1 .. n : f[k] = IF k \in places THEN Append(f[k - 1], s[k]) ELSE f[k - 1]
               /\ Picked(s, places) = f[n]
  BY <1>0, PickedSteps
<1> HIDE DEF n
<1> DEFINE Good(k, m) == /\ m \in [1 .. Len(f[k]) -> 1 .. k]
                         /\ Rises(m)
                         /\ \A i \in 1 .. Len(f[k]) : f[k][i] = s[m[i]] /\ m[i] \in places
                         /\ \A j \in 1 .. k : j \in places => \E i \in 1 .. Len(f[k]) : m[i] = j
           T == {k \in 0 .. n : f[k] \in Seq(S) /\ \E m : Good(k, m)}
<1>2. 0 \in T
  <2> DEFINE m == [i \in 1 .. 0 |-> 0]
  <2>1. f[0] \in Seq(S) /\ Len(f[0]) = 0
    BY <1>1
  <2>2. Good(0, m)
    BY <2>1 DEF Rises
  <2> QED BY <1>0, <2>1, <2>2
<1>3. ASSUME NEW k \in 1 .. n, k - 1 \in T PROVE k \in T
  <2>1. f[k - 1] \in Seq(S) /\ Len(f[k - 1]) \in Nat
    BY <1>3, LenProperties
  <2>2. PICK m : Good(k - 1, m)
    BY <1>3
  <2>3. k \in Int /\ s[k] \in S
    BY <1>0
  <2>4. CASE k \notin places
    <3>1. f[k] = f[k - 1]
      BY <1>1, <2>4
    <3>2. Good(k, m)
      <4>1. m \in [1 .. Len(f[k]) -> 1 .. k]
        BY <1>0, <2>1, <2>2, <3>1
      <4>2. ASSUME NEW j \in 1 .. k, j \in places
            PROVE  \E i \in 1 .. Len(f[k]) : m[i] = j
        <5>1. j \in 1 .. k - 1
          BY <2>4, <4>2
        <5> QED BY <2>2, <3>1, <4>2, <5>1
      <4>3. Rises(m) /\ \A i \in 1 .. Len(f[k]) : f[k][i] = s[m[i]] /\ m[i] \in places
        BY <2>2, <3>1
      <4> QED BY <4>1, <4>2, <4>3
    <3>3. f[k] \in Seq(S) /\ k \in 0 .. n
      BY ONLY <1>0, <2>1, <2>3, <3>1
    <3> HIDE DEF Good
    <3> QED BY ONLY <3>2, <3>3
  <2>5. CASE k \in places
    <3> DEFINE l == Len(f[k - 1])
               m1 == [i \in 1 .. l + 1 |-> IF i = l + 1 THEN k ELSE m[i]]
    <3>1. /\ f[k] = Append(f[k - 1], s[k]) /\ f[k] \in Seq(S) /\ Len(f[k]) = l + 1
          /\ f[k][l + 1] = s[k] /\ \A i \in 1 .. l : f[k][i] = f[k - 1][i]
      <4>1. f[k] = Append(f[k - 1], s[k])
        BY <1>1, <2>5
      <4> QED BY <2>1, <2>3, <4>1, AppendProperties
    <3>2. l \in Nat /\ m \in [1 .. l -> 1 .. k - 1] /\ \A i, j \in 1 .. l : i < j => m[i] < m[j]
      BY <2>1, <2>2 DEF Rises
    <3>3. \A i \in 1 .. l : f[k - 1][i] = s[m[i]] /\ m[i] \in places
      BY <2>2
    <3>4. \A j \in 1 .. k - 1 : j \in places => \E i \in 1 .. l : m[i] = j
      BY <2>2
    <3> HIDE DEF l
    <3>5. /\ m1 \in [1 .. l + 1 -> 1 .. k]
          /\ m1[l + 1] = k /\ \A i \in 1 .. l : m1[i] = m[i] /\ m[i] \in 1 .. k - 1
      BY <3>2
    <3> HIDE DEF m1
    <3>6. Rises(m1)
      <4> SUFFICES ASSUME NEW i \in 1 .. l + 1, NEW j \in 1 .. l + 1, i < j
                   PROVE  m1[i] < m1[j]
        BY <3>5 DEF Rises
      <4>1. i \in 1 .. l
        BY <3>2
      <4>2. CASE j = l + 1
        BY <3>5, <4>1, <4>2
      <4>3. CASE j \in 1 .. l
        BY <3>2, <3>5, <4>1, <4>3
      <4> QED BY <3>2, <4>2, <4>3
    <3>7. \A i \in 1 .. l + 1 : f[k][i] = s[m1[i]] /\ m1[i] \in places
      <4> TAKE i \in 1 .. l + 1
      <4>1. CASE i = l + 1
        BY <2>5, <3>1, <3>5, <4>1
      <4>2. CASE i \in 1 .. l
        BY <3>1, <3>3, <3>5, <4>2
      <4> QED BY <3>2, <4>1, <4>2
    <3>8. \A j \in 1 .. k : j \in places => \E i \in 1 .. l + 1 : m1[i] = j
      <4> SUFFICES ASSUME NEW j \in 1 .. k, j \in places PROVE \E i \in 1 .. l + 1 : m1[i] = j
        OBVIOUS
      <4>1. CASE j = k
        BY <3>2, <3>5, <4>1
      <4>2. CASE j \in 1 .. k - 1
        <5>1. PICK i \in 1 .. l : m[i] = j
          BY <3>4, <4>2
        <5> QED BY <3>2, <3>5, <5>1
      <4> QED BY <2>3, <4>1, <4>2
    <3>9. Good(k, m1)
      BY <3>1, <3>5, <3>6, <3>7, <3>8
    <3>10. k \in 0 .. n /\ f[k] \in Seq(S)
      BY <1>0, <3>1
    <3> HIDE DEF Good
    <3> QED BY <3>9, <3>10
  <2> QED BY <2>4, <2>5
<1>4. 0 .. n \subseteq T
  BY <1>0, <1>2, <1>3, UpTo
<1>5. f[n] \in Seq(S) /\ \E m : Good(n, m)
  BY <1>0, <1>4
<1> QED BY <1>1, <1>5 DEF Picks, n

\* A set of numbers has a least one.
LEMMA Least ==
    ASSUME NEW S, S \subseteq Nat, S # {}
    PROVE  \E x \in S : \A y \in S : x <= y
<1> DEFINE R == OpToRel(<, Nat)
<1>1. PICK x \in S : \A y \in S : ~ (<<y, x>> \in R)
  BY NatLessThanWellFounded, WFMin
<1>2. R = {ss \in Nat \X Nat : ss[1] < ss[2]}
  BY DEF OpToRel
<1> HIDE DEF R
<1>3. ASSUME NEW y \in S PROVE x <= y
  <2>1. y < x => <<y, x>> \in R
    BY <1>2
  <2> QED BY <1>1, <2>1
<1> QED BY <1>3

\* There is a place for the next one, and it is in order there.
LEMMA PlaceProperties ==
    ASSUME NEW order, Len(order) \in Nat, NEW k, NEW before
    PROVE  LET at == Place(order, k, before)
           IN  /\ at \in 1 .. Len(order) + 1
               /\ \A i \in 1 .. at - 1 : ~before[k][order[i]]
               /\ at <= Len(order) => before[k][order[at]]
<1> DEFINE S == {i \in 1 .. Len(order) : before[k][order[i]]}
           Fits(at) == /\ \A i \in 1 .. at - 1 : ~before[k][order[i]]
                       /\ at <= Len(order) => before[k][order[at]]
<1>1. \E at \in 1 .. Len(order) + 1 : Fits(at)
  <2>1. CASE S = {}
    BY <2>1
  <2>2. CASE S # {}
    <3>0. S \subseteq Nat
      OBVIOUS
    <3>1. \E x \in S : \A y \in S : x <= y
      <4> HIDE DEF S
      <4> QED BY <2>2, <3>0, Least
    <3>2. PICK x \in S : \A y \in S : x <= y
      BY <3>1
    <3>3. x \in 1 .. Len(order) /\ before[k][order[x]]
      OBVIOUS
    <3>4. \A i \in 1 .. x - 1 : ~before[k][order[i]]
      BY <3>2, <3>3
    <3> QED BY <3>3, <3>4
  <2> QED BY <2>1, <2>2
<1>2. Place(order, k, before) = CHOOSE at \in 1 .. Len(order) + 1 : Fits(at)
  BY DEF Place
<1> HIDE DEF Fits
<1>3. Place(order, k, before) \in 1 .. Len(order) + 1 /\ Fits(Place(order, k, before))
  BY <1>1, <1>2
<1> QED BY <1>3 DEF Fits

\* p has 1..k, each once and none after one that it is before.
Orders(p, k, before) ==
    /\ p \in Seq(1 .. k)
    /\ Len(p) = k
    /\ \A i, j \in 1 .. k : i # j => p[i] # p[j]
    /\ \A x \in 1 .. k : \E i \in 1 .. k : p[i] = x
    /\ \A i, j \in 1 .. k : i < j => ~before[p[j]][p[i]]

\* Order has each of 1..n once, none in front of one that is before it.
LEMMA OrderProperties ==
    ASSUME NEW n \in Nat, NEW before,
           \A i \in 1 .. n : ~before[i][i],
           \A i, j, k \in 1 .. n : before[i][j] /\ before[j][k] => before[i][k]
    PROVE  Orders(Order(n, before), n, before)
<1>1. PICK f : /\ f[0] = <<>>
               /\ \A k \in 1 .. n : f[k] = Placed(f[k - 1], k, before)
               /\ Order(n, before) = f[n]
  BY OrderSteps
<1> DEFINE T == {k \in 0 .. n : Orders(f[k], k, before)}
<1>2. 0 \in T
  <2>1. f[0] \in Seq(1 .. 0) /\ Len(f[0]) = 0
    BY <1>1
  <2>2. Orders(f[0], 0, before)
    BY <2>1 DEF Orders
  <2> QED BY <2>2
<1>3. ASSUME NEW k \in 1 .. n, k - 1 \in T PROVE k \in T
  <2> DEFINE p == f[k - 1]
             q == f[k]
             at == Place(p, k, before)
  <2>1. /\ p \in Seq(1 .. k) /\ Len(p) = k - 1 /\ Len(p) \in Nat /\ k \in Int
        /\ \A i \in 1 .. k - 1 : p[i] \in 1 .. k - 1
    <3>1. p \in Seq(1 .. k - 1) /\ Len(p) = k - 1
      BY <1>3 DEF Orders
    <3>2. 1 .. k - 1 \subseteq 1 .. k /\ k - 1 \in Nat /\ k \in Int
      OBVIOUS
    <3>3. p \in Seq(1 .. k)
      BY ONLY <3>1, <3>2, SeqMonotonic
    <3>4. \A i \in 1 .. k - 1 : p[i] \in 1 .. k - 1
      BY ONLY <3>1, ElementOfSeq
    <3> HIDE DEF p
    <3> QED BY ONLY <3>1, <3>2, <3>3, <3>4
  <2>2. /\ \A i, j \in 1 .. k - 1 : i # j => p[i] # p[j]
        /\ \A x \in 1 .. k - 1 : \E i \in 1 .. k - 1 : p[i] = x
        /\ \A i, j \in 1 .. k - 1 : i < j => ~before[p[j]][p[i]]
    BY <1>3 DEF Orders
  <2>3. /\ at \in 1 .. k
        /\ \A i \in 1 .. at - 1 : ~before[k][p[i]]
        /\ at <= k - 1 => before[k][p[at]]
    <3> HIDE DEF p
    <3>1. /\ at \in 1 .. Len(p) + 1
          /\ \A i \in 1 .. at - 1 : ~before[k][p[i]]
          /\ at <= Len(p) => before[k][p[at]]
      BY <2>1, PlaceProperties
    <3> HIDE DEF at
    <3> QED BY <2>1, <3>1
  <2>4. /\ q \in Seq(1 .. k) /\ Len(q) = k
        /\ \A i \in 1 .. k : q[i] = IF i < at THEN p[i] ELSE IF i = at THEN k ELSE p[i - 1]
    <3>1. q = InsertAt(p, at, k)
      BY <1>1 DEF Placed
    <3> HIDE DEF p, q, at
    <3>2. k \in 1 .. k /\ at \in 1 .. Len(p) + 1 /\ Len(p) + 1 = k
      BY <2>1, <2>3
    <3>3. /\ InsertAt(p, at, k) \in Seq(1 .. k)
          /\ Len(InsertAt(p, at, k)) = Len(p) + 1
          /\ \A i \in 1 .. Len(p) + 1 :
                  InsertAt(p, at, k)[i] = IF i < at THEN p[i] ELSE IF i = at THEN k ELSE p[i - 1]
      <4> DEFINE R == 1 .. k
      <4>1. p \in Seq(R) /\ k \in R /\ at \in 1 .. Len(p) + 1
        BY <2>1, <3>2
      <4> HIDE DEF R
      <4>2. /\ InsertAt(p, at, k) \in Seq(R)
            /\ Len(InsertAt(p, at, k)) = Len(p) + 1
            /\ \A i \in 1 .. Len(p) + 1 :
                   InsertAt(p, at, k)[i] = IF i < at THEN p[i] ELSE IF i = at THEN k ELSE p[i - 1]
        BY ONLY <4>1, InsertAtProperties
      <4> QED BY <4>2 DEF R
    <3> QED BY <3>1, <3>2, <3>3
  <2> HIDE DEF p, q, at
  <2> DEFINE Old(i) == IF i < at THEN i ELSE i - 1
  <2>5. ASSUME NEW i \in 1 .. k, i # at
        PROVE  Old(i) \in 1 .. k - 1 /\ q[i] = p[Old(i)]
    <3>1. q[i] = IF i < at THEN p[i] ELSE p[i - 1]
      BY <2>4, <2>5
    <3> QED BY <2>1, <2>3, <2>5, <3>1
  <2>6. q[at] = k
    BY <2>3, <2>4
  <2>7. \A i, j \in 1 .. k : i < j /\ i # at /\ j # at => Old(i) < Old(j)
    BY <2>1, <2>3
  <2>7a. \A i \in 1 .. k : (i < at => Old(i) = i) /\ (i > at => Old(i) >= at)
    BY <2>1, <2>3
  <2>8. ASSUME NEW i \in 1 .. k, NEW j \in 1 .. k, i < j PROVE q[i] # q[j]
    <3> HIDE DEF Old
    <3>0. \A x \in 1 .. k : x # at => q[x] \in 1 .. k - 1
      BY <2>1, <2>5
    <3>1. CASE i = at
      <4>1. q[j] \in 1 .. k - 1
        BY <2>8, <3>0, <3>1
      <4> QED BY <2>1, <2>6, <3>1, <4>1
    <3>2. CASE j = at
      <4>1. q[i] \in 1 .. k - 1
        BY <2>8, <3>0, <3>2
      <4> QED BY <2>1, <2>6, <3>2, <4>1
    <3>3. CASE i # at /\ j # at
      <4>1. Old(i) \in 1 .. k - 1 /\ Old(j) \in 1 .. k - 1 /\ Old(i) # Old(j)
        BY <2>1, <2>5, <2>7, <2>8, <3>3
      <4>2. p[Old(i)] # p[Old(j)]
        BY <2>2, <4>1
      <4>3. q[i] = p[Old(i)] /\ q[j] = p[Old(j)]
        BY <2>5, <3>3
      <4> QED BY <4>2, <4>3
    <3> QED BY <3>1, <3>2, <3>3
  <2>9. \A i, j \in 1 .. k : i # j => q[i] # q[j]
    <3> SUFFICES ASSUME NEW i \in 1 .. k, NEW j \in 1 .. k, i # j PROVE q[i] # q[j]
      OBVIOUS
    <3>1. i < j \/ j < i
      OBVIOUS
    <3> QED BY <2>8, <3>1
  <2>10. ASSUME NEW x \in 1 .. k PROVE \E i \in 1 .. k : q[i] = x
    <3>1. CASE x = k
      BY <2>3, <2>6, <3>1
    <3>2. CASE x # k
      <4>1. PICK i \in 1 .. k - 1 : p[i] = x
        <5>1. x \in 1 .. k - 1
          BY <2>1, <3>2
        <5> QED BY <2>2, <5>1
      <4>2. CASE i < at
        <5>1. i \in 1 .. k
          BY <2>1
        <5>2. q[i] = p[i]
          BY <2>4, <4>2, <5>1
        <5> QED BY <4>1, <5>1, <5>2
      <4>3. CASE i >= at
        <5>1. i + 1 \in 1 .. k /\ i + 1 # at /\ ~(i + 1 < at) /\ (i + 1) - 1 = i
          BY <2>1, <2>3, <4>3
        <5>2. q[i + 1] = p[i]
          BY <2>4, <5>1
        <5> QED BY <4>1, <5>1, <5>2
      <4> QED BY <2>3, <4>2, <4>3
    <3> QED BY <3>1, <3>2
  <2>11. ASSUME NEW i \in 1 .. k, NEW j \in 1 .. k, i < j PROVE ~before[q[j]][q[i]]
    <3> HIDE DEF Old
    <3>1. CASE i = at
      <4>1. j # at /\ Old(j) \in 1 .. k - 1 /\ q[j] = p[Old(j)] /\ Old(j) >= at
        BY <2>5, <2>7a, <2>11, <3>1
      <4>2. at \in 1 .. k - 1 /\ before[k][p[at]]
        BY <2>1, <2>3, <4>1
      <4>3. SUFFICES ASSUME before[p[Old(j)]][k] PROVE FALSE
        BY <2>6, <3>1, <4>1
      <4>4. p[Old(j)] \in 1 .. n /\ k \in 1 .. n /\ p[at] \in 1 .. n
        <5>1. p[Old(j)] \in 1 .. k - 1 /\ p[at] \in 1 .. k - 1
          BY <2>1, <4>1, <4>2
        <5> QED BY <5>1
      <4>5. before[p[Old(j)]][p[at]]
        BY <4>2, <4>3, <4>4
      <4>6. CASE Old(j) = at
        BY <4>4, <4>5, <4>6
      <4>7. CASE Old(j) > at
        BY <2>2, <4>1, <4>2, <4>5, <4>7
      <4> QED BY <2>1, <2>3, <4>1, <4>6, <4>7
    <3>2. CASE j = at
      <4>1. q[i] = p[i] /\ i \in 1 .. at - 1
        BY <2>3, <2>4, <2>11, <3>2
      <4> QED BY <2>3, <2>6, <3>2, <4>1
    <3>3. CASE i # at /\ j # at
      <4>1. Old(i) \in 1 .. k - 1 /\ Old(j) \in 1 .. k - 1 /\ Old(i) < Old(j)
        BY <2>5, <2>7, <2>11, <3>3
      <4> QED BY <2>2, <2>5, <3>3, <4>1
    <3> QED BY <3>1, <3>2, <3>3
  <2>12. Orders(q, k, before)
    BY <2>4, <2>9, <2>10, <2>11 DEF Orders
  <2> QED BY <2>12 DEF q
<1>4. 0 .. n \subseteq T
  BY <1>2, <1>3, UpTo
<1> QED BY <1>1, <1>4

Permutes(p, n) ==
    /\ p \in [1 .. n -> 1 .. n]
    /\ \A i, j \in 1 .. n : i # j => p[i] # p[j]
    /\ \A x \in 1 .. n : \E i \in 1 .. n : p[i] = x

LEMMA OrdersPermute ==
    ASSUME NEW n \in Nat, NEW p, NEW before, Orders(p, n, before)
    PROVE  Permutes(p, n) /\ \A i, j \in 1 .. n : i < j => ~before[p[j]][p[i]]
<1>1. p \in Seq(1 .. n) /\ Len(p) = n
  BY DEF Orders
<1>2. p \in [1 .. n -> 1 .. n]
  BY <1>1, LenProperties
<1> QED BY <1>2 DEF Orders, Permutes

\* Sorted cells are the same cells, by their indices.
LEMMA SortedCells ==
    ASSUME NEW s, DOMAIN s = 1 .. Len(s), Len(s) \in Nat,
           \A c \in 1 .. Len(s) : s[c].index \in Int
    PROVE  \E p : /\ Permutes(p, Len(s))
                  /\ ByIndex(s) = [i \in 1 .. Len(s) |-> s[p[i]]]
                  /\ \A i, j \in 1 .. Len(s) : i < j => s[p[i]].index <= s[p[j]].index
<1> DEFINE n == Len(s)
           before == [i \in 1 .. n |-> [j \in 1 .. n |-> s[i].index < s[j].index]]
           p == Order(n, before)
<1>1. ByIndex(s) = [i \in 1 .. n |-> s[p[i]]]
  BY DEF ByIndex, Arranged
<1>2. \A i, j \in 1 .. n : before[i][j] <=> s[i].index < s[j].index
  OBVIOUS
<1>2a. n \in Nat /\ \A c \in 1 .. n : s[c].index \in Int
  OBVIOUS
<1> HIDE DEF before, n
<1>3. Orders(p, n, before)
  <2>1. \A i \in 1 .. n : ~before[i][i]
    BY <1>2, <1>2a
  <2>2. \A i, j, k \in 1 .. n : before[i][j] /\ before[j][k] => before[i][k]
    BY <1>2, <1>2a
  <2> QED BY <1>2a, <2>1, <2>2, OrderProperties
<1>4. Permutes(p, n) /\ \A i, j \in 1 .. n : i < j => ~before[p[j]][p[i]]
  BY <1>2a, <1>3, OrdersPermute
<1> HIDE DEF p
<1>5. \A i, j \in 1 .. n : i < j => s[p[i]].index <= s[p[j]].index
  <2> SUFFICES ASSUME NEW i \in 1 .. n, NEW j \in 1 .. n, i < j
               PROVE  s[p[i]].index <= s[p[j]].index
    OBVIOUS
  <2>1. p[i] \in 1 .. n /\ p[j] \in 1 .. n /\ ~before[p[j]][p[i]]
    BY <1>4 DEF Permutes
  <2>2. ~(s[p[j]].index < s[p[i]].index)
    BY ONLY <1>2, <2>1
  <2> DEFINE a == s[p[i]].index
             b == s[p[j]].index
  <2>3. a \in Int /\ b \in Int /\ ~(b < a)
    BY ONLY <1>2a, <2>1, <2>2
  <2> HIDE DEF a, b
  <2>4. a <= b
    BY ONLY <2>3
  <2> QED BY ONLY <2>4 DEF a, b
<1> QED BY <1>1, <1>4, <1>5 DEF n

\* A run of whole numbers.
Runs == [start : Int, end : Int]

\* Sorted runs are the same runs, by where they start.
LEMMA SortedRuns ==
    ASSUME NEW s \in Seq(Runs)
    PROVE  \E p : /\ Permutes(p, Len(s))
                  /\ ByStart(s) = [i \in 1 .. Len(s) |-> s[p[i]]]
                  /\ \A i, j \in 1 .. Len(s) : i < j => s[p[i]].start <= s[p[j]].start
<1> DEFINE n == Len(s)
           before == [i \in 1 .. n |-> [j \in 1 .. n |-> RunBefore(s[i], s[j])]]
           p == Order(n, before)
<1>0. n \in Nat /\ \A i \in 1 .. n : s[i].start \in Int /\ s[i].end \in Int
  <2>1. \A i \in 1 .. n : s[i] \in Runs
    BY ElementOfSeq
  <2> QED BY <2>1, LenProperties DEF Runs
<1>1. ByStart(s) = [i \in 1 .. n |-> s[p[i]]]
  <2>1. DOMAIN s = 1 .. n
    OBVIOUS
  <2> QED BY <2>1 DEF ByStart, Arranged
<1>2. \A i, j \in 1 .. n : before[i][j] <=> RunBefore(s[i], s[j])
  OBVIOUS
<1> HIDE DEF before, n
<1>3. Orders(p, n, before)
  <2>1. \A i \in 1 .. n : ~before[i][i]
    BY <1>0, <1>2 DEF RunBefore
  <2>2. \A i, j, k \in 1 .. n : before[i][j] /\ before[j][k] => before[i][k]
    <3> SUFFICES ASSUME NEW i \in 1 .. n, NEW j \in 1 .. n, NEW k \in 1 .. n,
                        RunBefore(s[i], s[j]), RunBefore(s[j], s[k])
                 PROVE  RunBefore(s[i], s[k])
      BY <1>2
    <3> DEFINE a == s[i].start
               b == s[j].start
               c == s[k].start
               u == s[i].end
               v == s[j].end
               w == s[k].end
    <3>1. a \in Int /\ b \in Int /\ c \in Int /\ u \in Int /\ v \in Int /\ w \in Int
      BY <1>0
    <3>2. (a < b \/ (a = b /\ u < v)) /\ (b < c \/ (b = c /\ v < w))
      BY DEF RunBefore
    <3>3. SUFFICES a < c \/ (a = c /\ u < w)
      BY DEF RunBefore
    <3> HIDE DEF a, b, c, u, v, w
    <3> QED BY <3>1, <3>2
  <2> QED BY <1>0, <2>1, <2>2, OrderProperties
<1>4. Permutes(p, n) /\ \A i, j \in 1 .. n : i < j => ~before[p[j]][p[i]]
  BY <1>0, <1>3, OrdersPermute
<1> HIDE DEF p
<1>5. \A i, j \in 1 .. n : i < j => s[p[i]].start <= s[p[j]].start
  <2> SUFFICES ASSUME NEW i \in 1 .. n, NEW j \in 1 .. n, i < j
               PROVE  s[p[i]].start <= s[p[j]].start
    OBVIOUS
  <2>1. p[i] \in 1 .. n /\ p[j] \in 1 .. n /\ ~before[p[j]][p[i]]
    BY <1>4 DEF Permutes
  <2>2. ~RunBefore(s[p[j]], s[p[i]])
    BY <1>2, <2>1
  <2>3. ~(s[p[j]].start < s[p[i]].start)
    BY <2>2 DEF RunBefore
  <2> QED BY <1>0, <2>1, <2>3
<1> QED BY <1>1, <1>4, <1>5 DEF n

-----------------------------------------------------------------------------
(* Runs. *)

RunsAreSound(c) == c \in Seq(Runs) /\ \A r \in 1 .. Len(c) : c[r].start <= c[r].end

\* The runs are in order, and more than so far from one another.
Apart(c, gap) == \A r, s \in 1 .. Len(c) : r < s => c[s].start - c[r].end > gap

Under(run, c) == \E r \in 1 .. Len(c) : c[r].start <= run.start /\ run.end <= c[r].end

\* A run that is joined or appended is still in the list, and so are the others.
LEMMA JoinedProperties ==
    ASSUME NEW list, RunsAreSound(list), list # <<>>, NEW threshold \in Nat, Apart(list, threshold),
           NEW next \in Runs, next.start <= next.end, list[Len(list)].start <= next.start
    PROVE  LET c == Joined(list, next, threshold)
           IN  /\ RunsAreSound(c) /\ c # <<>> /\ Apart(c, threshold)
               /\ Under(next, c)
               /\ \A run \in Runs : Under(run, list) => Under(run, c)
               /\ \A r \in 1 .. Len(c) :
                      /\ c[r].start = next.start \/ \E s \in 1 .. Len(list) : c[r].start = list[s].start
                      /\ c[r].end = next.end \/ \E s \in 1 .. Len(list) : c[r].end = list[s].end
<1> DEFINE c == Joined(list, next, threshold)
           n == Len(list)
           last == list[n]
<1>1. list \in Seq(Runs) /\ n \in Nat /\ n >= 1
  BY EmptySeq DEF RunsAreSound
<1>2. \A r \in 1 .. n : /\ list[r] \in Runs /\ list[r].start \in Int /\ list[r].end \in Int
                        /\ list[r].start <= list[r].end
  <2>1. \A r \in 1 .. n : list[r] \in Runs
    BY <1>1, ElementOfSeq
  <2> QED BY <2>1 DEF RunsAreSound, Runs
<1>3. next.start \in Int /\ next.end \in Int
  BY DEF Runs
<1>4. \A r, s \in 1 .. n : r < s => list[s].start - list[r].end > threshold
  BY DEF Apart
<1>5. Last(list) = last
  BY DEF Last
<1>6. CASE next.start - last.end > threshold
  <2>1. c = Append(list, next)
    BY <1>5, <1>6 DEF Joined
  <2>2. /\ c \in Seq(Runs) /\ c # <<>> /\ Len(c) = n + 1
        /\ \A r \in 1 .. n : c[r] = list[r]
        /\ c[n + 1] = next
    BY <1>1, <2>1, AppendProperties
  <2> HIDE DEF c, n
  <2>3. RunsAreSound(c)
    <3> SUFFICES ASSUME NEW r \in 1 .. n + 1 PROVE c[r].start <= c[r].end
      BY <2>2 DEF RunsAreSound
    <3>1. r = n + 1 \/ r \in 1 .. n
      BY <1>1
    <3> QED BY <1>2, <2>2, <3>1
  <2>4. Apart(c, threshold)
    <3> SUFFICES ASSUME NEW r \in 1 .. n + 1, NEW s \in 1 .. n + 1, r < s
                 PROVE  c[s].start - c[r].end > threshold
      BY <2>2 DEF Apart
    <3>1. r \in 1 .. n /\ c[r] = list[r]
      BY <1>1, <2>2
    <3>2. CASE s \in 1 .. n
      BY <1>4, <2>2, <3>1, <3>2
    <3>3. CASE s = n + 1
      <4>1. c[s] = next
        BY <2>2, <3>3
      <4>2. CASE r = n
        BY <1>6, <3>1, <4>1, <4>2
      <4>3. CASE r < n
        <5>1. last.start - list[r].end > threshold /\ last.start <= last.end
          BY <1>1, <1>2, <1>4, <3>1, <4>3
        <5> DEFINE a == last.start
                   b == last.end
                   d == list[r].end
                   e == next.start
        <5>2. a \in Int /\ b \in Int /\ d \in Int /\ e \in Int
          BY <1>1, <1>2, <1>3, <3>1
        <5>3. a - d > threshold /\ a <= b /\ e - b > threshold
          BY <1>6, <5>1
        <5> HIDE DEF a, b, d, e
        <5>4. e - d > threshold
          BY <5>2, <5>3
        <5> QED BY <3>1, <4>1, <5>4 DEF d, e
      <4> QED BY <1>1, <3>1, <4>2, <4>3
    <3> QED BY <1>1, <3>2, <3>3
  <2>5. Under(next, c)
    BY <1>1, <1>3, <2>2 DEF Under
  <2>6. ASSUME NEW run \in Runs, Under(run, list) PROVE Under(run, c)
    <3>1. PICK r \in 1 .. n : list[r].start <= run.start /\ run.end <= list[r].end
      BY <2>6 DEF Under, n
    <3>2. r \in 1 .. Len(c) /\ c[r] = list[r]
      BY <1>1, <2>2, <3>1
    <3> QED BY <3>1, <3>2 DEF Under
  <2>7. ASSUME NEW r \in 1 .. Len(c)
        PROVE  /\ c[r].start = next.start \/ \E s \in 1 .. Len(list) : c[r].start = list[s].start
               /\ c[r].end = next.end \/ \E s \in 1 .. Len(list) : c[r].end = list[s].end
    <3>1. r = n + 1 \/ r \in 1 .. n
      BY <1>1, <2>2
    <3> QED BY <2>2, <3>1 DEF n
  <2> QED BY <2>2, <2>3, <2>4, <2>5, <2>6, <2>7 DEF c
<1>7. CASE ~(next.start - last.end > threshold)
  <2> DEFINE grown == [start |-> last.start, end |-> Larger(last.end, next.end)]
  <2>1. last \in Runs /\ grown \in Runs /\ grown.start = last.start
        /\ grown.end >= last.end /\ grown.end >= next.end /\ grown.end \in {last.end, next.end}
    BY <1>1, <1>2, <1>3 DEF Larger, Runs
  <2>2. c = [list EXCEPT ![n] = grown]
    <3>1. c = [list EXCEPT ![n] = [last EXCEPT !.end = Larger(last.end, next.end)]]
      BY <1>1, <1>5, <1>7 DEF Joined
    <3>2. [last EXCEPT !.end = Larger(last.end, next.end)] = grown
      BY <2>1 DEF Runs
    <3> QED BY <3>1, <3>2
  <2>3. /\ c \in Seq(Runs) /\ Len(c) = n
        /\ \A r \in 1 .. n : c[r] = IF r = n THEN grown ELSE list[r]
    BY <1>1, <2>1, <2>2, ExceptSeq
  <2> HIDE DEF c, n, grown
  <2>4. c # <<>>
    BY <1>1, <2>3
  <2>5. \A r \in 1 .. n : /\ c[r].start = list[r].start
                          /\ c[r].end >= list[r].end
                          /\ r # n => c[r].end = list[r].end
                          /\ c[r].start \in Int /\ c[r].end \in Int
    <3> TAKE r \in 1 .. n
    <3>1. c[r] \in Runs
      BY <2>3, ElementOfSeq
    <3>2. CASE r = n
      <4>1. c[r] = grown /\ list[r] = last
        BY <2>3, <3>2
      <4> QED BY <2>1, <3>1, <3>2, <4>1 DEF Runs
    <3>3. CASE r # n
      <4>1. c[r] = list[r]
        BY <2>3, <3>3
      <4> QED BY <1>2, <3>3, <4>1
    <3> QED BY <3>2, <3>3
  <2>6. RunsAreSound(c)
    <3> SUFFICES ASSUME NEW r \in 1 .. n PROVE c[r].start <= c[r].end
      BY <2>3 DEF RunsAreSound
    <3> DEFINE a == c[r].start
               b == c[r].end
               d == list[r].end
    <3>1. a <= d /\ b >= d /\ a \in Int /\ b \in Int /\ d \in Int
      BY <1>2, <2>5
    <3> HIDE DEF a, b, d
    <3>2. a <= b
      BY <3>1
    <3> QED BY <3>2 DEF a, b
  <2>7. Apart(c, threshold)
    <3> SUFFICES ASSUME NEW r \in 1 .. n, NEW s \in 1 .. n, r < s
                 PROVE  c[s].start - c[r].end > threshold
      BY <2>3 DEF Apart
    <3>1. list[s].start - list[r].end > threshold
      BY <1>4
    <3>2. r # n
      BY <1>1
    <3>3. c[r].end = list[r].end /\ c[s].start = list[s].start
      BY ONLY <2>5, <3>2
    <3> QED BY ONLY <3>1, <3>3
  <2>8. Under(next, c)
    <3>1. c[n] = grown /\ n \in 1 .. Len(c)
      BY <1>1, <2>3
    <3> QED BY <2>1, <3>1 DEF Under, n
  <2>9. ASSUME NEW run \in Runs, Under(run, list) PROVE Under(run, c)
    <3>1. PICK r \in 1 .. n : list[r].start <= run.start /\ run.end <= list[r].end
      BY <2>9 DEF Under, n
    <3>2. r \in 1 .. Len(c) /\ c[r].start <= run.start /\ run.end <= c[r].end
      <4>1. run.end \in Int /\ list[r].end \in Int /\ c[r].end \in Int /\ c[r].end >= list[r].end
        BY <1>2, <2>5, <3>1 DEF Runs
      <4> QED BY <2>3, <2>5, <3>1, <4>1
    <3> QED BY <3>2 DEF Under
  <2>10. ASSUME NEW r \in 1 .. Len(c)
        PROVE  /\ c[r].start = next.start \/ \E s \in 1 .. Len(list) : c[r].start = list[s].start
               /\ c[r].end = next.end \/ \E s \in 1 .. Len(list) : c[r].end = list[s].end
    <3>1. r \in 1 .. n /\ c[r].start = list[r].start
      BY <2>3, <2>5
    <3>2. c[r].end = next.end \/ c[r].end = list[r].end
      <4>1. CASE r = n
        BY <2>1, <2>3, <3>1, <4>1
      <4>2. CASE r # n
        BY <2>5, <3>1, <4>2
      <4> QED BY <4>1, <4>2
    <3> QED BY <3>1, <3>2 DEF n
  <2> QED BY <2>3, <2>4, <2>6, <2>7, <2>8, <2>9, <2>10 DEF c
<1> QED BY <1>6, <1>7

\* The runs of c begin where runs of d do, and end where runs of d do.
BoundsAreOf(c, d) ==
    \A r \in 1 .. Len(c) : /\ \E s \in 1 .. Len(d) : c[r].start = d[s].start
                           /\ \E s \in 1 .. Len(d) : c[r].end = d[s].end

\* What coalescing leaves: no less than there was, and that in order and apart.
LEMMA CoalesceProperties ==
    ASSUME NEW runs, RunsAreSound(runs), NEW threshold \in Nat
    PROVE  LET c == Coalesce(runs, threshold)
           IN  /\ RunsAreSound(c) /\ Apart(c, threshold)
               /\ runs # <<>> => c # <<>>
               /\ \A r \in 1 .. Len(runs) : Under(runs[r], c)
               /\ BoundsAreOf(c, runs)
<1> DEFINE n == Len(runs)
           c == Coalesce(runs, threshold)
<1>1. runs \in Seq(Runs) /\ n \in Nat /\ \A r \in 1 .. n : runs[r] \in Runs /\ runs[r].start <= runs[r].end
  BY ElementOfSeq, LenProperties DEF RunsAreSound
<1>1a. \A r \in 1 .. n : runs[r].start \in Int /\ runs[r].end \in Int
  BY <1>1 DEF Runs
<1>2. CASE n < 2
  <2>1. c = runs
    BY <1>2 DEF Coalesce
  <2> HIDE DEF c
  <2>2. Apart(runs, threshold)
    BY <1>1, <1>2 DEF Apart
  <2>3. \A r \in 1 .. n : Under(runs[r], runs)
    BY <1>1, <1>1a DEF Under
  <2>4. BoundsAreOf(runs, runs)
    BY DEF BoundsAreOf
  <2>5. RunsAreSound(c) /\ Apart(c, threshold) /\ (runs # <<>> => c # <<>>)
    BY <2>1, <2>2
  <2>6. (\A r \in 1 .. n : Under(runs[r], c)) /\ BoundsAreOf(c, runs)
    BY <2>1, <2>3, <2>4
  <2> QED BY <2>5, <2>6 DEF c
<1>3. CASE n >= 2
  <2> DEFINE sorted == ByStart(runs)
  <2>1. PICK p : /\ Permutes(p, n)
                 /\ sorted = [i \in 1 .. n |-> runs[p[i]]]
                 /\ \A i, j \in 1 .. n : i < j => runs[p[i]].start <= runs[p[j]].start
    BY <1>1, SortedRuns
  <2>2. PICK f : /\ f[1] = <<sorted[1]>>
                 /\ \A k \in 2 .. n : f[k] = Joined(f[k - 1], sorted[k], threshold)
                 /\ c = f[n]
    <3>1. n \in Nat /\ n > 1
      BY <1>1, <1>3
    <3>2. \E f : /\ f[1] = Only(ByStart(runs)[1])
                 /\ \A k \in 2 .. n : f[k] = Joined(f[k - 1], ByStart(runs)[k], threshold)
                 /\ Coalesce(runs, threshold) = f[n]
      BY <3>1, ListSteps
    <3> QED BY <3>2 DEF Only
  <2> HIDE DEF sorted, c
  <2>3. \A i \in 1 .. n : /\ sorted[i] = runs[p[i]] /\ p[i] \in 1 .. n
                          /\ sorted[i] \in Runs /\ sorted[i].start <= sorted[i].end
                          /\ sorted[i].start \in Int /\ sorted[i].end \in Int
    BY <1>1, <1>1a, <2>1 DEF Permutes
  <2> DEFINE Good(k) == /\ RunsAreSound(f[k]) /\ f[k] # <<>> /\ Apart(f[k], threshold)
                        /\ \A i \in 1 .. k : Under(sorted[i], f[k])
                        /\ \A r \in 1 .. Len(f[k]) :
                               /\ \E i \in 1 .. k : f[k][r].start = sorted[i].start
                               /\ \E i \in 1 .. k : f[k][r].end = sorted[i].end
             T == {k \in 0 .. n : k > 0 => Good(k)}
  <2>4. Good(1)
    <3>1. f[1] = <<sorted[1]>> /\ sorted[1] \in Runs /\ 1 \in 1 .. n
      BY <1>3, <2>2, <2>3
    <3>2. f[1] \in Seq(Runs) /\ Len(f[1]) = 1 /\ f[1][1] = sorted[1] /\ f[1] # <<>>
      BY <3>1
    <3>3. RunsAreSound(f[1])
      BY <2>3, <3>1, <3>2 DEF RunsAreSound
    <3>4. Apart(f[1], threshold)
      BY <3>2 DEF Apart
    <3>5. Under(sorted[1], f[1])
      BY <2>3, <3>1, <3>2 DEF Under
    <3> QED BY <3>2, <3>3, <3>4, <3>5
  <2>5. ASSUME NEW k \in 1 .. n, k - 1 \in T PROVE k \in T
    <3>1. CASE k = 1
      BY <2>4, <3>1
    <3>2. CASE k # 1
      <4> DEFINE a == f[k - 1]
                 b == f[k]
                 next == sorted[k]
      <4>1. k \in 2 .. n /\ k - 1 \in 1 .. n /\ k \in Int
        BY <1>1, <3>2
      <4>2. Good(k - 1)
        BY <2>5, <4>1
      <4>3. b = Joined(a, next, threshold)
        BY <2>2, <4>1
      <4>4. a[Len(a)].start <= next.start
        <5>1. Len(a) \in 1 .. Len(a)
          <6>1. a \in Seq(Runs) /\ a # <<>>
            BY <4>2 DEF RunsAreSound
          <6> QED BY <6>1, EmptySeq
        <5>2. PICK i \in 1 .. k - 1 : a[Len(a)].start = sorted[i].start
          BY <4>2, <5>1
        <5>3. sorted[i].start <= sorted[k].start
          BY <2>1, <2>3, <4>1, <5>2
        <5> QED BY <5>2, <5>3
      <4>5. next \in Runs /\ next.start <= next.end
        BY <2>3
      <4>6. RunsAreSound(a) /\ a # <<>> /\ Apart(a, threshold)
        BY <4>2
      <4>6a. /\ \A i \in 1 .. k - 1 : Under(sorted[i], a)
             /\ \A r \in 1 .. Len(a) : /\ \E i \in 1 .. k - 1 : a[r].start = sorted[i].start
                                       /\ \E i \in 1 .. k - 1 : a[r].end = sorted[i].end
        BY <4>2
      <4> HIDE DEF a, b
      <4>7. /\ RunsAreSound(b) /\ b # <<>> /\ Apart(b, threshold)
            /\ Under(next, b)
            /\ \A run \in Runs : Under(run, a) => Under(run, b)
            /\ \A r \in 1 .. Len(b) :
                   /\ b[r].start = next.start \/ \E s \in 1 .. Len(a) : b[r].start = a[s].start
                   /\ b[r].end = next.end \/ \E s \in 1 .. Len(a) : b[r].end = a[s].end
        <5> HIDE DEF next
        <5> QED BY <4>3, <4>4, <4>5, <4>6, JoinedProperties
      <4>8. ASSUME NEW i \in 1 .. k PROVE Under(sorted[i], b)
        <5>1. CASE i = k
          BY <4>7, <5>1
        <5>2. CASE i # k
          <6>1. i \in 1 .. k - 1 /\ i \in 1 .. n
            BY <4>1, <5>2
          <6> QED BY <2>3, <4>6a, <4>7, <6>1
        <5> QED BY <5>1, <5>2
      <4>9. ASSUME NEW r \in 1 .. Len(b)
            PROVE  /\ \E i \in 1 .. k : b[r].start = sorted[i].start
                   /\ \E i \in 1 .. k : b[r].end = sorted[i].end
        <5>1. \A i \in 1 .. k - 1 : i \in 1 .. k
          BY <4>1
        <5>2. \E i \in 1 .. k : b[r].start = sorted[i].start
          <6>1. CASE b[r].start = next.start
            BY <4>1, <6>1
          <6>2. CASE \E s \in 1 .. Len(a) : b[r].start = a[s].start
            BY <4>6a, <5>1, <6>2
          <6> QED BY <4>7, <6>1, <6>2
        <5>3. \E i \in 1 .. k : b[r].end = sorted[i].end
          <6>1. CASE b[r].end = next.end
            BY <4>1, <6>1
          <6>2. CASE \E s \in 1 .. Len(a) : b[r].end = a[s].end
            BY <4>6a, <5>1, <6>2
          <6> QED BY <4>7, <6>1, <6>2
        <5> QED BY <5>2, <5>3
      <4>10. Good(k)
        BY <4>7, <4>8, <4>9 DEF b
      <4> HIDE DEF Good
      <4> QED BY <1>1, <4>10
    <3> QED BY <3>1, <3>2
  <2>6. Good(n)
    <3>1. 0 \in T
      OBVIOUS
    <3>2. 0 .. n \subseteq T
      <4> HIDE DEF T
      <4> QED BY <1>1, <2>5, <3>1, UpTo
    <3> HIDE DEF Good
    <3>3. n \in 0 .. n /\ n > 0
      BY <1>1, <1>3
    <3> QED BY <3>2, <3>3
  <2>7. ASSUME NEW r \in 1 .. n PROVE Under(runs[r], c)
    <3>1. PICK i \in 1 .. n : p[i] = r
      BY <2>1 DEF Permutes
    <3> QED BY <2>2, <2>3, <2>6, <3>1
  <2>8. BoundsAreOf(c, runs)
    <3> SUFFICES ASSUME NEW r \in 1 .. Len(c)
                 PROVE  /\ \E s \in 1 .. n : c[r].start = runs[s].start
                        /\ \E s \in 1 .. n : c[r].end = runs[s].end
      BY DEF BoundsAreOf
    <3>1. PICK i \in 1 .. n : c[r].start = sorted[i].start
      BY <2>2, <2>6
    <3>2. PICK j \in 1 .. n : c[r].end = sorted[j].end
      BY <2>2, <2>6
    <3>3. /\ p[i] \in 1 .. n /\ sorted[i] = runs[p[i]]
          /\ p[j] \in 1 .. n /\ sorted[j] = runs[p[j]]
      BY <2>3
    <3> QED BY <3>1, <3>2, <3>3
  <2>9. RunsAreSound(c) /\ Apart(c, threshold) /\ c # <<>>
    BY <2>2, <2>6
  <2> QED BY <2>7, <2>8, <2>9 DEF c
<1> QED BY <1>1, <1>2, <1>3

-----------------------------------------------------------------------------
(* Levels, parents and ancestors. *)

\* The cells of the levels follow one another.
LEMMA Offsets ==
    /\ LevelOffset(0) = 0
    /\ \A l \in Nat : /\ LevelOffset(l) \in Nat
                      /\ LevelOffset(l + 1) = 4 * LevelOffset(l) + 1
<1>1. LevelOffset(0) = 0
  <2>1. PICK f : f[0] = 0 /\ LevelOffset(0) = f[0]
    BY OffsetSteps
  <2> QED BY <2>1
<1>2. ASSUME NEW l \in Nat
      PROVE  LevelOffset(l) \in Nat /\ LevelOffset(l + 1) = 4 * LevelOffset(l) + 1
  <2>1. PICK f : /\ f[0] = 0
                 /\ \A k \in 1 .. l : f[k] = 4 * f[k - 1] + 1
                 /\ LevelOffset(l) = f[l]
    BY OffsetSteps
  <2>2. PICK g : /\ g[0] = 0
                 /\ \A k \in 1 .. l + 1 : g[k] = 4 * g[k - 1] + 1
                 /\ LevelOffset(l + 1) = g[l + 1]
    BY OffsetSteps
  <2> DEFINE T == {k \in 0 .. l : f[k] = g[k] /\ f[k] \in Nat}
  <2>3. 0 .. l \subseteq T
    <3>1. 0 \in T
      BY <2>1, <2>2
    <3>2. ASSUME NEW k \in 1 .. l, k - 1 \in T PROVE k \in T
      <4>1. f[k] = 4 * f[k - 1] + 1 /\ g[k] = 4 * g[k - 1] + 1
        BY <2>1, <2>2
      <4> QED BY <3>2, <4>1
    <3> HIDE DEF T
    <3> QED BY <3>1, <3>2, UpTo
  <2>4. f[l] = g[l] /\ f[l] \in Nat
    BY <2>3
  <2>5. g[l + 1] = 4 * g[l] + 1
    <3>1. l + 1 \in 1 .. l + 1 /\ (l + 1) - 1 = l
      OBVIOUS
    <3> QED BY <2>2, <3>1
  <2> QED BY <2>1, <2>2, <2>4, <2>5
<1> QED BY <1>1, <1>2

LEMMA OffsetsRise ==
    ASSUME NEW l \in Nat, NEW m \in Nat, l < m
    PROVE  LevelOffset(l + 1) <= LevelOffset(m)
<1> DEFINE T == {k \in 0 .. m : l < k => LevelOffset(l + 1) <= LevelOffset(k)}
<1>1. 0 \in T
  OBVIOUS
<1>2. ASSUME NEW k \in 1 .. m, k - 1 \in T PROVE k \in T
  <2>1. CASE l + 1 = k
    <3>0. k \in Nat
      OBVIOUS
    <3>1. LevelOffset(k) \in Nat
      BY <3>0, Offsets
    <3> QED BY <2>1, <3>1
  <2>2. CASE l < k - 1
    <3>1. k - 1 \in Nat /\ (k - 1) + 1 = k /\ l + 1 \in Nat
      OBVIOUS
    <3>2. LevelOffset(k) = 4 * LevelOffset(k - 1) + 1 /\ LevelOffset(k - 1) \in Nat /\ LevelOffset(l + 1) \in Nat
      BY <3>1, Offsets
    <3>3. LevelOffset(l + 1) <= LevelOffset(k - 1)
      BY <1>2, <2>2
    <3>4. LevelOffset(l + 1) <= LevelOffset(k)
      BY <3>2, <3>3
    <3> QED BY <3>4
  <2>3. CASE ~(l < k)
    BY <2>3
  <2> QED BY <2>1, <2>2, <2>3
<1>3. m \in T
  <2> HIDE DEF T
  <2>1. 0 .. m \subseteq T
    BY <1>1, <1>2, UpTo
  <2> QED BY <2>1
<1> QED BY <1>3

\* The cells a tree may have.
InTree == 0 .. LevelOffset(MaxLevels + 1) - 1

\* Every cell of the tree is on a level, between its first cell and the next level's.
LEMMA LevelOfProperties ==
    ASSUME NEW cell \in InTree
    PROVE  /\ LevelOf(cell) \in 0 .. MaxLevels
           /\ LevelOffset(LevelOf(cell)) <= cell
           /\ cell < LevelOffset(LevelOf(cell) + 1)
<1>0. MaxLevels \in Nat /\ cell \in Nat /\ cell < LevelOffset(MaxLevels + 1)
  BY TreeAssumption, Offsets DEF InTree
<1> DEFINE At(l) == LevelOffset(l) <= cell /\ (l < MaxLevels => cell < LevelOffset(l + 1))
           S == {l \in 0 .. MaxLevels : cell < LevelOffset(l + 1)}
<1>1. \E l \in 0 .. MaxLevels : At(l)
  <2>1. S \subseteq Nat /\ S # {}
    BY <1>0
  <2>2. PICK l \in S : \A m \in S : l <= m
    BY <2>1, Least
  <2>3. l \in 0 .. MaxLevels /\ cell < LevelOffset(l + 1)
    BY <2>2
  <2>4. LevelOffset(l) <= cell
    <3>1. CASE l = 0
      BY <1>0, <3>1, Offsets
    <3>2. CASE l > 0
      <4>1. l - 1 \in 0 .. MaxLevels /\ (l - 1) + 1 = l /\ ~(l <= l - 1)
        BY <1>0, <2>3, <3>2
      <4>2. l - 1 \notin S
        BY <2>2, <4>1
      <4>3. ~(cell < LevelOffset(l))
        BY <4>1, <4>2
      <4>4. LevelOffset(l) \in Nat
        BY <2>3, Offsets
      <4> QED BY <1>0, <4>3, <4>4
    <3> QED BY <2>3, <3>1, <3>2
  <2> QED BY <2>3, <2>4
<1>2. LevelOf(cell) = CHOOSE l \in 0 .. MaxLevels : At(l)
  BY DEF LevelOf
<1> HIDE DEF At
<1>3. LevelOf(cell) \in 0 .. MaxLevels /\ At(LevelOf(cell))
  BY <1>1, <1>2
<1>4. cell < LevelOffset(LevelOf(cell) + 1)
  <2>1. CASE LevelOf(cell) = MaxLevels
    BY <1>0, <2>1
  <2>2. CASE LevelOf(cell) < MaxLevels
    BY <1>3, <2>2 DEF At
  <2> QED BY <1>0, <1>3, <2>1, <2>2
<1> QED BY <1>3, <1>4 DEF At

\* It is on one level only.
LEMMA LevelIsOne ==
    ASSUME NEW cell \in InTree, NEW l \in Nat, LevelOffset(l) <= cell, cell < LevelOffset(l + 1)
    PROVE  LevelOf(cell) = l
<1> DEFINE m == LevelOf(cell)
<1>1. m \in Nat /\ LevelOffset(m) <= cell /\ cell < LevelOffset(m + 1) /\ cell \in Int
  BY LevelOfProperties DEF InTree
<1> HIDE DEF m
<1>2. /\ LevelOffset(m) \in Nat /\ LevelOffset(m + 1) \in Nat
      /\ LevelOffset(l) \in Nat /\ LevelOffset(l + 1) \in Nat
  BY <1>1, Offsets
<1>3. ~(l < m)
  <2>1. l < m => LevelOffset(l + 1) <= LevelOffset(m)
    BY <1>1, OffsetsRise
  <2> QED BY <1>1, <1>2, <2>1
<1>4. ~(m < l)
  <2>1. m < l => LevelOffset(m + 1) <= LevelOffset(l)
    BY <1>1, OffsetsRise
  <2> QED BY <1>1, <1>2, <2>1
<1>5. m = l
  BY <1>1, <1>3, <1>4
<1> QED BY <1>5 DEF m

\* Level 0 is the root; any other cell has a parent, in the level above.
LEMMA ParentProperties ==
    ASSUME NEW cell \in InTree
    PROVE  /\ LevelOf(cell) = 0 <=> cell = 0
           /\ cell # 0 => /\ Parent(cell) \in InTree
                          /\ Parent(cell) < cell
                          /\ LevelOf(Parent(cell)) = LevelOf(cell) - 1
                          /\ cell \in 4 * Parent(cell) + 1 .. 4 * Parent(cell) + 4
                          /\ \A k \in 1 .. 4 : Siblings(cell)[k] = 4 * Parent(cell) + k
<1> DEFINE l == LevelOf(cell)
           p == Parent(cell)
           o == LevelOffset(l - 1)
           u == LevelOffset(l)
           v == LevelOffset(l + 1)
<1>0. cell \in Nat /\ MaxLevels \in Nat
  BY TreeAssumption DEF InTree
<1>1. l \in 0 .. MaxLevels /\ u <= cell /\ cell < v /\ u \in Nat /\ v = 4 * u + 1
  BY <1>0, LevelOfProperties, Offsets
<1>2. ASSUME l = 0 PROVE cell = 0
  BY <1>0, <1>1, <1>2, Offsets
<1>3. ASSUME cell = 0 PROVE l = 0
  <2>1. LevelOffset(0) = 0 /\ LevelOffset(0 + 1) = 4 * LevelOffset(0) + 1
    BY Offsets
  <2> QED BY <1>3, <2>1, LevelIsOne
<1>4. ASSUME cell # 0
      PROVE  /\ p \in InTree
             /\ p < cell
             /\ LevelOf(p) = l - 1
             /\ cell \in 4 * p + 1 .. 4 * p + 4
             /\ \A k \in 1 .. 4 : Siblings(cell)[k] = 4 * p + k
  <2>1. l \in 1 .. MaxLevels /\ l - 1 \in Nat /\ (l - 1) + 1 = l
    BY <1>1, <1>2, <1>4
  <2>2. o \in Nat /\ u = 4 * o + 1
    BY <2>1, Offsets
  <2>3. p = o + (cell - u) \div 4
    BY DEF Parent, LevelIndex
  <2>4. \A k \in 1 .. 4 : Siblings(cell)[k] = u + 4 * ((cell - u) \div 4) + k - 1
    BY DEF Siblings, LevelIndex
  <2> DEFINE d == (cell - u) \div 4
  <2>5. d \in Nat /\ 4 * d <= cell - u /\ cell - u <= 4 * d + 3
    BY <1>0, <1>1
  <2> HIDE DEF p, o, u, v, l, d
  <2>6. p \in Nat /\ o <= p /\ p < u /\ p < cell
    BY <1>0, <1>1, <2>2, <2>3, <2>5 DEF d
  <2>7. cell \in 4 * p + 1 .. 4 * p + 4
    BY <1>0, <1>1, <2>2, <2>3, <2>5 DEF d
  <2>8. \A k \in 1 .. 4 : Siblings(cell)[k] = 4 * p + k
    BY <1>0, <1>1, <2>2, <2>3, <2>4, <2>5 DEF d
  <2>9. p \in InTree
    <3>1. LevelOffset(MaxLevels + 1) \in Nat /\ cell < LevelOffset(MaxLevels + 1)
      BY <1>0, Offsets DEF InTree
    <3> QED BY <1>0, <2>6, <3>1 DEF InTree
  <2>10. LevelOf(p) = l - 1
    <3>1. LevelOffset(l - 1) <= p /\ p < LevelOffset((l - 1) + 1)
      BY <2>1, <2>6 DEF o, u
    <3> QED BY <2>1, <2>9, <3>1, LevelIsOne
  <2> QED BY <2>6, <2>7, <2>8, <2>9, <2>10
<1> QED BY <1>2, <1>3, <1>4
Above(cell) == Range(Ancestors(cell))

OrAbove(cell) == {cell} \cup Above(cell)

\* The ancestors of a cell are its parent and the parent's.
LEMMA AncestorsStep ==
    ASSUME NEW cell \in InTree
    PROVE  Above(cell) = IF cell = 0 THEN {} ELSE OrAbove(Parent(cell))
<1> DEFINE n == LevelOf(cell)
<1>0. n \in Nat
  BY LevelOfProperties DEF InTree
<1>1. PICK f : /\ f[0] = cell
               /\ \A k \in 1 .. n : f[k] = Parent(f[k - 1])
               /\ Ancestors(cell) = [k \in 1 .. n |-> f[k]]
  BY <1>0, UpSteps
<1>2. Above(cell) = {f[k] : k \in 1 .. n}
  BY <1>1 DEF Above, Range
<1>3. CASE cell = 0
  <2>1. n = 0
    BY <1>3, ParentProperties
  <2> QED BY <1>2, <1>3, <2>1
<1>4. CASE cell # 0
  <2> DEFINE p == Parent(cell)
  <2>1. p \in InTree /\ LevelOf(p) = n - 1 /\ n # 0
    BY <1>4, ParentProperties
  <2> HIDE DEF n
  <2>2. n - 1 \in Nat /\ n \in Nat /\ 1 \in 1 .. n
    BY <1>0, <2>1
  <2>3. PICK g : /\ g[0] = p
                 /\ \A k \in 1 .. n - 1 : g[k] = Parent(g[k - 1])
                 /\ Ancestors(p) = [k \in 1 .. n - 1 |-> g[k]]
    BY <2>1, <2>2, UpSteps
  <2>4. Above(p) = {g[k] : k \in 1 .. n - 1}
    BY <2>3 DEF Above, Range
  <2> DEFINE T == {k \in 0 .. n - 1 : g[k] = f[k + 1]}
  <2>5. 0 .. n - 1 \subseteq T
    <3>1. 0 \in T
      <4>1. f[1] = Parent(f[0])
        BY <1>1, <2>2
      <4> QED BY <1>1, <2>2, <2>3, <4>1
    <3>2. ASSUME NEW k \in 1 .. n - 1, k - 1 \in T PROVE k \in T
      <4>1. g[k] = Parent(g[k - 1])
        BY <2>3
      <4>2. k + 1 \in 1 .. n /\ (k + 1) - 1 = k /\ (k - 1) + 1 = k
        BY <2>2
      <4>3. f[k + 1] = Parent(f[k])
        BY <1>1, <4>2
      <4>4. g[k - 1] = f[k]
        BY <3>2, <4>2
      <4> QED BY <4>1, <4>3, <4>4
    <3> HIDE DEF T
    <3> QED BY <2>2, <3>1, <3>2, UpTo
  <2>6. Above(cell) \subseteq OrAbove(p)
    <3> SUFFICES ASSUME NEW k \in 1 .. n PROVE f[k] \in OrAbove(p)
      BY <1>2
    <3>1. CASE k = 1
      BY <1>1, <3>1 DEF OrAbove
    <3>2. CASE k # 1
      <4>1. k - 1 \in 1 .. n - 1 /\ (k - 1) + 1 = k
        BY <1>0, <3>2
      <4>2. g[k - 1] = f[k]
        BY <2>5, <4>1
      <4> QED BY <2>4, <4>1, <4>2 DEF OrAbove
    <3> QED BY <3>1, <3>2
  <2>7. OrAbove(p) \subseteq Above(cell)
    <3>1. p \in Above(cell)
      <4>1. 1 \in 1 .. n /\ f[1] = p
        BY <1>1, <2>2
      <4> QED BY <1>2, <4>1
    <3>2. ASSUME NEW k \in 1 .. n - 1 PROVE g[k] \in Above(cell)
      <4>1. k + 1 \in 1 .. n
        BY <2>2
      <4>2. k \in 0 .. n - 1
        BY <2>2
      <4>3. g[k] = f[k + 1]
        BY <2>5, <4>2
      <4> QED BY <1>2, <4>1, <4>3
    <3> QED BY <2>4, <3>1, <3>2 DEF OrAbove
  <2> QED BY <1>4, <2>6, <2>7
<1> QED BY <1>3, <1>4

LEMMA InTreeBelow ==
    ASSUME NEW cell \in InTree, NEW a \in Nat, a <= cell
    PROVE  a \in InTree
<1>1. LevelOffset(MaxLevels + 1) \in Nat
  <2>1. MaxLevels + 1 \in Nat
    BY TreeAssumption
  <2> QED BY <2>1, Offsets
<1> QED BY <1>1 DEF InTree

\* By induction on the cells up to one.
LEMMA DownTheTree ==
    ASSUME NEW T, NEW cell \in InTree,
           0 \in T, \A c \in InTree : c # 0 /\ Parent(c) \in T => c \in T
    PROVE  cell \in T
<1> DEFINE U == {n \in 0 .. cell : \A c \in 0 .. n : c \in T}
<1>0. cell \in Nat
  BY DEF InTree
<1>1. 0 \in U
  BY <1>0
<1>2. ASSUME NEW n \in 1 .. cell, n - 1 \in U PROVE n \in U
  <2>1. n \in InTree /\ n # 0
    BY <1>0, InTreeBelow
  <2>2. Parent(n) \in 0 .. n - 1
    BY <2>1, ParentProperties DEF InTree
  <2>3. n \in T
    BY <1>2, <2>1, <2>2
  <2> QED BY <1>0, <1>2, <2>3
<1> HIDE DEF U
<1>3. 0 .. cell \subseteq U
  BY <1>0, <1>1, <1>2, UpTo
<1> QED BY <1>0, <1>3 DEF U

\* Ancestors come before a cell in the tree, and theirs are its.
LEMMA AboveProperties ==
    ASSUME NEW cell \in InTree
    PROVE  /\ Above(cell) \subseteq 0 .. cell - 1
           /\ \A a \in Above(cell) : /\ a \in InTree
                                     /\ Above(a) \subseteq Above(cell)
                                     /\ LevelOf(a) < LevelOf(cell)
           /\ \A a \in OrAbove(cell) : a # 0 => Parent(a) \in Above(cell)
           /\ \A p \in Above(cell) : \E a \in OrAbove(cell) : a \in InTree /\ a # 0 /\ Parent(a) = p
<1> DEFINE Good(c) == /\ Above(c) \subseteq 0 .. c - 1
                      /\ \A a \in Above(c) : /\ a \in InTree
                                             /\ Above(a) \subseteq Above(c)
                                             /\ LevelOf(a) < LevelOf(c)
                      /\ \A p \in Above(c) : \E a \in OrAbove(c) : a \in InTree /\ a # 0 /\ Parent(a) = p
           T == {c \in InTree : Good(c)}
<1>1. 0 \in T
  <2>1. 0 \in InTree
    BY InTreeBelow DEF InTree
  <2>2. Above(0) = {}
    BY <2>1, AncestorsStep
  <2> QED BY <2>1, <2>2
<1>2. ASSUME NEW c \in InTree, c # 0, Parent(c) \in T PROVE c \in T
  <2> DEFINE p == Parent(c)
  <2>1. p \in InTree /\ p < c /\ LevelOf(p) = LevelOf(c) - 1 /\ p \in Nat /\ c \in Nat
    BY <1>2, ParentProperties DEF InTree
  <2>2. Above(c) = {p} \cup Above(p)
    BY <1>2, AncestorsStep DEF OrAbove
  <2>3. Good(p)
    BY <1>2
  <2>4. LevelOf(c) \in Int /\ \A a \in InTree : LevelOf(a) \in Int
    BY LevelOfProperties, TreeAssumption
  <2> HIDE DEF p
  <2>5. Above(c) \subseteq 0 .. c - 1
    BY <2>1, <2>2, <2>3
  <2>6. \A a \in Above(c) : a \in InTree /\ Above(a) \subseteq Above(c) /\ LevelOf(a) < LevelOf(c)
    BY <2>1, <2>2, <2>3, <2>4
  <2>7. ASSUME NEW q \in Above(c) PROVE \E a \in OrAbove(c) : a \in InTree /\ a # 0 /\ Parent(a) = q
    <3>1. CASE q = p
      BY <1>2, <3>1 DEF OrAbove, p
    <3>2. CASE q \in Above(p)
      BY <2>2, <2>3, <3>2 DEF OrAbove
    <3> QED BY <2>2, <3>1, <3>2
  <2> QED BY <2>5, <2>6, <2>7
<1>3. cell \in T
  <2> HIDE DEF T
  <2> QED BY <1>1, <1>2, DownTheTree
<1>4. ASSUME NEW a \in OrAbove(cell), a # 0 PROVE Parent(a) \in Above(cell)
  <2>1. a \in InTree
    BY <1>3 DEF OrAbove
  <2>2. Parent(a) \in Above(a)
    BY <1>4, <2>1, AncestorsStep DEF OrAbove
  <2> QED BY <1>3, <1>4, <2>2 DEF OrAbove
<1> QED BY <1>3, <1>4
\* The way down to the leaf of a point.
LEMMA LeafSteps ==
    ASSUME NEW tree, NEW p, NEW n \in Nat, n = tree.levels
    PROVE  \E f : /\ f[0] = Root(tree)
                  /\ \A k \in 1 .. n : f[k] = Child(f[k - 1], QuarterOf(f[k - 1].box, p))
                  /\ Leaf(tree, p) = LevelOffset(n) + f[n].at
<1> DEFINE base == Root(tree)
           step(x, k) == Child(x, QuarterOf(x.box, p))
           Rec(f, m) == f = [k \in 0 .. m |-> IF k = 0 THEN base ELSE step(f[k - 1], k)]
           T == {m \in 0 .. n : \E f : Rec(f, m)}
<1>1. Leaf(tree, p) = LevelOffset(n) + (CHOOSE f : Rec(f, n))[n].at
  BY DEF Leaf
<1>2. \A k \in 1 .. n : \A x : step(x, k) = Child(x, QuarterOf(x.box, p))
  OBVIOUS
<1> HIDE DEF step
<1>3. \A f : \A m \in Nat :
          (f = [k \in 0 .. m |-> f[k]] /\ \A k \in 0 .. m : f[k] = IF k = 0 THEN base ELSE step(f[k - 1], k))
            => Rec(f, m)
  OBVIOUS
<1>4. \A f : \A m \in Nat :
          Rec(f, m) => \A k \in 0 .. m : f[k] = IF k = 0 THEN base ELSE step(f[k - 1], k)
  OBVIOUS
<1> HIDE DEF Rec, base
<1>5. 0 \in T
  <2> DEFINE g == [k \in 0 .. 0 |-> base]
  <2>1. g = [k \in 0 .. 0 |-> g[k]] /\ \A k \in 0 .. 0 : g[k] = IF k = 0 THEN base ELSE step(g[k - 1], k)
    OBVIOUS
  <2> HIDE DEF g
  <2>2. Rec(g, 0)
    BY <2>1, <1>3
  <2> QED BY <2>2
<1>6. ASSUME NEW m \in 1 .. n, m - 1 \in T PROVE m \in T
  <2>1. PICK g : Rec(g, m - 1)
    BY <1>6
  <2> DEFINE x == step(g[m - 1], m)
             h == [k \in 0 .. m |-> IF k = m THEN x ELSE g[k]]
  <2>2. h[m] = x /\ \A k \in 0 .. m - 1 : h[k] = g[k]
    OBVIOUS
  <2>3. h = [k \in 0 .. m |-> h[k]]
    OBVIOUS
  <2> HIDE DEF h
  <2>4. \A k \in 0 .. m - 1 : g[k] = IF k = 0 THEN base ELSE step(g[k - 1], k)
    BY <2>1, <1>4
  <2>5. ASSUME NEW k \in 0 .. m
        PROVE  h[k] = IF k = 0 THEN base ELSE step(h[k - 1], k)
    <3>1. k # 0 => k - 1 \in 0 .. m - 1
      OBVIOUS
    <3>2. CASE k = m
      BY <2>2, <3>1, <3>2
    <3>3. CASE k # m
      <4>1. k \in 0 .. m - 1 /\ h[k] = g[k]
        BY <2>2, <3>3
      <4>2. k # 0 => h[k - 1] = g[k - 1]
        BY <2>2, <3>1
      <4> QED BY <2>4, <4>1, <4>2
    <3> QED BY <3>2, <3>3
  <2>6. Rec(h, m)
    <3>1. m \in Nat /\ \A k \in 0 .. m : h[k] = IF k = 0 THEN base ELSE step(h[k - 1], k)
      BY <2>5
    <3> QED BY ONLY <1>3, <2>3, <3>1
  <2> QED BY <2>6
<1>7. 0 .. n \subseteq T
  BY <1>5, <1>6, UpTo
<1> DEFINE f == CHOOSE g : Rec(g, n)
<1>8. Rec(f, n)
  BY <1>7
<1> HIDE DEF f
<1>9. f[0] = base /\ \A k \in 1 .. n : f[k] = step(f[k - 1], k)
  BY <1>4, <1>8
<1> QED BY <1>1, <1>2, <1>9 DEF f, base

\* The way down to a point's leaf: a cell, its children, and so on.
Descends(w, tree, p) ==
    /\ w[0] = Root(tree)
    /\ \A l \in 1 .. tree.levels : w[l] = Child(w[l - 1], QuarterOf(w[l - 1].box, p))
    /\ Leaf(tree, p) = LevelOffset(tree.levels) + w[tree.levels].at

\* The way down to a leaf goes from parent to child.
LEMMA LeafProperties ==
    ASSUME NEW tree, tree.levels \in 0 .. MaxLevels, NEW p
    PROVE  \E w :
               /\ Descends(w, tree, p)
               /\ \A l \in 0 .. tree.levels :
                      /\ LevelOffset(l) + w[l].at \in InTree
                      /\ LevelOf(LevelOffset(l) + w[l].at) = l
                      /\ l > 0 => Parent(LevelOffset(l) + w[l].at) = LevelOffset(l - 1) + w[l - 1].at
<1> DEFINE n == tree.levels
           c(w, l) == LevelOffset(l) + w[l].at
<1>0. MaxLevels \in Nat /\ n \in Nat /\ n \in 0 .. MaxLevels
  BY TreeAssumption
<1>1. PICK w : Descends(w, tree, p)
  <2>1. \E f : /\ f[0] = Root(tree)
               /\ \A k \in 1 .. n : f[k] = Child(f[k - 1], QuarterOf(f[k - 1].box, p))
               /\ Leaf(tree, p) = LevelOffset(n) + f[n].at
    BY <1>0, LeafSteps
  <2> QED BY <2>1 DEF Descends
<1> HIDE DEF n
<1>1a. w[0] = Root(tree) /\ \A l \in 1 .. n : w[l] = Child(w[l - 1], QuarterOf(w[l - 1].box, p))
  BY <1>1 DEF Descends, n
<1> DEFINE T == {l \in 0 .. n : w[l].at \in 0 .. 3 * LevelOffset(l)}
<1>2. 0 .. n \subseteq T
  <2>1. 0 \in T
    <3>1. w[0].at = 0
      BY <1>1a DEF Root
    <3>2. 0 \in 0 .. n /\ 0 \in 0 .. 3 * LevelOffset(0)
      BY <1>0, Offsets
    <3> QED BY <3>1, <3>2
  <2>2. ASSUME NEW l \in 1 .. n, l - 1 \in T PROVE l \in T
    <3> DEFINE k == QuarterOf(w[l - 1].box, p)
               a == w[l - 1].at
               o == LevelOffset(l - 1)
    <3>1. l - 1 \in Nat /\ (l - 1) + 1 = l
      BY <1>0
    <3>2. o \in Nat /\ LevelOffset(l) = 4 * o + 1
      BY <3>1, Offsets
    <3>3. a \in 0 .. 3 * o
      BY <2>2
    <3>4. k \in 0 .. 3
      BY DEF QuarterOf
    <3>5. w[l].at = 4 * a + k
      <4>1. w[l] = Child(w[l - 1], k)
        BY <1>1a
      <4> HIDE DEF k
      <4> QED BY <4>1 DEF Child
    <3> HIDE DEF k, a, o
    <3>6. w[l].at \in 0 .. 3 * LevelOffset(l)
      BY <3>2, <3>3, <3>4, <3>5
    <3> QED BY <1>0, <3>6
  <2> HIDE DEF T
  <2> QED BY <1>0, <2>1, <2>2, UpTo
<1>3. ASSUME NEW l \in 0 .. n
      PROVE  /\ c(w, l) \in InTree
             /\ LevelOf(c(w, l)) = l
             /\ l > 0 => Parent(c(w, l)) = c(w, l - 1)
  <2> DEFINE a == w[l].at
             o == LevelOffset(l)
  <2>1. a \in 0 .. 3 * o /\ o \in Nat /\ l \in Nat /\ l <= MaxLevels
    <3>1. l \in Nat /\ l <= MaxLevels
      BY <1>0
    <3>2. LevelOffset(l) \in Nat
      BY <3>1, Offsets
    <3> QED BY <1>2, <3>1, <3>2
  <2>2. LevelOffset(l + 1) = 4 * o + 1 /\ LevelOffset(MaxLevels + 1) \in Nat
    <3>1. MaxLevels + 1 \in Nat
      BY <1>0
    <3> QED BY <2>1, <3>1, Offsets
  <2>3. LevelOffset(l + 1) <= LevelOffset(MaxLevels + 1)
    <3>1. l < MaxLevels + 1 /\ MaxLevels + 1 \in Nat
      BY <1>0, <2>1
    <3> QED BY <2>1, <3>1, OffsetsRise
  <2>4. c(w, l) = o + a
    OBVIOUS
  <2> HIDE DEF c, a, o
  <2>5. c(w, l) \in Nat /\ o <= c(w, l) /\ c(w, l) < LevelOffset(l + 1)
    BY <2>1, <2>2, <2>4
  <2>6. c(w, l) \in InTree
    <3>1. LevelOffset(l + 1) \in Nat
      BY <2>1, <2>2
    <3>2. c(w, l) < LevelOffset(MaxLevels + 1)
      BY <2>2, <2>3, <2>5, <3>1
    <3> QED BY <2>2, <2>5, <3>2 DEF InTree
  <2>7. LevelOf(c(w, l)) = l
    BY <2>1, <2>5, <2>6, LevelIsOne DEF o
  <2>8. ASSUME l > 0 PROVE Parent(c(w, l)) = c(w, l - 1)
    <3> DEFINE k == QuarterOf(w[l - 1].box, p)
               b == w[l - 1].at
    <3>1. k \in 0 .. 3
      BY DEF QuarterOf
    <3>2. a = 4 * b + k
      <4>1. w[l] = Child(w[l - 1], k)
        BY <1>0, <1>1a, <2>1, <2>8
      <4> HIDE DEF k
      <4> QED BY <4>1 DEF Child, a
    <3>3. l - 1 \in 0 .. n /\ l - 1 \in Nat
      BY <1>0, <2>1, <2>8
    <3>4. b \in Nat
      <4>1. LevelOffset(l - 1) \in Nat
        BY <3>3, Offsets
      <4> QED BY <1>2, <3>3, <4>1
    <3> HIDE DEF k, b
    <3>5. (o + a) - o = 4 * b + k /\ (4 * b + k) \div 4 = b
      BY <2>1, <3>1, <3>2, <3>4
    <3>6. Parent(c(w, l)) = LevelOffset(l - 1) + b
      BY <2>4, <2>7, <3>5 DEF Parent, LevelIndex, o
    <3> QED BY <3>6 DEF c, b
  <2> QED BY <2>6, <2>7, <2>8
<1>4. \E v : /\ Descends(v, tree, p)
             /\ \A l \in 0 .. n : /\ c(v, l) \in InTree
                                  /\ LevelOf(c(v, l)) = l
                                  /\ l > 0 => Parent(c(v, l)) = c(v, l - 1)
  BY <1>1, <1>3
<1> QED BY <1>4 DEF n
-----------------------------------------------------------------------------
(* Adding points. *)

\* The binary search.
LEMMA PositionSteps ==
    ASSUME NEW cells, NEW cell, NEW n \in Nat, n = Len(cells)
    PROVE  \E f : /\ f[0] = [low |-> 0, high |-> Len(cells)]
                  /\ \A k \in 1 .. n : f[k] = Halved(cells, cell, f[k - 1])
                  /\ Position(cells, cell) = f[n].low + 1
<1> DEFINE base == [low |-> 0, high |-> Len(cells)]
           step(x, k) == Halved(cells, cell, x)
           Rec(f, m) == f = [k \in 0 .. m |-> IF k = 0 THEN base ELSE step(f[k - 1], k)]
           T == {m \in 0 .. n : \E f : Rec(f, m)}
<1>1. Position(cells, cell) = (CHOOSE f : Rec(f, n))[n].low + 1
  BY DEF Position
<1>2. \A k \in 1 .. n : \A x : step(x, k) = Halved(cells, cell, x)
  OBVIOUS
<1> HIDE DEF step
<1>3. \A f : \A m \in Nat :
          (f = [k \in 0 .. m |-> f[k]] /\ \A k \in 0 .. m : f[k] = IF k = 0 THEN base ELSE step(f[k - 1], k))
            => Rec(f, m)
  OBVIOUS
<1>4. \A f : \A m \in Nat :
          Rec(f, m) => \A k \in 0 .. m : f[k] = IF k = 0 THEN base ELSE step(f[k - 1], k)
  OBVIOUS
<1> HIDE DEF Rec, base
<1>5. 0 \in T
  <2> DEFINE g == [k \in 0 .. 0 |-> base]
  <2>1. g = [k \in 0 .. 0 |-> g[k]] /\ \A k \in 0 .. 0 : g[k] = IF k = 0 THEN base ELSE step(g[k - 1], k)
    OBVIOUS
  <2> HIDE DEF g
  <2>2. Rec(g, 0)
    BY <2>1, <1>3
  <2> QED BY <2>2
<1>6. ASSUME NEW m \in 1 .. n, m - 1 \in T PROVE m \in T
  <2>1. PICK g : Rec(g, m - 1)
    BY <1>6
  <2> DEFINE x == step(g[m - 1], m)
             h == [k \in 0 .. m |-> IF k = m THEN x ELSE g[k]]
  <2>2. h[m] = x /\ \A k \in 0 .. m - 1 : h[k] = g[k]
    OBVIOUS
  <2>3. h = [k \in 0 .. m |-> h[k]]
    OBVIOUS
  <2> HIDE DEF h
  <2>4. \A k \in 0 .. m - 1 : g[k] = IF k = 0 THEN base ELSE step(g[k - 1], k)
    BY <2>1, <1>4
  <2>5. ASSUME NEW k \in 0 .. m
        PROVE  h[k] = IF k = 0 THEN base ELSE step(h[k - 1], k)
    <3>1. k # 0 => k - 1 \in 0 .. m - 1
      OBVIOUS
    <3>2. CASE k = m
      BY <2>2, <3>1, <3>2
    <3>3. CASE k # m
      <4>1. k \in 0 .. m - 1 /\ h[k] = g[k]
        BY <2>2, <3>3
      <4>2. k # 0 => h[k - 1] = g[k - 1]
        BY <2>2, <3>1
      <4> QED BY <2>4, <4>1, <4>2
    <3> QED BY <3>2, <3>3
  <2>6. Rec(h, m)
    <3>1. m \in Nat /\ \A k \in 0 .. m : h[k] = IF k = 0 THEN base ELSE step(h[k - 1], k)
      BY <2>5
    <3> QED BY ONLY <1>3, <2>3, <3>1
  <2> QED BY <2>6
<1>7. 0 .. n \subseteq T
  BY <1>5, <1>6, UpTo
<1> DEFINE f == CHOOSE g : Rec(g, n)
<1>8. Rec(f, n)
  BY <1>7
<1> HIDE DEF f
<1>9. f[0] = base /\ \A k \in 1 .. n : f[k] = step(f[k - 1], k)
  BY <1>4, <1>8
<1> QED BY <1>1, <1>2, <1>9 DEF f, base

Cell == [index : Nat, full : Int, runs : Seq(Runs)]

Ascending(cells) == \A c, d \in 1 .. Len(cells) : c < d => cells[c].index < cells[d].index

\* The search ends inside the array, and in one that is in order at the place.
LEMMA PositionProperties ==
    ASSUME NEW cells \in Seq(Cell), NEW cell \in Nat
    PROVE  LET at == Position(cells, cell)
           IN  /\ at \in 1 .. Len(cells) + 1
               /\ Ascending(cells) =>
                      /\ \A c \in 1 .. at - 1 : cells[c].index < cell
                      /\ \A c \in at .. Len(cells) : cells[c].index >= cell
<1> DEFINE n == Len(cells)
<1>0. n \in Nat /\ \A c \in 1 .. n : cells[c].index \in Nat
  <2>1. \A c \in 1 .. n : cells[c] \in Cell
    BY ElementOfSeq
  <2> QED BY <2>1, LenProperties DEF Cell
<1>1. PICK f : /\ f[0] = [low |-> 0, high |-> n]
               /\ \A k \in 1 .. n : f[k] = Halved(cells, cell, f[k - 1])
               /\ Position(cells, cell) = f[n].low + 1
  BY <1>0, PositionSteps
<1> HIDE DEF n
<1> DEFINE Found(part) == /\ \A c \in 1 .. part.low : cells[c].index < cell
                          /\ \A c \in part.high + 1 .. n : cells[c].index >= cell
           Good(k, part) == /\ part \in [low : Nat, high : Nat]
                            /\ part.low <= part.high /\ part.high <= n
                            /\ part.low = part.high \/ part.high - part.low <= n - k
                            /\ Ascending(cells) => Found(part)
           T == {k \in 0 .. n : Good(k, f[k])}
<1>2. 0 \in T
  BY <1>0, <1>1
<1>3. ASSUME NEW k \in 1 .. n, k - 1 \in T PROVE k \in T
  <2> DEFINE part == f[k - 1]
             next == f[k]
             low == part.low
             high == part.high
             mid == low + (high - low) \div 2
  <2>1. /\ part \in [low : Nat, high : Nat]
        /\ low <= high /\ high <= n /\ low \in Nat /\ high \in Nat
        /\ low = high \/ high - low <= n - (k - 1)
        /\ Ascending(cells) => Found(part)
    BY <1>3
  <2>2. next = Halved(cells, cell, part)
    BY <1>1
  <2>3. CASE low >= high
    <3>1. next = part
      BY <2>2, <2>3 DEF Halved
    <3> HIDE DEF part, next, Found
    <3>2. low = high
      BY <2>1, <2>3
    <3>3. Good(k, next)
      BY <2>1, <3>1, <3>2
    <3> QED BY <3>3 DEF next
  <2>4. CASE low < high
    <3>1. mid \in Nat /\ low <= mid /\ mid < high
      <4>1. low \in Nat /\ high \in Nat
        BY <2>1
      <4> HIDE DEF low, high
      <4> QED BY <2>4, <4>1
    <3>2. mid + 1 \in 1 .. n /\ cells[mid + 1].index \in Nat
      <4>1. high \in Nat /\ high <= n
        BY <2>1
      <4> HIDE DEF low, high, mid
      <4> QED BY <1>0, <3>1, <4>1
    <3>3. ~(low >= high)
      BY <2>1, <2>4
    <3>4. CASE cells[mid + 1].index < cell
      <4>1. next = [part EXCEPT !.low = mid + 1]
        BY <2>2, <3>3, <3>4 DEF Halved
      <4>2. next = [low |-> mid + 1, high |-> high]
        BY <2>1, <4>1
      <4> HIDE DEF next, mid
      <4>3. Ascending(cells) => Found(next)
        <5> SUFFICES ASSUME Ascending(cells) PROVE Found(next)
          OBVIOUS
        <5>1. ASSUME NEW c \in 1 .. mid + 1 PROVE cells[c].index < cell
          <6>1. c \in 1 .. n /\ (c = mid + 1 \/ c < mid + 1)
            BY <1>0, <3>1, <3>2
          <6>2. c < mid + 1 => cells[c].index < cells[mid + 1].index
            BY <3>2, <6>1 DEF Ascending, n
          <6> QED BY <1>0, <3>2, <3>4, <6>1, <6>2
        <5> QED BY <2>1, <4>2, <5>1
      <4> HIDE DEF Found, part
      <4>4. Good(k, next)
        BY <1>0, <2>1, <3>1, <4>2, <4>3
      <4> QED BY <4>4 DEF next
    <3>5. CASE ~(cells[mid + 1].index < cell)
      <4>1. next = [part EXCEPT !.high = mid]
        BY <2>2, <3>3, <3>5 DEF Halved
      <4>2. next = [low |-> low, high |-> mid]
        BY <2>1, <4>1
      <4> HIDE DEF next, mid
      <4>3. Ascending(cells) => Found(next)
        <5> SUFFICES ASSUME Ascending(cells) PROVE Found(next)
          OBVIOUS
        <5>1. ASSUME NEW c \in mid + 1 .. n PROVE cells[c].index >= cell
          <6>1. c \in 1 .. n /\ (c = mid + 1 \/ mid + 1 < c)
            BY <1>0, <3>1, <3>2
          <6>2. mid + 1 < c => cells[mid + 1].index < cells[c].index
            BY <3>2, <6>1 DEF Ascending, n
          <6> QED BY <1>0, <3>2, <3>5, <6>1, <6>2
        <5> QED BY <2>1, <4>2, <5>1
      <4> HIDE DEF Found, part
      <4>4. Good(k, next)
        BY <1>0, <2>1, <3>1, <4>2, <4>3
      <4> QED BY <4>4 DEF next
    <3> QED BY <3>4, <3>5
  <2> QED BY <2>1, <2>3, <2>4
<1>4. Good(n, f[n])
  <2> HIDE DEF T
  <2>1. 0 .. n \subseteq T
    BY <1>0, <1>2, <1>3, UpTo
  <2> QED BY <1>0, <2>1 DEF T
<1>5. f[n].low = f[n].high /\ f[n].low \in 0 .. n
  BY <1>0, <1>4
<1>6. Ascending(cells) => Found(f[n])
  BY <1>4
<1> DEFINE x == f[n].low
<1>7. x \in 0 .. n /\ (Ascending(cells) => /\ \A c \in 1 .. x : cells[c].index < cell
                                           /\ \A c \in x + 1 .. n : cells[c].index >= cell)
  BY <1>5, <1>6
<1>8. Position(cells, cell) = x + 1
  BY <1>1
<1> HIDE DEF x, Found, Good, T
<1>9. (x + 1) - 1 = x /\ x + 1 \in 1 .. n + 1
  BY <1>0, <1>7
<1> QED BY <1>7, <1>8, <1>9 DEF n
\* A cell as it should be, when so many points have been added.
SoundCell(cell, n) ==
    /\ cell \in Cell
    /\ cell.index \in InTree
    /\ RunsAreSound(cell.runs) /\ cell.runs # <<>> /\ Apart(cell.runs, RunGap)
    /\ \A r \in 1 .. Len(cell.runs) : cell.runs[r].start >= 0 /\ cell.runs[r].end < n

SoundCells(cells, n) == cells \in Seq(Cell) /\ \A c \in 1 .. Len(cells) : SoundCell(cells[c], n)

LEMMA RunsOfCell ==
    ASSUME NEW n \in Nat, NEW cell, SoundCell(cell, n)
    PROVE  /\ cell.runs \in Seq(Runs) /\ Len(cell.runs) \in Nat /\ Len(cell.runs) >= 1
           /\ DOMAIN cell.runs = 1 .. Len(cell.runs)
           /\ \A r \in 1 .. Len(cell.runs) : /\ cell.runs[r] \in Runs
                                             /\ cell.runs[r].start \in 0 .. n - 1
                                             /\ cell.runs[r].end \in 0 .. n - 1
                                             /\ cell.runs[r].start <= cell.runs[r].end
<1> DEFINE runs == cell.runs
<1>1. runs \in Seq(Runs) /\ runs # <<>> /\ RunsAreSound(runs)
  BY DEF SoundCell, RunsAreSound
<1>2. \A r \in 1 .. Len(runs) : runs[r].start >= 0 /\ runs[r].end < n
  BY DEF SoundCell
<1> HIDE DEF runs
<1>3. Len(runs) \in Nat /\ Len(runs) >= 1 /\ DOMAIN runs = 1 .. Len(runs)
  BY <1>1, EmptySeq, LenProperties
<1>4. ASSUME NEW r \in 1 .. Len(runs)
      PROVE  runs[r] \in Runs /\ runs[r].start \in 0 .. n - 1 /\ runs[r].end \in 0 .. n - 1
             /\ runs[r].start <= runs[r].end
  <2>1. runs[r] \in Runs
    BY <1>1, ElementOfSeq
  <2>2. runs[r].start \in Int /\ runs[r].end \in Int
    BY <2>1 DEF Runs
  <2>3. runs[r].start <= runs[r].end
    BY <1>1 DEF RunsAreSound
  <2> QED BY <1>2, <2>1, <2>2, <2>3
<1> QED BY <1>1, <1>3, <1>4 DEF runs

LEMMA ExtendedProperties ==
    ASSUME NEW n \in Nat, NEW cell, SoundCell(cell, n)
    PROVE  LET e == Extended(cell, n)
           IN  /\ SoundCell(e, n + 1)
               /\ e.index = cell.index
               /\ Covers(e, n)
               /\ \A i \in Nat : Covers(cell, i) => Covers(e, i)
<1> DEFINE e == Extended(cell, n)
           runs == cell.runs
           m == Len(runs)
           grown == Run(runs[m].start, n)
           more == Append(runs, Run(n, n))
           less == [runs EXCEPT ![m] = grown]
<1>1. /\ runs \in Seq(Runs) /\ m \in Nat /\ m >= 1 /\ DOMAIN runs = 1 .. m
      /\ \A r \in 1 .. m : /\ runs[r] \in Runs /\ runs[r].start \in 0 .. n - 1
                           /\ runs[r].end \in 0 .. n - 1 /\ runs[r].start <= runs[r].end
  BY RunsOfCell
<1>2. cell \in Cell /\ cell = [index |-> cell.index, full |-> cell.full, runs |-> runs]
      /\ cell.index \in Nat /\ cell.full \in Int /\ cell.index \in InTree
  BY DEF SoundCell, Cell
<1>3. Last(runs) = runs[m]
  BY DEF Last
<1>4. \A r, s \in 1 .. m : r < s => runs[s].start - runs[r].end > RunGap
  BY DEF SoundCell, Apart
<1>5. RunGap \in Nat
  BY BuilderAssumption
<1>6. ASSUME NEW new, e = [index |-> cell.index, full |-> cell.full + 1, runs |-> new],
             RunsAreSound(new), new # <<>>, Apart(new, RunGap),
             \A r \in 1 .. Len(new) : new[r].start >= 0 /\ new[r].end < n + 1,
             \E r \in 1 .. Len(new) : new[r].start <= n /\ n <= new[r].end,
             \A s \in 1 .. m : \E r \in 1 .. Len(new) :
                 new[r].start <= runs[s].start /\ runs[s].end <= new[r].end
      PROVE  /\ SoundCell(e, n + 1)
             /\ e.index = cell.index
             /\ Covers(e, n)
             /\ \A i \in Nat : Covers(cell, i) => Covers(e, i)
  <2>1. e.runs = new /\ e.index = cell.index /\ new \in Seq(Runs) /\ e \in Cell
    BY <1>2, <1>6 DEF RunsAreSound, Cell
  <2> HIDE DEF e
  <2>2. SoundCell(e, n + 1)
    BY <1>2, <1>6, <2>1 DEF SoundCell
  <2>3. DOMAIN new = 1 .. Len(new) /\ \A r \in 1 .. Len(new) : new[r].start \in Int /\ new[r].end \in Int
    <3>1. \A r \in 1 .. Len(new) : new[r] \in Runs
      BY <2>1, ElementOfSeq
    <3> QED BY <2>1, <3>1, LenProperties DEF Runs
  <2>4. Covers(e, n)
    BY <1>6, <2>1, <2>3 DEF Covers
  <2>5. ASSUME NEW i \in Nat, Covers(cell, i) PROVE Covers(e, i)
    <3>1. PICK s \in 1 .. m : i \in runs[s].start .. runs[s].end
      BY <1>1, <2>5 DEF Covers
    <3>2. PICK r \in 1 .. Len(new) : new[r].start <= runs[s].start /\ runs[s].end <= new[r].end
      BY <1>6
    <3>3. runs[s].start \in Int /\ runs[s].end \in Int
      BY <1>1
    <3>4. i \in new[r].start .. new[r].end
      BY <2>3, <3>1, <3>2, <3>3
    <3> QED BY <2>1, <2>3, <3>4 DEF Covers
  <2> QED BY <2>1, <2>2, <2>4, <2>5
<1>7. CASE n - runs[m].end > RunGap
  <2>1. e = [index |-> cell.index, full |-> cell.full + 1, runs |-> more]
    <3>1. e = [cell EXCEPT !.full = @ + 1, !.runs = more]
      BY <1>3, <1>7 DEF Extended
    <3> HIDE DEF more, e
    <3> QED BY <1>2, <3>1
  <2>2. Run(n, n) \in Runs
    BY DEF Run, Runs
  <2>3. /\ more \in Seq(Runs) /\ more # <<>> /\ Len(more) = m + 1
        /\ \A r \in 1 .. m : more[r] = runs[r]
        /\ more[m + 1] = Run(n, n)
    BY <1>1, <2>2, AppendProperties
  <2>4. Run(n, n).start = n /\ Run(n, n).end = n
    BY DEF Run
  <2> HIDE DEF more, e, m, runs
  <2>5. \A r \in 1 .. m + 1 : r = m + 1 \/ r \in 1 .. m
    BY <1>1
  <2>6. RunsAreSound(more)
    <3> SUFFICES ASSUME NEW r \in 1 .. m + 1 PROVE more[r].start <= more[r].end
      BY <2>3 DEF RunsAreSound
    <3> QED BY <1>1, <2>3, <2>4, <2>5
  <2>7. Apart(more, RunGap)
    <3> SUFFICES ASSUME NEW r \in 1 .. m + 1, NEW s \in 1 .. m + 1, r < s
                 PROVE  more[s].start - more[r].end > RunGap
      BY <2>3 DEF Apart
    <3>1. r \in 1 .. m /\ more[r] = runs[r]
      BY <1>1, <2>3
    <3>2. CASE s \in 1 .. m
      BY <1>4, <2>3, <3>1, <3>2
    <3>3. CASE s = m + 1
      <4> DEFINE a == runs[r].end
                 b == runs[m].end
                 d == runs[m].start
      <4>1. m \in 1 .. m /\ a \in Int /\ b \in Int /\ d \in Int /\ d <= b
        BY <1>1, <3>1
      <4>2. r # m => d - a > RunGap
        BY <1>1, <1>4, <3>1, <4>1
      <4>3. r = m => a = b
        OBVIOUS
      <4>4. n - b > RunGap
        BY <1>7
      <4> HIDE DEF a, b, d
      <4>5. n - a > RunGap
        BY <1>5, <4>1, <4>2, <4>3, <4>4
      <4> QED BY <2>3, <2>4, <3>1, <3>3, <4>5 DEF a
    <3> QED BY <2>5, <3>2, <3>3
  <2>8. \A r \in 1 .. Len(more) : more[r].start >= 0 /\ more[r].end < n + 1
    BY <1>1, <2>3, <2>4, <2>5
  <2>9. \E r \in 1 .. Len(more) : more[r].start <= n /\ n <= more[r].end
    <3>1. m + 1 \in 1 .. Len(more)
      BY <1>1, <2>3
    <3> QED BY <2>3, <2>4, <3>1
  <2>10. \A s \in 1 .. m : \E r \in 1 .. Len(more) :
             more[r].start <= runs[s].start /\ runs[s].end <= more[r].end
    <3> TAKE s \in 1 .. m
    <3>1. s \in 1 .. Len(more) /\ more[s] = runs[s]
      BY <1>1, <2>3
    <3>2. runs[s].start \in Int /\ runs[s].end \in Int
      BY <1>1
    <3> QED BY <3>1, <3>2
  <2> QED BY <1>6, <2>1, <2>3, <2>6, <2>7, <2>8, <2>9, <2>10 DEF e
<1>8. CASE ~(n - runs[m].end > RunGap)
  <2>1. e = [index |-> cell.index, full |-> cell.full + 1, runs |-> less]
    <3>1. [runs[m] EXCEPT !.end = n] = grown
      BY <1>1 DEF Runs, Run
    <3>2. e = [cell EXCEPT !.full = @ + 1, !.runs = [runs EXCEPT ![m] = [runs[m] EXCEPT !.end = n]]]
      BY <1>2, <1>3, <1>8 DEF Extended
    <3>3. e = [cell EXCEPT !.full = @ + 1, !.runs = less]
      BY <3>1, <3>2
    <3> HIDE DEF less, e
    <3> QED BY <1>2, <3>3
  <2>2. grown \in Runs /\ grown.start = runs[m].start /\ grown.end = n
    <3>1. runs[m].start \in Int
      BY <1>1
    <3> QED BY <3>1 DEF Runs, Run
  <2>3. /\ less \in Seq(Runs) /\ Len(less) = m
        /\ \A r \in 1 .. m : less[r] = IF r = m THEN grown ELSE runs[r]
    <3> HIDE DEF grown
    <3> QED BY <1>1, <2>2, ExceptSeq
  <2>4. \A r \in 1 .. m : /\ less[r].start = runs[r].start
                          /\ less[r].end >= runs[r].end /\ less[r].end < n + 1 /\ less[r].end \in Int
                          /\ r < m => less[r].end = runs[r].end
    <3> HIDE DEF less, grown, m, runs
    <3> QED BY <1>1, <2>2, <2>3
  <2> HIDE DEF less, e, m, runs, grown
  <2>5. RunsAreSound(less)
    <3> SUFFICES ASSUME NEW r \in 1 .. m PROVE less[r].start <= less[r].end
      BY <2>3 DEF RunsAreSound
    <3> DEFINE a == runs[r].start
               b == runs[r].end
               d == less[r].end
    <3>1. a \in Int /\ b \in Int /\ d \in Int /\ a <= b /\ b <= d /\ less[r].start = a
      BY <1>1, <2>4
    <3> HIDE DEF a, b, d
    <3>2. a <= d
      BY <3>1
    <3> QED BY <3>1, <3>2 DEF d
  <2>6. Apart(less, RunGap)
    <3> SUFFICES ASSUME NEW r \in 1 .. m, NEW s \in 1 .. m, r < s
                 PROVE  less[s].start - less[r].end > RunGap
      BY <2>3 DEF Apart
    <3>1. less[s].start = runs[s].start /\ less[r].end = runs[r].end
      BY <1>1, <2>4
    <3> QED BY <1>4, <3>1
  <2>7. \A r \in 1 .. Len(less) : less[r].start >= 0 /\ less[r].end < n + 1
    BY <1>1, <2>3, <2>4
  <2>8. less # <<>>
    BY <1>1, <2>3
  <2>9. \E r \in 1 .. Len(less) : less[r].start <= n /\ n <= less[r].end
    <3>1. m \in 1 .. Len(less) /\ less[m] = grown /\ runs[m].start \in 0 .. n - 1
      BY <1>1, <2>3
    <3> QED BY <2>2, <3>1
  <2>10. \A s \in 1 .. m : \E r \in 1 .. Len(less) :
             less[r].start <= runs[s].start /\ runs[s].end <= less[r].end
    <3> TAKE s \in 1 .. m
    <3>1. s \in 1 .. Len(less) /\ runs[s].start \in Int /\ less[s].start = runs[s].start
          /\ runs[s].end <= less[s].end
      BY <1>1, <2>3, <2>4
    <3> QED BY <3>1
  <2> QED BY <1>6, <2>1, <2>3, <2>5, <2>6, <2>7, <2>8, <2>9, <2>10 DEF e
<1> QED BY <1>7, <1>8
\* A point is held by the cell of an index.
HeldIn(cells, i, x) == \E c \in 1 .. Len(cells) : cells[c].index = x /\ Covers(cells[c], i)

\* Where the builder remembers its last cell to be.
Remembers(b) ==
    b.last_index # -1 =>
        b.last_cell \in 1 .. Len(b.cells) /\ b.cells[b.last_cell].index = b.last_index

\* The builder while points are added, when so many have been.
Adding(b, n) ==
    /\ b = [phase |-> "adding", tree |-> b.tree, cells |-> b.cells,
            last_index |-> b.last_index, last_cell |-> b.last_cell]
    /\ SoundCells(b.cells, n)
    /\ Ascending(b.cells)
    /\ \A c \in 1 .. Len(b.cells) : LevelOf(b.cells[c].index) = b.tree.levels
    /\ Remembers(b)

LEMMA SoundLonger ==
    ASSUME NEW n \in Nat, NEW cell, SoundCell(cell, n)
    PROVE  SoundCell(cell, n + 1)
<1>1. \A r \in 1 .. Len(cell.runs) : cell.runs[r].start >= 0 /\ cell.runs[r].end < n + 1
  BY RunsOfCell
<1> QED BY <1>1 DEF SoundCell

LEMMA BuilderExcept ==
    ASSUME NEW p, NEW t, NEW c, NEW x, NEW y, NEW b,
           b = [phase |-> p, tree |-> t, cells |-> c, last_index |-> x, last_cell |-> y],
           NEW c1, NEW x1, NEW y1
    PROVE  [b EXCEPT !.last_index = x1, !.last_cell = y1, !.cells = c1]
             = [phase |-> p, tree |-> t, cells |-> c1, last_index |-> x1, last_cell |-> y1]
<1> DEFINE d == [b EXCEPT !.last_index = x1]
           e == [d EXCEPT !.last_cell = y1]
<1>1. d = [phase |-> p, tree |-> t, cells |-> c, last_index |-> x1, last_cell |-> y]
  OBVIOUS
<1> HIDE DEF d
<1>2. e = [phase |-> p, tree |-> t, cells |-> c, last_index |-> x1, last_cell |-> y1]
  BY <1>1
<1> HIDE DEF e
<1>3. [e EXCEPT !.cells = c1]
        = [phase |-> p, tree |-> t, cells |-> c1, last_index |-> x1, last_cell |-> y1]
  BY <1>2
<1> QED BY <1>3 DEF d, e

\* A point put into the cell where its last one went.
LEMMA IntoProperties ==
    ASSUME NEW b, NEW n \in Nat, Adding(b, n), NEW at \in 1 .. Len(b.cells)
    PROVE  LET cell == b.cells[at].index
               a == Into(b, cell, n, at)
           IN  /\ Adding(a, n + 1) /\ a.tree = b.tree
               /\ HeldIn(a.cells, n, cell)
               /\ \A i \in Nat : \A x : HeldIn(b.cells, i, x) => HeldIn(a.cells, i, x)
<1> DEFINE cells == b.cells
           m == Len(cells)
           cell == cells[at].index
           e == Extended(cells[at], n)
           a == Into(b, cell, n, at)
           new == [cells EXCEPT ![at] = e]
<1>1. cells \in Seq(Cell) /\ m \in Nat /\ DOMAIN cells = 1 .. m /\ \A c \in 1 .. m : SoundCell(cells[c], n)
  BY LenProperties DEF Adding, SoundCells
<1>2. /\ SoundCell(e, n + 1) /\ e.index = cell /\ Covers(e, n)
      /\ \A i \in Nat : Covers(cells[at], i) => Covers(e, i)
  BY <1>1, ExtendedProperties
<1>3. e \in Cell
  BY <1>2 DEF SoundCell
<1>4. a = [phase |-> "adding", tree |-> b.tree, cells |-> new, last_index |-> cell, last_cell |-> at]
  <2>1. b = [phase |-> "adding", tree |-> b.tree, cells |-> cells,
             last_index |-> b.last_index, last_cell |-> b.last_cell]
    BY DEF Adding
  <2>2. a = [b EXCEPT !.last_index = cell, !.last_cell = at, !.cells = new]
    BY DEF Into
  <2> DEFINE t == b.tree
             x == b.last_index
             y == b.last_cell
  <2>3. b = [phase |-> "adding", tree |-> t, cells |-> cells, last_index |-> x, last_cell |-> y]
    BY <2>1
  <2> HIDE DEF a, cell, new, cells, t, x, y
  <2>4. a = [phase |-> "adding", tree |-> t, cells |-> new, last_index |-> cell, last_cell |-> at]
    BY <2>2, <2>3, BuilderExcept
  <2> QED BY <2>4 DEF t
<1> HIDE DEF e
<1>5. new \in Seq(Cell) /\ Len(new) = m /\ \A c \in 1 .. m : new[c] = IF c = at THEN e ELSE cells[c]
  BY <1>1, <1>3, ExceptSeq
<1>6. a.cells = new /\ a.tree = b.tree /\ a.last_index = cell /\ a.last_cell = at
  BY <1>4
<1> HIDE DEF new, a
<1>7. \A c \in 1 .. m : new[c].index = cells[c].index /\ SoundCell(new[c], n + 1)
  <2> TAKE c \in 1 .. m
  <2>1. CASE c = at
    BY <1>2, <1>5, <2>1
  <2>2. CASE c # at
    BY <1>1, <1>5, <2>2, SoundLonger
  <2> QED BY <2>1, <2>2
<1>8. Ascending(new)
  <2>1. \A c, d \in 1 .. m : c < d => cells[c].index < cells[d].index
    BY DEF Adding, Ascending
  <2> QED BY <1>5, <1>7, <2>1 DEF Ascending
<1>9. SoundCells(new, n + 1)
  BY <1>5, <1>7 DEF SoundCells
<1>10. \A c \in 1 .. m : LevelOf(new[c].index) = b.tree.levels
  BY <1>7 DEF Adding
<1>11. Adding(a, n + 1)
  <2>1. Remembers(a)
    BY <1>5, <1>6, <1>7 DEF Remembers
  <2>2. a = [phase |-> "adding", tree |-> a.tree, cells |-> a.cells,
             last_index |-> a.last_index, last_cell |-> a.last_cell]
    BY <1>4, <1>6
  <2> QED BY <1>5, <1>6, <1>8, <1>9, <1>10, <2>1, <2>2 DEF Adding
<1>12. HeldIn(new, n, cell)
  <2>1. new[at] = e
    BY <1>5
  <2> QED BY <1>2, <1>5, <2>1 DEF HeldIn
<1>13. ASSUME NEW i \in Nat, NEW x, HeldIn(cells, i, x) PROVE HeldIn(new, i, x)
  <2>1. PICK c \in 1 .. m : cells[c].index = x /\ Covers(cells[c], i)
    BY <1>13 DEF HeldIn
  <2>2. new[c].index = x /\ Covers(new[c], i)
    <3>1. CASE c = at
      BY <1>2, <1>5, <1>7, <2>1, <3>1
    <3>2. CASE c # at
      BY <1>5, <2>1, <3>2
    <3> QED BY <3>1, <3>2
  <2> QED BY <1>5, <2>2 DEF HeldIn
<1> QED BY <1>6, <1>11, <1>12, <1>13 DEF a

\* A point that is added is in its leaf, and those added before are still in theirs.
LEMMA AddProperties ==
    ASSUME NEW b, NEW n \in Nat, Adding(b, n),
           NEW cell \in InTree, LevelOf(cell) = b.tree.levels
    PROVE  LET a == laz_indexbuilder_add(b, cell, n)
           IN  /\ Adding(a, n + 1) /\ a.tree = b.tree
               /\ HeldIn(a.cells, n, cell)
               /\ \A i \in Nat : \A x : HeldIn(b.cells, i, x) => HeldIn(a.cells, i, x)
<1> DEFINE cells == b.cells
           m == Len(cells)
           a == laz_indexbuilder_add(b, cell, n)
           at == Position(cells, cell)
<1>1. cells \in Seq(Cell) /\ m \in Nat /\ DOMAIN cells = 1 .. m /\ \A c \in 1 .. m : SoundCell(cells[c], n)
  BY LenProperties DEF Adding, SoundCells
<1>0. cell \in Nat
  BY DEF InTree
<1>2. CASE b.last_index = cell
  <2>1. b.last_cell \in 1 .. m /\ cells[b.last_cell].index = cell
    BY <1>0, <1>2 DEF Adding, Remembers
  <2>2. a = Into(b, cell, n, b.last_cell)
    BY <1>2 DEF laz_indexbuilder_add
  <2> HIDE DEF a
  <2>3. LET d == Into(b, cells[b.last_cell].index, n, b.last_cell)
        IN  /\ Adding(d, n + 1) /\ d.tree = b.tree
            /\ HeldIn(d.cells, n, cells[b.last_cell].index)
            /\ \A i \in Nat : \A x : HeldIn(b.cells, i, x) => HeldIn(d.cells, i, x)
    BY <2>1, IntoProperties
  <2> QED BY <2>1, <2>2, <2>3 DEF a
<1>3. CASE b.last_index # cell
  <2>1. /\ at \in 1 .. m + 1
        /\ \A c \in 1 .. at - 1 : cells[c].index < cell
        /\ \A c \in at .. m : cells[c].index >= cell
    <3>1. Ascending(cells)
      BY DEF Adding
    <3> QED BY <1>0, <1>1, <3>1, PositionProperties
  <2>2. a = Sought(b, cell, n, at)
    BY <1>3 DEF laz_indexbuilder_add
  <2> HIDE DEF at, a
  <2>3. CASE IsAt(cells, at, cell)
    <3>1. at \in 1 .. m /\ cells[at].index = cell
      BY <1>1, <2>1, <2>3 DEF IsAt
    <3>2. a = Into(b, cell, n, at)
      BY <2>2, <2>3 DEF Sought
    <3>3. LET d == Into(b, cells[at].index, n, at)
          IN  /\ Adding(d, n + 1) /\ d.tree = b.tree
              /\ HeldIn(d.cells, n, cells[at].index)
              /\ \A i \in Nat : \A x : HeldIn(b.cells, i, x) => HeldIn(d.cells, i, x)
      BY <3>1, IntoProperties
    <3> QED BY <3>1, <3>2, <3>3 DEF a
  <2>4. CASE ~IsAt(cells, at, cell)
    <3> DEFINE e == NewCell(cell, n)
               new == InsertAt(cells, at, e)
    <3>1. a = [phase |-> "adding", tree |-> b.tree, cells |-> new, last_index |-> cell, last_cell |-> at]
      <4>1. b = [phase |-> "adding", tree |-> b.tree, cells |-> cells,
                 last_index |-> b.last_index, last_cell |-> b.last_cell]
        BY DEF Adding
      <4>2. a = [b EXCEPT !.last_index = cell, !.last_cell = at, !.cells = new]
        BY <2>2, <2>4 DEF Sought
      <4> DEFINE t == b.tree
                 x == b.last_index
                 y == b.last_cell
      <4>3. b = [phase |-> "adding", tree |-> t, cells |-> cells, last_index |-> x, last_cell |-> y]
        BY <4>1
      <4> HIDE DEF new, cells, t, x, y
      <4>4. a = [phase |-> "adding", tree |-> t, cells |-> new, last_index |-> cell, last_cell |-> at]
        BY <4>2, <4>3, BuilderExcept
      <4> QED BY <4>4 DEF t
    <3>2. e = [index |-> cell, full |-> 1, runs |-> <<Run(n, n)>>]
      BY DEF NewCell
    <3>3. <<Run(n, n)>> \in Seq(Runs) /\ Len(<<Run(n, n)>>) = 1 /\ <<Run(n, n)>>[1] = Run(n, n)
          /\ <<Run(n, n)>> # <<>> /\ Run(n, n).start = n /\ Run(n, n).end = n
          /\ DOMAIN <<Run(n, n)>> = 1 .. 1
      BY DEF Run, Runs
    <3> DEFINE only == <<Run(n, n)>>
    <3> HIDE DEF only
    <3>4. only \in Seq(Runs) /\ Len(only) = 1 /\ only[1].start = n /\ only[1].end = n /\ only # <<>>
          /\ DOMAIN only = 1 .. 1
      BY <3>3 DEF only
    <3>5. e \in Cell /\ e.index = cell /\ e.runs = only
      BY <1>0, <3>2, <3>4 DEF Cell, only
    <3> HIDE DEF e
    <3>6. SoundCell(e, n + 1)
      <4>1. RunsAreSound(only) /\ Apart(only, RunGap)
        BY <3>4 DEF RunsAreSound, Apart
      <4>2. \A r \in 1 .. Len(only) : only[r].start >= 0 /\ only[r].end < n + 1
        BY <3>4
      <4> QED BY <3>4, <3>5, <4>1, <4>2 DEF SoundCell
    <3>7. Covers(e, n)
      BY <3>4, <3>5 DEF Covers
    <3>8. /\ new \in Seq(Cell) /\ Len(new) = m + 1
          /\ \A c \in 1 .. m + 1 :
                 new[c] = IF c < at THEN cells[c] ELSE IF c = at THEN e ELSE cells[c - 1]
      BY <1>1, <2>1, <3>5, InsertAtProperties
    <3> HIDE DEF new, cells, m
    <3>9. ASSUME NEW c \in 1 .. m + 1
          PROVE  \/ c = at /\ new[c] = e
                 \/ c < at /\ c \in 1 .. m /\ new[c] = cells[c]
                 \/ c > at /\ c - 1 \in 1 .. m /\ new[c] = cells[c - 1]
      BY <1>1, <2>1, <3>8
    <3>10. \A c \in 1 .. m + 1 : SoundCell(new[c], n + 1) /\ LevelOf(new[c].index) = b.tree.levels
      <4> TAKE c \in 1 .. m + 1
      <4>1. \A d \in 1 .. m : SoundCell(cells[d], n + 1) /\ LevelOf(cells[d].index) = b.tree.levels
        <5>1. \A d \in 1 .. m : SoundCell(cells[d], n + 1)
          BY <1>1, SoundLonger
        <5> QED BY <5>1 DEF Adding, cells, m
      <4> QED BY <3>5, <3>6, <3>9, <4>1
    <3>11. Ascending(new)
      <4> SUFFICES ASSUME NEW c \in 1 .. m + 1, NEW d \in 1 .. m + 1, c < d
                   PROVE  new[c].index < new[d].index
        BY <3>8 DEF Ascending
      <4>1. \A x, y \in 1 .. m : x < y => cells[x].index < cells[y].index
        BY DEF Adding, Ascending, cells, m
      <4>2. \A x \in 1 .. m : cells[x].index \in Nat
        <5>1. \A x \in 1 .. m : cells[x] \in Cell
          BY <1>1 DEF SoundCell
        <5> QED BY <5>1 DEF Cell
      <4>3. at <= m => cells[at].index # cell
        BY <2>4 DEF IsAt, m
      <4>4. CASE c < at /\ d < at
        <5>1. new[c] = cells[c] /\ new[d] = cells[d] /\ c \in 1 .. m /\ d \in 1 .. m
          BY <2>1, <3>9, <4>4
        <5> QED BY <4>1, <5>1
      <4>5. CASE c < at /\ d = at
        <5>1. new[c] = cells[c] /\ new[d] = e /\ c \in 1 .. at - 1
          BY <2>1, <3>9, <4>5
        <5> QED BY <2>1, <3>5, <5>1
      <4>6. CASE c < at /\ d > at
        <5>1. new[c] = cells[c] /\ new[d] = cells[d - 1] /\ c \in 1 .. m /\ d - 1 \in 1 .. m /\ c < d - 1
          BY <2>1, <3>9, <4>6
        <5> QED BY <4>1, <5>1
      <4>7. CASE c = at /\ d > at
        <5>1. new[c] = e /\ new[d] = cells[d - 1] /\ d - 1 \in 1 .. m /\ d - 1 \in at .. m /\ at \in 1 .. m
          BY <1>1, <2>1, <3>9, <4>7
        <5>2. cells[at].index >= cell /\ cells[at].index # cell
          BY <2>1, <4>3, <5>1
        <5>3. d - 1 = at \/ cells[at].index < cells[d - 1].index
          BY <4>1, <5>1
        <5> QED BY <1>0, <3>5, <4>2, <5>1, <5>2, <5>3
      <4>8. CASE c > at /\ d > at
        <5>1. new[c] = cells[c - 1] /\ new[d] = cells[d - 1] /\ c - 1 \in 1 .. m /\ d - 1 \in 1 .. m /\ c - 1 < d - 1
          BY <2>1, <3>9, <4>8
        <5> QED BY <4>1, <5>1
      <4> QED BY <2>1, <4>4, <4>5, <4>6, <4>7, <4>8
    <3>12. new[at] = e /\ at \in 1 .. m + 1
      BY <2>1, <3>8
    <3>13. Adding(a, n + 1) /\ a.tree = b.tree /\ a.cells = new
      <4>1. a.cells = new /\ a.tree = b.tree /\ a.last_index = cell /\ a.last_cell = at
        BY <3>1
      <4>2. a = [phase |-> "adding", tree |-> a.tree, cells |-> a.cells,
                 last_index |-> a.last_index, last_cell |-> a.last_cell]
        BY <3>1, <4>1
      <4>3. Remembers(a)
        BY <3>5, <3>8, <3>12, <4>1 DEF Remembers
      <4>4. SoundCells(new, n + 1)
        BY <3>8, <3>10 DEF SoundCells
      <4> QED BY <3>8, <3>10, <3>11, <4>1, <4>2, <4>3, <4>4 DEF Adding
    <3>14. HeldIn(new, n, cell)
      BY <3>5, <3>7, <3>8, <3>12 DEF HeldIn
    <3>15. ASSUME NEW i \in Nat, NEW x, HeldIn(cells, i, x) PROVE HeldIn(new, i, x)
      <4>1. PICK c \in 1 .. m : cells[c].index = x /\ Covers(cells[c], i)
        BY <3>15 DEF HeldIn, m
      <4>2. CASE c < at
        <5>1. c \in 1 .. m + 1 /\ new[c] = cells[c]
          BY <1>1, <3>8, <4>2
        <5> QED BY <3>8, <4>1, <5>1 DEF HeldIn
      <4>3. CASE c >= at
        <5>1. c + 1 \in 1 .. m + 1 /\ new[c + 1] = cells[c]
          <6>1. c + 1 \in 1 .. m + 1 /\ ~(c + 1 < at) /\ c + 1 # at /\ (c + 1) - 1 = c
            BY <1>1, <2>1, <4>3
          <6> QED BY <3>8, <6>1
        <5> QED BY <3>8, <4>1, <5>1 DEF HeldIn
      <4> QED BY <2>1, <4>2, <4>3
    <3> QED BY <3>13, <3>14, <3>15 DEF a, cells
  <2> QED BY <2>3, <2>4
<1> QED BY <1>2, <1>3
-----------------------------------------------------------------------------
(* Coarsening. *)

Bounded(runs, n) == \A r \in 1 .. Len(runs) : runs[r].start >= 0 /\ runs[r].end < n

Holds(runs, i) == \E r \in 1 .. Len(runs) : i \in runs[r].start .. runs[r].end

LEMMA SoundRuns ==
    ASSUME NEW runs, RunsAreSound(runs)
    PROVE  /\ runs \in Seq(Runs) /\ Len(runs) \in Nat /\ DOMAIN runs = 1 .. Len(runs)
           /\ \A r \in 1 .. Len(runs) : /\ runs[r] \in Runs
                                        /\ runs[r].start \in Int /\ runs[r].end \in Int
                                        /\ runs[r].start <= runs[r].end
<1>1. runs \in Seq(Runs)
  BY DEF RunsAreSound
<1>2. \A r \in 1 .. Len(runs) : runs[r] \in Runs
  BY <1>1, ElementOfSeq
<1> QED BY <1>1, <1>2, LenProperties DEF RunsAreSound, Runs

LEMMA ConcatRuns ==
    ASSUME NEW n, NEW a, RunsAreSound(a), Bounded(a, n), NEW b, RunsAreSound(b), Bounded(b, n)
    PROVE  LET c == a \o b
           IN  /\ RunsAreSound(c) /\ Bounded(c, n)
               /\ a # <<>> => c # <<>>
               /\ \A i : Holds(a, i) \/ Holds(b, i) => Holds(c, i)
<1> DEFINE c == a \o b
<1>1. /\ a \in Seq(Runs) /\ Len(a) \in Nat
      /\ b \in Seq(Runs) /\ Len(b) \in Nat
  BY SoundRuns
<1>2. /\ c \in Seq(Runs) /\ Len(c) = Len(a) + Len(b)
      /\ \A r \in 1 .. Len(a) + Len(b) : c[r] = IF r <= Len(a) THEN a[r] ELSE b[r - Len(a)]
  BY <1>1, ConcatProperties
<1> HIDE DEF c
<1>3. ASSUME NEW r \in 1 .. Len(c)
      PROVE  \/ r \in 1 .. Len(a) /\ c[r] = a[r]
             \/ r - Len(a) \in 1 .. Len(b) /\ c[r] = b[r - Len(a)]
  BY <1>1, <1>2
<1>4. RunsAreSound(c)
  BY <1>2, <1>3 DEF RunsAreSound
<1>5. Bounded(c, n)
  BY <1>3 DEF Bounded
<1>6. a # <<>> => c # <<>>
  BY <1>1, <1>2, EmptySeq
<1>7. ASSUME NEW i, Holds(a, i) PROVE Holds(c, i)
  <2>1. PICK r \in 1 .. Len(a) : i \in a[r].start .. a[r].end
    BY <1>7 DEF Holds
  <2>2. r \in 1 .. Len(c) /\ c[r] = a[r]
    BY <1>1, <1>2
  <2> QED BY <2>1, <2>2 DEF Holds
<1>8. ASSUME NEW i, Holds(b, i) PROVE Holds(c, i)
  <2>1. PICK r \in 1 .. Len(b) : i \in b[r].start .. b[r].end
    BY <1>8 DEF Holds
  <2> DEFINE s == r + Len(a)
  <2>2. s \in 1 .. Len(a) + Len(b) /\ ~(s <= Len(a)) /\ s - Len(a) = r
    BY <1>1
  <2> HIDE DEF s
  <2>3. s \in 1 .. Len(c) /\ c[s] = b[r]
    BY <1>2, <2>2
  <2> QED BY <2>1, <2>3 DEF Holds
<1> QED BY <1>4, <1>5, <1>6, <1>7, <1>8 DEF c

\* What is in a run is in one after the runs are joined.
LEMMA CoalesceHolds ==
    ASSUME NEW n \in Nat, NEW runs, RunsAreSound(runs), Bounded(runs, n), NEW threshold \in Nat
    PROVE  LET c == Coalesce(runs, threshold)
           IN  /\ RunsAreSound(c) /\ Apart(c, threshold) /\ Bounded(c, n)
               /\ runs # <<>> => c # <<>>
               /\ \A i \in Nat : Holds(runs, i) => Holds(c, i)
<1> DEFINE c == Coalesce(runs, threshold)
<1>1. /\ RunsAreSound(c) /\ Apart(c, threshold)
      /\ runs # <<>> => c # <<>>
      /\ \A r \in 1 .. Len(runs) : Under(runs[r], c)
      /\ BoundsAreOf(c, runs)
  BY CoalesceProperties
<1> HIDE DEF c
<1>2. Bounded(c, n)
  <2> SUFFICES ASSUME NEW r \in 1 .. Len(c) PROVE c[r].start >= 0 /\ c[r].end < n
    BY DEF Bounded
  <2>1. PICK s \in 1 .. Len(runs) : c[r].start = runs[s].start
    BY <1>1 DEF BoundsAreOf
  <2>2. PICK t \in 1 .. Len(runs) : c[r].end = runs[t].end
    BY <1>1 DEF BoundsAreOf
  <2> QED BY <2>1, <2>2 DEF Bounded
<1>3. ASSUME NEW i \in Nat, Holds(runs, i) PROVE Holds(c, i)
  <2>1. PICK r \in 1 .. Len(runs) : i \in runs[r].start .. runs[r].end
    BY <1>3 DEF Holds
  <2>2. PICK s \in 1 .. Len(c) : c[s].start <= runs[r].start /\ runs[r].end <= c[s].end
    BY <1>1 DEF Under
  <2>3. runs[r].start \in Int /\ runs[r].end \in Int /\ c[s].start \in Int /\ c[s].end \in Int
    BY <1>1, SoundRuns
  <2>4. i \in c[s].start .. c[s].end
    BY <2>1, <2>2, <2>3
  <2> QED BY <2>4 DEF Holds
<1> QED BY <1>1, <1>2, <1>3 DEF c

LEMMA CellHolds ==
    ASSUME NEW n \in Nat, NEW cell, SoundCell(cell, n)
    PROVE  /\ RunsAreSound(cell.runs) /\ Bounded(cell.runs, n) /\ cell.runs # <<>>
           /\ \A i : Covers(cell, i) <=> Holds(cell.runs, i)
<1>1. DOMAIN cell.runs = 1 .. Len(cell.runs)
  BY RunsOfCell
<1> QED BY <1>1 DEF SoundCell, Bounded, Covers, Holds

\* Four places in an array.
Places(at, m) == \A k \in 1 .. 4 : at[k] \in 1 .. m

\* The cell four siblings are merged into has the points of each.
LEMMA CellsMergeProperties ==
    ASSUME NEW n \in Nat, NEW cells, SoundCells(cells, n), NEW at, Places(at, Len(cells)),
           cells[at[1]].index # 0
    PROVE  LET e == cells_merge(cells, at)
           IN  /\ SoundCell(e, n) /\ e.index = Parent(cells[at[1]].index)
               /\ e.full = FullOf(cells, at)
               /\ \A k \in 1 .. 4 : \A i \in Nat : Covers(cells[at[k]], i) => Covers(e, i)
<1> DEFINE e == cells_merge(cells, at)
           r1 == cells[at[1]].runs
           r2 == cells[at[2]].runs
           r3 == cells[at[3]].runs
           r4 == cells[at[4]].runs
           p == Parent(cells[at[1]].index)
           c12 == r1 \o r2
           c123 == c12 \o r3
           all == c123 \o r4
           runs == Coalesce(all, RunGap)
<1>0. at[1] \in 1 .. Len(cells) /\ at[2] \in 1 .. Len(cells) /\ at[3] \in 1 .. Len(cells) /\ at[4] \in 1 .. Len(cells)
  BY DEF Places
<1>1. /\ SoundCell(cells[at[1]], n) /\ SoundCell(cells[at[2]], n)
      /\ SoundCell(cells[at[3]], n) /\ SoundCell(cells[at[4]], n)
  BY <1>0 DEF SoundCells
<1>2. /\ RunsAreSound(r1) /\ Bounded(r1, n) /\ r1 # <<>>
      /\ RunsAreSound(r2) /\ Bounded(r2, n)
      /\ RunsAreSound(r3) /\ Bounded(r3, n)
      /\ RunsAreSound(r4) /\ Bounded(r4, n)
  BY <1>1, CellHolds
<1>3. \A k \in 1 .. 4 : \A i \in Nat : Covers(cells[at[k]], i) =>
          Holds(r1, i) \/ Holds(r2, i) \/ Holds(r3, i) \/ Holds(r4, i)
  <2> SUFFICES ASSUME NEW k \in 1 .. 4, NEW i \in Nat, Covers(cells[at[k]], i)
               PROVE  Holds(r1, i) \/ Holds(r2, i) \/ Holds(r3, i) \/ Holds(r4, i)
    OBVIOUS
  <2>1. k = 1 \/ k = 2 \/ k = 3 \/ k = 4
    OBVIOUS
  <2> QED BY <1>1, <2>1, CellHolds
<1>4. e = [index |-> p, full |-> FullOf(cells, at), runs |-> runs]
  BY DEF cells_merge, RunsOf
<1>4a. FullOf(cells, at) \in Int
  <2>1. /\ cells[at[1]].full \in Int /\ cells[at[2]].full \in Int
        /\ cells[at[3]].full \in Int /\ cells[at[4]].full \in Int
    BY <1>1 DEF SoundCell, Cell
  <2> DEFINE f1 == cells[at[1]].full
             f2 == cells[at[2]].full
             f3 == cells[at[3]].full
             f4 == cells[at[4]].full
  <2>2. FullOf(cells, at) = f1 + f2 + f3 + f4
    BY DEF FullOf
  <2>3. f1 \in Int /\ f2 \in Int /\ f3 \in Int /\ f4 \in Int
    BY <2>1
  <2> HIDE DEF f1, f2, f3, f4
  <2> QED BY <2>2, <2>3
<1>5. p \in InTree
  BY <1>1, ParentProperties DEF SoundCell
<1> HIDE DEF r1, r2, r3, r4, p, e
<1>6. RunsAreSound(c12) /\ Bounded(c12, n) /\ c12 # <<>>
      /\ \A i : Holds(r1, i) \/ Holds(r2, i) => Holds(c12, i)
  BY <1>2, ConcatRuns
<1> HIDE DEF c12
<1>7. RunsAreSound(c123) /\ Bounded(c123, n) /\ c123 # <<>>
      /\ \A i : Holds(c12, i) \/ Holds(r3, i) => Holds(c123, i)
  BY <1>2, <1>6, ConcatRuns
<1> HIDE DEF c123
<1>8. RunsAreSound(all) /\ Bounded(all, n) /\ all # <<>>
      /\ \A i : Holds(c123, i) \/ Holds(r4, i) => Holds(all, i)
  BY <1>2, <1>7, ConcatRuns
<1> HIDE DEF all
<1>9. /\ RunsAreSound(runs) /\ Apart(runs, RunGap) /\ Bounded(runs, n) /\ runs # <<>>
      /\ \A i \in Nat : Holds(all, i) => Holds(runs, i)
  BY <1>8, CoalesceHolds, BuilderAssumption
<1> HIDE DEF runs
<1>10. e.index = p /\ e.full = FullOf(cells, at) /\ e.runs = runs
  BY <1>4
<1>11. e \in Cell
  <2>1. runs \in Seq(Runs) /\ p \in Nat
    BY <1>5, <1>9 DEF RunsAreSound, InTree
  <2> QED BY <1>4, <1>4a, <2>1 DEF Cell
<1>12. SoundCell(e, n)
  BY <1>5, <1>9, <1>10, <1>11 DEF SoundCell, Bounded
<1>13. \A k \in 1 .. 4 : \A i \in Nat : Covers(cells[at[k]], i) => Covers(e, i)
  BY <1>3, <1>6, <1>7, <1>8, <1>9, <1>10, <1>12, CellHolds
<1> QED BY <1>10, <1>12, <1>13 DEF e, p
\* Cells not dropped, none of which is another or lies in it.
Live(cells, dropped) == (1 .. Len(cells)) \ dropped

Antichain(cells, dropped) ==
    \A c, d \in Live(cells, dropped) :
        c # d => /\ cells[c].index # cells[d].index
                 /\ cells[c].index \notin Above(cells[d].index)

\* A point is held by a cell not dropped, of an index or above it.
HeldAbove(cells, dropped, i, x) ==
    \E c \in Live(cells, dropped) : cells[c].index \in OrAbove(x) /\ Covers(cells[c], i)

NoDeeper(cells, levels) == \A c \in 1 .. Len(cells) : LevelOf(cells[c].index) <= levels

PassIsSound(pass, n, levels) ==
    /\ pass = [cells |-> pass.cells, dropped |-> pass.dropped]
    /\ SoundCells(pass.cells, n)
    /\ NoDeeper(pass.cells, levels)
    /\ Antichain(pass.cells, pass.dropped)

Kin(pass, next) ==
    /\ Len(next.cells) = Len(pass.cells)
    /\ \A i \in Nat : \A x \in InTree :
           HeldAbove(pass.cells, pass.dropped, i, x) => HeldAbove(next.cells, next.dropped, i, x)
    /\ next.dropped = {} => next = pass

\* Merging four siblings loses no point and leaves no cell in another.
LEMMA MergedProperties ==
    ASSUME NEW n \in Nat, NEW levels \in Int, NEW pass, PassIsSound(pass, n, levels),
           NEW cell \in InTree, cell # 0, NEW at, NEW minimum,
           \A k \in 1 .. 4 : at[k] \in 1 .. Len(pass.cells) + 1
    PROVE  LET next == Merged(pass, Siblings(cell), at, minimum)
           IN  PassIsSound(next, n, levels) /\ Kin(pass, next)
<1> DEFINE next == Merged(pass, Siblings(cell), at, minimum)
           cells == pass.cells
           dropped == pass.dropped
           m == Len(cells)
           p == Parent(cell)
           e == cells_merge(cells, at)
           new == [cells EXCEPT ![at[1]] = e]
           gone == dropped \cup {at[2], at[3], at[4]}
<1>1. cells \in Seq(Cell) /\ m \in Nat /\ DOMAIN cells = 1 .. m /\ \A c \in 1 .. m : SoundCell(cells[c], n)
  BY LenProperties DEF PassIsSound, SoundCells
<1>2. CASE ~Mergeable(pass, Siblings(cell), at, minimum)
  <2>1. next = pass
    BY <1>2 DEF Merged
  <2> HIDE DEF next
  <2> QED BY <2>1 DEF Kin, next
<1>3. CASE Mergeable(pass, Siblings(cell), at, minimum)
  <2>1. next = [cells |-> new, dropped |-> gone]
    BY <1>3 DEF Merged
  <2> HIDE DEF next, new, e
  <2>1a. next.cells = new /\ next.dropped = gone
    BY <2>1
  <2>2. /\ p \in InTree /\ LevelOf(p) = LevelOf(cell) - 1 /\ LevelOf(cell) \in Int
        /\ \A k \in 1 .. 4 : Siblings(cell)[k] = 4 * p + k
        /\ p \in Nat /\ p # cell
    BY ParentProperties, LevelOfProperties, TreeAssumption DEF InTree
  <2> HIDE DEF p
  <2>3. ASSUME NEW k \in 1 .. 4
        PROVE  at[k] \in 1 .. m /\ cells[at[k]].index = 4 * p + k /\ at[k] \in Live(cells, dropped)
    <3>1. IsAt(cells, at[k], Siblings(cell)[k]) /\ at[k] \notin dropped
      BY <1>3 DEF Mergeable
    <3>2. at[k] <= m /\ cells[at[k]].index = 4 * p + k
      BY <2>2, <3>1 DEF IsAt
    <3>3. at[k] \in 1 .. m
      BY <1>1, <3>2
    <3> QED BY <3>1, <3>2, <3>3 DEF Live
  <2>4. ASSUME NEW k \in 1 .. 4
        PROVE  /\ cells[at[k]].index \in InTree
               /\ cells[at[k]].index # 0
               /\ Parent(cells[at[k]].index) = p
               /\ p \in Above(cells[at[k]].index)
    <3> DEFINE x == cells[at[k]].index
    <3>1. x \in InTree /\ x = 4 * p + k
      BY <1>1, <2>3 DEF SoundCell
    <3> HIDE DEF x
    <3>2. x # 0 /\ x \in Nat
      BY <2>2, <3>1
    <3>3. Parent(x) \in Nat /\ x \in 4 * Parent(x) + 1 .. 4 * Parent(x) + 4
      <4>1. Parent(x) \in InTree /\ x \in 4 * Parent(x) + 1 .. 4 * Parent(x) + 4
        BY ONLY <3>1, <3>2, ParentProperties
      <4>2. \A y \in InTree : y \in Nat
        BY ONLY DEF InTree
      <4> QED BY ONLY <4>1, <4>2
    <3>4. Parent(x) = p
      <4> DEFINE q == Parent(x)
      <4>1. q \in Nat /\ x \in 4 * q + 1 .. 4 * q + 4 /\ x = 4 * p + k /\ p \in Nat
        BY <2>2, <3>1, <3>3
      <4> HIDE DEF q
      <4>2. q = p
        BY <4>1
      <4> QED BY <4>2 DEF q
    <3>5. p \in Above(x)
      BY <3>1, <3>2, <3>4, AncestorsStep DEF OrAbove
    <3> QED BY <3>1, <3>2, <3>4, <3>5 DEF x
  <2>5. at[1] # at[2] /\ at[1] # at[3] /\ at[1] # at[4]
    <3>1. /\ cells[at[1]].index = 4 * p + 1 /\ cells[at[2]].index = 4 * p + 2
          /\ cells[at[3]].index = 4 * p + 3 /\ cells[at[4]].index = 4 * p + 4
      BY <2>3
    <3>2. 4 * p + 1 # 4 * p + 2 /\ 4 * p + 1 # 4 * p + 3 /\ 4 * p + 1 # 4 * p + 4
      BY <2>2
    <3> QED BY <3>1, <3>2
  <2>6. /\ SoundCell(e, n) /\ e.index = p
        /\ \A k \in 1 .. 4 : \A i \in Nat : Covers(cells[at[k]], i) => Covers(e, i)
    <3>1. Places(at, Len(cells)) /\ cells[at[1]].index # 0 /\ SoundCells(cells, n)
      BY <2>3, <2>4 DEF Places, PassIsSound
    <3>2. Parent(cells[at[1]].index) = p
      BY <2>4
    <3> HIDE DEF cells
    <3> QED BY <3>1, <3>2, CellsMergeProperties DEF e
  <2>7. new \in Seq(Cell) /\ Len(new) = m /\ \A c \in 1 .. m : new[c] = IF c = at[1] THEN e ELSE cells[c]
    <3>1. e \in Cell /\ at[1] \in 1 .. m
      BY <2>3, <2>6 DEF SoundCell
    <3> HIDE DEF cells, m
    <3> QED BY <1>1, <3>1, ExceptSeq DEF new, m
  <2> HIDE DEF cells, dropped, m, gone
  <2>8. SoundCells(new, n)
    <3>1. \A c \in 1 .. m : SoundCell(new[c], n)
      BY <1>1, <2>6, <2>7
    <3> QED BY <2>7, <3>1 DEF SoundCells
  <2>9. NoDeeper(new, levels)
    <3>1. \A c \in 1 .. m : LevelOf(cells[c].index) <= levels
      BY DEF PassIsSound, NoDeeper, cells, m
    <3>2. LevelOf(p) <= levels
      <4>1. LevelOf(cells[at[1]].index) <= levels
        BY <2>3, <3>1
      <4>2. LevelOf(p) = LevelOf(cells[at[1]].index) - 1
        BY <2>4, ParentProperties
      <4>3. LevelOf(cells[at[1]].index) \in Int
        <5>1. LevelOf(cells[at[1]].index) \in 0 .. MaxLevels
          BY ONLY <2>4, LevelOfProperties
        <5>2. \A i \in 0 .. MaxLevels : i \in Int
          OBVIOUS
        <5> QED BY ONLY <5>1, <5>2
      <4> QED BY <4>1, <4>2, <4>3
    <3> QED BY <2>6, <2>7, <3>1, <3>2 DEF NoDeeper
  <2>10. /\ \A c \in Live(new, gone) : c \in Live(cells, dropped) /\ c \in 1 .. m
                                       /\ c # at[2] /\ c # at[3] /\ c # at[4]
         /\ at[1] \in Live(new, gone)
    BY <2>3, <2>5, <2>7 DEF Live, gone, m
  <2>11. \A c, d \in Live(cells, dropped) :
             c # d => cells[c].index # cells[d].index /\ cells[c].index \notin Above(cells[d].index)
    BY DEF PassIsSound, Antichain, cells, dropped
  <2>12. ASSUME NEW d \in Live(new, gone), d # at[1]
         PROVE  /\ cells[d].index # p
                /\ cells[d].index \notin Above(p)
                /\ p \notin Above(cells[d].index)
    <3> DEFINE y == cells[d].index
    <3>1. d \in Live(cells, dropped) /\ y \in InTree
      BY <1>1, <2>10 DEF SoundCell
    <3>2. \A k \in 1 .. 4 : d # at[k]
      <4> TAKE k \in 1 .. 4
      <4>1. k = 1 \/ k = 2 \/ k = 3 \/ k = 4
        OBVIOUS
      <4> QED BY <2>10, <2>12, <4>1
    <3>3. y \notin Above(cells[at[1]].index)
      BY <2>3, <2>11, <3>1, <3>2
    <3>4. p \in Above(cells[at[1]].index) /\ Above(p) \subseteq Above(cells[at[1]].index)
      BY <2>4, AboveProperties
    <3>5. p \notin Above(y)
      <4> SUFFICES ASSUME p \in Above(y) PROVE FALSE
        OBVIOUS
      <4>1. PICK a \in OrAbove(y) : a \in InTree /\ a # 0 /\ Parent(a) = p
        BY <3>1, AboveProperties
      <4>2. a \in 4 * p + 1 .. 4 * p + 4
        BY <4>1, ParentProperties
      <4>3. PICK k \in 1 .. 4 : a = 4 * p + k
        <5>1. a - 4 * p \in 1 .. 4 /\ a = 4 * p + (a - 4 * p)
          BY <2>2, <4>2
        <5> QED BY <5>1
      <4>4. a = cells[at[k]].index /\ at[k] \in Live(cells, dropped)
        BY <2>3, <4>3
      <4>5. a # y /\ a \notin Above(y)
        BY <2>11, <3>1, <3>2, <4>4
      <4> QED BY <4>1, <4>5 DEF OrAbove
    <3> QED BY <3>3, <3>4, <3>5
  <2>13. Antichain(new, gone)
    <3> SUFFICES ASSUME NEW c \in Live(new, gone), NEW d \in Live(new, gone), c # d
                 PROVE  new[c].index # new[d].index /\ new[c].index \notin Above(new[d].index)
      BY DEF Antichain
    <3>0. c \in 1 .. m /\ d \in 1 .. m /\ c \in Live(cells, dropped) /\ d \in Live(cells, dropped)
      BY <2>10
    <3>1. CASE c = at[1]
      <4>1. new[c] = e /\ new[d] = cells[d] /\ d # at[1]
        BY <2>7, <3>0, <3>1
      <4> QED BY <2>6, <2>12, <4>1
    <3>2. CASE d = at[1]
      <4>1. new[d] = e /\ new[c] = cells[c] /\ c # at[1]
        BY <2>7, <3>0, <3>2
      <4> QED BY <2>6, <2>12, <4>1
    <3>3. CASE c # at[1] /\ d # at[1]
      <4>1. new[d] = cells[d] /\ new[c] = cells[c]
        BY <2>7, <3>0, <3>3
      <4> QED BY <2>11, <3>0, <4>1
    <3> QED BY <3>1, <3>2, <3>3
  <2>14. ASSUME NEW i \in Nat, NEW x \in InTree, HeldAbove(cells, dropped, i, x)
         PROVE  HeldAbove(new, gone, i, x)
    <3>1. PICK c \in Live(cells, dropped) : cells[c].index \in OrAbove(x) /\ Covers(cells[c], i)
      BY <2>14 DEF HeldAbove
    <3>2. CASE \E k \in 1 .. 4 : c = at[k]
      <4>1. PICK k \in 1 .. 4 : c = at[k]
        BY <3>2
      <4>2. p \in Above(x)
        <5>1. cells[c].index # 0 /\ Parent(cells[c].index) = p
          BY <2>4, <4>1
        <5> QED BY <3>1, <5>1, AboveProperties
      <4>3. Covers(e, i)
        BY <2>6, <3>1, <4>1
      <4>4. new[at[1]] = e
        BY <2>3, <2>7
      <4> QED BY <2>6, <2>10, <4>2, <4>3, <4>4 DEF HeldAbove, OrAbove
    <3>3. CASE \A k \in 1 .. 4 : c # at[k]
      <4>1. c # at[1] /\ c # at[2] /\ c # at[3] /\ c # at[4]
        BY <3>3
      <4>2. c \in Live(new, gone) /\ c \in 1 .. m
        BY <2>7, <4>1 DEF Live, gone, m
      <4>3. new[c] = cells[c]
        BY <2>7, <4>1, <4>2
      <4> QED BY <3>1, <4>2, <4>3 DEF HeldAbove
    <3> QED BY <3>2, <3>3
  <2>15. gone # {}
    BY DEF gone
  <2>16. PassIsSound(next, n, levels)
    BY <2>1, <2>1a, <2>8, <2>9, <2>13 DEF PassIsSound
  <2>17. Kin(pass, next)
    BY <2>1a, <2>7, <2>14, <2>15 DEF Kin, cells, dropped, m
  <2> QED BY <2>16, <2>17 DEF next
<1> QED BY <1>2, <1>3
Fresh(cells) == [cells |-> cells, dropped |-> {}]

\* f holds what a pass over n cells has done after each of its turns.
Turns(f, cells, minimum, n) ==
    /\ f[0] = Fresh(cells)
    /\ \A k \in 1 .. n : f[k] = Turn(f[k - 1], k, minimum)
    /\ Pass(cells, minimum) = Swept(f[n])

\* The turns of a pass.
LEMMA PassSteps ==
    ASSUME NEW cells, NEW minimum, NEW n \in Nat, n = Len(cells)
    PROVE  \E f : Turns(f, cells, minimum, n)
<1> DEFINE base == Fresh(cells)
           step(x, k) == Turn(x, k, minimum)
           Rec(f, m) == f = [k \in 0 .. m |-> IF k = 0 THEN base ELSE step(f[k - 1], k)]
           T == {m \in 0 .. n : \E f : Rec(f, m)}
<1>1. Pass(cells, minimum) = Swept((CHOOSE f : Rec(f, n))[n])
  BY DEF Pass, Fresh
<1>2. \A k \in 1 .. n : \A x : step(x, k) = Turn(x, k, minimum)
  OBVIOUS
<1> HIDE DEF step
<1>3. \A f : \A m \in Nat :
          (f = [k \in 0 .. m |-> f[k]] /\ \A k \in 0 .. m : f[k] = IF k = 0 THEN base ELSE step(f[k - 1], k))
            => Rec(f, m)
  OBVIOUS
<1>4. \A f : \A m \in Nat :
          Rec(f, m) => \A k \in 0 .. m : f[k] = IF k = 0 THEN base ELSE step(f[k - 1], k)
  OBVIOUS
<1> HIDE DEF Rec, base
<1>5. 0 \in T
  <2> DEFINE g == [k \in 0 .. 0 |-> base]
  <2>1. g = [k \in 0 .. 0 |-> g[k]] /\ \A k \in 0 .. 0 : g[k] = IF k = 0 THEN base ELSE step(g[k - 1], k)
    OBVIOUS
  <2> HIDE DEF g
  <2>2. Rec(g, 0)
    BY <2>1, <1>3
  <2> QED BY <2>2
<1>6. ASSUME NEW m \in 1 .. n, m - 1 \in T PROVE m \in T
  <2>1. PICK g : Rec(g, m - 1)
    BY <1>6
  <2> DEFINE x == step(g[m - 1], m)
             h == [k \in 0 .. m |-> IF k = m THEN x ELSE g[k]]
  <2>2. h[m] = x /\ \A k \in 0 .. m - 1 : h[k] = g[k]
    OBVIOUS
  <2>3. h = [k \in 0 .. m |-> h[k]]
    OBVIOUS
  <2> HIDE DEF h
  <2>4. \A k \in 0 .. m - 1 : g[k] = IF k = 0 THEN base ELSE step(g[k - 1], k)
    BY <2>1, <1>4
  <2>5. ASSUME NEW k \in 0 .. m
        PROVE  h[k] = IF k = 0 THEN base ELSE step(h[k - 1], k)
    <3>1. k # 0 => k - 1 \in 0 .. m - 1
      OBVIOUS
    <3>2. CASE k = m
      BY <2>2, <3>1, <3>2
    <3>3. CASE k # m
      <4>1. k \in 0 .. m - 1 /\ h[k] = g[k]
        BY <2>2, <3>3
      <4>2. k # 0 => h[k - 1] = g[k - 1]
        BY <2>2, <3>1
      <4> QED BY <2>4, <4>1, <4>2
    <3> QED BY <3>2, <3>3
  <2>6. Rec(h, m)
    <3>1. m \in Nat /\ \A k \in 0 .. m : h[k] = IF k = 0 THEN base ELSE step(h[k - 1], k)
      BY <2>5
    <3> QED BY ONLY <1>3, <2>3, <3>1
  <2> QED BY <2>6
<1>7. 0 .. n \subseteq T
  BY <1>5, <1>6, UpTo
<1> DEFINE f == CHOOSE g : Rec(g, n)
<1>8. Rec(f, n)
  BY <1>7
<1> HIDE DEF f
<1>9. f[0] = base /\ \A k \in 1 .. n : f[k] = step(f[k - 1], k)
  BY <1>4, <1>8
<1>10. Turns(f, cells, minimum, n)
  BY <1>1, <1>2, <1>9 DEF f, base, Turns
<1> QED BY <1>10

Third(n) == n \div 3

\* The passes.
LEMMA CoarsenSteps ==
    ASSUME NEW cells, NEW minimum, NEW n \in Nat, n = Len(cells)
    PROVE  \E f : /\ f[0] = cells
                  /\ \A k \in 1 .. n : f[k] = Pass(f[k - 1], minimum)
                  /\ coarsen_cells(cells, minimum) = f[Third(n)]
<1> DEFINE base == cells
           step(x, k) == Pass(x, minimum)
           Rec(f, m) == f = [k \in 0 .. m |-> IF k = 0 THEN base ELSE step(f[k - 1], k)]
           T == {m \in 0 .. n : \E f : Rec(f, m)}
<1>1. coarsen_cells(cells, minimum) = (CHOOSE f : Rec(f, n))[Third(n)]
  BY DEF coarsen_cells, Third
<1>2. \A k \in 1 .. n : \A x : step(x, k) = Pass(x, minimum)
  OBVIOUS
<1> HIDE DEF step
<1>3. \A f : \A m \in Nat :
          (f = [k \in 0 .. m |-> f[k]] /\ \A k \in 0 .. m : f[k] = IF k = 0 THEN base ELSE step(f[k - 1], k))
            => Rec(f, m)
  OBVIOUS
<1>4. \A f : \A m \in Nat :
          Rec(f, m) => \A k \in 0 .. m : f[k] = IF k = 0 THEN base ELSE step(f[k - 1], k)
  OBVIOUS
<1> HIDE DEF Rec, base
<1>5. 0 \in T
  <2> DEFINE g == [k \in 0 .. 0 |-> base]
  <2>1. g = [k \in 0 .. 0 |-> g[k]] /\ \A k \in 0 .. 0 : g[k] = IF k = 0 THEN base ELSE step(g[k - 1], k)
    OBVIOUS
  <2> HIDE DEF g
  <2>2. Rec(g, 0)
    BY <2>1, <1>3
  <2> QED BY <2>2
<1>6. ASSUME NEW m \in 1 .. n, m - 1 \in T PROVE m \in T
  <2>1. PICK g : Rec(g, m - 1)
    BY <1>6
  <2> DEFINE x == step(g[m - 1], m)
             h == [k \in 0 .. m |-> IF k = m THEN x ELSE g[k]]
  <2>2. h[m] = x /\ \A k \in 0 .. m - 1 : h[k] = g[k]
    OBVIOUS
  <2>3. h = [k \in 0 .. m |-> h[k]]
    OBVIOUS
  <2> HIDE DEF h
  <2>4. \A k \in 0 .. m - 1 : g[k] = IF k = 0 THEN base ELSE step(g[k - 1], k)
    BY <2>1, <1>4
  <2>5. ASSUME NEW k \in 0 .. m
        PROVE  h[k] = IF k = 0 THEN base ELSE step(h[k - 1], k)
    <3>1. k # 0 => k - 1 \in 0 .. m - 1
      OBVIOUS
    <3>2. CASE k = m
      BY <2>2, <3>1, <3>2
    <3>3. CASE k # m
      <4>1. k \in 0 .. m - 1 /\ h[k] = g[k]
        BY <2>2, <3>3
      <4>2. k # 0 => h[k - 1] = g[k - 1]
        BY <2>2, <3>1
      <4> QED BY <2>4, <4>1, <4>2
    <3> QED BY <3>2, <3>3
  <2>6. Rec(h, m)
    <3>1. m \in Nat /\ \A k \in 0 .. m : h[k] = IF k = 0 THEN base ELSE step(h[k - 1], k)
      BY <2>5
    <3> QED BY ONLY <1>3, <2>3, <3>1
  <2> QED BY <2>6
<1>7. 0 .. n \subseteq T
  BY <1>5, <1>6, UpTo
<1> DEFINE f == CHOOSE g : Rec(g, n)
<1>8. Rec(f, n)
  BY <1>7
<1> HIDE DEF f
<1>9. f[0] = base /\ \A k \in 1 .. n : f[k] = step(f[k - 1], k)
  BY <1>4, <1>8
<1> QED BY <1>1, <1>2, <1>9 DEF f, base

\* A turn of a pass does no more than that, wherever it finds the siblings.
LEMMA TurnProperties ==
    ASSUME NEW n \in Nat, NEW levels \in Int, NEW pass, PassIsSound(pass, n, levels),
           NEW i \in 1 .. Len(pass.cells), NEW minimum
    PROVE  LET next == Turn(pass, i, minimum)
           IN  PassIsSound(next, n, levels) /\ Kin(pass, next)
<1> DEFINE next == Turn(pass, i, minimum)
           cell == pass.cells[i].index
           group == Siblings(cell)
           at == [k \in 1 .. 4 |-> Position(pass.cells, group[k])]
<1>0. pass.cells \in Seq(Cell) /\ cell \in InTree /\ cell \in Nat
  <2>1. SoundCell(pass.cells[i], n)
    BY DEF PassIsSound, SoundCells
  <2> QED BY <2>1 DEF PassIsSound, SoundCells, SoundCell, InTree
<1>1. CASE i \in pass.dropped \/ LevelOf(cell) = 0
  <2>1. next = pass
    BY <1>1 DEF Turn
  <2> HIDE DEF next
  <2> QED BY <2>1 DEF Kin, next
<1>2. CASE ~(i \in pass.dropped \/ LevelOf(cell) = 0)
  <2>1. next = Merged(pass, group, at, minimum)
    BY <1>2 DEF Turn
  <2>2. cell # 0
    BY <1>0, <1>2, ParentProperties
  <2>3. \A k \in 1 .. 4 : at[k] \in 1 .. Len(pass.cells) + 1
    <3> SUFFICES ASSUME NEW k \in 1 .. 4 PROVE Position(pass.cells, group[k]) \in 1 .. Len(pass.cells) + 1
      OBVIOUS
    <3>1. Parent(cell) \in Nat /\ group[k] = 4 * Parent(cell) + k
      <4> HIDE DEF cell
      <4>1. Parent(cell) \in InTree /\ Siblings(cell)[k] = 4 * Parent(cell) + k
        BY <1>0, <2>2, ParentProperties
      <4> QED BY <4>1 DEF InTree
    <3>2. group[k] \in Nat
      <4> HIDE DEF group, cell
      <4> QED BY <3>1
    <3> HIDE DEF group, cell
    <3> QED BY <1>0, <3>2, PositionProperties
  <2> HIDE DEF at, cell, next
  <2>4. PassIsSound(next, n, levels) /\ Kin(pass, next)
    BY <1>0, <2>1, <2>2, <2>3, MergedProperties
  <2> QED BY <2>4 DEF next
<1> QED BY <1>1, <1>2

\* The cells between passes.
Whole(cells, n, levels) ==
    /\ SoundCells(cells, n)
    /\ Ascending(cells)
    /\ NoDeeper(cells, levels)
    /\ Antichain(cells, {})

HeldStill(cells, next) ==
    \A i \in Nat : \A x \in InTree : HeldAbove(cells, {}, i, x) => HeldAbove(next, {}, i, x)

\* The elements of some places, put in the order of their indices.
Sorts(t, cells, places, w) ==
    /\ w \in [1 .. Len(t) -> 1 .. Len(cells)]
    /\ \A c \in 1 .. Len(t) : t[c] = cells[w[c]] /\ w[c] \in places
    /\ \A c, d \in 1 .. Len(t) : c # d => w[c] # w[d]
    /\ \A c \in 1 .. Len(cells) : c \in places => \E d \in 1 .. Len(t) : w[d] = c
    /\ \A c, d \in 1 .. Len(t) : c < d => t[c].index <= t[d].index

LEMMA PickedByIndex ==
    ASSUME NEW S, \A x \in S : x.index \in Nat, NEW cells \in Seq(S), NEW places
    PROVE  LET t == ByIndex(Picked(cells, places))
           IN  t \in Seq(S) /\ \E w : Sorts(t, cells, places, w)
<1> DEFINE kept == Picked(cells, places)
           t == ByIndex(kept)
           m == Len(cells)
           l == Len(kept)
<1>1. kept \in Seq(S) /\ \E u : Picks(cells, places, kept, u)
  BY PickedProperties
<1>2. PICK u : Picks(cells, places, kept, u)
  BY <1>1
<1> HIDE DEF kept
<1>3. l \in Nat /\ m \in Nat /\ DOMAIN kept = 1 .. l /\ \A c \in 1 .. l : kept[c] \in S
  BY <1>1, LenProperties, ElementOfSeq
<1>4. \A c \in 1 .. l : kept[c].index \in Int
  <2> HIDE DEF l
  <2> QED BY <1>3
<1>5. PICK p : /\ Permutes(p, l)
               /\ t = [c \in 1 .. l |-> kept[p[c]]]
               /\ \A c, d \in 1 .. l : c < d => kept[p[c]].index <= kept[p[d]].index
  BY <1>3, <1>4, SortedCells
<1> HIDE DEF t
<1>6. \A c \in 1 .. l : p[c] \in 1 .. l
  BY <1>5 DEF Permutes
<1>7. t \in Seq(S) /\ Len(t) = l /\ \A c \in 1 .. l : t[c] = kept[p[c]]
  <2>1. t \in [1 .. l -> S]
    BY <1>3, <1>5, <1>6
  <2>2. t \in Seq(S)
    BY <1>3, <2>1, SeqDef
  <2>3. Len(t) = l
    BY <1>3, <1>5, <2>2, LenProperties
  <2> QED BY <1>5, <2>2, <2>3
<1> DEFINE w == [c \in 1 .. l |-> u[p[c]]]
<1>8. /\ u \in [1 .. l -> 1 .. m]
      /\ \A i, j \in 1 .. l : i < j => u[i] < u[j]
      /\ \A i \in 1 .. l : kept[i] = cells[u[i]] /\ u[i] \in places
      /\ \A c \in 1 .. m : c \in places => \E i \in 1 .. l : u[i] = c
  BY <1>2 DEF Picks, Rises
<1> HIDE DEF l, m
<1>9. /\ w \in [1 .. l -> 1 .. m]
      /\ \A c \in 1 .. l : t[c] = cells[w[c]] /\ w[c] \in places
  BY <1>6, <1>7, <1>8
<1>10. ASSUME NEW c \in 1 .. l, NEW d \in 1 .. l, c # d PROVE w[c] # w[d]
  <2>1. p[c] \in 1 .. l /\ p[d] \in 1 .. l /\ p[c] # p[d]
    BY <1>5, <1>6, <1>10 DEF Permutes
  <2>2. u[p[c]] \in 1 .. m /\ u[p[d]] \in 1 .. m
    BY <1>8, <2>1
  <2>3. \A i, j \in 1 .. l : i # j => u[i] # u[j]
    <3> SUFFICES ASSUME NEW i \in 1 .. l, NEW j \in 1 .. l, i # j PROVE u[i] # u[j]
      OBVIOUS
    <3>1. i < j \/ j < i
      BY <1>3
    <3>2. u[i] \in Int /\ u[j] \in Int
      BY <1>3, <1>8
    <3> QED BY <1>8, <3>1, <3>2
  <2> QED BY <2>1, <2>3
<1>11. ASSUME NEW c \in 1 .. m, c \in places PROVE \E d \in 1 .. l : w[d] = c
  <2>1. PICK i \in 1 .. l : u[i] = c
    BY <1>8, <1>11
  <2>2. PICK d \in 1 .. l : p[d] = i
    BY <1>5 DEF Permutes
  <2> QED BY <2>1, <2>2
<1>12. \A c, d \in 1 .. l : c < d => t[c].index <= t[d].index
  BY <1>5, <1>7
<1> HIDE DEF w
<1>13. Sorts(t, cells, places, w)
  BY <1>7, <1>9, <1>10, <1>11, <1>12 DEF Sorts, m
<1> QED BY <1>7, <1>13 DEF t, kept

\* Dropping and sorting lose no cell that is still used.
LEMMA SweptProperties ==
    ASSUME NEW n \in Nat, NEW levels, NEW pass, PassIsSound(pass, n, levels),
           pass.dropped = {} => Ascending(pass.cells)
    PROVE  LET swept == Swept(pass)
           IN  /\ Whole(swept, n, levels)
               /\ \A i \in Nat : \A x :
                      HeldAbove(pass.cells, pass.dropped, i, x) => HeldAbove(swept, {}, i, x)
<1> DEFINE cells == pass.cells
           dropped == pass.dropped
           m == Len(cells)
           places == (1 .. m) \ dropped
           swept == Swept(pass)
           l == Len(swept)
<1>1. cells \in Seq(Cell) /\ m \in Nat /\ DOMAIN cells = 1 .. m /\ \A c \in 1 .. m : SoundCell(cells[c], n)
  BY LenProperties DEF PassIsSound, SoundCells
<1>2. CASE dropped = {}
  <2>1. swept = cells
    BY <1>2 DEF Swept
  <2> HIDE DEF swept
  <2> QED BY <1>2, <2>1 DEF PassIsSound, Whole, swept
<1>3. CASE dropped # {}
  <2>1. swept = ByIndex(Picked(cells, places))
    BY <1>1, <1>3 DEF Swept, Kept
  <2> HIDE DEF swept
  <2>2. swept \in Seq(Cell) /\ \E w : Sorts(swept, cells, places, w)
    <3>1. \A x \in Cell : x.index \in Nat
      BY DEF Cell
    <3> HIDE DEF cells, places
    <3> QED BY <1>1, <2>1, <3>1, PickedByIndex
  <2>3. PICK w : Sorts(swept, cells, places, w)
    BY <2>2
  <2>4. l \in Nat
    BY <2>2, LenProperties
  <2>10. \A c \in 1 .. l : swept[c] = cells[w[c]] /\ w[c] \in Live(cells, dropped) /\ w[c] \in 1 .. m
    BY <2>3 DEF Sorts, Live
  <2>11. /\ \A c, d \in 1 .. l : c # d => w[c] # w[d]
         /\ \A c, d \in 1 .. l : c < d => swept[c].index <= swept[d].index
         /\ \A c \in Live(cells, dropped) : \E d \in 1 .. l : w[d] = c
    BY <2>3 DEF Sorts, Live
  <2> HIDE DEF l, cells, dropped
  <2>13. SoundCells(swept, n)
    BY <1>1, <2>2, <2>10 DEF SoundCells, l
  <2>14. Antichain(swept, {})
    <3> SUFFICES ASSUME NEW c \in 1 .. l, NEW d \in 1 .. l, c # d
                 PROVE  swept[c].index # swept[d].index /\ swept[c].index \notin Above(swept[d].index)
      BY DEF Antichain, Live, l
    <3>1. w[c] \in Live(cells, dropped) /\ w[d] \in Live(cells, dropped) /\ w[c] # w[d]
      BY <2>10, <2>11
    <3> QED BY <2>10, <3>1 DEF PassIsSound, Antichain, cells, dropped
  <2>15. Ascending(swept)
    <3> SUFFICES ASSUME NEW c \in 1 .. l, NEW d \in 1 .. l, c < d
                 PROVE  swept[c].index < swept[d].index
      BY DEF Ascending, l
    <3>1. swept[c].index <= swept[d].index
      BY <2>11
    <3>2. swept[c].index # swept[d].index
      <4>1. c # d /\ c \in Live(swept, {}) /\ d \in Live(swept, {})
        BY <2>4 DEF Live, l
      <4> QED BY <2>14, <4>1 DEF Antichain
    <3>3. swept[c].index \in Nat /\ swept[d].index \in Nat
      <4>1. swept[c] \in Cell /\ swept[d] \in Cell
        BY <2>2, ElementOfSeq DEF l
      <4> QED BY <4>1 DEF Cell
    <3> QED BY <3>1, <3>2, <3>3
  <2>16. NoDeeper(swept, levels)
    <3>1. \A c \in 1 .. m : LevelOf(cells[c].index) <= levels
      BY DEF PassIsSound, NoDeeper, cells
    <3> QED BY <2>10, <3>1 DEF NoDeeper, l
  <2>17. ASSUME NEW i \in Nat, NEW x, HeldAbove(cells, dropped, i, x)
         PROVE  HeldAbove(swept, {}, i, x)
    <3>1. PICK c \in Live(cells, dropped) : cells[c].index \in OrAbove(x) /\ Covers(cells[c], i)
      BY <2>17 DEF HeldAbove
    <3>2. PICK d \in 1 .. l : w[d] = c
      BY <2>11, <3>1
    <3>3. d \in Live(swept, {}) /\ swept[d] = cells[c]
      BY <2>10, <3>2 DEF Live, l
    <3> QED BY <3>1, <3>3 DEF HeldAbove
  <2> QED BY <2>13, <2>14, <2>15, <2>16, <2>17 DEF Whole, swept, cells, dropped
<1> QED BY <1>2, <1>3

LEMMA PassProperties ==
    ASSUME NEW n \in Nat, NEW levels \in Int, NEW cells, Whole(cells, n, levels), NEW minimum
    PROVE  Whole(Pass(cells, minimum), n, levels) /\ HeldStill(cells, Pass(cells, minimum))
<1> DEFINE m == Len(cells)
           first == Fresh(cells)
<1>1. m \in Nat
  BY LenProperties DEF Whole, SoundCells
<1>1a. PICK f : Turns(f, cells, minimum, m)
  BY ONLY <1>1, PassSteps
<1>2. /\ f[0] = first
      /\ \A k \in 1 .. m : f[k] = Turn(f[k - 1], k, minimum)
      /\ Pass(cells, minimum) = Swept(f[m])
  BY ONLY <1>1a DEF Turns
<1>3. first.cells = cells /\ first.dropped = {}
  BY DEF Fresh
<1> DEFINE Good(pass) == PassIsSound(pass, n, levels) /\ Kin(first, pass)
           T == {k \in 0 .. m : Good(f[k])}
<1>4. Good(first)
  BY <1>3 DEF PassIsSound, Kin, Whole, Fresh
<1> HIDE DEF first
<1>5. ASSUME NEW k \in 1 .. m, k - 1 \in T PROVE k \in T
  <2> DEFINE pass == f[k - 1]
             next == f[k]
  <2>1. Good(pass)
    BY <1>5
  <2>2. next = Turn(pass, k, minimum)
    BY <1>2
  <2> HIDE DEF pass, next
  <2>3. k \in 1 .. Len(pass.cells)
    BY <1>3, <2>1 DEF Kin
  <2>4. PassIsSound(next, n, levels) /\ Kin(pass, next)
    BY <2>1, <2>2, <2>3, TurnProperties
  <2>5. Kin(first, next)
    BY <2>1, <2>4 DEF Kin
  <2>6. Good(next) /\ k \in 0 .. m
    BY <1>1, <2>4, <2>5
  <2> QED BY <2>6 DEF next
<1>6. Good(f[m])
  <2>1. 0 \in T
    BY <1>1, <1>2, <1>4
  <2> HIDE DEF T, Good
  <2>2. 0 .. m \subseteq T
    BY <1>1, <1>5, <2>1, UpTo
  <2>3. m \in T
    BY <1>1, <2>2
  <2> QED BY <2>3 DEF T
<1> DEFINE last == f[m]
<1>7. PassIsSound(last, n, levels) /\ Kin(first, last) /\ Pass(cells, minimum) = Swept(last)
  BY <1>2, <1>6
<1> HIDE DEF last, m
<1>8. last.dropped = {} => Ascending(last.cells)
  BY <1>3, <1>7 DEF Kin, Whole
<1>9. /\ Whole(Swept(last), n, levels)
      /\ \A i \in Nat : \A x :
             HeldAbove(last.cells, last.dropped, i, x) => HeldAbove(Swept(last), {}, i, x)
  BY <1>7, <1>8, SweptProperties
<1> QED BY <1>3, <1>7, <1>9 DEF Kin, HeldStill

\* Coarsening keeps every point in its leaf or above it.
LEMMA CoarsenedProperties ==
    ASSUME NEW n \in Nat, NEW levels \in Int, NEW cells, Whole(cells, n, levels), NEW minimum
    PROVE  Whole(Coarsened(cells, minimum), n, levels) /\ HeldStill(cells, Coarsened(cells, minimum))
<1> DEFINE m == Len(cells)
<1>1. m \in Nat
  BY LenProperties DEF Whole, SoundCells
<1>2. PICK f : /\ f[0] = cells
               /\ \A k \in 1 .. m : f[k] = Pass(f[k - 1], minimum)
               /\ coarsen_cells(cells, minimum) = f[Third(m)]
  BY ONLY <1>1, CoarsenSteps
<1> DEFINE Good(next) == Whole(next, n, levels) /\ HeldStill(cells, next)
           T == {k \in 0 .. m : Good(f[k])}
<1>3. Good(cells)
  BY DEF HeldStill
<1>4. ASSUME NEW k \in 1 .. m, k - 1 \in T PROVE k \in T
  <2> DEFINE a == f[k - 1]
             b == f[k]
  <2>1. Good(a) /\ b = Pass(a, minimum)
    BY <1>2, <1>4
  <2> HIDE DEF a, b
  <2>2. Whole(b, n, levels) /\ HeldStill(a, b)
    BY <2>1, PassProperties
  <2>3. Good(b) /\ k \in 0 .. m
    BY <1>1, <2>1, <2>2 DEF HeldStill
  <2> QED BY <2>3 DEF b
<1>5. \A k \in 0 .. m : Good(f[k])
  <2>1. 0 \in T
    BY <1>1, <1>2, <1>3
  <2> HIDE DEF T, Good
  <2>2. 0 .. m \subseteq T
    BY <1>1, <1>4, <2>1, UpTo
  <2> QED BY <2>2 DEF T
<1>6. Third(m) \in 0 .. m
  <2> HIDE DEF m
  <2> QED BY <1>1 DEF Third
<1>7. Good(coarsen_cells(cells, minimum))
  BY <1>2, <1>5, <1>6
<1> QED BY <1>3, <1>7 DEF Coarsened
-----------------------------------------------------------------------------
(* Joining runs. *)

\* Closing up the runs of a cell.
LEMMA ClosedSteps ==
    ASSUME NEW runs, NEW marked, NEW n \in Nat, n = Len(runs), n > 0
    PROVE  \E f : /\ f[1] = Only(runs[1])
                  /\ \A k \in 2 .. n : f[k] = Close(f[k - 1], runs[k], k \in marked)
                  /\ Closed(runs, marked) = f[n]
<1> DEFINE base == Only(runs[1])
           step(x, k) == Close(x, runs[k], k \in marked)
           Rec(f, m) == f = [k \in 1 .. m |-> IF k = 1 THEN base ELSE step(f[k - 1], k)]
           T == {m \in 0 .. n : m > 0 => \E f : Rec(f, m)}
<1>1. Closed(runs, marked) = (CHOOSE f : Rec(f, n))[n]
  BY DEF Closed, Only
<1>2. \A k \in 2 .. n : \A x : step(x, k) = Close(x, runs[k], k \in marked)
  OBVIOUS
<1> HIDE DEF step
<1>3. \A f : \A m \in Nat :
          (f = [k \in 1 .. m |-> f[k]] /\ \A k \in 1 .. m : f[k] = IF k = 1 THEN base ELSE step(f[k - 1], k))
            => Rec(f, m)
  OBVIOUS
<1>4. \A f : \A m \in Nat :
          Rec(f, m) => \A k \in 1 .. m : f[k] = IF k = 1 THEN base ELSE step(f[k - 1], k)
  OBVIOUS
<1> HIDE DEF Rec, base
<1>5. \E f : Rec(f, 1)
  <2> DEFINE g == [k \in 1 .. 1 |-> base]
  <2>1. g = [k \in 1 .. 1 |-> g[k]] /\ \A k \in 1 .. 1 : g[k] = IF k = 1 THEN base ELSE step(g[k - 1], k)
    OBVIOUS
  <2> HIDE DEF g
  <2>2. Rec(g, 1)
    BY <2>1, <1>3
  <2> QED BY <2>2
<1>6. ASSUME NEW m \in 1 .. n, m - 1 \in T PROVE m \in T
  <2>0. CASE m = 1
    BY <1>5, <2>0
  <2> SUFFICES ASSUME m # 1 PROVE m \in T
    BY <2>0
  <2>1. PICK g : Rec(g, m - 1)
    BY <1>6
  <2> DEFINE x == step(g[m - 1], m)
             h == [k \in 1 .. m |-> IF k = m THEN x ELSE g[k]]
  <2>2. h[m] = x /\ \A k \in 1 .. m - 1 : h[k] = g[k]
    OBVIOUS
  <2>3. h = [k \in 1 .. m |-> h[k]]
    OBVIOUS
  <2> HIDE DEF h
  <2>4. \A k \in 1 .. m - 1 : g[k] = IF k = 1 THEN base ELSE step(g[k - 1], k)
    BY <2>1, <1>4
  <2>5. ASSUME NEW k \in 1 .. m
        PROVE  h[k] = IF k = 1 THEN base ELSE step(h[k - 1], k)
    <3>1. k # 1 => k - 1 \in 1 .. m - 1
      OBVIOUS
    <3>2. CASE k = m
      BY <2>2, <3>1, <3>2
    <3>3. CASE k # m
      <4>1. k \in 1 .. m - 1 /\ h[k] = g[k]
        BY <2>2, <3>3
      <4>2. k # 1 => h[k - 1] = g[k - 1]
        BY <2>2, <3>1
      <4> QED BY <2>4, <4>1, <4>2
    <3> QED BY <3>2, <3>3
  <2>6. Rec(h, m)
    <3>1. m \in Nat /\ \A k \in 1 .. m : h[k] = IF k = 1 THEN base ELSE step(h[k - 1], k)
      BY <2>5
    <3> QED BY ONLY <1>3, <2>3, <3>1
  <2> QED BY <2>6
<1>7. 0 .. n \subseteq T
  <2>1. 0 \in T
    OBVIOUS
  <2> QED BY <1>6, <2>1, UpTo
<1> DEFINE f == CHOOSE g : Rec(g, n)
<1>8. Rec(f, n)
  BY <1>7
<1> HIDE DEF f
<1>9. f[1] = base /\ \A k \in 2 .. n : f[k] = step(f[k - 1], k)
  BY <1>4, <1>8
<1> QED BY <1>1, <1>2, <1>9 DEF f, base

LEMMA CloseProperties ==
    ASSUME NEW list, RunsAreSound(list), list # <<>>, NEW gap \in Nat, Apart(list, gap),
           NEW next \in Runs, next.start <= next.end,
           next.start - list[Len(list)].end > gap, NEW marked
    PROVE  LET c == Close(list, next, marked)
           IN  /\ RunsAreSound(c) /\ c # <<>> /\ Apart(c, gap)
               /\ c[Len(c)].end = next.end
               /\ Under(next, c)
               /\ \A run \in Runs : Under(run, list) => Under(run, c)
               /\ \A r \in 1 .. Len(c) :
                      /\ c[r].start = next.start \/ \E s \in 1 .. Len(list) : c[r].start = list[s].start
                      /\ c[r].end = next.end \/ \E s \in 1 .. Len(list) : c[r].end = list[s].end
<1> DEFINE c == Close(list, next, marked)
           n == Len(list)
           last == list[n]
           grown == [start |-> last.start, end |-> next.end]
<1>1. list \in Seq(Runs) /\ n \in Nat /\ n >= 1 /\ n \in 1 .. n
  BY EmptySeq DEF RunsAreSound
<1>2. \A r \in 1 .. n : /\ list[r] \in Runs /\ list[r].start \in Int /\ list[r].end \in Int
                        /\ list[r].start <= list[r].end
  BY SoundRuns
<1>3. next.start \in Int /\ next.end \in Int
  BY DEF Runs
<1>4. \A r, s \in 1 .. n : r < s => list[s].start - list[r].end > gap
  BY DEF Apart
<1>5. last \in Runs /\ last.start \in Int /\ last.end \in Int /\ last.start <= last.end
      /\ next.start - last.end > gap
  BY <1>1, <1>2
<1>6. \A r \in 1 .. n : r < n => last.start - list[r].end > gap
  BY <1>1, <1>4
<1>7. CASE ~marked
  <2>1. c = Append(list, next)
    BY <1>7 DEF Close
  <2>2. /\ c \in Seq(Runs) /\ c # <<>> /\ Len(c) = n + 1
        /\ \A r \in 1 .. n : c[r] = list[r]
        /\ c[n + 1] = next
    BY <1>1, <2>1, AppendProperties
  <2> HIDE DEF c, n
  <2>3. \A r \in 1 .. n + 1 : r = n + 1 \/ r \in 1 .. n
    BY <1>1
  <2>4. RunsAreSound(c)
    <3> SUFFICES ASSUME NEW r \in 1 .. n + 1 PROVE c[r].start <= c[r].end
      BY <2>2 DEF RunsAreSound
    <3> QED BY <1>2, <2>2, <2>3
  <2>5. Apart(c, gap)
    <3> SUFFICES ASSUME NEW r \in 1 .. n + 1, NEW s \in 1 .. n + 1, r < s
                 PROVE  c[s].start - c[r].end > gap
      BY <2>2 DEF Apart
    <3>1. r \in 1 .. n /\ c[r] = list[r]
      BY <1>1, <2>2
    <3>2. CASE s \in 1 .. n
      BY <1>4, <2>2, <3>1, <3>2
    <3>3. CASE s = n + 1
      <4> DEFINE a == list[r].end
                 b == last.end
                 d == last.start
                 e == next.start
      <4>1. a \in Int /\ b \in Int /\ d \in Int /\ e \in Int /\ d <= b /\ e - b > gap
        BY <1>2, <1>3, <1>5, <3>1
      <4>2. (r < n => d - a > gap) /\ (r = n => a = b)
        BY <1>6, <3>1
      <4> HIDE DEF a, b, d, e
      <4>3. e - a > gap
        BY <1>1, <3>1, <4>1, <4>2
      <4> QED BY <2>2, <3>1, <3>3, <4>3 DEF a, e
    <3> QED BY <2>3, <3>2, <3>3
  <2>6. Under(next, c)
    BY <1>1, <1>3, <2>2 DEF Under
  <2>7. ASSUME NEW run \in Runs, Under(run, list) PROVE Under(run, c)
    <3>1. PICK r \in 1 .. n : list[r].start <= run.start /\ run.end <= list[r].end
      BY <2>7 DEF Under, n
    <3>2. r \in 1 .. Len(c) /\ c[r] = list[r]
      BY <1>1, <2>2, <3>1
    <3> QED BY <3>1, <3>2 DEF Under
  <2>8. ASSUME NEW r \in 1 .. Len(c)
        PROVE  /\ c[r].start = next.start \/ \E s \in 1 .. Len(list) : c[r].start = list[s].start
               /\ c[r].end = next.end \/ \E s \in 1 .. Len(list) : c[r].end = list[s].end
    <3>1. r = n + 1 \/ r \in 1 .. n
      BY <1>1, <2>2
    <3> QED BY <2>2, <3>1 DEF n
  <2>9. c[Len(c)].end = next.end
    BY <2>2
  <2> QED BY <2>2, <2>4, <2>5, <2>6, <2>7, <2>8, <2>9 DEF c
<1>8. CASE marked
  <2>1. grown \in Runs /\ grown.start = last.start /\ grown.end = next.end
        /\ grown.end >= last.end /\ grown.start <= next.start
    BY <1>3, <1>5 DEF Runs
  <2>2. c = [list EXCEPT ![n] = grown]
    <3>1. c = [list EXCEPT ![n] = [last EXCEPT !.end = next.end]]
      BY <1>8 DEF Close
    <3>2. [last EXCEPT !.end = next.end] = grown
      BY <1>5 DEF Runs
    <3> QED BY <3>1, <3>2
  <2>3. /\ c \in Seq(Runs) /\ Len(c) = n
        /\ \A r \in 1 .. n : c[r] = IF r = n THEN grown ELSE list[r]
    <3> HIDE DEF grown
    <3> QED BY <1>1, <2>1, <2>2, ExceptSeq
  <2> HIDE DEF c, n, grown
  <2>4. \A r \in 1 .. n : /\ c[r].start = list[r].start
                          /\ c[r].end >= list[r].end /\ c[r].end \in Int
                          /\ c[r].end = IF r = n THEN next.end ELSE list[r].end
    <3> TAKE r \in 1 .. n
    <3>1. CASE r = n
      <4>1. c[r] = grown /\ list[r] = last
        BY <2>3, <3>1
      <4> QED BY <1>3, <2>1, <3>1, <4>1
    <3>2. CASE r # n
      <4>1. c[r] = list[r]
        BY <2>3, <3>2
      <4> QED BY <1>2, <3>2, <4>1
    <3> QED BY <3>1, <3>2
  <2>5. RunsAreSound(c)
    <3> SUFFICES ASSUME NEW r \in 1 .. n PROVE c[r].start <= c[r].end
      BY <2>3 DEF RunsAreSound
    <3> DEFINE a == list[r].start
               b == list[r].end
               d == c[r].end
    <3>1. a \in Int /\ b \in Int /\ d \in Int /\ a <= b /\ b <= d /\ c[r].start = a
      BY <1>2, <2>4
    <3> HIDE DEF a, b, d
    <3>2. a <= d
      BY <3>1
    <3> QED BY <3>1, <3>2 DEF d
  <2>6. Apart(c, gap)
    <3> SUFFICES ASSUME NEW r \in 1 .. n, NEW s \in 1 .. n, r < s
                 PROVE  c[s].start - c[r].end > gap
      BY <2>3 DEF Apart
    <3>1. r # n
      BY <1>1
    <3>2. c[r].end = list[r].end /\ c[s].start = list[s].start
      BY <2>4, <3>1
    <3> QED BY <1>4, <3>2
  <2>7. Under(next, c)
    <3>1. c[n] = grown /\ n \in 1 .. Len(c)
      BY <1>1, <2>3
    <3> QED BY <1>3, <2>1, <3>1 DEF Under
  <2>8. ASSUME NEW run \in Runs, Under(run, list) PROVE Under(run, c)
    <3>1. PICK r \in 1 .. n : list[r].start <= run.start /\ run.end <= list[r].end
      BY <2>8 DEF Under, n
    <3>2. r \in 1 .. Len(c) /\ c[r].start <= run.start /\ run.end <= c[r].end
      <4>1. run.end \in Int /\ list[r].end \in Int /\ c[r].end \in Int /\ c[r].end >= list[r].end
        BY <1>2, <2>4, <3>1 DEF Runs
      <4> QED BY <2>3, <2>4, <3>1, <4>1
    <3> QED BY <3>2 DEF Under
  <2>9. ASSUME NEW r \in 1 .. Len(c)
        PROVE  /\ c[r].start = next.start \/ \E s \in 1 .. Len(list) : c[r].start = list[s].start
               /\ c[r].end = next.end \/ \E s \in 1 .. Len(list) : c[r].end = list[s].end
    <3>1. r \in 1 .. n /\ c[r].start = list[r].start
      BY <2>3, <2>4
    <3>2. c[r].end = next.end \/ c[r].end = list[r].end
      BY <2>4, <3>1
    <3> QED BY <3>1, <3>2 DEF n
  <2>10. c[Len(c)].end = next.end /\ c # <<>>
    BY <1>1, <2>3, <2>4
  <2> QED BY <2>5, <2>6, <2>7, <2>8, <2>9, <2>10 DEF c
<1> QED BY <1>7, <1>8
\* Closing up loses nothing, whatever is marked.
LEMMA ClosedProperties ==
    ASSUME NEW n \in Nat, NEW runs, RunsAreSound(runs), runs # <<>>, Bounded(runs, n),
           NEW gap \in Nat, Apart(runs, gap), NEW marked
    PROVE  LET c == Closed(runs, marked)
           IN  /\ RunsAreSound(c) /\ c # <<>> /\ Apart(c, gap) /\ Bounded(c, n)
               /\ \A i \in Nat : Holds(runs, i) => Holds(c, i)
<1> DEFINE m == Len(runs)
           c == Closed(runs, marked)
<1>1. /\ runs \in Seq(Runs) /\ m \in Nat /\ m >= 1
      /\ \A r \in 1 .. m : /\ runs[r] \in Runs /\ runs[r].start \in Int /\ runs[r].end \in Int
                           /\ runs[r].start <= runs[r].end
  <2>1. runs \in Seq(Runs) /\ m \in Nat
        /\ \A r \in 1 .. m : /\ runs[r] \in Runs /\ runs[r].start \in Int /\ runs[r].end \in Int
                             /\ runs[r].start <= runs[r].end
    BY SoundRuns
  <2> QED BY <2>1, EmptySeq
<1>2. PICK f : /\ f[1] = Only(runs[1])
               /\ \A k \in 2 .. m : f[k] = Close(f[k - 1], runs[k], k \in marked)
               /\ c = f[m]
  <2>1. m \in Nat /\ m > 0
    BY <1>1
  <2> QED BY ONLY <2>1, ClosedSteps
<1> HIDE DEF c
<1> DEFINE Good(k) == /\ RunsAreSound(f[k]) /\ f[k] # <<>> /\ Apart(f[k], gap)
                      /\ f[k][Len(f[k])].end = runs[k].end
                      /\ \A i \in 1 .. k : Under(runs[i], f[k])
                      /\ \A r \in 1 .. Len(f[k]) :
                             /\ \E i \in 1 .. m : f[k][r].start = runs[i].start
                             /\ \E i \in 1 .. m : f[k][r].end = runs[i].end
           T == {k \in 0 .. m : k > 0 => Good(k)}
<1>3. Good(1)
  <2>1. f[1] = <<runs[1]>> /\ 1 \in 1 .. m
    BY <1>1, <1>2 DEF Only
  <2>2. f[1] \in Seq(Runs) /\ Len(f[1]) = 1 /\ f[1][1] = runs[1] /\ f[1] # <<>>
    BY <1>1, <2>1
  <2> HIDE DEF m
  <2>3. RunsAreSound(f[1]) /\ Apart(f[1], gap)
    BY <1>1, <2>1, <2>2 DEF RunsAreSound, Apart
  <2>4. Under(runs[1], f[1])
    BY <1>1, <2>1, <2>2 DEF Under
  <2> QED BY <2>1, <2>2, <2>3, <2>4
<1>4. ASSUME NEW k \in 1 .. m, k - 1 \in T PROVE k \in T
  <2>1. CASE k = 1
    <3> HIDE DEF Good
    <3> QED BY <1>1, <1>3, <2>1
  <2>2. CASE k # 1
    <3> DEFINE a == f[k - 1]
               b == f[k]
               next == runs[k]
               joins == k \in marked
    <3>1. k \in 2 .. m /\ k - 1 \in 1 .. m /\ k \in Int
      BY <1>1, <2>2
    <3>2. Good(k - 1)
      BY <1>4, <3>1
    <3>3. b = Close(a, next, joins)
      BY <1>2, <3>1
    <3>4. next \in Runs /\ next.start <= next.end
      BY <1>1
    <3>5. next.start - a[Len(a)].end > gap
      <4>1. a[Len(a)].end = runs[k - 1].end
        BY <3>2
      <4>2. runs[k].start - runs[k - 1].end > gap
        BY <3>1 DEF Apart
      <4> QED BY <4>1, <4>2
    <3>6. RunsAreSound(a) /\ a # <<>> /\ Apart(a, gap)
      BY <3>2
    <3>7. /\ \A i \in 1 .. k - 1 : Under(runs[i], a)
          /\ \A r \in 1 .. Len(a) : /\ \E i \in 1 .. m : a[r].start = runs[i].start
                                    /\ \E i \in 1 .. m : a[r].end = runs[i].end
      BY <3>2
    <3> HIDE DEF a, b
    <3>8. /\ RunsAreSound(b) /\ b # <<>> /\ Apart(b, gap)
          /\ b[Len(b)].end = next.end
          /\ Under(next, b)
          /\ \A run \in Runs : Under(run, a) => Under(run, b)
          /\ \A r \in 1 .. Len(b) :
                 /\ b[r].start = next.start \/ \E s \in 1 .. Len(a) : b[r].start = a[s].start
                 /\ b[r].end = next.end \/ \E s \in 1 .. Len(a) : b[r].end = a[s].end
      <4> HIDE DEF next, joins
      <4> QED BY <3>3, <3>4, <3>5, <3>6, CloseProperties
    <3>9. ASSUME NEW i \in 1 .. k PROVE Under(runs[i], b)
      <4>1. CASE i = k
        BY <3>8, <4>1
      <4>2. CASE i # k
        <5>1. i \in 1 .. k - 1 /\ i \in 1 .. m
          BY <3>1, <4>2
        <5> QED BY <1>1, <3>7, <3>8, <5>1
      <4> QED BY <4>1, <4>2
    <3>10. ASSUME NEW r \in 1 .. Len(b)
           PROVE  /\ \E i \in 1 .. m : b[r].start = runs[i].start
                  /\ \E i \in 1 .. m : b[r].end = runs[i].end
      <4>1. \E i \in 1 .. m : b[r].start = runs[i].start
        <5>1. CASE b[r].start = next.start
          BY <5>1
        <5>2. CASE \E s \in 1 .. Len(a) : b[r].start = a[s].start
          BY <3>7, <5>2
        <5> QED BY <3>8, <5>1, <5>2
      <4>2. \E i \in 1 .. m : b[r].end = runs[i].end
        <5>1. CASE b[r].end = next.end
          BY <5>1
        <5>2. CASE \E s \in 1 .. Len(a) : b[r].end = a[s].end
          BY <3>7, <5>2
        <5> QED BY <3>8, <5>1, <5>2
      <4> QED BY <4>1, <4>2
    <3>11. Good(k)
      BY <3>8, <3>9, <3>10 DEF b
    <3> HIDE DEF Good
    <3> QED BY <1>1, <3>11
  <2> QED BY <2>1, <2>2
<1>5. Good(m)
  <2>1. 0 \in T
    BY <1>1
  <2> HIDE DEF T, Good
  <2>2. 0 .. m \subseteq T
    <3> HIDE DEF m
    <3> QED BY <1>1, <1>4, <2>1, UpTo
  <2>3. m \in T /\ m > 0
    BY <1>1, <2>2
  <2> QED BY <2>3 DEF T
<1>6. /\ RunsAreSound(c) /\ c # <<>> /\ Apart(c, gap)
      /\ \A i \in 1 .. m : Under(runs[i], c)
      /\ \A r \in 1 .. Len(c) : /\ \E i \in 1 .. m : c[r].start = runs[i].start
                                /\ \E i \in 1 .. m : c[r].end = runs[i].end
  BY <1>2, <1>5
<1> HIDE DEF Good, T
<1>7. Bounded(c, n)
  <2> SUFFICES ASSUME NEW r \in 1 .. Len(c) PROVE c[r].start >= 0 /\ c[r].end < n
    BY DEF Bounded
  <2>1. PICK s \in 1 .. m : c[r].start = runs[s].start
    BY <1>6
  <2>2. PICK t \in 1 .. m : c[r].end = runs[t].end
    BY <1>6
  <2> QED BY <2>1, <2>2 DEF Bounded
<1>8. ASSUME NEW i \in Nat, Holds(runs, i) PROVE Holds(c, i)
  <2>1. PICK r \in 1 .. m : i \in runs[r].start .. runs[r].end
    BY <1>8 DEF Holds
  <2>2. PICK s \in 1 .. Len(c) : c[s].start <= runs[r].start /\ runs[r].end <= c[s].end
    BY <1>6 DEF Under
  <2>3. runs[r].start \in Int /\ runs[r].end \in Int /\ c[s].start \in Int /\ c[s].end \in Int
    BY <1>1, <1>6, SoundRuns
  <2>4. i \in c[s].start .. c[s].end
    BY <2>1, <2>2, <2>3
  <2> QED BY <2>4 DEF Holds
<1> QED BY <1>6, <1>7, <1>8 DEF c

\* Joining the runs of a cell loses none of its points.
LEMMA JoinedAtProperties ==
    ASSUME NEW n \in Nat, NEW levels, NEW cells, Whole(cells, n, levels), NEW gaps
    PROVE  Whole(JoinedAt(cells, gaps), n, levels) /\ HeldStill(cells, JoinedAt(cells, gaps))
<1> DEFINE m == Len(cells)
           marked(c) == {g.at : g \in {h \in gaps : h.cell = c}}
           new == JoinedAt(cells, gaps)
<1>1. cells \in Seq(Cell) /\ m \in Nat /\ DOMAIN cells = 1 .. m /\ \A c \in 1 .. m : SoundCell(cells[c], n)
  BY LenProperties DEF Whole, SoundCells
<1>2. new = [c \in 1 .. m |-> [cells[c] EXCEPT !.runs = Closed(@, marked(c))]]
  BY <1>1 DEF JoinedAt
<1> HIDE DEF new, marked
<1>3. ASSUME NEW c \in 1 .. m
      PROVE  /\ SoundCell(new[c], n) /\ new[c].index = cells[c].index
             /\ \A i \in Nat : Covers(cells[c], i) => Covers(new[c], i)
  <2> DEFINE cell == cells[c]
             runs == cell.runs
             closed == Closed(runs, marked(c))
  <2>1. SoundCell(cell, n)
    BY <1>1
  <2>2. RunsAreSound(runs) /\ Bounded(runs, n) /\ runs # <<>> /\ Apart(runs, RunGap)
    BY <2>1, CellHolds DEF SoundCell
  <2>3. cell = [index |-> cell.index, full |-> cell.full, runs |-> runs]
        /\ cell.index \in Nat /\ cell.full \in Int /\ cell.index \in InTree
    BY <2>1 DEF SoundCell, Cell
  <2>4. new[c] = [cell EXCEPT !.runs = closed]
    BY <1>2
  <2> HIDE DEF closed, runs
  <2>5. new[c] = [index |-> cell.index, full |-> cell.full, runs |-> closed]
    <3> HIDE DEF cell
    <3> QED BY <2>3, <2>4
  <2>6. /\ RunsAreSound(closed) /\ closed # <<>> /\ Apart(closed, RunGap) /\ Bounded(closed, n)
        /\ \A i \in Nat : Holds(runs, i) => Holds(closed, i)
    BY <2>2, ClosedProperties, BuilderAssumption DEF closed
  <2>7. new[c].runs = closed /\ new[c].index = cell.index /\ new[c] \in Cell
    <3>1. closed \in Seq(Runs)
      BY <2>6 DEF RunsAreSound
    <3> HIDE DEF cell
    <3> QED BY <2>3, <2>5, <3>1 DEF Cell
  <2>8. SoundCell(new[c], n)
    BY <2>3, <2>6, <2>7 DEF SoundCell, Bounded
  <2>9. \A i \in Nat : Covers(cell, i) => Covers(new[c], i)
    BY <2>1, <2>6, <2>7, <2>8, CellHolds DEF runs
  <2> QED BY <2>7, <2>8, <2>9
<1>4. new \in Seq(Cell) /\ Len(new) = m
  <2>1. \A c \in 1 .. m : new[c] \in Cell
    BY <1>3 DEF SoundCell
  <2>2. new \in [1 .. m -> Cell]
    <3>1. new = [c \in 1 .. m |-> new[c]]
      BY <1>2
    <3> QED BY <2>1, <3>1
  <2>3. new \in Seq(Cell)
    BY <1>1, <2>2, SeqDef
  <2>4. DOMAIN new = 1 .. m
    BY <2>2
  <2> QED BY <1>1, <2>3, <2>4, LenProperties
<1> HIDE DEF m
<1>5. Whole(new, n, levels)
  <2>1. SoundCells(new, n)
    BY <1>3, <1>4 DEF SoundCells
  <2>2. Ascending(new)
    BY <1>3, <1>4 DEF Whole, Ascending, m
  <2>3. NoDeeper(new, levels)
    BY <1>3, <1>4 DEF Whole, NoDeeper, m
  <2>4. Antichain(new, {})
    BY <1>3, <1>4 DEF Whole, Antichain, Live, m
  <2> QED BY <2>1, <2>2, <2>3, <2>4 DEF Whole
<1>6. ASSUME NEW i \in Nat, NEW x \in InTree, HeldAbove(cells, {}, i, x)
      PROVE  HeldAbove(new, {}, i, x)
  <2>1. PICK c \in 1 .. m : cells[c].index \in OrAbove(x) /\ Covers(cells[c], i)
    BY <1>6 DEF HeldAbove, Live, m
  <2>2. c \in Live(new, {})
    BY <1>4 DEF Live
  <2> QED BY <1>3, <2>1, <2>2 DEF HeldAbove
<1> QED BY <1>5, <1>6 DEF HeldStill, new

\* What laz_indexbuilder_complete leaves has every point that was added.
LEMMA CompleteProperties ==
    ASSUME NEW n \in Nat, NEW levels \in Int, NEW cells, Whole(cells, n, levels), NEW minimum, NEW asked
    PROVE  LET new == laz_indexbuilder_complete(Coarsened(cells, minimum), asked)
           IN  Whole(new, n, levels) /\ HeldStill(cells, new)
<1> DEFINE coarse == Coarsened(cells, minimum)
           new == laz_indexbuilder_complete(coarse, asked)
<1>1. Whole(coarse, n, levels) /\ HeldStill(cells, coarse)
  BY CoarsenedProperties
<1> HIDE DEF coarse
<1>2. new = coarse \/ \E gaps : new = JoinedAt(coarse, gaps)
  BY DEF laz_indexbuilder_complete, MergedDown, merge_intervals
<1> HIDE DEF new
<1>3. Whole(new, n, levels) /\ HeldStill(coarse, new)
  <2>1. CASE new = coarse
    BY <1>1, <2>1 DEF HeldStill
  <2>2. CASE \E gaps : new = JoinedAt(coarse, gaps)
    BY <1>1, <2>2, JoinedAtProperties
  <2> QED BY <1>2, <2>1, <2>2
<1>4. HeldStill(cells, new)
  BY <1>1, <1>3 DEF HeldStill
<1> QED BY <1>3, <1>4 DEF new, coarse
\* Whole numbers, whatever their digits.
-----------------------------------------------------------------------------
(* The tree over the points of a file. *)

LEMMA BitsIsNat ==
    ASSUME NEW n PROVE Bits(n) \in Nat
<1>1. IsFiniteSet(0 .. 29)
  <2>1. 0 \in Int /\ 29 \in Int
    OBVIOUS
  <2> QED BY <2>1, FS_Interval
<1> QED BY <1>1, FS_Subset, FS_CardinalityType DEF Bits

\* What Power computes.
LEMMA PowerSteps ==
    ASSUME NEW N, NEW n \in Nat, n = N
    PROVE  \E f : /\ f[0] = 1
                  /\ \A k \in 1 .. n : f[k] = 2 * f[k - 1]
                  /\ Power(n) = f[n]
<1> DEFINE base == 1
           step(x, k) == 2 * x
           Rec(f, m) == f = [k \in 0 .. m |-> IF k = 0 THEN base ELSE step(f[k - 1], k)]
           T == {m \in 0 .. n : \E f : Rec(f, m)}
<1>1. Power(n) = (CHOOSE f : Rec(f, n))[n]
  BY DEF Power
<1>2. \A k \in 1 .. n : \A x : step(x, k) = 2 * x
  OBVIOUS
<1> HIDE DEF step
<1>3. \A f : \A m \in Nat :
          (f = [k \in 0 .. m |-> f[k]] /\ \A k \in 0 .. m : f[k] = IF k = 0 THEN base ELSE step(f[k - 1], k))
            => Rec(f, m)
  OBVIOUS
<1>4. \A f : \A m \in Nat :
          Rec(f, m) => \A k \in 0 .. m : f[k] = IF k = 0 THEN base ELSE step(f[k - 1], k)
  OBVIOUS
<1> HIDE DEF Rec, base
<1>5. 0 \in T
  <2> DEFINE g == [k \in 0 .. 0 |-> base]
  <2>1. g = [k \in 0 .. 0 |-> g[k]] /\ \A k \in 0 .. 0 : g[k] = IF k = 0 THEN base ELSE step(g[k - 1], k)
    OBVIOUS
  <2> HIDE DEF g
  <2>2. Rec(g, 0)
    BY <2>1, <1>3
  <2> QED BY <2>2
<1>6. ASSUME NEW m \in 1 .. n, m - 1 \in T PROVE m \in T
  <2>1. PICK g : Rec(g, m - 1)
    BY <1>6
  <2> DEFINE x == step(g[m - 1], m)
             h == [k \in 0 .. m |-> IF k = m THEN x ELSE g[k]]
  <2>2. h[m] = x /\ \A k \in 0 .. m - 1 : h[k] = g[k]
    OBVIOUS
  <2>3. h = [k \in 0 .. m |-> h[k]]
    OBVIOUS
  <2> HIDE DEF h
  <2>4. \A k \in 0 .. m - 1 : g[k] = IF k = 0 THEN base ELSE step(g[k - 1], k)
    BY <2>1, <1>4
  <2>5. ASSUME NEW k \in 0 .. m
        PROVE  h[k] = IF k = 0 THEN base ELSE step(h[k - 1], k)
    <3>1. k # 0 => k - 1 \in 0 .. m - 1
      OBVIOUS
    <3>2. CASE k = m
      BY <2>2, <3>1, <3>2
    <3>3. CASE k # m
      <4>1. k \in 0 .. m - 1 /\ h[k] = g[k]
        BY <2>2, <3>3
      <4>2. k # 0 => h[k - 1] = g[k - 1]
        BY <2>2, <3>1
      <4> QED BY <2>4, <4>1, <4>2
    <3> QED BY <3>2, <3>3
  <2>6. Rec(h, m)
    <3>1. m \in Nat /\ \A k \in 0 .. m : h[k] = IF k = 0 THEN base ELSE step(h[k - 1], k)
      BY <2>5
    <3> QED BY ONLY <1>3, <2>3, <3>1
  <2> QED BY <2>6
<1>7. 0 .. n \subseteq T
  BY <1>5, <1>6, UpTo
<1> DEFINE f == CHOOSE g : Rec(g, n)
<1>8. Rec(f, n)
  BY <1>7
<1> HIDE DEF f
<1>9. f[0] = base /\ \A k \in 1 .. n : f[k] = step(f[k - 1], k)
  BY <1>4, <1>8
<1> QED BY <1>1, <1>2, <1>9 DEF f, base


LEMMA PowerProperties ==
    ASSUME NEW n \in Nat PROVE Power(n) \in Nat \ {0}
<1>1. PICK f : f[0] = 1 /\ (\A k \in 1 .. n : f[k] = 2 * f[k - 1]) /\ Power(n) = f[n]
  BY ONLY PowerSteps
<1> DEFINE T == {k \in 0 .. n : f[k] \in Nat \ {0}}
<1>2. 0 \in T
  BY <1>1
<1>3. ASSUME NEW k \in 1 .. n, k - 1 \in T PROVE k \in T
  BY <1>1, <1>3
<1> HIDE DEF T
<1>4. 0 .. n \subseteq T
  BY <1>2, <1>3, UpTo
<1>5. n \in T
  BY <1>4
<1> QED BY <1>1, <1>5 DEF T

LEMMA F32IsInt ==
    ASSUME NEW n \in Int PROVE F32(n) \in Int
<1>1. ASSUME NEW k \in Nat PROVE Rounded(k) \in Int
  <2>1. Bits(k) \in Nat /\ MantissaBits \in Nat
    BY BitsIsNat, TreeAssumption
  <2>2. CASE Bits(k) <= MantissaBits
    BY <2>2 DEF Rounded
  <2>3. CASE ~ (Bits(k) <= MantissaBits)
    <3> DEFINE e == Bits(k) - MantissaBits
               unit == Power(e)
    <3>1. e \in Nat
      BY <2>1, <2>3
    <3> HIDE DEF e
    <3>2. unit \in Int
      BY <3>1, PowerProperties
    <3>3. unit > 0
      BY <3>1, PowerProperties
    <3>4. Nearest(k, unit) = Rounded(k)
      BY <2>3 DEF Rounded, e
    <3> HIDE DEF unit
    <3>5. k \div unit \in Int
      BY <3>2, <3>3
    <3>6. Nearest(k, unit) = unit * (k \div unit + 1) \/ Nearest(k, unit) = unit * (k \div unit + 0)
      BY DEF Nearest
    <3> DEFINE d == k \div unit
    <3> HIDE DEF d
    <3>7. d \in Int /\ (Nearest(k, unit) = unit * (d + 1) \/ Nearest(k, unit) = unit * (d + 0))
      BY <3>5, <3>6 DEF d
    <3> QED BY <3>2, <3>4, <3>7
  <2> QED BY <2>2, <2>3
<1>2. CASE n < 0
  <2>1. -n \in Nat
    BY <1>2
  <2>2. Rounded(-n) \in Int
    BY <1>1, <2>1
  <2> QED BY <1>2, <2>2 DEF F32
<1>3. CASE ~ (n < 0)
  BY <1>1, <1>3 DEF F32
<1> QED BY <1>2, <1>3

\* Rounding and halving stay whole in the unit coordinates are in.
LEMMA MidIsInt ==
    ASSUME NEW low \in Int, NEW high \in Int PROVE Mid(low, high) \in Int
<1>1. F32(low + high) \in Int
  BY F32IsInt
<1> QED BY <1>1 DEF Mid

Box == [x0 : Int, x1 : Int, y0 : Int, y1 : Int]

LEMMA BoxFields ==
    ASSUME NEW a \in Int, NEW b \in Int, NEW c \in Int, NEW d \in Int
    PROVE  [x0 |-> a, x1 |-> b, y0 |-> c, y1 |-> d] \in Box
BY DEF Box

LEMMA QuarterIsBox ==
    ASSUME NEW box \in Box, NEW k PROVE Quarter(box, k) \in Box
<1>1. /\ box.x0 \in Int /\ box.x1 \in Int /\ box.y0 \in Int /\ box.y1 \in Int
      /\ Mid(box.x0, box.x1) \in Int /\ Mid(box.y0, box.y1) \in Int
  BY MidIsInt DEF Box
<1> DEFINE q == Quarter(box, k)
<1>2. q = [x0 |-> q.x0, x1 |-> q.x1, y0 |-> q.y0, y1 |-> q.y1]
  BY DEF Quarter
<1>3. q.x0 \in Int /\ q.x1 \in Int /\ q.y0 \in Int /\ q.y1 \in Int
  BY <1>1 DEF Quarter
<1> HIDE DEF q
<1>4. q \in Box
  BY <1>2, <1>3, BoxFields
<1> QED BY <1>4 DEF q

\* The least and the greatest of some numbers.
LEMMA Extremes ==
    ASSUME NEW n \in Nat, n > 0, NEW f, \A i \in 1 .. n : f[i] \in Int
    PROVE  /\ \E i \in 1 .. n : \A j \in 1 .. n : f[i] <= f[j]
           /\ \E i \in 1 .. n : \A j \in 1 .. n : f[i] >= f[j]
<1> DEFINE T == {m \in 0 .. n : m > 0 => /\ \E i \in 1 .. m : \A j \in 1 .. m : f[i] <= f[j]
                                         /\ \E i \in 1 .. m : \A j \in 1 .. m : f[i] >= f[j]}
<1>1. 0 \in T
  OBVIOUS
<1>2. ASSUME NEW m \in 1 .. n, m - 1 \in T PROVE m \in T
  <2>1. CASE m = 1
    <3>1. f[1] \in Int
      OBVIOUS
    <3> QED BY <2>1, <3>1
  <2>2. CASE m > 1
    <3>1. PICK i \in 1 .. m - 1 : \A j \in 1 .. m - 1 : f[i] <= f[j]
      BY <1>2, <2>2
    <3>2. PICK k \in 1 .. m - 1 : \A j \in 1 .. m - 1 : f[k] >= f[j]
      BY <1>2, <2>2
    <3>3. \A j \in 1 .. m : j \in 1 .. m - 1 \/ j = m
      OBVIOUS
    <3>4. f[i] \in Int /\ f[k] \in Int /\ f[m] \in Int
      OBVIOUS
    <3>5. \E x \in 1 .. m : \A j \in 1 .. m : f[x] <= f[j]
      <4>1. CASE f[i] <= f[m]
        BY <3>1, <3>3, <4>1
      <4>2. CASE f[m] < f[i]
        <5>1. \A j \in 1 .. m : f[m] <= f[j]
          BY <3>1, <3>3, <3>4, <4>2
        <5> QED BY <5>1
      <4> QED BY <3>4, <4>1, <4>2
    <3>6. \E x \in 1 .. m : \A j \in 1 .. m : f[x] >= f[j]
      <4>1. CASE f[k] >= f[m]
        BY <3>2, <3>3, <4>1
      <4>2. CASE f[m] > f[k]
        <5>1. \A j \in 1 .. m : f[m] >= f[j]
          BY <3>2, <3>3, <3>4, <4>2
        <5> QED BY <5>1
      <4> QED BY <3>4, <4>1, <4>2
    <3> QED BY <3>5, <3>6
  <2> QED BY <2>1, <2>2
<1> HIDE DEF T
<1>3. 0 .. n \subseteq T
  BY <1>1, <1>2, UpTo
<1>4. n \in T
  BY <1>3
<1> QED BY <1>4 DEF T

LEMMA MinIsOne ==
    ASSUME NEW S, NEW x \in S, \A y \in S : x <= y PROVE Min(S) \in S
BY DEF Min

LEMMA MaxIsOne ==
    ASSUME NEW S, NEW x \in S, \A y \in S : x >= y PROVE Max(S) \in S
BY DEF Max

Points == [x : Int, y : Int]

\* A tree is laid over whole numbers, and has no more levels than it may have.
LEMMA TreeProperties ==
    ASSUME NEW points \in Seq(Points), points # <<>>
    PROVE  LET tree == TreeOver(Extent(points))
           IN  /\ tree.box \in Box
               /\ tree.levels \in Nat
               /\ tree.ok => tree.levels \in 0 .. MaxLevels
<1> DEFINE n == Len(points)
           f == [i \in 1 .. n |-> points[i].x]
           g == [i \in 1 .. n |-> points[i].y]
           e == Extent(points)
<1>1. n \in Nat /\ n > 0 /\ DOMAIN points = 1 .. n /\ \A i \in 1 .. n : points[i] \in Points
  BY EmptySeq, LenProperties, ElementOfSeq
<1>2. \A i \in 1 .. n : /\ f[i] = points[i].x /\ g[i] = points[i].y
                        /\ f[i] \in Int /\ g[i] \in Int
  BY <1>1 DEF Points
<1> HIDE DEF f, g
<1>3. /\ {points[i].x : i \in DOMAIN points} = {f[i] : i \in 1 .. n}
      /\ {points[i].y : i \in DOMAIN points} = {g[i] : i \in 1 .. n}
  BY <1>1, <1>2
<1>4. e = [x0 |-> Min({f[i] : i \in 1 .. n}), x1 |-> Max({f[i] : i \in 1 .. n}),
           y0 |-> Min({g[i] : i \in 1 .. n}), y1 |-> Max({g[i] : i \in 1 .. n})]
  BY <1>3 DEF Extent
<1> HIDE DEF n, e
<1>5. /\ Min({f[i] : i \in 1 .. n}) \in Int /\ Max({f[i] : i \in 1 .. n}) \in Int
      /\ Min({g[i] : i \in 1 .. n}) \in Int /\ Max({g[i] : i \in 1 .. n}) \in Int
  <2> DEFINE F == {f[i] : i \in 1 .. n}
             G == {g[i] : i \in 1 .. n}
  <2>1. F \subseteq Int /\ G \subseteq Int
    BY <1>2
  <2>2. /\ \E x \in F : \A y \in F : x <= y
        /\ \E x \in F : \A y \in F : x >= y
    <3>1. /\ \E i \in 1 .. n : \A j \in 1 .. n : f[i] <= f[j]
          /\ \E i \in 1 .. n : \A j \in 1 .. n : f[i] >= f[j]
      BY <1>1, <1>2, Extremes
    <3> QED BY <3>1
  <2>3. /\ \E x \in G : \A y \in G : x <= y
        /\ \E x \in G : \A y \in G : x >= y
    <3>1. /\ \E i \in 1 .. n : \A j \in 1 .. n : g[i] <= g[j]
          /\ \E i \in 1 .. n : \A j \in 1 .. n : g[i] >= g[j]
      BY <1>1, <1>2, Extremes
    <3> QED BY <3>1
  <2> HIDE DEF F, G
  <2>4. Min(F) \in F /\ Max(F) \in F /\ Min(G) \in G /\ Max(G) \in G
    BY <2>2, <2>3, MinIsOne, MaxIsOne
  <2>5. Min(F) \in Int /\ Max(F) \in Int /\ Min(G) \in Int /\ Max(G) \in Int
    BY <2>1, <2>4
  <2> QED BY <2>5 DEF F, G
<1>6. e.x0 \in Int /\ e.x1 \in Int /\ e.y0 \in Int /\ e.y1 \in Int
  BY <1>4, <1>5
<1>7. CellSize \in Nat /\ CellSize > 0
  BY TreeAssumption
<1>8. ASSUME NEW v \in Int PROVE LowEdge(v) \in Int /\ HighEdge(v) \in Int
  <2>1. Trunc(v) \in Int
    BY <1>7 DEF Trunc
  <2>2. F32(Trunc(v)) \in Int
    BY <2>1, F32IsInt
  <2>3. F32(F32(Trunc(v)) - 1) \in Int /\ F32(F32(Trunc(v)) + 1) \in Int
    BY <2>2, F32IsInt
  <2> DEFINE a == IF v >= 0 THEN F32(Trunc(v)) ELSE F32(F32(Trunc(v)) - 1)
             b == IF v >= 0 THEN F32(F32(Trunc(v)) + 1) ELSE F32(Trunc(v))
  <2>4. a \in Int /\ b \in Int /\ LowEdge(v) = F32(CellSize * a) /\ HighEdge(v) = F32(CellSize * b)
    BY <2>2, <2>3 DEF LowEdge, HighEdge
  <2> HIDE DEF a, b
  <2>5. CellSize * a \in Int /\ CellSize * b \in Int
    BY <1>7, <2>4
  <2> QED BY <2>4, <2>5, F32IsInt
<1> DEFINE box == [x0 |-> LowEdge(e.x0), x1 |-> HighEdge(e.x1), y0 |-> LowEdge(e.y0), y1 |-> HighEdge(e.y1)]
           wide == CellsAcross(box.x0, box.x1)
           tall == CellsAcross(box.y0, box.y1)
           levels == Bits(Larger(wide, tall) - 1)
           x == Widened(box.x0, box.x1, Power(levels) - wide)
           y == Widened(box.y0, box.y1, Power(levels) - tall)
           tree == TreeOver(e)
<1>9. box.x0 \in Int /\ box.x1 \in Int /\ box.y0 \in Int /\ box.y1 \in Int
  BY <1>6, <1>8
<1>10. /\ tree.ok <=> wide > 0 /\ tall > 0 /\ levels <= MaxLevels
       /\ tree.levels = levels
       /\ tree.box = [x0 |-> x[1], x1 |-> x[2], y0 |-> y[1], y1 |-> y[2]]
  BY DEF TreeOver, SquareTree
<1> HIDE DEF box
<1>11. ASSUME NEW low \in Int, NEW high \in Int PROVE CellsAcross(low, high) \in Int
  <2>1. F32(high - low) \in Int
    BY F32IsInt
  <2> DEFINE f32 == F32(high - low)
             cell == CellSize
  <2>2. f32 \in Int /\ cell \in Nat /\ cell > 0
    BY <1>7, <2>1
  <2>3. CellsAcross(low, high) = IF high < low THEN 0 ELSE (2 * f32 + cell) \div (2 * cell)
    BY DEF CellsAcross
  <2> HIDE DEF f32, cell
  <2>4. (2 * f32 + cell) \in Int /\ 2 * cell \in Nat /\ 2 * cell > 0
    BY <2>2
  <2> DEFINE a == 2 * f32 + cell
             b == 2 * cell
  <2> HIDE DEF a, b
  <2>5. a \div b \in Int
    BY <2>4 DEF a, b
  <2> QED BY <2>3, <2>5 DEF a, b
<1>12. wide \in Int /\ tall \in Int
  BY <1>9, <1>11
<1>13. levels \in Nat /\ Power(levels) \in Int
  BY BitsIsNat, PowerProperties
<1> HIDE DEF wide, tall, levels
<1>14. ASSUME NEW low \in Int, NEW high \in Int, NEW slack \in Int
       PROVE  Widened(low, high, slack)[1] \in Int /\ Widened(low, high, slack)[2] \in Int
  <2> DEFINE half == slack \div 2
             rest == slack - half
             a == F32(CellSize * rest)
             b == F32(CellSize * half)
  <2>1. half \in Int /\ rest \in Int
    OBVIOUS
  <2>2. Widened(low, high, slack)[1] = F32(low - a) /\ Widened(low, high, slack)[2] = F32(high + b)
    BY DEF Widened
  <2> HIDE DEF half, rest
  <2>3. CellSize * rest \in Int /\ CellSize * half \in Int
    BY <1>7, <2>1
  <2>4. a \in Int /\ b \in Int
    BY <2>3, F32IsInt
  <2> HIDE DEF a, b
  <2>5. low - a \in Int /\ high + b \in Int
    BY <2>4
  <2> QED BY <2>2, <2>5, F32IsInt
<1>15. x[1] \in Int /\ x[2] \in Int /\ y[1] \in Int /\ y[2] \in Int
  <2>1. Power(levels) - wide \in Int /\ Power(levels) - tall \in Int
    BY <1>12, <1>13
  <2> QED BY <1>9, <1>14, <2>1
<1> HIDE DEF x, y
<1>16. tree.box \in Box
  BY <1>10, <1>15, BoxFields
<1> HIDE DEF tree
<1>17. tree.levels \in Nat /\ (tree.ok => tree.levels \in 0 .. MaxLevels)
  <2>1. MaxLevels \in Nat
    BY TreeAssumption
  <2> QED BY <1>10, <1>13, <2>1
<1> QED BY <1>16, <1>17 DEF tree, e

-----------------------------------------------------------------------------
(* An index while it is built. *)

LEMMA LeafInTree ==
    ASSUME NEW tree, tree.levels \in 0 .. MaxLevels, NEW p
    PROVE  Leaf(tree, p) \in InTree /\ LevelOf(Leaf(tree, p)) = tree.levels
<1>1. PICK w : /\ Descends(w, tree, p)
               /\ \A l \in 0 .. tree.levels :
                      /\ LevelOffset(l) + w[l].at \in InTree
                      /\ LevelOf(LevelOffset(l) + w[l].at) = l
                      /\ l > 0 => Parent(LevelOffset(l) + w[l].at) = LevelOffset(l - 1) + w[l - 1].at
  BY LeafProperties
<1>2. tree.levels \in 0 .. tree.levels
  BY TreeAssumption
<1>3. Leaf(tree, p) = LevelOffset(tree.levels) + w[tree.levels].at
  BY <1>1 DEF Descends
<1> QED BY <1>1, <1>2, <1>3

\* What is being built is over the points of the file, and holds those added:
\* each in its leaf at first, in a cell above it perhaps once it is complete.
SoundTree(points, tree) ==
    /\ tree = TreeOver(Extent(points)) /\ tree.ok
    /\ tree.box \in Box
    /\ tree.levels \in 0 .. MaxLevels

HoldsAll(points, tree, cells, n) ==
    \A i \in 0 .. n - 1 : HeldAbove(cells, {}, i, Leaf(tree, points[i + 1]))

Finished(points, tree, cells) ==
    /\ SoundTree(points, tree)
    /\ Whole(cells, Len(points), tree.levels)
    /\ HoldsAll(points, tree, cells, Len(points))

SoundBuilder(points, n, b) ==
    \/ b = Idle
    \/ /\ n \in 0 .. Len(points)
       /\ SoundTree(points, b.tree)
       /\ Adding(b, n)
       /\ \A i \in 0 .. n - 1 : HeldIn(b.cells, i, Leaf(b.tree, points[i + 1]))
    \/ /\ b.phase = "complete"
       /\ n = Len(points)
       /\ Finished(points, b.tree, b.cells)

LEMMA SetupIsSound ==
    ASSUME NEW points \in Seq(Points), points # <<>>,
           NEW tree, tree = TreeOver(Extent(points)), tree.ok
    PROVE  SoundBuilder(points, 0, Building(tree))
<1> DEFINE b == Building(tree)
<1>1. /\ b = [phase |-> "adding", tree |-> b.tree, cells |-> b.cells,
              last_index |-> b.last_index, last_cell |-> b.last_cell]
      /\ b.cells = <<>> /\ b.last_index = -1 /\ b.tree = tree
  BY DEF Building
<1> HIDE DEF b
<1>2. Adding(b, 0)
  <2>1. b.cells \in Seq(Cell) /\ Len(b.cells) = 0
    BY <1>1
  <2> QED BY <1>1, <2>1 DEF Adding, SoundCells, Ascending, Remembers
<1>3. SoundTree(points, b.tree)
  BY <1>1, TreeProperties DEF SoundTree
<1>4. 0 \in 0 .. Len(points)
  BY LenProperties
<1>5. \A i \in 0 .. 0 - 1 : HeldIn(b.cells, i, Leaf(b.tree, points[i + 1]))
  OBVIOUS
<1>6. SoundBuilder(points, 0, b)
  BY <1>2, <1>3, <1>4, <1>5 DEF SoundBuilder
<1> QED BY <1>6 DEF b

LEMMA AddIsSound ==
    ASSUME NEW points \in Seq(Points), NEW n, n < Len(points), NEW b,
           b.phase = "adding", SoundBuilder(points, n, b)
    PROVE  SoundBuilder(points, n + 1, laz_indexbuilder_add(b, Leaf(b.tree, points[n + 1]), n))
<1> DEFINE leaf == Leaf(b.tree, points[n + 1])
           a == laz_indexbuilder_add(b, leaf, n)
<1>1. /\ n \in 0 .. Len(points) /\ SoundTree(points, b.tree) /\ Adding(b, n)
      /\ \A i \in 0 .. n - 1 : HeldIn(b.cells, i, Leaf(b.tree, points[i + 1]))
  BY DEF SoundBuilder, Idle
<1>2. n \in Nat /\ Len(points) \in Nat
  BY <1>1, LenProperties
<1>3. leaf \in InTree /\ LevelOf(leaf) = b.tree.levels
  BY <1>1, LeafInTree DEF SoundTree
<1> HIDE DEF leaf
<1>4. /\ Adding(a, n + 1) /\ a.tree = b.tree
      /\ HeldIn(a.cells, n, leaf)
      /\ \A i \in Nat : \A x : HeldIn(b.cells, i, x) => HeldIn(a.cells, i, x)
  BY <1>1, <1>2, <1>3, AddProperties
<1> HIDE DEF a
<1>5. ASSUME NEW i \in 0 .. (n + 1) - 1
      PROVE  HeldIn(a.cells, i, Leaf(a.tree, points[i + 1]))
  <2>1. i \in Nat /\ (i \in 0 .. n - 1 \/ i = n)
    BY <1>2
  <2>2. CASE i = n
    BY <1>4, <2>2 DEF leaf
  <2>3. CASE i \in 0 .. n - 1
    BY <1>1, <1>4, <2>1, <2>3
  <2> QED BY <2>1, <2>2, <2>3
<1>6. n + 1 \in 0 .. Len(points)
  BY <1>2
<1>7. SoundBuilder(points, n + 1, a)
  BY <1>1, <1>4, <1>5, <1>6 DEF SoundBuilder
<1> QED BY <1>7 DEF a, leaf

LEMMA AddedAreWhole ==
    ASSUME NEW n \in Nat, NEW b, Adding(b, n), b.tree.levels \in Int
    PROVE  Whole(b.cells, n, b.tree.levels)
<1> DEFINE cells == b.cells
           m == Len(cells)
<1>1. cells \in Seq(Cell) /\ m \in Nat /\ \A c \in 1 .. m : SoundCell(cells[c], n)
  BY LenProperties DEF Adding, SoundCells
<1>2. \A c \in 1 .. m : cells[c].index \in InTree /\ cells[c].index \in Int
  BY <1>1 DEF SoundCell, Cell
<1>3. \A c \in 1 .. m : LevelOf(cells[c].index) = b.tree.levels
  BY DEF Adding
<1>4. \A c, d \in 1 .. m : c < d => cells[c].index < cells[d].index
  BY DEF Adding, Ascending
<1> HIDE DEF m, cells
<1>5. ASSUME NEW c \in 1 .. m, NEW d \in 1 .. m, c # d
      PROVE  cells[c].index # cells[d].index /\ cells[c].index \notin Above(cells[d].index)
  <2>1. cells[c].index # cells[d].index
    <3>1. c < d \/ d < c
      BY <1>1, <1>5
    <3> QED BY <1>2, <1>4, <3>1
  <2>2. cells[c].index \notin Above(cells[d].index)
    <3> SUFFICES ASSUME cells[c].index \in Above(cells[d].index) PROVE FALSE
      OBVIOUS
    <3>1. LevelOf(cells[c].index) < LevelOf(cells[d].index)
      BY <1>2, AboveProperties
    <3> QED BY <1>3, <3>1
  <2> QED BY <2>1, <2>2
<1>6. Antichain(cells, {})
  BY <1>5 DEF Antichain, Live, m
<1>7. NoDeeper(cells, b.tree.levels)
  BY <1>3 DEF NoDeeper, m
<1> QED BY <1>6, <1>7 DEF Whole, Adding, cells

LEMMA CompleteIsSound ==
    ASSUME NEW points \in Seq(Points), NEW n, n = Len(points), NEW b,
           b.phase = "adding", SoundBuilder(points, n, b), NEW minimum, NEW asked
    PROVE  SoundBuilder(points, n, Completed(b, Coarsened(b.cells, minimum), minimum, asked))
<1> DEFINE levels == b.tree.levels
           cells == b.cells
           new == laz_indexbuilder_complete(Coarsened(cells, minimum), asked)
           c == Completed(b, Coarsened(cells, minimum), minimum, asked)
<1>1. /\ SoundTree(points, b.tree) /\ Adding(b, n)
      /\ \A i \in 0 .. n - 1 : HeldIn(cells, i, Leaf(b.tree, points[i + 1]))
  BY DEF SoundBuilder, Idle
<1>2. n \in Nat /\ levels \in Int /\ levels \in 0 .. MaxLevels
  BY <1>1, LenProperties DEF SoundTree
<1>3. Whole(cells, n, levels)
  BY <1>1, <1>2, AddedAreWhole
<1> HIDE DEF cells, levels
<1>4. Whole(new, n, levels) /\ HeldStill(cells, new)
  BY <1>2, <1>3, CompleteProperties
<1>5. c.phase = "complete" /\ c.tree = b.tree /\ c.cells = new
  BY DEF Completed
<1> HIDE DEF c, new
<1>6. ASSUME NEW i \in 0 .. n - 1
      PROVE  HeldAbove(new, {}, i, Leaf(b.tree, points[i + 1]))
  <2> DEFINE leaf == Leaf(b.tree, points[i + 1])
  <2>1. leaf \in InTree
    BY <1>2, LeafInTree DEF levels
  <2> HIDE DEF leaf
  <2>2. PICK k \in 1 .. Len(cells) : cells[k].index = leaf /\ Covers(cells[k], i)
    BY <1>1 DEF HeldIn, leaf
  <2>3. HeldAbove(cells, {}, i, leaf)
    BY <2>2 DEF HeldAbove, Live, OrAbove
  <2>4. i \in Nat
    BY <1>2
  <2>5. HeldAbove(new, {}, i, leaf)
    BY <1>4, <2>1, <2>3, <2>4 DEF HeldStill
  <2> QED BY <2>5 DEF leaf
<1>7. Finished(points, c.tree, c.cells)
  BY <1>1, <1>4, <1>5, <1>6 DEF Finished, HoldsAll, levels
<1>8. SoundBuilder(points, n, c)
  BY <1>5, <1>7 DEF SoundBuilder
<1> QED BY <1>8 DEF c, cells

BuildInv ==
    /\ file \in Seq(Points)
    /\ SoundBuilder(file, index, builder)
    /\ builder # Idle => region = None

\* BuildInv is the invariant of the build: the tree is over the points of the
\* file, and the cells hold those that were added.
LEMMA BuildInvInit ==
    ASSUME Init PROVE BuildInv
<1>1. file \in Seq(Points)
  <2>1. PICK given \in (Files \X {None}) \cup Beside : file = given[1]
    BY DEF Init
  <2>2. CASE given \in Files \X {None}
    BY <2>1, <2>2, BuilderAssumption DEF Points
  <2>3. CASE given \in Beside
    BY <2>1, <2>3, BesideAssumption DEF Points
  <2> QED BY <2>2, <2>3
<1>2. builder = Idle
  BY DEF Init, BuildInit
<1> QED BY <1>1, <1>2 DEF BuildInv, SoundBuilder

LEMMA BuildKeeps ==
    ASSUME BuildInv, Build PROVE BuildInv'
<1>1. region = None /\ region' = None
  BY DEF Build, queryVars
<1>2. CASE Setup
  <2>1. file' = file /\ index' = 0 /\ file # <<>>
    BY <1>2 DEF Setup
  <2> DEFINE tree == TreeOver(Extent(file))
  <2>2. builder' = IF tree.ok THEN Building(tree) ELSE Idle
    BY <1>2 DEF Setup
  <2>3. file \in Seq(Points)
    BY DEF BuildInv
  <2>4. SoundBuilder(file, 0, builder')
    <3>1. CASE tree.ok
      <4>1. SoundBuilder(file, 0, Building(tree))
        BY <2>1, <2>3, <3>1, SetupIsSound
      <4> QED BY <2>2, <3>1, <4>1
    <3>2. CASE ~ tree.ok
      BY <2>2, <3>2 DEF SoundBuilder
    <3> QED BY <3>1, <3>2
  <2> QED BY <1>1, <2>1, <2>3, <2>4 DEF BuildInv
<1>3. CASE Add
  <2> DEFINE b == laz_indexbuilder_add(builder, Leaf(builder.tree, file[index + 1]), index)
  <2>1. /\ file' = file /\ index' = index + 1 /\ index < Len(file)
        /\ builder.phase = "adding" /\ builder' = b
    BY <1>3 DEF Add
  <2>2. file \in Seq(Points) /\ SoundBuilder(file, index, builder)
    BY DEF BuildInv
  <2>3. SoundBuilder(file, index + 1, b)
    BY <2>1, <2>2, AddIsSound
  <2> QED BY <1>1, <2>1, <2>2, <2>3 DEF BuildInv
<1>4. CASE Complete
  <2>1. file' = file /\ index' = index /\ index = Len(file) /\ builder.phase = "adding"
    BY <1>4 DEF Complete
  <2>2. PICK minimum, asked : builder' = Completed(builder, Coarsened(builder.cells, minimum), minimum, asked)
    BY <1>4 DEF Complete
  <2>3. file \in Seq(Points) /\ SoundBuilder(file, index, builder)
    BY DEF BuildInv
  <2>4. SoundBuilder(file, index, builder')
    BY <2>1, <2>2, <2>3, CompleteIsSound
  <2> QED BY <1>1, <2>1, <2>3, <2>4 DEF BuildInv
<1>5. CASE Serialize
  BY <1>1, <1>5 DEF Serialize, BuildInv, SoundBuilder
<1> QED BY <1>2, <1>3, <1>4, <1>5 DEF Build, BuildNext

LEMMA BuildInvKept ==
    ASSUME BuildInv, [Next]_vars PROVE BuildInv'
<1>1. CASE Build
  BY <1>1, BuildKeeps
<1>2. CASE ReadWithin
  BY <1>2 DEF BuildInv, ReadWithin, SoundBuilder
<1>3. CASE Drop
  BY <1>3 DEF BuildInv, Drop, buildVars
<1>4. ASSUME NEW q \in Regions, PointsWithin(q) PROVE BuildInv'
  BY <1>4 DEF BuildInv, PointsWithin, buildVars, SoundBuilder
<1>5. ASSUME NEW q \in Regions, ArraysWithin(q) PROVE BuildInv'
  BY <1>5 DEF BuildInv, ArraysWithin, SoundBuilder
<1>6. CASE UNCHANGED vars
  BY <1>6 DEF BuildInv, vars, buildVars, queryVars
<1> QED BY <1>1, <1>2, <1>3, <1>4, <1>5, <1>6 DEF Next

LEMMA BuildInvCovers ==
    ASSUME BuildInv PROVE PointsAreCovered
<1> DEFINE n == index
           tree == builder.tree
           cells == builder.cells
<1> SUFFICES ASSUME builder # Idle, NEW i \in 0 .. n - 1
             PROVE  \E c \in DOMAIN cells :
                        Covers(cells[c], i) /\ cells[c].index \in OrAbove(Leaf(tree, file[i + 1]))
  BY DEF PointsAreCovered, Idle, OrAbove, Above
<1>1. DOMAIN cells = 1 .. Len(cells)
  <2>1. cells \in Seq(Cell)
    BY DEF BuildInv, SoundBuilder, Adding, Finished, Whole, SoundCells
  <2> QED BY <2>1, LenProperties
<1>2. CASE \A k \in 0 .. n - 1 : HeldIn(cells, k, Leaf(tree, file[k + 1]))
  BY <1>1, <1>2 DEF HeldIn, OrAbove
<1>3. CASE HoldsAll(file, tree, cells, n)
  BY <1>1, <1>3 DEF HoldsAll, HeldAbove, Live
<1> QED BY <1>2, <1>3 DEF BuildInv, SoundBuilder, Finished

LEMMA BuildInvAlways == Spec => []BuildInv
<1>1. Init => BuildInv
  BY BuildInvInit
<1>2. BuildInv /\ [Next]_vars => BuildInv'
  BY BuildInvKept
<1> QED BY <1>1, <1>2, PTL DEF Spec

\* Whatever is merged or joined, every point that has been added is found in the
\* runs of the leaf it falls in, or of a cell above that leaf: for any files,
\* thresholds and digits of a float (laz_indexbuild.c:229, 332, 420).
THEOREM PointsStayCovered == Spec => []PointsAreCovered
<1>1. BuildInv => PointsAreCovered
  BY BuildInvCovers
<1> QED BY <1>1, BuildInvAlways, PTL

-----------------------------------------------------------------------------
(* An index as it is read. *)

\* A cell as it is in an index.
Entry == [index : Nat, runs : Seq(Runs)]

SoundEntry(e) ==
    /\ e \in Entry
    /\ e.index \in InTree
    /\ RunsAreSound(e.runs)
    /\ \A r \in 1 .. Len(e.runs) : e.runs[r].start >= 0

SoundEntries(cells) == cells \in Seq(Entry) /\ \A c \in 1 .. Len(cells) : SoundEntry(cells[c])

\* The index that may be beside the file.
SoundLax(points, data) ==
    \/ data.kind # "lax" /\ data.own = FALSE
    \/ /\ data.kind = "lax" /\ data.own = FALSE
       /\ data.levels \in Nat
       /\ data.cells \in Seq([index : Int, runs : Seq([start : Nat, end : Nat])])
    \/ \E tree, cells : Finished(points, tree, cells) /\ data = Serialized(tree, cells)

\* An index that has been read, and one of the points themselves.
SoundIndex(x) ==
    /\ x.levels \in 0 .. MaxLevels
    /\ SoundEntries(x.cells)
    /\ x.subdivided = Subdivided(x.cells)

OwnIndex(points, x) ==
    /\ x.levels = TreeOver(Extent(points)).levels
    /\ x.box = TreeOver(Extent(points)).box /\ TreeOver(Extent(points)).ok
    /\ x.box \in Box
    /\ Antichain(x.cells, {})
    /\ NoDeeper(x.cells, x.levels)
    /\ \A c \in 1 .. Len(x.cells) : Apart(x.cells[c].runs, 0)
    /\ HoldsAll(points, x, x.cells, Len(points))

LEMMA SmallRemainder ==
    ASSUME NEW a \in Nat, NEW b \in Nat, a < b PROVE a % b = a
OBVIOUS

LEMMA RunFields ==
    ASSUME NEW run \in Runs PROVE Run(run.start, run.end) = run
BY DEF Run, Runs

\* Nothing is lost in the widths that runs are written in.
LEMMA PackedIsTheRun ==
    ASSUME NEW n, NEW cells, SoundCells(cells, n), n \in Nat,
           NEW c \in 1 .. Len(cells), NEW r \in 1 .. Len(cells[c].runs)
    PROVE  Packed(cells[c].runs[r], Wide(cells)) = cells[c].runs[r]
<1> DEFINE run == cells[c].runs[r]
<1>1. DOMAIN cells = 1 .. Len(cells) /\ SoundCell(cells[c], n)
  BY LenProperties DEF SoundCells
<1>2. /\ DOMAIN cells[c].runs = 1 .. Len(cells[c].runs)
      /\ run \in Runs /\ run.start \in Nat /\ run.end \in Nat /\ run.start <= run.end
  <2>1. /\ DOMAIN cells[c].runs = 1 .. Len(cells[c].runs)
        /\ \A k \in 1 .. Len(cells[c].runs) : /\ cells[c].runs[k] \in Runs
                                              /\ cells[c].runs[k].start \in 0 .. n - 1
                                              /\ cells[c].runs[k].end \in 0 .. n - 1
                                              /\ cells[c].runs[k].start <= cells[c].runs[k].end
    BY <1>1, RunsOfCell
  <2> QED BY <2>1
<1>3. CASE Wide(cells)
  BY <1>3 DEF Packed
<1>4. CASE ~ Wide(cells)
  <2>1. IndexWord \in Nat /\ IndexWord > 0
    BY BuilderAssumption
  <2>2. ~ (run.end > IndexWord - 1)
    BY <1>1, <1>2, <1>4 DEF Wide
  <2> HIDE DEF run
  <2>3. run.start % IndexWord = run.start /\ run.end % IndexWord = run.end
    <3>1. /\ run.start \in Nat /\ run.end \in Nat /\ IndexWord \in Nat
          /\ run.start < IndexWord /\ run.end < IndexWord
      BY <1>2, <2>1, <2>2
    <3> QED BY <3>1, SmallRemainder
  <2>4. Packed(run, Wide(cells)) = Run(run.start, run.end)
    BY <1>4, <2>3 DEF Packed
  <2> QED BY <1>2, <2>4, RunFields DEF run
<1> QED BY <1>3, <1>4

\* An index that was written has the cells and runs of the builder.
LEMMA SerializedCells ==
    ASSUME NEW n \in Nat, NEW tree, NEW cells, SoundCells(cells, n)
    PROVE  LET s == Serialized(tree, cells).cells
           IN  /\ SoundEntries(s)
               /\ Len(s) = Len(cells)
               /\ \A c \in 1 .. Len(cells) : /\ s[c].index = cells[c].index /\ s[c].runs = cells[c].runs
                                             /\ \A i : Covers(cells[c], i) => Covers(s[c], i)
<1> DEFINE s == Serialized(tree, cells).cells
           m == Len(cells)
           wide == Wide(cells)
           p(c) == [index |-> cells[c].index, runs |-> cells[c].runs]
<1>1. m \in Nat /\ DOMAIN cells = 1 .. m /\ \A c \in 1 .. m : SoundCell(cells[c], n)
  BY LenProperties DEF SoundCells
<1>2. s = [c \in 1 .. m |-> PackedCell(cells[c], wide)]
  BY <1>1 DEF Serialized
<1>3. ASSUME NEW c \in 1 .. m PROVE PackedCell(cells[c], wide) = p(c)
  <2> DEFINE runs == cells[c].runs
             f == [r \in DOMAIN runs |-> Packed(runs[r], wide)]
  <2>1. runs \in Seq(Runs) /\ DOMAIN runs = 1 .. Len(runs)
    BY <1>1, RunsOfCell
  <2>2. \A r \in 1 .. Len(runs) : Packed(runs[r], wide) = runs[r]
    BY PackedIsTheRun
  <2>3. runs = [r \in DOMAIN runs |-> runs[r]]
    BY <2>1
  <2>4. f = runs
    BY <2>1, <2>2, <2>3
  <2> HIDE DEF f
  <2>5. PackedCell(cells[c], wide) = [index |-> cells[c].index, runs |-> f]
    BY DEF PackedCell, f
  <2> QED BY <2>4, <2>5
<1> HIDE DEF s, wide
<1>4. ASSUME NEW c \in 1 .. m
      PROVE  /\ s[c] = [index |-> cells[c].index, runs |-> cells[c].runs]
             /\ s[c].index = cells[c].index /\ s[c].runs = cells[c].runs
  <2>1. s[c] = PackedCell(cells[c], wide)
    BY <1>2
  <2> QED BY <1>3, <2>1
<1> HIDE DEF p
<1>5. ASSUME NEW c \in 1 .. m
      PROVE  /\ s[c].index = cells[c].index
             /\ s[c].runs = cells[c].runs
             /\ SoundEntry(s[c])
  <2>1. s[c].index = cells[c].index /\ s[c].runs = cells[c].runs
    BY <1>4
  <2>2. SoundCell(cells[c], n)
    BY <1>1
  <2>3. cells[c].index \in Nat /\ cells[c].runs \in Seq(Runs)
    BY <2>2 DEF SoundCell, Cell
  <2>4. s[c] \in Entry
    <3>1. s[c] = [index |-> cells[c].index, runs |-> cells[c].runs]
      BY <1>4
    <3> QED BY <2>3, <3>1 DEF Entry
  <2>5. SoundEntry(s[c])
    BY <2>1, <2>2, <2>4 DEF SoundCell, SoundEntry
  <2> QED BY <2>1, <2>5
<1>6. s \in Seq(Entry) /\ Len(s) = m
  <2>1. s \in [1 .. m -> Entry]
    BY <1>2, <1>4, <1>5 DEF SoundEntry
  <2>2. s \in Seq(Entry)
    BY <1>1, <2>1, SeqDef
  <2>3. Len(s) = m
    BY <1>1, <1>2, <2>2, LenProperties
  <2> QED BY <2>2, <2>3
<1>7. \A c \in 1 .. m : \A i : Covers(cells[c], i) => Covers(s[c], i)
  BY <1>5 DEF Covers
<1> HIDE DEF m
<1>8. SoundEntries(s)
  BY <1>5, <1>6 DEF SoundEntries
<1> QED BY <1>5, <1>6, <1>7, <1>8 DEF s, m

\* What is done with what can be read: the cells are put in order.
LEMMA SortedEntries ==
    ASSUME NEW cells, SoundEntries(cells)
    PROVE  LET t == sort_cells(cells)
               first == {c \in 1 .. Len(cells) : \A b \in 1 .. c - 1 : cells[b].index # cells[c].index}
           IN  SoundEntries(t) /\ \E w : Sorts(t, cells, first, w)
<1> DEFINE first == {c \in 1 .. Len(cells) : \A b \in 1 .. c - 1 : cells[b].index # cells[c].index}
           t == sort_cells(cells)
<1>1. cells \in Seq(Entry) /\ DOMAIN cells = 1 .. Len(cells)
  BY LenProperties DEF SoundEntries
<1>2. t = ByIndex(Picked(cells, first))
  BY <1>1 DEF sort_cells
<1> HIDE DEF first, t
<1>3. \A x \in Entry : x.index \in Nat
  BY DEF Entry
<1>4. t \in Seq(Entry) /\ \E w : Sorts(t, cells, first, w)
  BY <1>1, <1>2, <1>3, PickedByIndex
<1>5. PICK w : Sorts(t, cells, first, w)
  BY <1>4
<1>6. SoundEntries(t)
  BY <1>4, <1>5 DEF SoundEntries, Sorts
<1> QED BY <1>4, <1>6 DEF t, first

\* What can be read of an index of other points.
LEMMA ReadableCells ==
    ASSUME NEW points, NEW data, SoundLax(points, data), Readable(data), ~ data.own
    PROVE  SoundEntries(data.cells) /\ data.levels \in 0 .. MaxLevels
<1> DEFINE cells == data.cells
           m == Len(cells)
           Half == [start : Nat, end : Nat]
           Given == [index : Int, runs : Seq(Half)]
<1>1. data.levels \in Nat /\ cells \in Seq(Given)
  <2>1. data.kind = "lax"
    BY DEF Readable
  <2>2. \A tree, c : Serialized(tree, c).own = TRUE
    BY DEF Serialized
  <2> QED BY <2>1, <2>2 DEF SoundLax
<1>2. data.levels \in 0 .. MaxLevels
  BY <1>1, TreeAssumption DEF Readable
<1>3. m \in Nat /\ DOMAIN cells = 1 .. m /\ \A c \in 1 .. m : cells[c] \in Given
  BY <1>1, LenProperties, ElementOfSeq
<1> HIDE DEF Given
<1>4. ASSUME NEW c \in 1 .. m PROVE SoundEntry(cells[c])
  <2> DEFINE e == cells[c]
             runs == e.runs
  <2>1. e.index \in 0 .. LevelOffset(data.levels + 1) - 1
    BY <1>3 DEF Readable
  <2>2. e.index \in InTree
    <3>1. MaxLevels + 1 \in Nat /\ data.levels < MaxLevels + 1 /\ data.levels \in Nat /\ data.levels + 1 \in Nat
      BY <1>2, TreeAssumption
    <3>2. LevelOffset(data.levels + 1) <= LevelOffset(MaxLevels + 1)
      BY <3>1, OffsetsRise
    <3>3. LevelOffset(data.levels + 1) \in Nat /\ LevelOffset(MaxLevels + 1) \in Nat
      BY <3>1, Offsets
    <3> QED BY <2>1, <3>2, <3>3 DEF InTree
  <2>3. e = [index |-> e.index, runs |-> runs] /\ runs \in Seq(Half)
    BY <1>3 DEF Given
  <2>4. /\ Len(runs) \in Nat /\ DOMAIN runs = 1 .. Len(runs)
        /\ \A r \in 1 .. Len(runs) : runs[r] \in Half
    BY <2>3, LenProperties, ElementOfSeq
  <2>5. \A r \in 1 .. Len(runs) : runs[r].start <= runs[r].end
    BY <1>3, <2>4 DEF Readable
  <2>6. \A r \in 1 .. Len(runs) : runs[r] \in Runs /\ runs[r].start >= 0
    BY <2>4 DEF Runs
  <2>7. runs \in Seq(Runs)
    <3>1. runs = [r \in 1 .. Len(runs) |-> runs[r]]
      BY <2>3, <2>4, SeqDef
    <3>2. runs \in [1 .. Len(runs) -> Runs]
      BY <2>6, <3>1
    <3> HIDE DEF runs
    <3> QED BY <2>4, <3>2, SeqDef
  <2>8. e \in Entry
    <3>1. e.index \in Nat
      BY <2>2 DEF InTree
    <3> QED BY <2>3, <2>7, <3>1 DEF Entry
  <2> QED BY <2>2, <2>5, <2>6, <2>7, <2>8 DEF SoundEntry, RunsAreSound
<1>5. cells \in Seq(Entry)
  <2>1. cells = [c \in 1 .. m |-> cells[c]]
    BY <1>1, <1>3, SeqDef
  <2>2. cells \in [1 .. m -> Entry]
    BY <1>4, <2>1 DEF SoundEntry
  <2> QED BY <1>3, <2>2, SeqDef
<1> QED BY <1>2, <1>4, <1>5 DEF SoundEntries

LEMMA LeafOfTheTree ==
    ASSUME NEW a, NEW b, a.levels = b.levels, a.box = b.box, NEW p
    PROVE  Leaf(a, p) = Leaf(b, p)
BY DEF Leaf, Root

\* Reading an index gives sound cells; one of the points themselves, all of them.
LEMMA ReadProperties ==
    ASSUME NEW points \in Seq(Points), NEW data, SoundLax(points, data), Readable(data)
    PROVE  LET x == laz_index_read(data)
           IN  /\ SoundIndex(x)
               /\ x.own = data.own
               /\ data.own => OwnIndex(points, x)
<1> DEFINE x == laz_index_read(data)
           t == sort_cells(data.cells)
           s == data.cells
           first == {c \in 1 .. Len(s) : \A b \in 1 .. c - 1 : s[b].index # s[c].index}
<1>1. /\ x.levels = data.levels /\ x.box = data.box /\ x.cells = t /\ x.own = data.own
      /\ x.subdivided = Subdivided(t)
  BY DEF laz_index_read
<1> HIDE DEF x
<1>2. CASE ~ data.own
  <2>1. SoundEntries(s) /\ data.levels \in 0 .. MaxLevels
    BY <1>2, ReadableCells
  <2>2. SoundEntries(t)
    BY <2>1, SortedEntries
  <2>3. SoundIndex(x)
    BY <1>1, <2>1, <2>2 DEF SoundIndex
  <2> QED BY <1>1, <1>2, <2>3 DEF x
<1>3. CASE data.own
  <2>1. PICK tree, cells : Finished(points, tree, cells) /\ data = Serialized(tree, cells)
    BY <1>3 DEF SoundLax
  <2>2. data.levels = tree.levels /\ data.box = tree.box /\ s = Serialized(tree, cells).cells
    BY <2>1 DEF Serialized
  <2> DEFINE n == Len(points)
             m == Len(cells)
             l == Len(t)
  <2>3. /\ n \in Nat /\ SoundTree(points, tree) /\ Whole(cells, n, tree.levels)
        /\ HoldsAll(points, tree, cells, n)
    BY <2>1, LenProperties DEF Finished
  <2>4. SoundCells(cells, n) /\ Antichain(cells, {}) /\ NoDeeper(cells, tree.levels)
    BY <2>3 DEF Whole
  <2>5. /\ SoundEntries(s) /\ Len(s) = m
        /\ \A c \in 1 .. m : /\ s[c].index = cells[c].index /\ s[c].runs = cells[c].runs
                             /\ \A i : Covers(cells[c], i) => Covers(s[c], i)
    BY <2>2, <2>3, <2>4, SerializedCells
  <2>6. SoundEntries(t) /\ \E w : Sorts(t, s, first, w)
    BY <2>5, SortedEntries
  <2>7. m \in Nat /\ l \in Nat
    BY <2>4, <2>6, LenProperties DEF SoundCells, SoundEntries
  <2>8. PICK w : Sorts(t, s, first, w)
    BY <2>6
  <2>9. \A c, d \in 1 .. m : c # d => /\ cells[c].index # cells[d].index
                                      /\ cells[c].index \notin Above(cells[d].index)
    BY <2>4 DEF Antichain, Live
  <2>10. first = 1 .. m
    BY <2>5, <2>7, <2>9
  <2> HIDE DEF first
  <2>11. /\ \A c \in 1 .. l : t[c] = s[w[c]] /\ w[c] \in 1 .. m
         /\ \A c, d \in 1 .. l : c # d => w[c] # w[d]
         /\ \A c \in 1 .. m : \E d \in 1 .. l : w[d] = c
    BY <2>5, <2>8, <2>10 DEF Sorts
  <2> HIDE DEF t, s, m, l
  <2>12. Antichain(t, {})
    <3> SUFFICES ASSUME NEW c \in 1 .. l, NEW d \in 1 .. l, c # d
                 PROVE  t[c].index # t[d].index /\ t[c].index \notin Above(t[d].index)
      BY DEF Antichain, Live, l
    <3>1. w[c] \in 1 .. m /\ w[d] \in 1 .. m /\ w[c] # w[d]
      BY <2>11
    <3>2. t[c].index = cells[w[c]].index /\ t[d].index = cells[w[d]].index
      BY <2>5, <2>11, <3>1
    <3> QED BY <2>9, <3>1, <3>2
  <2>13. NoDeeper(t, tree.levels)
    BY <2>4, <2>5, <2>11 DEF NoDeeper, l, m
  <2>14. ASSUME NEW i \in 0 .. n - 1
         PROVE  HeldAbove(t, {}, i, Leaf(x, points[i + 1]))
    <3> DEFINE leaf == Leaf(tree, points[i + 1])
    <3>1. leaf = Leaf(x, points[i + 1])
      BY <1>1, <2>2, LeafOfTheTree
    <3> HIDE DEF leaf
    <3>2. PICK c \in 1 .. m : cells[c].index \in OrAbove(leaf) /\ Covers(cells[c], i)
      BY <2>3 DEF HoldsAll, HeldAbove, Live, leaf, m
    <3>3. PICK d \in 1 .. l : w[d] = c
      BY <2>11
    <3>4. t[d].index = cells[c].index /\ Covers(t[d], i)
      BY <2>5, <2>11, <3>2, <3>3
    <3> QED BY <3>1, <3>2, <3>4 DEF HeldAbove, Live, l
  <2>17. \A c \in 1 .. l : Apart(t[c].runs, 0)
    <3> SUFFICES ASSUME NEW c \in 1 .. l PROVE Apart(t[c].runs, 0)
      OBVIOUS
    <3>1. w[c] \in 1 .. m /\ t[c].runs = cells[w[c]].runs
      BY <2>5, <2>11
    <3>2. SoundCell(cells[w[c]], n)
      BY <2>4, <3>1 DEF SoundCells, m
    <3> DEFINE runs == t[c].runs
    <3>3. /\ Apart(runs, RunGap) /\ Len(runs) \in Nat
          /\ \A r \in 1 .. Len(runs) : runs[r].start \in Int /\ runs[r].end \in Int
      <4>1. /\ Len(runs) \in Nat
            /\ \A r \in 1 .. Len(runs) : /\ runs[r] \in Runs
                                          /\ runs[r].start \in 0 .. n - 1
                                          /\ runs[r].end \in 0 .. n - 1
                                          /\ runs[r].start <= runs[r].end
        BY <2>3, <3>1, <3>2, RunsOfCell
      <4> QED BY <3>1, <3>2, <4>1 DEF SoundCell
    <3> HIDE DEF runs
    <3>4. Apart(runs, 0)
      BY <3>3, BuilderAssumption DEF Apart
    <3> QED BY <3>4 DEF runs
  <2>15. SoundIndex(x)
    BY <1>1, <2>2, <2>3, <2>6 DEF SoundIndex, SoundTree
  <2>16. OwnIndex(points, x)
    BY <1>1, <2>2, <2>3, <2>12, <2>13, <2>14, <2>17 DEF OwnIndex, SoundTree, HoldsAll, l
  <2> QED BY <1>1, <2>15, <2>16 DEF x
<1> QED BY <1>2, <1>3

-----------------------------------------------------------------------------
(* Lists of points. *)

\* f holds the first k of n sequences put together, for each k.
Concats(f, seqs, n) ==
    /\ f[1] = seqs[1]
    /\ \A k \in 2 .. n : f[k] = f[k - 1] \o seqs[k]
    /\ FlattenSeq(seqs) = f[n]

\* What FlattenSeq computes.
LEMMA FlatSteps ==
    ASSUME NEW seqs, NEW n \in Nat, n = Len(seqs), n > 0
    PROVE  \E f : Concats(f, seqs, n)
<1> DEFINE base == seqs[1]
           step(x, k) == x \o seqs[k]
           Rec(f, m) == f = [k \in 1 .. m |-> IF k = 1 THEN seqs[k] ELSE step(f[k - 1], k)]
           T == {m \in 0 .. n : m > 0 => \E f : Rec(f, m)}
<1>1. FlattenSeq(seqs) = (CHOOSE f : Rec(f, n))[n]
  BY DEF FlattenSeq
<1>2. \A k \in 2 .. n : \A x : step(x, k) = x \o seqs[k]
  OBVIOUS
<1> HIDE DEF step
<1>3. \A f : \A m \in Nat :
          (f = [k \in 1 .. m |-> f[k]] /\ \A k \in 1 .. m : f[k] = IF k = 1 THEN base ELSE step(f[k - 1], k))
            => Rec(f, m)
  OBVIOUS
<1>4. \A f : \A m \in Nat :
          Rec(f, m) => \A k \in 1 .. m : f[k] = IF k = 1 THEN base ELSE step(f[k - 1], k)
  OBVIOUS
<1> HIDE DEF Rec, base
<1>5. \E f : Rec(f, 1)
  <2> DEFINE g == [k \in 1 .. 1 |-> base]
  <2>1. g = [k \in 1 .. 1 |-> g[k]] /\ \A k \in 1 .. 1 : g[k] = IF k = 1 THEN base ELSE step(g[k - 1], k)
    OBVIOUS
  <2> HIDE DEF g
  <2>2. Rec(g, 1)
    BY <2>1, <1>3
  <2> QED BY <2>2
<1>6. ASSUME NEW m \in 1 .. n, m - 1 \in T PROVE m \in T
  <2>0. CASE m = 1
    BY <1>5, <2>0
  <2> SUFFICES ASSUME m # 1 PROVE m \in T
    BY <2>0
  <2>1. PICK g : Rec(g, m - 1)
    BY <1>6
  <2> DEFINE x == step(g[m - 1], m)
             h == [k \in 1 .. m |-> IF k = m THEN x ELSE g[k]]
  <2>2. h[m] = x /\ \A k \in 1 .. m - 1 : h[k] = g[k]
    OBVIOUS
  <2>3. h = [k \in 1 .. m |-> h[k]]
    OBVIOUS
  <2> HIDE DEF h
  <2>4. \A k \in 1 .. m - 1 : g[k] = IF k = 1 THEN base ELSE step(g[k - 1], k)
    BY <2>1, <1>4
  <2>5. ASSUME NEW k \in 1 .. m
        PROVE  h[k] = IF k = 1 THEN base ELSE step(h[k - 1], k)
    <3>1. k # 1 => k - 1 \in 1 .. m - 1
      OBVIOUS
    <3>2. CASE k = m
      BY <2>2, <3>1, <3>2
    <3>3. CASE k # m
      <4>1. k \in 1 .. m - 1 /\ h[k] = g[k]
        BY <2>2, <3>3
      <4>2. k # 1 => h[k - 1] = g[k - 1]
        BY <2>2, <3>1
      <4> QED BY <2>4, <4>1, <4>2
    <3> QED BY <3>2, <3>3
  <2>6. Rec(h, m)
    <3>1. m \in Nat /\ \A k \in 1 .. m : h[k] = IF k = 1 THEN base ELSE step(h[k - 1], k)
      BY <2>5
    <3> QED BY ONLY <1>3, <2>3, <3>1
  <2> QED BY <2>6
<1>7. 0 .. n \subseteq T
  <2>1. 0 \in T
    OBVIOUS
  <2> QED BY <1>6, <2>1, UpTo
<1> DEFINE f == CHOOSE g : Rec(g, n)
<1>8. Rec(f, n)
  BY <1>7
<1> HIDE DEF f
<1>9. f[1] = base /\ \A k \in 2 .. n : f[k] = step(f[k - 1], k)
  BY <1>4, <1>8
<1>10. Concats(f, seqs, n)
  BY <1>1, <1>2, <1>9 DEF f, base, Concats
<1> QED BY <1>10


LEMMA ConcatParts ==
    ASSUME NEW S, NEW a \in Seq(S), NEW b \in Seq(S)
    PROVE  /\ a \o b \in Seq(S)
           /\ Len(a \o b) = Len(a) + Len(b)
           /\ Len(a) \in Nat /\ Len(b) \in Nat
           /\ \A i \in 1 .. Len(a) : (a \o b)[i] = a[i]
           /\ \A i \in 1 .. Len(b) : (a \o b)[Len(a) + i] = b[i]
           /\ \A i \in 1 .. Len(a) + Len(b) :
                  i \in 1 .. Len(a) \/ (i - Len(a) \in 1 .. Len(b) /\ (a \o b)[i] = b[i - Len(a)])
BY ConcatProperties, LenProperties

IsIn(x, s) == \E i \in 1 .. Len(s) : s[i] = x

\* FlattenSeq has what its parts have.
LEMMA FlatProperties ==
    ASSUME NEW S, NEW seqs \in Seq(Seq(S))
    PROVE  /\ FlattenSeq(seqs) \in Seq(S)
           /\ \A x : IsIn(x, FlattenSeq(seqs)) <=> \E k \in 1 .. Len(seqs) : IsIn(x, seqs[k])
<1> DEFINE n == Len(seqs)
           flat == FlattenSeq(seqs)
<1>1. n \in Nat /\ \A k \in 1 .. n : seqs[k] \in Seq(S)
  BY LenProperties, ElementOfSeq
<1>2. CASE n = 0
  <2>1. flat = seqs /\ seqs = <<>>
    BY <1>2, EmptySeq DEF FlattenSeq
  <2>2. flat \in Seq(S) /\ Len(flat) = 0
    BY <2>1
  <2> QED BY <1>2, <2>2 DEF IsIn
<1>3. CASE n > 0
  <2>0. PICK f : Concats(f, seqs, n)
    BY ONLY <1>1, <1>3, FlatSteps
  <2>1. /\ f[1] = seqs[1]
        /\ \A k \in 2 .. n : f[k] = f[k - 1] \o seqs[k]
        /\ flat = f[n]
    BY ONLY <2>0 DEF Concats
  <2> HIDE DEF flat
  <2> DEFINE Good(m) == /\ f[m] \in Seq(S)
                        /\ \A x : IsIn(x, f[m]) <=> \E k \in 1 .. m : IsIn(x, seqs[k])
             T == {m \in 0 .. n : m > 0 => Good(m)}
  <2>2. 0 \in T
    BY <1>1
  <2>3. ASSUME NEW m \in 1 .. n, m - 1 \in T PROVE m \in T
    <3>1. CASE m = 1
      <4>1. f[1] \in Seq(S)
        BY <1>1, <1>3, <2>1
      <4>2. \A x : IsIn(x, f[1]) <=> \E k \in 1 .. 1 : IsIn(x, seqs[k])
        BY <2>1
      <4> QED BY <3>1, <4>1, <4>2
    <3>2. CASE m > 1
      <4>1. f[m] = f[m - 1] \o seqs[m] /\ f[m - 1] \in Seq(S) /\ seqs[m] \in Seq(S)
        <5>1. m \in 2 .. n /\ m - 1 > 0
          BY <3>2
        <5>2. Good(m - 1)
          BY <2>3, <5>1
        <5> QED BY <1>1, <2>1, <5>1, <5>2
      <4>2. \A x : IsIn(x, f[m - 1]) <=> \E k \in 1 .. m - 1 : IsIn(x, seqs[k])
        <5>1. m - 1 > 0
          BY <3>2
        <5> QED BY <2>3, <5>1
      <4> DEFINE a == f[m - 1]
                 b == seqs[m]
                 c == f[m]
      <4> HIDE DEF a, b, c
      <4>3. /\ c \in Seq(S) /\ Len(c) = Len(a) + Len(b)
            /\ Len(a) \in Nat /\ Len(b) \in Nat
            /\ \A i \in 1 .. Len(a) : c[i] = a[i]
            /\ \A i \in 1 .. Len(b) : c[Len(a) + i] = b[i]
            /\ \A i \in 1 .. Len(a) + Len(b) :
                   i \in 1 .. Len(a) \/ (i - Len(a) \in 1 .. Len(b) /\ c[i] = b[i - Len(a)])
        <5>1. c = a \o b /\ a \in Seq(S) /\ b \in Seq(S)
          BY <4>1 DEF a, b, c
        <5> QED BY <5>1, ConcatParts
      <4>4. ASSUME NEW x PROVE IsIn(x, c) <=> IsIn(x, a) \/ IsIn(x, b)
        <5>1. ASSUME IsIn(x, c) PROVE IsIn(x, a) \/ IsIn(x, b)
          <6>1. PICK i \in 1 .. Len(a) + Len(b) : c[i] = x
            BY <4>3, <5>1 DEF IsIn
          <6> QED BY <4>3, <6>1 DEF IsIn
        <5>2. ASSUME IsIn(x, a) PROVE IsIn(x, c)
          <6>1. PICK i \in 1 .. Len(a) : a[i] = x
            BY <5>2 DEF IsIn
          <6>2. i \in 1 .. Len(c)
            BY <4>3
          <6> QED BY <4>3, <6>1, <6>2 DEF IsIn
        <5>3. ASSUME IsIn(x, b) PROVE IsIn(x, c)
          <6>1. PICK i \in 1 .. Len(b) : b[i] = x
            BY <5>3 DEF IsIn
          <6>2. Len(a) + i \in 1 .. Len(c)
            BY <4>3
          <6> QED BY <4>3, <6>1, <6>2 DEF IsIn
        <5> QED BY <5>1, <5>2, <5>3
      <4>5. ASSUME NEW x PROVE IsIn(x, f[m]) <=> \E k \in 1 .. m : IsIn(x, seqs[k])
        <5>1. IsIn(x, f[m]) <=> (\E k \in 1 .. m - 1 : IsIn(x, seqs[k])) \/ IsIn(x, seqs[m])
          BY <4>2, <4>4 DEF a, b, c
        <5>2. /\ \A k \in 1 .. m : k \in 1 .. m - 1 \/ k = m
              /\ \A k \in 1 .. m - 1 : k \in 1 .. m
              /\ m \in 1 .. m
          OBVIOUS
        <5> QED BY <5>1, <5>2
      <4>6. Good(m)
        BY <4>3, <4>5 DEF c
      <4> QED BY <4>6
    <3>3. m = 1 \/ m > 1
      OBVIOUS
    <3> HIDE DEF T
    <3> QED BY ONLY <3>1, <3>2, <3>3
  <2> HIDE DEF T
  <2>4. 0 .. n \subseteq T
    BY <1>1, <2>2, <2>3, UpTo
  <2>5. n \in T
    BY <1>1, <2>4
  <2>6. Good(n)
    BY <1>3, <2>5 DEF T
  <2> QED BY <2>1, <2>6 DEF flat
<1> QED BY <1>1, <1>2, <1>3

-----------------------------------------------------------------------------
(* The points that are selected. *)

\* h has the numbers of S in ascending order.
Lists(h, S) ==
    /\ h \in Seq(Int)
    /\ \A i, j \in 1 .. Len(h) : i < j => h[i] < h[j]
    /\ \A x : IsIn(x, h) <=> x \in S

LEMMA ListsNothing == ASSUME NEW S, S = {} PROVE Lists(<<>>, S)
BY DEF Lists, IsIn

\* Of a list and one of larger numbers the concatenation is a list.
LEMMA ListsConcat ==
    ASSUME NEW S, NEW R, NEW h, Lists(h, S), NEW g, Lists(g, R),
           \A x \in S : \A y \in R : x < y
    PROVE  Lists(h \o g, S \cup R)
<1> DEFINE a == Len(h)
           b == Len(g)
           c == h \o g
<1>1. /\ c \in Seq(Int) /\ Len(c) = a + b
      /\ a \in Nat /\ b \in Nat
      /\ \A i \in 1 .. a : c[i] = h[i]
      /\ \A i \in 1 .. b : c[a + i] = g[i]
      /\ \A i \in 1 .. a + b : i \in 1 .. a \/ (i - a \in 1 .. b /\ c[i] = g[i - a])
  BY ConcatParts DEF Lists
<1>2. /\ \A i, j \in 1 .. a : i < j => h[i] < h[j]
      /\ \A i, j \in 1 .. b : i < j => g[i] < g[j]
      /\ \A x : IsIn(x, h) <=> x \in S
      /\ \A x : IsIn(x, g) <=> x \in R
  BY DEF Lists
<1>3. /\ \A i \in 1 .. a : h[i] \in S
      /\ \A i \in 1 .. b : g[i] \in R
  BY <1>2 DEF IsIn
<1> HIDE DEF c
<1>4. ASSUME NEW i \in 1 .. Len(c), NEW j \in 1 .. Len(c), i < j PROVE c[i] < c[j]
  <2>1. CASE i \in 1 .. a /\ j \in 1 .. a
    BY <1>1, <1>2, <1>4, <2>1
  <2>2. CASE i \in 1 .. a /\ j - a \in 1 .. b
    <3>1. c[j] = g[j - a] /\ c[i] = h[i]
      BY <1>1, <2>2
    <3> QED BY <1>3, <2>2, <3>1
  <2>3. CASE i - a \in 1 .. b /\ j - a \in 1 .. b
    <3>1. c[j] = g[j - a] /\ c[i] = g[i - a]
      BY <1>1, <2>3
    <3>2. i - a < j - a
      BY <1>1, <1>4
    <3> QED BY <1>2, <2>3, <3>1, <3>2
  <2> QED BY <1>1, <1>4, <2>1, <2>2, <2>3
<1>5. ASSUME NEW x PROVE IsIn(x, c) <=> x \in S \cup R
  <2>1. ASSUME IsIn(x, c) PROVE x \in S \cup R
    <3>1. PICK i \in 1 .. a + b : c[i] = x
      BY <1>1, <2>1 DEF IsIn
    <3> QED BY <1>1, <1>3, <3>1
  <2>2. ASSUME x \in S PROVE IsIn(x, c)
    <3>1. PICK i \in 1 .. a : h[i] = x
      BY <1>2, <2>2 DEF IsIn
    <3>2. i \in 1 .. Len(c)
      BY <1>1
    <3> QED BY <1>1, <3>1, <3>2 DEF IsIn
  <2>3. ASSUME x \in R PROVE IsIn(x, c)
    <3>1. PICK i \in 1 .. b : g[i] = x
      BY <1>2, <2>3 DEF IsIn
    <3>2. a + i \in 1 .. Len(c)
      BY <1>1
    <3> QED BY <1>1, <3>1, <3>2 DEF IsIn
  <2> QED BY <2>1, <2>2, <2>3
<1>6. Lists(c, S \cup R)
  BY <1>1, <1>4, <1>5 DEF Lists
<1> QED BY <1>6 DEF c

LEMMA ListsOneWay ==
    ASSUME NEW S, NEW h, Lists(h, S), NEW g, Lists(g, S)
    PROVE  Len(h) <= Len(g) /\ \A i \in 1 .. Len(h) : h[i] = g[i]
<1> DEFINE a == Len(h)
           b == Len(g)
           T == {k \in 0 .. a : k <= b /\ \A i \in 1 .. k : h[i] = g[i]}
<1>1. /\ a \in Nat /\ b \in Nat
      /\ \A i \in 1 .. a : h[i] \in Int
      /\ \A i \in 1 .. b : g[i] \in Int
  BY LenProperties, ElementOfSeq DEF Lists
<1>2. /\ \A i, j \in 1 .. a : i < j => h[i] < h[j]
      /\ \A i, j \in 1 .. b : i < j => g[i] < g[j]
  BY DEF Lists
<1>3. /\ \A i \in 1 .. a : \E j \in 1 .. b : g[j] = h[i]
      /\ \A j \in 1 .. b : \E i \in 1 .. a : h[i] = g[j]
  BY DEF Lists, IsIn
<1>4. 0 \in T
  BY <1>1
<1>5. ASSUME NEW k \in 1 .. a, k - 1 \in T PROVE k \in T
  <2>1. k - 1 <= b /\ \A i \in 1 .. k - 1 : h[i] = g[i]
    BY <1>5
  <2>2. PICK j \in 1 .. b : g[j] = h[k]
    BY <1>3
  <2>3. j >= k
    <3> SUFFICES ASSUME j < k PROVE FALSE
      BY <1>1
    <3>1. j \in 1 .. k - 1 /\ j \in 1 .. a
      BY <1>1
    <3>2. h[j] = h[k] /\ h[j] < h[k]
      BY <1>2, <2>1, <2>2, <3>1
    <3> QED BY <1>1, <3>2
  <2>4. k \in 1 .. b
    BY <1>1, <2>3
  <2>5. g[k] <= h[k]
    <3>1. k = j \/ k < j
      BY <1>1, <2>3
    <3> QED BY <1>1, <1>2, <2>2, <2>4, <3>1
  <2>6. PICK i \in 1 .. a : h[i] = g[k]
    BY <1>3, <2>4
  <2>7. i >= k
    <3> SUFFICES ASSUME i < k PROVE FALSE
      BY <1>1
    <3>1. i \in 1 .. k - 1 /\ i \in 1 .. b
      BY <1>1, <2>4
    <3>2. g[i] = g[k] /\ g[i] < g[k]
      BY <1>2, <2>1, <2>4, <2>6, <3>1
    <3> QED BY <1>1, <2>4, <3>1, <3>2
  <2>8. h[k] <= g[k]
    <3>1. k = i \/ k < i
      BY <1>1, <2>7
    <3> QED BY <1>1, <1>2, <2>6, <3>1
  <2>9. h[k] = g[k]
    BY <1>1, <2>4, <2>5, <2>8
  <2>10. \A m \in 1 .. k : m \in 1 .. k - 1 \/ m = k
    OBVIOUS
  <2> QED BY <1>1, <2>1, <2>4, <2>9, <2>10
<1> HIDE DEF T
<1>6. 0 .. a \subseteq T
  BY <1>1, <1>4, <1>5, UpTo
<1>7. a \in T
  BY <1>1, <1>6
<1> QED BY <1>7 DEF T

\* There is one ascending list of a set.
LEMMA ListsOnce ==
    ASSUME NEW S, NEW h, Lists(h, S), NEW g, Lists(g, S) PROVE h = g
<1>1. /\ Len(h) <= Len(g) /\ \A i \in 1 .. Len(h) : h[i] = g[i]
      /\ Len(g) <= Len(h)
  BY ListsOneWay
<1>2. h \in Seq(Int) /\ g \in Seq(Int) /\ Len(h) \in Nat /\ Len(g) \in Nat
  BY LenProperties DEF Lists
<1>3. Len(h) = Len(g)
  BY <1>1, <1>2
<1> QED BY <1>1, <1>2, <1>3, SeqEqual

In(q, from, to) == {k \in from .. to - 1 : Inside(q, file[k + 1])}

\* What is selected of a span are its points that are inside, in their order.
LEMMA SelectedProperties ==
    ASSUME NEW q, NEW from \in Int, NEW to \in Int, from <= to
    PROVE  Lists(Selected(q, from, to), In(q, from, to))
<1> DEFINE n == to - from
           s == [k \in 1 .. n |-> from + k - 1]
           places == {k \in 1 .. n : Inside(q, file[from + k])}
           t == Picked(s, places)
<1>1. Selected(q, from, to) = t /\ n \in Nat
  BY DEF Selected
<1>2. s \in Seq(Int) /\ Len(s) = n /\ \A k \in 1 .. n : s[k] = from + k - 1
  <2> HIDE DEF n
  <2>1. s \in [1 .. n -> Int] /\ \A k \in 1 .. n : s[k] = from + k - 1
    OBVIOUS
  <2>2. s \in Seq(Int)
    BY <1>1, <2>1, SeqDef
  <2>3. Len(s) = n
    BY <1>1, <2>2, LenProperties
  <2> QED BY <2>1, <2>2, <2>3
<1> HIDE DEF s, t
<1>3. t \in Seq(Int) /\ \E m : Picks(s, places, t, m)
  <2> HIDE DEF places
  <2> QED BY <1>2, PickedProperties DEF t
<1>4. PICK m : Picks(s, places, t, m)
  BY <1>3
<1> DEFINE l == Len(t)
<1>5. /\ l \in Nat /\ m \in [1 .. l -> 1 .. n]
      /\ \A i, j \in 1 .. l : i < j => m[i] < m[j]
      /\ \A i \in 1 .. l : t[i] = s[m[i]] /\ m[i] \in places
      /\ \A k \in 1 .. n : k \in places => \E i \in 1 .. l : m[i] = k
  BY <1>2, <1>3, <1>4, LenProperties DEF Picks, Rises
<1> HIDE DEF n, l
<1>6. \A i \in 1 .. l : t[i] = from + m[i] - 1 /\ m[i] \in 1 .. n /\ m[i] \in Int
  BY <1>2, <1>5
<1>7. ASSUME NEW i \in 1 .. l, NEW j \in 1 .. l, i < j PROVE t[i] < t[j]
  BY <1>5, <1>6, <1>7
<1>8. ASSUME NEW x PROVE IsIn(x, t) <=> x \in In(q, from, to)
  <2>1. ASSUME NEW i \in 1 .. l, t[i] = x PROVE x \in In(q, from, to)
    <3>1. x = from + m[i] - 1 /\ m[i] \in 1 .. n /\ Inside(q, file[from + m[i]])
      BY <1>5, <1>6, <2>1
    <3>2. x \in from .. to - 1 /\ x + 1 = from + m[i]
      BY <1>1, <3>1 DEF n
    <3> QED BY <3>1, <3>2 DEF In
  <2>2. ASSUME x \in In(q, from, to) PROVE IsIn(x, t)
    <3>1. x \in from .. to - 1 /\ Inside(q, file[x + 1])
      BY <2>2 DEF In
    <3> DEFINE k == x - from + 1
    <3>2. k \in 1 .. n /\ from + k = x + 1 /\ x = from + k - 1
      BY <3>1 DEF n
    <3> HIDE DEF k
    <3>3. k \in places
      BY <3>1, <3>2
    <3>4. PICK i \in 1 .. l : m[i] = k
      BY <1>5, <3>2, <3>3
    <3>5. t[i] = x
      BY <1>6, <3>2, <3>4
    <3> QED BY <3>5 DEF IsIn, l
  <2> QED BY <2>1, <2>2 DEF IsIn, l
<1>9. Lists(t, In(q, from, to))
  BY <1>3, <1>7, <1>8 DEF Lists, l
<1> QED BY <1>1, <1>9

-----------------------------------------------------------------------------
(* From the cells that are hit to the spans that are looked through. *)

RunsOfAll(cells) == [c \in 1 .. Len(cells) |-> cells[c].runs]

\* The runs of some cells.
LEMMA CellRunsProperties ==
    ASSUME NEW cells, SoundEntries(cells)
    PROVE  LET runs == CellRuns(cells)
           IN  /\ RunsAreSound(runs)
               /\ \A r \in 1 .. Len(runs) : runs[r].start >= 0
               /\ \A c \in 1 .. Len(cells) : \A i : Covers(cells[c], i) => Holds(runs, i)
               /\ Len(cells) = 0 => runs = <<>>
               /\ Len(cells) = 1 => runs = cells[1].runs
<1> DEFINE m == Len(cells)
           s == RunsOfAll(cells)
           runs == CellRuns(cells)
<1>1. /\ m \in Nat /\ DOMAIN cells = 1 .. m
      /\ \A c \in 1 .. m : /\ SoundEntry(cells[c])
                           /\ cells[c].runs \in Seq(Runs)
                           /\ \A r \in 1 .. Len(cells[c].runs) : /\ cells[c].runs[r] \in Runs
                                                                 /\ cells[c].runs[r].start <= cells[c].runs[r].end
                                                                 /\ cells[c].runs[r].start >= 0
  <2>1. m \in Nat /\ DOMAIN cells = 1 .. m /\ \A c \in 1 .. m : SoundEntry(cells[c])
    BY LenProperties DEF SoundEntries
  <2> QED BY <2>1, ElementOfSeq DEF SoundEntry, RunsAreSound
<1>2. s = [c \in 1 .. m |-> cells[c].runs] /\ runs = FlattenSeq(s)
  BY <1>1 DEF RunsOfAll, CellRuns
<1> HIDE DEF m, s, runs
<1>3. s \in Seq(Seq(Runs)) /\ Len(s) = m /\ \A c \in 1 .. m : s[c] = cells[c].runs
  <2>1. s \in [1 .. m -> Seq(Runs)]
    BY <1>1, <1>2
  <2>2. s \in Seq(Seq(Runs))
    BY <1>1, <2>1, SeqDef
  <2>3. Len(s) = m
    BY <1>1, <1>2, <2>2, LenProperties
  <2> QED BY <1>2, <2>2, <2>3
<1>4. /\ runs \in Seq(Runs)
      /\ \A x : IsIn(x, runs) <=> \E k \in 1 .. Len(s) : IsIn(x, s[k])
  BY <1>2, <1>3, FlatProperties
<1>5. ASSUME NEW r \in 1 .. Len(runs)
      PROVE  runs[r].start <= runs[r].end /\ runs[r].start >= 0
  <2>1. IsIn(runs[r], runs)
    BY DEF IsIn
  <2>2. PICK c \in 1 .. m : IsIn(runs[r], s[c])
    BY <1>3, <1>4, <2>1
  <2>3. PICK k \in 1 .. Len(cells[c].runs) : cells[c].runs[k] = runs[r]
    BY <1>3, <2>2 DEF IsIn
  <2> QED BY <1>1, <2>3
<1>6. ASSUME NEW c \in 1 .. m, NEW i, Covers(cells[c], i) PROVE Holds(runs, i)
  <2>1. DOMAIN cells[c].runs = 1 .. Len(cells[c].runs)
    BY <1>1, LenProperties
  <2>2. PICK k \in 1 .. Len(cells[c].runs) : i \in cells[c].runs[k].start .. cells[c].runs[k].end
    BY <1>6, <2>1 DEF Covers
  <2>3. IsIn(cells[c].runs[k], s[c])
    BY <1>3 DEF IsIn
  <2>4. IsIn(cells[c].runs[k], runs)
    BY <1>3, <1>4, <2>3
  <2> QED BY <2>2, <2>4 DEF IsIn, Holds
<1>7. m = 0 => runs = <<>>
  <2> SUFFICES ASSUME m = 0 PROVE runs = <<>>
    OBVIOUS
  <2>1. s = <<>>
    BY <1>3, EmptySeq
  <2> QED BY <1>2, <1>3, <2>1 DEF FlattenSeq
<1>8. m = 1 => runs = cells[1].runs
  <2> SUFFICES ASSUME m = 1 PROVE runs = cells[1].runs
    OBVIOUS
  <2>1. Len(s) \in Nat /\ Len(s) > 0
    BY <1>3
  <2>1a. PICK f : Concats(f, s, Len(s))
    BY <2>1, FlatSteps
  <2>2. f[1] = s[1] /\ FlattenSeq(s) = f[Len(s)]
    BY ONLY <2>1a DEF Concats
  <2> QED BY <1>2, <1>3, <2>2
<1> QED BY <1>4, <1>5, <1>6, <1>7, <1>8 DEF RunsAreSound, runs, m

\* The runs of the cells that are chosen, joined where there is more than one.
LEMMA ChosenProperties ==
    ASSUME NEW cells, SoundEntries(cells)
    PROVE  LET runs == Chosen(cells)
           IN  /\ RunsAreSound(runs)
               /\ \A r \in 1 .. Len(runs) : runs[r].start >= 0
               /\ \A c \in 1 .. Len(cells) : \A i \in Nat : Covers(cells[c], i) => Holds(runs, i)
               /\ (\A c \in 1 .. Len(cells) : Apart(cells[c].runs, 0)) => Apart(runs, 0)
<1> DEFINE all == CellRuns(cells)
           runs == Chosen(cells)
           m == Len(cells)
<1>1. /\ RunsAreSound(all)
      /\ \A r \in 1 .. Len(all) : all[r].start >= 0
      /\ \A c \in 1 .. m : \A i : Covers(cells[c], i) => Holds(all, i)
      /\ m = 0 => all = <<>>
      /\ m = 1 => all = cells[1].runs
  BY CellRunsProperties
<1>2. runs = IF m < 2 THEN all ELSE Coalesce(all, MergeGap)
  BY DEF Chosen, merge_hits
<1>3. m \in Nat
  BY LenProperties DEF SoundEntries
<1> HIDE DEF all, runs, m
<1>4. CASE m < 2
  <2>1. runs = all
    BY <1>2, <1>4
  <2>2. ASSUME \A c \in 1 .. m : Apart(cells[c].runs, 0) PROVE Apart(runs, 0)
    <3>1. CASE m = 0
      <4>1. Len(runs) = 0
        BY <1>1, <2>1, <3>1
      <4> QED BY <4>1 DEF Apart
    <3>2. CASE m = 1
      BY <1>1, <2>1, <2>2, <3>2
    <3> QED BY <1>3, <1>4, <3>1, <3>2
  <2> QED BY <1>1, <2>1, <2>2 DEF runs, m
<1>5. CASE ~ (m < 2)
  <2>1. runs = Coalesce(all, MergeGap) /\ MergeGap \in Nat
    BY <1>2, <1>5, ReaderAssumption
  <2>2. /\ RunsAreSound(runs) /\ Apart(runs, MergeGap)
        /\ \A r \in 1 .. Len(all) : Under(all[r], runs)
        /\ BoundsAreOf(runs, all)
    BY <1>1, <2>1, CoalesceProperties
  <2>3. /\ Len(runs) \in Nat
        /\ \A r \in 1 .. Len(runs) : runs[r].start \in Int /\ runs[r].end \in Int
    BY <2>2, SoundRuns
  <2>4. Apart(runs, 0)
    BY <2>1, <2>2, <2>3 DEF Apart
  <2>5. \A r \in 1 .. Len(runs) : runs[r].start >= 0
    BY <1>1, <2>2 DEF BoundsAreOf
  <2>6. \A r \in 1 .. Len(all) : all[r].start \in Int /\ all[r].end \in Int
    BY <1>1, SoundRuns
  <2>7. ASSUME NEW i \in Nat, Holds(all, i) PROVE Holds(runs, i)
    <3>1. PICK r \in 1 .. Len(all) : i \in all[r].start .. all[r].end
      BY <2>7 DEF Holds
    <3>2. PICK k \in 1 .. Len(runs) : runs[k].start <= all[r].start /\ all[r].end <= runs[k].end
      BY <2>2 DEF Under
    <3>3. i \in runs[k].start .. runs[k].end
      BY <2>3, <2>6, <3>1, <3>2
    <3> QED BY <3>3 DEF Holds
  <2> QED BY <1>1, <2>2, <2>4, <2>5, <2>7 DEF runs, m
<1> QED BY <1>4, <1>5

HitOf(x, q) == {c \in DOMAIN x.cells : x.cells[c].index \in Hits(x, x.subdivided, q)}

\* What an index answers: sound runs, and those of every cell that is hit.
LEMMA IntervalsProperties ==
    ASSUME NEW x, SoundIndex(x), NEW q
    PROVE  LET runs == Intervals(x, q)
           IN  /\ RunsAreSound(runs)
               /\ \A r \in 1 .. Len(runs) : runs[r].start >= 0
               /\ (\A c \in 1 .. Len(x.cells) : Apart(x.cells[c].runs, 0)) => Apart(runs, 0)
               /\ ~ (q.x0 > q.x1 \/ q.y0 > q.y1) =>
                      \A c \in HitOf(x, q) : \A i \in Nat : Covers(x.cells[c], i) => Holds(runs, i)
<1> DEFINE runs == Intervals(x, q)
           cells == x.cells
           hit == HitOf(x, q)
           t == Picked(cells, hit)
<1>1. CASE q.x0 > q.x1 \/ q.y0 > q.y1
  <2>1. runs = <<>>
    BY <1>1 DEF Intervals
  <2>2. runs \in Seq(Runs) /\ Len(runs) = 0
    BY <2>1
  <2> QED BY <1>1, <2>2 DEF RunsAreSound, Apart
<1>2. CASE ~ (q.x0 > q.x1 \/ q.y0 > q.y1)
  <2>1. runs = Chosen(t)
    BY <1>2 DEF Intervals, HitOf
  <2>2. cells \in Seq(Entry) /\ DOMAIN cells = 1 .. Len(cells) /\ \A c \in 1 .. Len(cells) : SoundEntry(cells[c])
    BY LenProperties DEF SoundIndex, SoundEntries
  <2>8. hit \subseteq 1 .. Len(cells)
    BY <2>2 DEF HitOf
  <2> HIDE DEF hit, t, cells
  <2>3. t \in Seq(Entry) /\ \E m : Picks(cells, hit, t, m)
    BY <2>2, PickedProperties DEF t
  <2>4. PICK m : Picks(cells, hit, t, m)
    BY <2>3
  <2>5. /\ \A i \in 1 .. Len(t) : t[i] = cells[m[i]] /\ m[i] \in 1 .. Len(cells)
        /\ \A c \in hit : \E i \in 1 .. Len(t) : m[i] = c
    BY <2>4, <2>8 DEF Picks
  <2>6. SoundEntries(t)
    BY <2>2, <2>3, <2>5 DEF SoundEntries
  <2>7. /\ RunsAreSound(runs)
        /\ \A r \in 1 .. Len(runs) : runs[r].start >= 0
        /\ \A c \in 1 .. Len(t) : \A i \in Nat : Covers(t[c], i) => Holds(runs, i)
        /\ (\A c \in 1 .. Len(t) : Apart(t[c].runs, 0)) => Apart(runs, 0)
    BY <2>1, <2>6, ChosenProperties
  <2>9. (\A c \in 1 .. Len(cells) : Apart(cells[c].runs, 0)) => Apart(runs, 0)
    BY <2>5, <2>7
  <2>10. ASSUME NEW c \in hit, NEW i \in Nat, Covers(cells[c], i) PROVE Holds(runs, i)
    <3>1. PICK k \in 1 .. Len(t) : m[k] = c
      BY <2>5
    <3> QED BY <2>5, <2>7, <2>10, <3>1
  <2> QED BY <1>2, <2>7, <2>9, <2>10 DEF hit, cells
<1> QED BY <1>1, <1>2

SoundSpans(all, n) ==
    /\ all \in Seq(Runs)
    /\ \A s \in 1 .. Len(all) : 0 <= all[s].start /\ all[s].start <= all[s].end /\ all[s].end <= n

InTurn(all) == \A s, r \in 1 .. Len(all) : s < r => all[s].end <= all[r].start

SpanHas(all, i) == \E s \in 1 .. Len(all) : i \in all[s].start .. all[s].end - 1

\* Clamped to the file, the runs are spans of it, and have the points they had.
LEMMA ClampedProperties ==
    ASSUME NEW runs, RunsAreSound(runs), \A r \in 1 .. Len(runs) : runs[r].start >= 0, NEW n \in Nat
    PROVE  LET all == Clamped(runs, n)
           IN  /\ SoundSpans(all, n)
               /\ Apart(runs, 0) => InTurn(all)
               /\ \A i \in 0 .. n - 1 : Holds(runs, i) => SpanHas(all, i)
<1> DEFINE places == {k \in 1 .. Len(runs) : runs[k].start < n}
           kept == Picked(runs, places)
           all == Clamped(runs, n)
           l == Len(kept)
<1>1. /\ runs \in Seq(Runs) /\ Len(runs) \in Nat /\ DOMAIN runs = 1 .. Len(runs)
      /\ \A r \in 1 .. Len(runs) : /\ runs[r] \in Runs
                                   /\ runs[r].start \in Int /\ runs[r].end \in Int
                                   /\ runs[r].start <= runs[r].end
  BY SoundRuns
<1>2. all = [k \in DOMAIN kept |-> Run(kept[k].start, Smaller(kept[k].end + 1, n))]
  BY <1>1 DEF Clamped
<1> HIDE DEF places, kept, all
<1>3. kept \in Seq(Runs) /\ \E m : Picks(runs, places, kept, m)
  BY <1>1, PickedProperties DEF kept
<1>4. PICK m : Picks(runs, places, kept, m)
  BY <1>3
<1>5. l \in Nat /\ DOMAIN kept = 1 .. l
  BY <1>3, LenProperties
<1>6. /\ m \in [1 .. l -> 1 .. Len(runs)]
      /\ \A i, j \in 1 .. l : i < j => m[i] < m[j]
      /\ \A i \in 1 .. l : kept[i] = runs[m[i]] /\ m[i] \in places
      /\ \A k \in 1 .. Len(runs) : k \in places => \E i \in 1 .. l : m[i] = k
  BY <1>4, <1>5 DEF Picks, Rises
<1> HIDE DEF l
<1>7. ASSUME NEW k \in 1 .. l
      PROVE  /\ all[k] \in Runs
             /\ all[k].start = kept[k].start /\ all[k].start \in Int /\ all[k].start >= 0 /\ all[k].start < n
             /\ all[k].end = Smaller(kept[k].end + 1, n) /\ all[k].end \in Int
             /\ all[k].start <= all[k].end /\ all[k].end <= n
             /\ kept[k].end \in Int
  <2>1. all[k] = [start |-> kept[k].start, end |-> Smaller(kept[k].end + 1, n)]
    BY <1>2, <1>5 DEF Run
  <2>2. m[k] \in 1 .. Len(runs) /\ kept[k] = runs[m[k]] /\ runs[m[k]].start < n
    BY <1>6 DEF places
  <2>3. /\ kept[k].start \in Int /\ kept[k].end \in Int /\ kept[k].start <= kept[k].end
        /\ kept[k].start >= 0 /\ kept[k].start < n
    BY <1>1, <2>2
  <2>4. all[k].start = kept[k].start /\ all[k].end = Smaller(kept[k].end + 1, n)
    BY <2>1
  <2>5. all[k].end \in Int /\ all[k].start <= all[k].end /\ all[k].end <= n
    BY <2>3, <2>4 DEF Smaller
  <2>6. all[k] \in Runs
    <3> DEFINE a == kept[k].start
               b == Smaller(kept[k].end + 1, n)
    <3>1. a \in Int /\ b \in Int /\ all[k] = [start |-> a, end |-> b]
      BY <2>1, <2>3, <2>4, <2>5
    <3> HIDE DEF a, b
    <3> QED BY <3>1 DEF Runs
  <2> QED BY <2>3, <2>4, <2>5, <2>6
<1>8. all \in Seq(Runs) /\ Len(all) = l
  <2>1. all \in [1 .. l -> Runs]
    <3>1. all = [k \in 1 .. l |-> all[k]]
      BY <1>2, <1>5
    <3> QED BY <1>7, <3>1
  <2>2. all \in Seq(Runs)
    BY <1>5, <2>1, SeqDef
  <2>3. DOMAIN all = 1 .. l
    BY <2>1
  <2> QED BY <1>5, <2>2, <2>3, LenProperties
<1>9. SoundSpans(all, n)
  BY <1>7, <1>8 DEF SoundSpans
<1>10. ASSUME Apart(runs, 0) PROVE InTurn(all)
  <2> SUFFICES ASSUME NEW s \in 1 .. l, NEW r \in 1 .. l, s < r
               PROVE  all[s].end <= all[r].start
    BY <1>8 DEF InTurn
  <2>1. m[s] \in 1 .. Len(runs) /\ m[r] \in 1 .. Len(runs) /\ m[s] < m[r]
    BY <1>6
  <2>2. runs[m[r]].start - runs[m[s]].end > 0
    BY <1>10, <2>1 DEF Apart
  <2>3. kept[r].start > kept[s].end
    BY <1>1, <1>6, <2>1, <2>2
  <2>4. /\ kept[r].start \in Int /\ kept[s].end \in Int /\ kept[r].start = all[r].start
        /\ all[s].end = Smaller(kept[s].end + 1, n)
    BY <1>7
  <2>5. all[s].end <= kept[s].end + 1
    BY <2>4 DEF Smaller
  <2>6. all[s].end \in Int
    BY <1>7
  <2> QED BY <2>3, <2>4, <2>5, <2>6
<1>11. ASSUME NEW i \in 0 .. n - 1, Holds(runs, i) PROVE SpanHas(all, i)
  <2>1. PICK r \in 1 .. Len(runs) : i \in runs[r].start .. runs[r].end
    BY <1>11 DEF Holds
  <2>2. r \in places
    BY <1>1, <2>1 DEF places
  <2>3. PICK k \in 1 .. l : m[k] = r
    BY <1>6, <2>2
  <2>4. kept[k] = runs[r] /\ all[k].start = runs[r].start /\ all[k].end = Smaller(runs[r].end + 1, n)
    BY <1>6, <1>7, <2>3
  <2>5. i \in all[k].start .. all[k].end - 1
    BY <1>1, <2>1, <2>4 DEF Smaller
  <2> QED BY <1>8, <2>5 DEF SpanHas
<1> QED BY <1>9, <1>10, <1>11 DEF all

\* The spans of a query are spans of the file, whatever the index.
LEMMA SpansOfAreSound ==
    ASSUME file \in Seq(Points), NEW x, x = None \/ SoundIndex(x), NEW q
    PROVE  SoundSpans(SpansOf(x, q), Len(file))
<1>1. Len(file) \in Nat
  BY LenProperties
<1>2. CASE Empty(q)
  <2>1. SpansOf(x, q) = <<>>
    BY <1>2 DEF SpansOf
  <2> QED BY <2>1 DEF SoundSpans
<1>3. CASE ~ Empty(q) /\ x = None
  <2> DEFINE run == Run(0, Len(file))
  <2>1. SpansOf(x, q) = <<run>>
    BY <1>3 DEF SpansOf
  <2>2. run \in Runs /\ run.start = 0 /\ run.end = Len(file)
    BY <1>1 DEF Run, Runs
  <2> HIDE DEF run
  <2>3. <<run>> \in Seq(Runs) /\ Len(<<run>>) = 1 /\ <<run>>[1] = run
    BY <2>2
  <2> QED BY <1>1, <2>1, <2>2, <2>3 DEF SoundSpans
<1>4. CASE ~ Empty(q) /\ x # None
  <2>1. SpansOf(x, q) = Clamped(Intervals(x, q), Len(file)) /\ SoundIndex(x)
    BY <1>4 DEF SpansOf
  <2>2. RunsAreSound(Intervals(x, q)) /\ \A r \in 1 .. Len(Intervals(x, q)) : Intervals(x, q)[r].start >= 0
    BY <2>1, IntervalsProperties
  <2> QED BY <1>1, <2>1, <2>2, ClampedProperties
<1> QED BY <1>2, <1>3, <1>4

-----------------------------------------------------------------------------
(* The blocks that are read at once. *)

LEMMA DivBounds ==
    ASSUME NEW a \in Nat, NEW w \in Nat, w > 0
    PROVE  /\ a \div w \in Nat
           /\ (a \div w) * w <= a
           /\ a < (a \div w) * w + w
OBVIOUS

LEMMA TimesRises ==
    ASSUME NEW a \in Int, NEW b \in Int, a <= b, NEW w \in Nat PROVE a * w <= b * w
OBVIOUS

LEMMA TimesOneLess ==
    ASSUME NEW a \in Int, NEW w \in Int PROVE (a - 1) * w = a * w - w
OBVIOUS

\* The blocks of a span follow one another and have all of its points.
LEMMA BlocksProperties ==
    ASSUME NEW span \in Runs, span.start <= span.end
    PROVE  LET blocks == Blocks(span)
           IN  /\ blocks \in Seq(Runs)
               /\ \A b \in 1 .. Len(blocks) : /\ span.start <= blocks[b].start
                                              /\ blocks[b].start <= blocks[b].end
                                              /\ blocks[b].end <= span.end
               /\ InTurn(blocks)
               /\ \A i \in span.start .. span.end - 1 : SpanHas(blocks, i)
<1> DEFINE w == WITHIN_BLOCK
           from == span.start
           to == span.end
           len == to - from + w - 1
           n == len \div w
           blocks == Blocks(span)
<1>1. /\ w \in Nat /\ w > 0 /\ from \in Int /\ to \in Int /\ from <= to
  BY ReaderAssumption DEF Runs
<1>2. blocks = [b \in 1 .. n |-> Run(from + (b - 1) * w, Smaller(to, from + b * w))]
  BY DEF Blocks
<1> HIDE DEF w, from, to, blocks
<1>3. len \in Nat
  BY <1>1
<1>4. n \in Nat /\ n * w <= len /\ len < n * w + w
  <2> HIDE DEF len
  <2> QED BY <1>1, <1>3, DivBounds
<1> HIDE DEF n
<1>5. ASSUME NEW b \in 1 .. n
      PROVE  /\ blocks[b] \in Runs
             /\ blocks[b].start = from + (b - 1) * w
             /\ blocks[b].end = Smaller(to, from + b * w)
             /\ b * w \in Int /\ (b - 1) * w \in Int
             /\ (b - 1) * w = b * w - w
             /\ blocks[b].start \in Int /\ blocks[b].end \in Int
             /\ from <= blocks[b].start
             /\ blocks[b].start <= blocks[b].end
             /\ blocks[b].end <= to
  <2> DEFINE u == (b - 1) * w
             v == b * w
             s == from + u
             e == Smaller(to, from + v)
  <2>1. b \in Int /\ b - 1 \in Nat /\ n \in Int /\ b <= n
    BY <1>4
  <2>2. u \in Int /\ v \in Int /\ u = v - w
    BY <1>1, <2>1, TimesOneLess
  <2>3. v <= n * w
    BY <1>1, <2>1, TimesRises
  <2>4. u >= 0
    <3>1. 0 * w <= u
      BY <1>1, <2>1, TimesRises
    <3> QED BY <1>1, <3>1
  <2>5. n * w \in Int
    BY <1>1, <1>4
  <2> DEFINE most == n * w
  <2> HIDE DEF most
  <2>6. v <= most /\ most \in Int /\ most <= len
    BY <1>4, <2>3, <2>5 DEF most
  <2>7. blocks[b] = [start |-> s, end |-> e]
    BY <1>2 DEF Run
  <2> HIDE DEF u, v
  <2>8. s \in Int /\ e \in Int /\ from <= s /\ s <= e /\ e <= to
    BY <1>1, <2>2, <2>4, <2>6 DEF Smaller
  <2> HIDE DEF s, e
  <2>9. blocks[b] \in Runs /\ blocks[b].start = s /\ blocks[b].end = e
    BY <2>7, <2>8 DEF Runs
  <2> QED BY <2>2, <2>8, <2>9 DEF u, v, s, e
<1>6. blocks \in Seq(Runs) /\ Len(blocks) = n
  <2>1. blocks \in [1 .. n -> Runs]
    BY <1>2, <1>5
  <2>2. blocks \in Seq(Runs)
    BY <1>4, <2>1, SeqDef
  <2>3. Len(blocks) = n
    BY <1>2, <1>4, <2>2, LenProperties
  <2> QED BY <2>2, <2>3
<1>7. ASSUME NEW b \in 1 .. n, NEW c \in 1 .. n, b < c
      PROVE  blocks[b].end <= blocks[c].start
  <2>1. b \in Int /\ c - 1 \in Int /\ b <= c - 1
    BY <1>4, <1>7
  <2>2. b * w <= (c - 1) * w
    BY <1>1, <2>1, TimesRises
  <2> DEFINE x == b * w
             y == (c - 1) * w
  <2>3. /\ x \in Int /\ y \in Int /\ x <= y
        /\ blocks[b].end = Smaller(to, from + x) /\ blocks[c].start = from + y
    BY <1>5, <2>2
  <2> HIDE DEF x, y
  <2> QED BY <1>1, <2>3 DEF Smaller
<1>8. ASSUME NEW i \in from .. to - 1 PROVE SpanHas(blocks, i)
  <2> DEFINE k == (i - from) \div w
             x == k * w
             a == i - from
  <2>1. a \in Nat /\ i \in Int
    BY <1>1
  <2>2. k \in Nat /\ x <= a /\ a < x + w
    <3> HIDE DEF a
    <3> QED BY <1>1, <2>1, DivBounds DEF a
  <2>3. k + 1 \in 1 .. n
    <3> SUFFICES ASSUME k >= n PROVE FALSE
      BY <1>4, <2>2
    <3>1. n * w <= x
      <4> HIDE DEF x
      <4> QED BY <1>1, <1>4, <2>2, TimesRises DEF x
    <3> DEFINE y == n * w
    <3>2. y <= x /\ y \in Int /\ x \in Int /\ len < y + w
      BY <1>1, <1>4, <2>2, <3>1
    <3> HIDE DEF x, y, k
    <3> QED BY <1>1, <2>1, <2>2, <3>2
  <2> DEFINE b == k + 1
             v == b * w
  <2>4. /\ b \in 1 .. n
        /\ blocks[b].start = from + (b - 1) * w /\ blocks[b].end = Smaller(to, from + v)
        /\ (b - 1) * w = v - w /\ v \in Int
    BY <1>5, <2>3
  <2>5. b - 1 = k /\ x \in Int
    BY <1>1, <2>2
  <2> HIDE DEF k, b
  <2>6. blocks[b].start = from + x /\ x = v - w
    BY <2>4, <2>5
  <2> HIDE DEF x, v
  <2>7. i \in blocks[b].start .. blocks[b].end - 1
    BY <1>1, <2>1, <2>2, <2>4, <2>5, <2>6 DEF Smaller
  <2> QED BY <1>6, <2>4, <2>7 DEF SpanHas
<1>9. InTurn(blocks)
  BY <1>6, <1>7 DEF InTurn
<1> QED BY <1>5, <1>6, <1>8, <1>9 DEF blocks, from, to

LEMMA TurnsConcat ==
    ASSUME NEW n \in Nat, NEW a, SoundSpans(a, n), InTurn(a), NEW b, SoundSpans(b, n), InTurn(b),
           \A r \in 1 .. Len(a) : \A s \in 1 .. Len(b) : a[r].end <= b[s].start
    PROVE  SoundSpans(a \o b, n) /\ InTurn(a \o b)
<1> DEFINE c == a \o b
           l == Len(a)
           m == Len(b)
<1>1. /\ c \in Seq(Runs) /\ Len(c) = l + m
      /\ l \in Nat /\ m \in Nat
      /\ \A i \in 1 .. l : c[i] = a[i]
      /\ \A i \in 1 .. l + m : i \in 1 .. l \/ (i - l \in 1 .. m /\ c[i] = b[i - l])
  BY ConcatParts DEF SoundSpans
<1>2. /\ \A s \in 1 .. l : 0 <= a[s].start /\ a[s].start <= a[s].end /\ a[s].end <= n
      /\ \A s \in 1 .. m : 0 <= b[s].start /\ b[s].start <= b[s].end /\ b[s].end <= n
      /\ \A s, r \in 1 .. l : s < r => a[s].end <= a[r].start
      /\ \A s, r \in 1 .. m : s < r => b[s].end <= b[r].start
  BY DEF SoundSpans, InTurn
<1> HIDE DEF c
<1>3. \A i \in 1 .. l + m : 0 <= c[i].start /\ c[i].start <= c[i].end /\ c[i].end <= n
  BY <1>1, <1>2
<1>4. ASSUME NEW s \in 1 .. l + m, NEW r \in 1 .. l + m, s < r PROVE c[s].end <= c[r].start
  <2>1. CASE s \in 1 .. l /\ r \in 1 .. l
    BY <1>1, <1>2, <1>4, <2>1
  <2>2. CASE s \in 1 .. l /\ r - l \in 1 .. m /\ c[r] = b[r - l]
    BY <1>1, <2>2
  <2>3. CASE s - l \in 1 .. m /\ c[s] = b[s - l] /\ r - l \in 1 .. m /\ c[r] = b[r - l]
    <3>1. s - l < r - l
      BY <1>1, <1>4
    <3> QED BY <1>2, <2>3, <3>1
  <2> QED BY <1>1, <1>4, <2>1, <2>2, <2>3
<1> QED BY <1>1, <1>3, <1>4 DEF SoundSpans, InTurn, c

AllBlocks(all) == [s \in 1 .. Len(all) |-> Blocks(all[s])]

\* Spans in blocks have the points they had.
LEMMA BlocksOfProperties ==
    ASSUME NEW n \in Nat, NEW all, SoundSpans(all, n)
    PROVE  LET blocks == BlocksOf(all)
           IN  /\ SoundSpans(blocks, n)
               /\ InTurn(all) => InTurn(blocks)
               /\ \A i : SpanHas(all, i) => SpanHas(blocks, i)
<1> DEFINE m == Len(all)
           seqs == AllBlocks(all)
           blocks == BlocksOf(all)
<1>1. /\ m \in Nat /\ DOMAIN all = 1 .. m
      /\ \A s \in 1 .. m : /\ all[s] \in Runs
                           /\ all[s].start \in Int /\ all[s].end \in Int
                           /\ 0 <= all[s].start /\ all[s].start <= all[s].end /\ all[s].end <= n
  <2>1. all \in Seq(Runs)
    BY DEF SoundSpans
  <2>2. m \in Nat /\ DOMAIN all = 1 .. m /\ \A s \in 1 .. m : all[s] \in Runs
    BY <2>1, LenProperties, ElementOfSeq
  <2> QED BY <2>2 DEF SoundSpans, Runs
<1>2. seqs = [s \in 1 .. m |-> Blocks(all[s])] /\ blocks = FlattenSeq(seqs)
  BY <1>1 DEF AllBlocks, BlocksOf
<1> HIDE DEF m, seqs, blocks
<1>3. ASSUME NEW s \in 1 .. m
      PROVE  /\ seqs[s] \in Seq(Runs)
             /\ \A b \in 1 .. Len(seqs[s]) : /\ all[s].start <= seqs[s][b].start
                                             /\ seqs[s][b].start <= seqs[s][b].end
                                             /\ seqs[s][b].end <= all[s].end
                                             /\ seqs[s][b].start \in Int /\ seqs[s][b].end \in Int
             /\ InTurn(seqs[s])
             /\ \A i \in all[s].start .. all[s].end - 1 : SpanHas(seqs[s], i)
             /\ SoundSpans(seqs[s], n)
  <2> DEFINE t == Blocks(all[s])
  <2>1. seqs[s] = t
    BY <1>2
  <2>2. /\ t \in Seq(Runs)
        /\ \A b \in 1 .. Len(t) : /\ all[s].start <= t[b].start
                                  /\ t[b].start <= t[b].end
                                  /\ t[b].end <= all[s].end
        /\ InTurn(t)
        /\ \A i \in all[s].start .. all[s].end - 1 : SpanHas(t, i)
    BY <1>1, BlocksProperties
  <2> HIDE DEF t
  <2>3. \A b \in 1 .. Len(t) : t[b].start \in Int /\ t[b].end \in Int
    <3>1. \A b \in 1 .. Len(t) : t[b] \in Runs
      BY <2>2, ElementOfSeq
    <3> QED BY <3>1 DEF Runs
  <2>4. SoundSpans(t, n)
    <3> SUFFICES ASSUME NEW b \in 1 .. Len(t)
                 PROVE  0 <= t[b].start /\ t[b].start <= t[b].end /\ t[b].end <= n
      BY <2>2 DEF SoundSpans
    <3>1. /\ all[s].start \in Int /\ all[s].end \in Int
          /\ 0 <= all[s].start /\ all[s].end <= n
      BY <1>1
    <3>2. /\ t[b].start \in Int /\ t[b].end \in Int
          /\ all[s].start <= t[b].start /\ t[b].start <= t[b].end /\ t[b].end <= all[s].end
      BY <2>2, <2>3
    <3> QED BY <3>1, <3>2
  <2> QED BY <2>1, <2>2, <2>3, <2>4
<1>4. seqs \in Seq(Seq(Runs)) /\ Len(seqs) = m
  <2>1. seqs \in [1 .. m -> Seq(Runs)]
    BY <1>2, <1>3
  <2>2. seqs \in Seq(Seq(Runs))
    BY <1>1, <2>1, SeqDef
  <2>3. Len(seqs) = m
    BY <1>1, <1>2, <2>2, LenProperties
  <2> QED BY <2>2, <2>3
<1>5. /\ blocks \in Seq(Runs)
      /\ \A x : IsIn(x, blocks) <=> \E k \in 1 .. m : IsIn(x, seqs[k])
  BY <1>2, <1>4, FlatProperties
<1>6. SoundSpans(blocks, n)
  <2> SUFFICES ASSUME NEW s \in 1 .. Len(blocks)
               PROVE  0 <= blocks[s].start /\ blocks[s].start <= blocks[s].end /\ blocks[s].end <= n
    BY <1>5 DEF SoundSpans
  <2>1. IsIn(blocks[s], blocks)
    BY DEF IsIn
  <2>2. PICK k \in 1 .. m : IsIn(blocks[s], seqs[k])
    BY <1>5, <2>1
  <2>3. PICK b \in 1 .. Len(seqs[k]) : seqs[k][b] = blocks[s]
    BY <2>2 DEF IsIn
  <2> QED BY <1>3, <2>3 DEF SoundSpans
<1>7. ASSUME NEW i, SpanHas(all, i) PROVE SpanHas(blocks, i)
  <2>1. PICK s \in 1 .. m : i \in all[s].start .. all[s].end - 1
    BY <1>7 DEF SpanHas, m
  <2>2. PICK b \in 1 .. Len(seqs[s]) : i \in seqs[s][b].start .. seqs[s][b].end - 1
    BY <1>3, <2>1 DEF SpanHas
  <2>3. IsIn(seqs[s][b], seqs[s])
    BY DEF IsIn
  <2>4. PICK k \in 1 .. Len(blocks) : blocks[k] = seqs[s][b]
    BY <1>5, <2>3 DEF IsIn
  <2> QED BY <2>2, <2>4 DEF SpanHas
<1>8. ASSUME InTurn(all) PROVE InTurn(blocks)
  <2>1. CASE m = 0
    <3>1. blocks = seqs /\ Len(seqs) = 0
      BY <1>2, <1>4, <2>1 DEF FlattenSeq
    <3> QED BY <3>1 DEF InTurn
  <2>2. CASE m > 0
    <3>0. PICK f : Concats(f, seqs, m)
      BY <1>1, <1>4, <2>2, FlatSteps
    <3>1. /\ f[1] = seqs[1]
          /\ \A k \in 2 .. m : f[k] = f[k - 1] \o seqs[k]
          /\ FlattenSeq(seqs) = f[m]
      BY ONLY <3>0 DEF Concats
    <3> DEFINE Good(k) == /\ SoundSpans(f[k], n) /\ InTurn(f[k])
                          /\ \A r \in 1 .. Len(f[k]) : f[k][r].end \in Int /\ f[k][r].end <= all[k].end
               T == {k \in 0 .. m : k > 0 => Good(k)}
    <3>2. 0 \in T
      BY <1>1
    <3>3. ASSUME NEW k \in 1 .. m, k - 1 \in T PROVE k \in T
      <4>1. CASE k = 1
        <5>1. f[1] = seqs[1] /\ 1 \in 1 .. m
          BY <3>1, <2>2, <1>1
        <5>2. Good(1)
          BY <1>3, <5>1
        <5> QED BY <4>1, <5>2
      <4>2. CASE k > 1
        <5>1. k \in 2 .. m /\ k - 1 > 0 /\ k - 1 \in 1 .. m
          BY <1>1, <4>2
        <5>2. Good(k - 1)
          BY <3>3, <5>1
        <5> DEFINE a == f[k - 1]
                   b == seqs[k]
                   c == f[k]
                   before == all[k - 1]
                   now == all[k]
        <5>3. /\ SoundSpans(a, n) /\ InTurn(a)
              /\ \A r \in 1 .. Len(a) : a[r].end \in Int /\ a[r].end <= before.end
          BY <5>2
        <5>4. /\ SoundSpans(b, n) /\ InTurn(b)
              /\ \A r \in 1 .. Len(b) : /\ now.start <= b[r].start /\ b[r].end <= now.end
                                        /\ b[r].start \in Int /\ b[r].end \in Int
          BY <1>3
        <5>5. c = a \o b
          BY <3>1, <5>1
        <5>6. before.end <= now.start /\ before.end \in Int /\ now.start \in Int /\ now.end \in Int /\ now.start <= now.end
          <6>1. k - 1 < k
            OBVIOUS
          <6>2. before.end <= now.start
            BY <1>8, <5>1, <6>1 DEF InTurn, m
          <6> QED BY <1>1, <5>1, <6>2
        <5> HIDE DEF a, b, c, before, now
        <5>7. \A r \in 1 .. Len(a) : \A s \in 1 .. Len(b) : a[r].end <= b[s].start
          <6> SUFFICES ASSUME NEW r \in 1 .. Len(a), NEW s \in 1 .. Len(b)
                       PROVE  a[r].end <= b[s].start
            OBVIOUS
          <6>1. a[r].end \in Int /\ a[r].end <= before.end
            BY <5>3
          <6>2. b[s].start \in Int /\ now.start <= b[s].start
            BY <5>4
          <6> QED BY <5>6, <6>1, <6>2
        <5>8. SoundSpans(c, n) /\ InTurn(c)
          BY <5>3, <5>4, <5>5, <5>7, TurnsConcat
        <5>9. \A r \in 1 .. Len(c) : c[r].end \in Int /\ c[r].end <= now.end
          <6>1. /\ Len(c) = Len(a) + Len(b)
                /\ \A i \in 1 .. Len(a) : c[i] = a[i]
                /\ \A i \in 1 .. Len(a) + Len(b) :
                       i \in 1 .. Len(a) \/ (i - Len(a) \in 1 .. Len(b) /\ c[i] = b[i - Len(a)])
            BY <5>3, <5>4, <5>5, ConcatParts DEF SoundSpans
          <6> SUFFICES ASSUME NEW r \in 1 .. Len(c) PROVE c[r].end \in Int /\ c[r].end <= now.end
            OBVIOUS
          <6>2. CASE r \in 1 .. Len(a)
            <7>1. c[r] = a[r] /\ a[r].end \in Int /\ a[r].end <= before.end
              BY <5>3, <6>1, <6>2
            <7> QED BY <5>6, <7>1
          <6>3. CASE r - Len(a) \in 1 .. Len(b) /\ c[r] = b[r - Len(a)]
            BY <5>4, <6>3
          <6> QED BY <6>1, <6>2, <6>3
        <5>10. Good(k)
          BY <5>8, <5>9 DEF c, now
        <5> QED BY <5>10
      <4> QED BY <4>1, <4>2
    <3> HIDE DEF T
    <3>4. 0 .. m \subseteq T
      BY <1>1, <3>2, <3>3, UpTo
    <3>5. m \in T
      BY <1>1, <3>4
    <3>6. Good(m)
      BY <2>2, <3>5 DEF T
    <3> QED BY <1>2, <3>1, <3>6
  <2> QED BY <1>1, <2>1, <2>2
<1> QED BY <1>6, <1>7, <1>8 DEF blocks

AllSelected(q, blocks) ==
    [b \in DOMAIN blocks |-> Selected(q, blocks[b].start, blocks[b].end)]

\* What is selected block by block is all that the blocks have, in order.
LEMMA GatheredProperties ==
    ASSUME NEW n \in Nat, n = Len(file), NEW q, NEW blocks, SoundSpans(blocks, n)
    PROVE  LET g == FlattenSeq(AllSelected(q, blocks))
           IN  /\ g \in Seq(Int)
               /\ \A k \in 1 .. Len(g) : g[k] \in In(q, 0, n)
               /\ InTurn(blocks) /\ (\A i \in In(q, 0, n) : SpanHas(blocks, i)) => Lists(g, In(q, 0, n))
<1> DEFINE m == Len(blocks)
           seqs == AllSelected(q, blocks)
           g == FlattenSeq(seqs)
           Of(b) == In(q, blocks[b].start, blocks[b].end)
<1>1. /\ m \in Nat /\ DOMAIN blocks = 1 .. m
      /\ \A s \in 1 .. m : /\ blocks[s].start \in Int /\ blocks[s].end \in Int
                           /\ 0 <= blocks[s].start /\ blocks[s].start <= blocks[s].end /\ blocks[s].end <= n
  <2>1. blocks \in Seq(Runs)
    BY DEF SoundSpans
  <2>2. m \in Nat /\ DOMAIN blocks = 1 .. m /\ \A s \in 1 .. m : blocks[s] \in Runs
    BY <2>1, LenProperties, ElementOfSeq
  <2> QED BY <2>2 DEF SoundSpans, Runs
<1>2. seqs = [b \in 1 .. m |-> Selected(q, blocks[b].start, blocks[b].end)]
  BY <1>1 DEF AllSelected
<1> HIDE DEF m, seqs, Of
<1>3. \A b \in 1 .. m : Lists(seqs[b], Of(b))
  <2> SUFFICES ASSUME NEW b \in 1 .. m PROVE Lists(seqs[b], Of(b))
    OBVIOUS
  <2>1. Lists(Selected(q, blocks[b].start, blocks[b].end), In(q, blocks[b].start, blocks[b].end))
    BY <1>1, SelectedProperties
  <2> QED BY <1>2, <2>1 DEF Of
<1>4. seqs \in Seq(Seq(Int)) /\ Len(seqs) = m
  <2>1. seqs \in [1 .. m -> Seq(Int)]
    BY <1>2, <1>3 DEF Lists
  <2>2. seqs \in Seq(Seq(Int))
    BY <1>1, <2>1, SeqDef
  <2>3. Len(seqs) = m
    BY <1>1, <1>2, <2>2, LenProperties
  <2> QED BY <2>2, <2>3
<1>5. /\ g \in Seq(Int)
      /\ \A x : IsIn(x, g) <=> \E k \in 1 .. m : IsIn(x, seqs[k])
  BY <1>4, FlatProperties
<1>6. ASSUME NEW b \in 1 .. m, NEW x \in Of(b) PROVE x \in In(q, 0, n)
  <2>1. x \in blocks[b].start .. blocks[b].end - 1 /\ Inside(q, file[x + 1])
    BY <1>6 DEF Of, In
  <2>2. x \in 0 .. n - 1
    BY <1>1, <2>1
  <2> QED BY <2>1, <2>2 DEF In
<1>7. ASSUME NEW k \in 1 .. Len(g) PROVE g[k] \in In(q, 0, n)
  <2>1. IsIn(g[k], g)
    BY DEF IsIn
  <2>2. PICK b \in 1 .. m : IsIn(g[k], seqs[b])
    BY <1>5, <2>1
  <2>3. g[k] \in Of(b)
    BY <1>3, <2>2 DEF Lists
  <2> QED BY <1>6, <2>3
<1>8. ASSUME InTurn(blocks), \A i \in In(q, 0, n) : SpanHas(blocks, i)
      PROVE  Lists(g, In(q, 0, n))
  <2> DEFINE Union(k) == UNION {Of(b) : b \in 1 .. k}
  <2>1. Union(m) = In(q, 0, n)
    <3>1. ASSUME NEW x \in In(q, 0, n) PROVE x \in Union(m)
      <4>1. PICK b \in 1 .. m : x \in blocks[b].start .. blocks[b].end - 1
        BY <1>8, <3>1 DEF SpanHas, m
      <4>2. x \in Of(b)
        BY <3>1, <4>1 DEF Of, In
      <4> QED BY <4>2
    <3> QED BY <1>6, <3>1
  <2>2. CASE m = 0
    <3>1. g = seqs /\ Len(seqs) = 0
      BY <1>4, <2>2 DEF FlattenSeq
    <3>2. Union(m) = {}
      BY <2>2
    <3>3. g = <<>>
      BY <1>4, <3>1, EmptySeq
    <3> HIDE DEF g
    <3> QED BY <2>1, <3>2, <3>3, ListsNothing
  <2>3. CASE m > 0
    <3>0. PICK f : Concats(f, seqs, m)
      BY <1>1, <1>4, <2>3, FlatSteps
    <3>1. /\ f[1] = seqs[1]
          /\ \A k \in 2 .. m : f[k] = f[k - 1] \o seqs[k]
          /\ g = f[m]
      BY ONLY <3>0 DEF Concats
    <3> HIDE DEF g
    <3> DEFINE Good(k) == Lists(f[k], Union(k))
               T == {k \in 0 .. m : k > 0 => Good(k)}
    <3>2. 0 \in T
      BY <1>1
    <3>3. ASSUME NEW k \in 1 .. m, k - 1 \in T PROVE k \in T
      <4>1. CASE k = 1
        <5>1. f[1] = seqs[1] /\ 1 \in 1 .. m /\ Union(1) = Of(1)
          BY <1>1, <2>3, <3>1
        <5>2. Good(1)
          BY <1>3, <5>1
        <5> QED BY <4>1, <5>2
      <4>2. CASE k > 1
        <5>1. k \in 2 .. m /\ k - 1 > 0
          BY <1>1, <4>2
        <5> DEFINE a == f[k - 1]
                   b == seqs[k]
                   S == Union(k - 1)
                   R == Of(k)
        <5>2. Lists(a, S) /\ Lists(b, R) /\ f[k] = a \o b
          BY <1>3, <3>1, <3>3, <5>1
        <5>3. Union(k) = S \cup R
          <6>1. \A c \in 1 .. k : c \in 1 .. k - 1 \/ c = k
            OBVIOUS
          <6>2. k \in 1 .. k /\ \A c \in 1 .. k - 1 : c \in 1 .. k
            OBVIOUS
          <6> QED BY <6>1, <6>2
        <5>4. ASSUME NEW x \in S, NEW y \in R PROVE x < y
          <6>1. PICK c \in 1 .. k - 1 : x \in Of(c)
            BY <5>4
          <6>2. c \in 1 .. m /\ c < k
            BY <1>1, <6>1
          <6>3. blocks[c].end <= blocks[k].start
            BY <1>8, <6>2 DEF InTurn, m
          <6>4. x \in blocks[c].start .. blocks[c].end - 1 /\ y \in blocks[k].start .. blocks[k].end - 1
            BY <5>4, <6>1 DEF Of, In
          <6> QED BY <1>1, <6>2, <6>3, <6>4
        <5> HIDE DEF a, b, S, R
        <5>5. Lists(a \o b, S \cup R)
          BY <5>2, <5>4, ListsConcat
        <5> HIDE DEF Union
        <5>6. Good(k)
          BY <5>2, <5>3, <5>5
        <5> QED BY <5>6
      <4> QED BY <4>1, <4>2
    <3> HIDE DEF T
    <3>4. 0 .. m \subseteq T
      BY <1>1, <3>2, <3>3, UpTo
    <3>5. m \in T
      BY <1>1, <3>4
    <3>6. Good(m)
      BY <2>3, <3>5 DEF T
    <3> QED BY <2>1, <3>1, <3>6
  <2> QED BY <1>1, <2>2, <2>3
<1> QED BY <1>5, <1>7, <1>8 DEF g, seqs

-----------------------------------------------------------------------------
(* The spans of a query, and what it hands out. *)

SoundFound(x) == x = None \/ (SoundIndex(x) /\ (x.own => OwnIndex(file, x)))

GotIsInside == \A k \in 1 .. Len(got) : got[k] \in 0 .. Len(file) - 1 /\ Inside(region, file[got[k] + 1])

QueryInv ==
    /\ SoundLax(file, lax)
    /\ SoundFound(ix)
    /\ region # None => region \in Regions /\ Valid(region)
    /\ region = None => spans = <<>>
    /\ SoundSpans(spans, Len(file))
    /\ begun \in BOOLEAN
    /\ begun => spans # <<>> /\ index \in Head(spans).start .. Head(spans).end
    /\ got \in Seq(Int)
    /\ region # None => GotIsInside

LEMMA NoSpans ==
    ASSUME NEW n PROVE SoundSpans(<<>>, n) /\ InTurn(<<>>)
BY DEF SoundSpans, InTurn

\* QueryInv is the invariant of the queries: the spans are of the file, and what
\* was handed out is inside.
LEMMA QueryInvInit ==
    ASSUME Init PROVE QueryInv
<1>1. SoundLax(file, lax)
  <2>1. PICK given \in (Files \X {None}) \cup Beside : file = given[1] /\ lax = given[2]
    BY DEF Init
  <2>2. CASE given \in Files \X {None}
    <3>1. lax = None
      BY <2>1, <2>2
    <3> QED BY <3>1 DEF SoundLax, None
  <2>3. CASE given \in Beside
    BY <2>1, <2>3, BesideAssumption DEF SoundLax
  <2> QED BY <2>2, <2>3
<1>2. spans = <<>> /\ begun = FALSE /\ got = <<>> /\ region = None /\ ix = None
  BY DEF Init
<1>3. SoundSpans(spans, Len(file)) /\ got \in Seq(Int)
  BY <1>2, NoSpans
<1> QED BY <1>1, <1>2, <1>3 DEF QueryInv, SoundFound

\* An index that is looked for is one that can be read.
LEMMA LookFinds ==
    ASSUME BuildInv, QueryInv, Look
    PROVE  SoundFound(ix') /\ (~ Refused => SoundFound(FoundNow))
<1>1. ASSUME ~ Refused PROVE SoundFound(FoundNow)
  <2>1. CASE looked
    BY <2>1 DEF QueryInv, FoundNow
  <2>2. CASE ~ looked /\ lax = None
    BY <2>2 DEF FoundNow, SoundFound
  <2>3. CASE ~ looked /\ lax # None
    <3> DEFINE x == laz_index_read(lax)
    <3>1. Readable(lax) /\ FoundNow = x
      BY <1>1, <2>3 DEF Refused, FoundNow
    <3>2. SoundIndex(x) /\ x.own = lax.own /\ (lax.own => OwnIndex(file, x))
      BY <3>1, ReadProperties DEF BuildInv, QueryInv
    <3> HIDE DEF x
    <3> QED BY <3>1, <3>2 DEF SoundFound
  <2> QED BY <2>1, <2>2, <2>3
<1> QED BY <1>1 DEF Look, SoundFound

\* A turn of the generator.
LEMMA AdvanceKeeps ==
    ASSUME BuildInv, QueryInv, ReadWithin PROVE QueryInv'
<1> DEFINE n == Len(file)
           s == Head(spans)
           from == From
           hits == Selected(region, from, s.end)
<1>1. spans # <<>> /\ builder = Idle /\ UNCHANGED <<file, builder, lax, looked, ix, region>>
  BY DEF ReadWithin
<1>2. region # None /\ region \in Regions /\ Valid(region)
  BY <1>1 DEF QueryInv
<1>3. /\ spans \in Seq(Runs) /\ Len(spans) \in Nat /\ Len(spans) > 0 /\ s = spans[1]
      /\ s \in Runs /\ Tail(spans) \in Seq(Runs) /\ Len(Tail(spans)) = Len(spans) - 1
      /\ \A k \in 1 .. Len(spans) - 1 : Tail(spans)[k] = spans[k + 1]
  <2>1. spans \in Seq(Runs)
    BY DEF QueryInv, SoundSpans
  <2>2. Len(spans) \in Nat /\ Len(spans) > 0
    BY <1>1, <2>1, EmptySeq, LenProperties
  <2> QED BY <1>1, <2>1, <2>2, HeadTailProperties, ElementOfSeq
<1>4. /\ s.start \in Int /\ s.end \in Int /\ 0 <= s.start /\ s.start <= s.end /\ s.end <= n
      /\ n \in Nat
  <2>1. 1 \in 1 .. Len(spans)
    BY <1>3
  <2> QED BY <1>3, <2>1, LenProperties DEF QueryInv, SoundSpans, BuildInv, Runs
<1>5. from \in Int /\ s.start <= from /\ from <= s.end
  BY <1>4 DEF From, QueryInv
<1>6. Lists(hits, In(region, from, s.end))
  BY <1>4, <1>5, SelectedProperties
<1>7. IF hits = <<>>
      THEN index' = s.end /\ begun' = FALSE /\ spans' = Tail(spans) /\ got' = got
      ELSE index' = Head(hits) + 1 /\ begun' = TRUE /\ spans' = spans /\ got' = Append(got, Head(hits))
  BY DEF ReadWithin, Advance
<1> HIDE DEF s, from, hits
<1>8. CASE hits = <<>>
  <2>1. begun' = FALSE /\ spans' = Tail(spans) /\ got' = got
    BY <1>7, <1>8
  <2>2. SoundSpans(Tail(spans), n)
    BY <1>3 DEF SoundSpans, QueryInv
  <2>3. region' # None
    BY <1>1, <1>2
  <2>4. GotIsInside'
    BY <1>1, <1>2, <2>1 DEF QueryInv, GotIsInside
  <2> QED BY <1>1, <1>2, <2>1, <2>2, <2>3, <2>4 DEF QueryInv, SoundFound, Valid
<1>9. CASE hits # <<>>
  <2> DEFINE h == Head(hits)
  <2>1. index' = h + 1 /\ begun' = TRUE /\ spans' = spans /\ got' = Append(got, h)
    BY <1>7, <1>9
  <2>2. h \in In(region, from, s.end)
    <3>1. hits \in Seq(Int) /\ Len(hits) \in Nat /\ Len(hits) > 0 /\ h = hits[1]
      BY <1>6, <1>9, EmptySeq, LenProperties, HeadTailProperties DEF Lists
    <3>2. IsIn(h, hits)
      BY <3>1 DEF IsIn
    <3> QED BY <1>6, <3>2 DEF Lists
  <2>3. h \in from .. s.end - 1 /\ Inside(region, file[h + 1])
    BY <2>2 DEF In
  <2> HIDE DEF h
  <2>4. h \in In(region, 0, n) /\ h \in Int
    BY <1>4, <1>5, <2>3 DEF In
  <2>5. index' \in s.start .. s.end
    BY <1>4, <1>5, <2>1, <2>3
  <2>6. got' \in Seq(Int) /\ \A k \in 1 .. Len(got') : got'[k] \in In(region, 0, n)
    <3>1. /\ got \in Seq(Int) /\ got' \in Seq(Int) /\ Len(got') = Len(got) + 1 /\ Len(got) \in Nat
          /\ \A k \in 1 .. Len(got) : got'[k] = got[k]
          /\ got'[Len(got) + 1] = h
      BY <2>1, <2>4, AppendProperties, LenProperties DEF QueryInv
    <3>2. \A k \in 1 .. Len(got') : k \in 1 .. Len(got) \/ k = Len(got) + 1
      BY <3>1
    <3> QED BY <1>2, <2>4, <3>1, <3>2 DEF QueryInv, GotIsInside, In
  <2>7. GotIsInside'
    BY <1>1, <2>6 DEF GotIsInside, In
  <2>8. region' # None /\ spans' # <<>> /\ Head(spans') = s
    BY <1>1, <1>2, <2>1 DEF s
  <2> QED BY <1>1, <1>2, <2>1, <2>5, <2>6, <2>7, <2>8 DEF QueryInv, SoundFound, Valid
<1> QED BY <1>8, <1>9

LEMMA PointsWithinKeeps ==
    ASSUME BuildInv, QueryInv, NEW q \in Regions, PointsWithin(q) PROVE QueryInv'
<1>1. /\ UNCHANGED <<file, index, builder, lax>>
      /\ Valid(q) /\ Look
      /\ region' = IF Refused THEN None ELSE q
      /\ spans' = IF Refused THEN <<>> ELSE SpansOf(FoundNow, q)
      /\ begun' = FALSE /\ got' = <<>>
  BY DEF PointsWithin, buildVars
<1>2. SoundFound(ix') /\ (~ Refused => SoundFound(FoundNow))
  BY <1>1, LookFinds
<1>3. SoundSpans(spans', Len(file))
  <2>1. CASE Refused
    BY <1>1, <2>1, NoSpans
  <2>2. CASE ~ Refused
    <3>1. spans' = SpansOf(FoundNow, q) /\ (FoundNow = None \/ SoundIndex(FoundNow))
      BY <1>1, <1>2, <2>2 DEF SoundFound
    <3>2. file \in Seq(Points)
      BY DEF BuildInv
    <3> DEFINE x == FoundNow
    <3> HIDE DEF x
    <3>3. spans' = SpansOf(x, q) /\ (x = None \/ SoundIndex(x))
      BY <3>1 DEF x
    <3> QED BY <3>2, <3>3, SpansOfAreSound
  <2> QED BY <2>1, <2>2
<1>4. region' # None => region' \in Regions /\ Valid(region')
  BY <1>1
<1>5. region' = None => spans' = <<>>
  <2>1. q # None
    <3>1. DOMAIN None = {"kind", "own"}
      BY DEF None
    <3>2. "x0" \in DOMAIN q
      BY RegionsAssumption
    <3> QED BY <3>1, <3>2
  <2> QED BY <1>1, <2>1
<1>6. got' \in Seq(Int) /\ GotIsInside'
  BY <1>1 DEF GotIsInside
<1>7. SoundFound(ix)' /\ SoundLax(file, lax)'
  BY <1>1, <1>2 DEF SoundFound, QueryInv
<1> QED BY <1>1, <1>3, <1>4, <1>5, <1>6, <1>7 DEF QueryInv, Valid

LEMMA ArraysWithinKeeps ==
    ASSUME BuildInv, QueryInv, NEW q \in Regions, ArraysWithin(q) PROVE QueryInv'
<1> DEFINE n == Len(file)
           blocks == BlocksOf(SpansOf(FoundNow, q))
<1>1. /\ UNCHANGED <<file, builder, lax>>
      /\ Valid(q) /\ Look
      /\ region' = IF Refused THEN None ELSE q
      /\ spans' = <<>> /\ begun' = FALSE
      /\ Refused => got' = <<>>
      /\ ~ Refused => got' = FlattenSeq(AllSelected(q, blocks))
  BY DEF ArraysWithin, Gathered, AllSelected
<1>2. SoundFound(ix') /\ (~ Refused => SoundFound(FoundNow))
  BY <1>1, LookFinds
<1>3. got' \in Seq(Int) /\ (~ Refused => \A k \in 1 .. Len(got') : got'[k] \in In(q, 0, n))
  <2>1. CASE Refused
    BY <1>1, <2>1
  <2>2. CASE ~ Refused
    <3>1. FoundNow = None \/ SoundIndex(FoundNow)
      BY <1>2, <2>2 DEF SoundFound
    <3>2. file \in Seq(Points) /\ n \in Nat
      BY LenProperties DEF BuildInv
    <3> DEFINE all == SpansOf(FoundNow, q)
    <3>3. SoundSpans(all, n)
      <4> DEFINE x == FoundNow
      <4> HIDE DEF x
      <4>1. x = None \/ SoundIndex(x)
        BY <3>1 DEF x
      <4>2. SoundSpans(SpansOf(x, q), n)
        BY <3>2, <4>1, SpansOfAreSound
      <4> QED BY <4>2 DEF x
    <3> HIDE DEF all
    <3>4. SoundSpans(BlocksOf(all), n)
      BY <3>2, <3>3, BlocksOfProperties
    <3>5. SoundSpans(blocks, n)
      BY <3>4 DEF all
    <3> HIDE DEF blocks
    <3> QED BY <1>1, <2>2, <3>2, <3>5, GatheredProperties
  <2> QED BY <2>1, <2>2
<1>4. region' # None => region' \in Regions /\ Valid(region')
  BY <1>1
<1>5. region' # None => ~ Refused /\ region' = q
  BY <1>1
<1>6. region' # None => GotIsInside'
  BY <1>1, <1>3, <1>5 DEF GotIsInside, In
<1>7. SoundFound(ix)' /\ SoundLax(file, lax)'
  BY <1>1, <1>2 DEF SoundFound, QueryInv
<1>8. SoundSpans(spans', Len(file'))
  BY <1>1, NoSpans
<1> HIDE DEF n, blocks
<1> QED BY <1>1, <1>3, <1>4, <1>6, <1>7, <1>8 DEF QueryInv, Valid

LEMMA QueryInvKept ==
    ASSUME BuildInv, QueryInv, [Next]_vars PROVE QueryInv'
<1>1. CASE Build
  <2>1. region = None /\ UNCHANGED <<looked, ix, region, spans, begun, got>> /\ UNCHANGED file
    BY <1>1 DEF Build, queryVars, BuildNext, Setup, Add, Complete, Serialize
  <2>2. SoundLax(file, lax')
    <3>1. CASE lax' = lax
      BY <3>1 DEF QueryInv
    <3>2. CASE Serialize
      <4>1. builder.phase = "complete" /\ lax' = Serialized(builder.tree, builder.cells)
        BY <3>2 DEF Serialize
      <4>2. Finished(file, builder.tree, builder.cells)
        BY <4>1 DEF BuildInv, SoundBuilder, Idle, Adding
      <4> QED BY <4>1, <4>2 DEF SoundLax
    <3> QED BY <1>1, <3>1, <3>2 DEF Build, BuildNext, Setup, Add, Complete
  <2>3. spans = <<>> /\ begun = FALSE
    BY <2>1 DEF QueryInv
  <2> QED BY <2>1, <2>2, <2>3 DEF QueryInv, SoundFound
<1>2. CASE ReadWithin
  BY <1>2, AdvanceKeeps
<1>3. CASE Drop
  <2>1. /\ spans' = <<>> /\ begun' = FALSE /\ got' = <<>> /\ region' = None
        /\ UNCHANGED <<file, index, builder, lax, looked, ix>>
    BY <1>3 DEF Drop, buildVars
  <2>2. SoundSpans(spans', Len(file')) /\ got' \in Seq(Int)
    BY <2>1, NoSpans
  <2>3. SoundFound(ix)' /\ SoundLax(file, lax)'
    BY <2>1 DEF QueryInv, SoundFound
  <2> QED BY <2>1, <2>2, <2>3 DEF QueryInv
<1>4. ASSUME NEW q \in Regions, PointsWithin(q) PROVE QueryInv'
  BY <1>4, PointsWithinKeeps
<1>5. ASSUME NEW q \in Regions, ArraysWithin(q) PROVE QueryInv'
  BY <1>5, ArraysWithinKeeps
<1>6. CASE UNCHANGED vars
  BY <1>6 DEF QueryInv, SoundFound, GotIsInside, Valid, vars, buildVars, queryVars
<1> QED BY <1>1, <1>2, <1>3, <1>4, <1>5, <1>6 DEF Next

LEMMA QueryInvAlways == Spec => [](BuildInv /\ QueryInv)
<1>1. Init => BuildInv /\ QueryInv
  BY BuildInvInit, QueryInvInit
<1>2. BuildInv /\ QueryInv /\ [Next]_vars => (BuildInv /\ QueryInv)'
  BY BuildInvKept, QueryInvKept
<1> QED BY <1>1, <1>2, PTL DEF Spec

\* Whatever an index says that was found beside a file, no query looks for points
\* the file does not have, or hands out one outside its region (reader.py:913).
THEOREM SpansAlwaysStay == Spec => []SpansStayInTheFile
<1>1. BuildInv /\ QueryInv => SpansStayInTheFile
  <2> SUFFICES ASSUME BuildInv, QueryInv PROVE SpansStayInTheFile
    OBVIOUS
  <2>1. DOMAIN spans = 1 .. Len(spans) /\ DOMAIN got = 1 .. Len(got)
    BY LenProperties DEF QueryInv, SoundSpans
  <2> QED BY <2>1 DEF QueryInv, SoundSpans, GotIsInside, SpansStayInTheFile
<1> QED BY <1>1, QueryInvAlways, PTL

-----------------------------------------------------------------------------
(* A query reaches the cell that has a point it selects. *)

\* Marking the cells that others lie in.
LEMMA BitsSteps ==
    ASSUME NEW cells, NEW n \in Nat, n = Len(cells)
    PROVE  \E f : /\ f[0] = {}
                  /\ \A k \in 1 .. n : f[k] = quadtree_manage_cell(f[k - 1], cells[k].index)
                  /\ Subdivided(cells) = f[n]
<1> DEFINE base == {}
           step(x, k) == quadtree_manage_cell(x, cells[k].index)
           Rec(f, m) == f = [k \in 0 .. m |-> IF k = 0 THEN base ELSE step(f[k - 1], k)]
           T == {m \in 0 .. n : \E f : Rec(f, m)}
<1>1. Subdivided(cells) = (CHOOSE f : Rec(f, n))[n]
  BY DEF Subdivided
<1>2. \A k \in 1 .. n : \A x : step(x, k) = quadtree_manage_cell(x, cells[k].index)
  OBVIOUS
<1> HIDE DEF step
<1>3. \A f : \A m \in Nat :
          (f = [k \in 0 .. m |-> f[k]] /\ \A k \in 0 .. m : f[k] = IF k = 0 THEN base ELSE step(f[k - 1], k))
            => Rec(f, m)
  OBVIOUS
<1>4. \A f : \A m \in Nat :
          Rec(f, m) => \A k \in 0 .. m : f[k] = IF k = 0 THEN base ELSE step(f[k - 1], k)
  OBVIOUS
<1> HIDE DEF Rec, base
<1>5. 0 \in T
  <2> DEFINE g == [k \in 0 .. 0 |-> base]
  <2>1. g = [k \in 0 .. 0 |-> g[k]] /\ \A k \in 0 .. 0 : g[k] = IF k = 0 THEN base ELSE step(g[k - 1], k)
    OBVIOUS
  <2> HIDE DEF g
  <2>2. Rec(g, 0)
    BY <2>1, <1>3
  <2> QED BY <2>2
<1>6. ASSUME NEW m \in 1 .. n, m - 1 \in T PROVE m \in T
  <2>1. PICK g : Rec(g, m - 1)
    BY <1>6
  <2> DEFINE x == step(g[m - 1], m)
             h == [k \in 0 .. m |-> IF k = m THEN x ELSE g[k]]
  <2>2. h[m] = x /\ \A k \in 0 .. m - 1 : h[k] = g[k]
    OBVIOUS
  <2>3. h = [k \in 0 .. m |-> h[k]]
    OBVIOUS
  <2> HIDE DEF h
  <2>4. \A k \in 0 .. m - 1 : g[k] = IF k = 0 THEN base ELSE step(g[k - 1], k)
    BY <2>1, <1>4
  <2>5. ASSUME NEW k \in 0 .. m
        PROVE  h[k] = IF k = 0 THEN base ELSE step(h[k - 1], k)
    <3>1. k # 0 => k - 1 \in 0 .. m - 1
      OBVIOUS
    <3>2. CASE k = m
      BY <2>2, <3>1, <3>2
    <3>3. CASE k # m
      <4>1. k \in 0 .. m - 1 /\ h[k] = g[k]
        BY <2>2, <3>3
      <4>2. k # 0 => h[k - 1] = g[k - 1]
        BY <2>2, <3>1
      <4> QED BY <2>4, <4>1, <4>2
    <3> QED BY <3>2, <3>3
  <2>6. Rec(h, m)
    <3>1. m \in Nat /\ \A k \in 0 .. m : h[k] = IF k = 0 THEN base ELSE step(h[k - 1], k)
      BY <2>5
    <3> QED BY ONLY <1>3, <2>3, <3>1
  <2> QED BY <2>6
<1>7. 0 .. n \subseteq T
  BY <1>5, <1>6, UpTo
<1> DEFINE f == CHOOSE g : Rec(g, n)
<1>8. Rec(f, n)
  BY <1>7
<1> HIDE DEF f
<1>9. f[0] = base /\ \A k \in 1 .. n : f[k] = step(f[k - 1], k)
  BY <1>4, <1>8
<1> QED BY <1>1, <1>2, <1>9 DEF f, base


\* The ancestors of a cell, each an ancestor of those before it.
LEMMA AncestorsInTurn ==
    ASSUME NEW cell \in InTree
    PROVE  LET up == Ancestors(cell)
           IN  /\ \A m, n \in 1 .. LevelOf(cell) : m < n => up[n] \in Above(up[m])
               /\ Above(cell) = {up[k] : k \in 1 .. LevelOf(cell)}
               /\ DOMAIN up = 1 .. LevelOf(cell)
<1> DEFINE n == LevelOf(cell)
           up == Ancestors(cell)
<1>1. n \in Nat
  BY LevelOfProperties, TreeAssumption
<1>2. PICK f : /\ f[0] = cell
               /\ \A k \in 1 .. n : f[k] = Parent(f[k - 1])
               /\ up = [k \in 1 .. n |-> f[k]]
  BY ONLY <1>1, UpSteps
<1> HIDE DEF up
<1>3. DOMAIN up = 1 .. n /\ \A k \in 1 .. n : up[k] = f[k]
  BY <1>2
<1> HIDE DEF n
<1>4. Above(cell) = {up[k] : k \in 1 .. n}
  BY <1>3 DEF Above, up, Range
<1>5. \A k \in 1 .. n : up[k] \in InTree
  BY <1>4, AboveProperties
<1>6. ASSUME NEW m \in 1 .. n PROVE \A k \in 1 .. n : m < k => up[k] \in Above(up[m])
  <2> DEFINE T == {k \in 0 .. n : m < k => up[k] \in Above(up[m])}
  <2>1. 0 \in T
    BY <1>1
  <2>2. ASSUME NEW k \in 1 .. n, k - 1 \in T PROVE k \in T
    <3> SUFFICES ASSUME m < k PROVE up[k] \in Above(up[m])
      OBVIOUS
    <3>1. k - 1 \in 1 .. n /\ up[k] = Parent(up[k - 1])
      BY <1>1, <1>2, <1>3
    <3>2. up[k - 1] # 0
      <4> SUFFICES ASSUME up[k - 1] = 0 PROVE FALSE
        OBVIOUS
      <4>1. LevelOf(up[k - 1]) = 0
        BY <1>5, <3>1, ParentProperties
      <4> DEFINE U == {j \in 0 .. n : LevelOf(f[j]) = n - j /\ f[j] \in InTree}
      <4>2. 0 \in U
        BY <1>1, <1>2 DEF n
      <4>3. ASSUME NEW j \in 1 .. n, j - 1 \in U PROVE j \in U
        <5>1. LevelOf(f[j - 1]) = n - (j - 1) /\ f[j - 1] \in InTree /\ f[j] = Parent(f[j - 1])
          BY <1>2, <4>3
        <5>2. f[j - 1] # 0
          BY <1>1, <5>1, ParentProperties
        <5>3. f[j] \in InTree /\ LevelOf(f[j]) = LevelOf(f[j - 1]) - 1
          BY <5>1, <5>2, ParentProperties
        <5> QED BY <1>1, <5>1, <5>3
      <4> HIDE DEF U
      <4>4. 0 .. n \subseteq U
        BY <1>1, <4>2, <4>3, UpTo
      <4>5. k - 1 \in U
        BY <1>1, <3>1, <4>4
      <4> QED BY <1>1, <1>3, <3>1, <4>1, <4>5 DEF U
    <3>3. up[k - 1] \in OrAbove(up[m])
      <4>1. CASE m = k - 1
        BY <4>1 DEF OrAbove
      <4>2. CASE m < k - 1
        BY <2>2, <4>2 DEF OrAbove
      <4> QED BY <1>1, <4>1, <4>2
    <3> QED BY <1>5, <3>1, <3>2, <3>3, AboveProperties
  <2> HIDE DEF T
  <2>3. 0 .. n \subseteq T
    BY <1>1, <2>1, <2>2, UpTo
  <2> QED BY <1>1, <2>3 DEF T
<1> QED BY <1>3, <1>4, <1>6 DEF up, n

Upwards(bits) == bits \subseteq InTree /\ \A a \in bits : Above(a) \subseteq bits

\* Marking stops where it meets a cell that is marked, and misses none.
LEMMA MarkedProperties ==
    ASSUME NEW bits, Upwards(bits), NEW cell \in InTree, cell \notin bits
    PROVE  LET new == quadtree_manage_cell(bits, cell)
           IN  new = bits \cup Above(cell) /\ Upwards(new)
<1> DEFINE up == Ancestors(cell)
           n == LevelOf(cell)
           new == quadtree_manage_cell(bits, cell)
           free == {k \in 1 .. n : \A m \in 1 .. k : up[m] \notin bits}
<1>1. /\ DOMAIN up = 1 .. n
      /\ \A m, k \in 1 .. n : m < k => up[k] \in Above(up[m])
      /\ Above(cell) = {up[k] : k \in 1 .. n}
  BY AncestorsInTurn
<1>2. n \in Nat
  BY LevelOfProperties, TreeAssumption
<1>3. bits \ {cell} = bits
  OBVIOUS
<1>4. new = bits \cup {up[k] : k \in free}
  BY <1>1, <1>3 DEF quadtree_manage_cell, MarkedUp
<1> HIDE DEF up, new, n
<1>5. ASSUME NEW k \in 1 .. n PROVE up[k] \in bits \cup {up[j] : j \in free}
  <2>1. CASE k \in free
    BY <2>1
  <2>2. CASE k \notin free
    <3>1. PICK m \in 1 .. k : up[m] \in bits
      BY <2>2
    <3>2. m \in 1 .. n /\ (m = k \/ m < k)
      BY <1>2
    <3> QED BY <1>1, <3>1, <3>2 DEF Upwards
  <2> QED BY <2>1, <2>2
<1>6. new = bits \cup Above(cell)
  BY <1>1, <1>4, <1>5
<1>7. Upwards(new)
  BY <1>6, AboveProperties DEF Upwards
<1> QED BY <1>6, <1>7 DEF new

\* Where no cell lies in another, what is marked are the cells they lie in.
LEMMA SubdividedProperties ==
    ASSUME NEW cells, SoundEntries(cells), Antichain(cells, {})
    PROVE  Subdivided(cells) = UNION {Above(cells[c].index) : c \in 1 .. Len(cells)}
<1> DEFINE m == Len(cells)
           Marked(k) == UNION {Above(cells[c].index) : c \in 1 .. k}
<1>1. m \in Nat /\ \A c \in 1 .. m : cells[c].index \in InTree
  BY LenProperties DEF SoundEntries, SoundEntry
<1>2. PICK f : /\ f[0] = {}
               /\ \A k \in 1 .. m : f[k] = quadtree_manage_cell(f[k - 1], cells[k].index)
               /\ Subdivided(cells) = f[m]
  BY ONLY <1>1, BitsSteps
<1> DEFINE Good(k) == f[k] = Marked(k) /\ Upwards(f[k])
           T == {k \in 0 .. m : Good(k)}
<1>3. 0 \in T
  <2>1. Marked(0) = {}
    OBVIOUS
  <2> QED BY <1>1, <1>2, <2>1 DEF Upwards
<1>4. ASSUME NEW k \in 1 .. m, k - 1 \in T PROVE k \in T
  <2> DEFINE cell == cells[k].index
             before == f[k - 1]
  <2>1. before = Marked(k - 1) /\ Upwards(before) /\ f[k] = quadtree_manage_cell(before, cell)
    BY <1>2, <1>4
  <2>2. cell \notin Marked(k - 1)
    <3> SUFFICES ASSUME NEW c \in 1 .. k - 1, cell \in Above(cells[c].index) PROVE FALSE
      OBVIOUS
    <3>1. c \in Live(cells, {}) /\ k \in Live(cells, {}) /\ c # k
      BY <1>1 DEF Live, m
    <3> QED BY <3>1 DEF Antichain
  <2>3. cell \in InTree
    BY <1>1
  <2>4. Marked(k) = Marked(k - 1) \cup Above(cell)
    <3>1. \A c \in 1 .. k : c \in 1 .. k - 1 \/ c = k
      OBVIOUS
    <3>2. k \in 1 .. k /\ \A c \in 1 .. k - 1 : c \in 1 .. k
      OBVIOUS
    <3> QED BY <3>1, <3>2
  <2> HIDE DEF before, cell, Marked
  <2>5. f[k] = before \cup Above(cell) /\ Upwards(f[k])
    BY <2>1, <2>2, <2>3, MarkedProperties
  <2>6. Good(k) /\ k \in 0 .. m
    BY <1>1, <2>1, <2>4, <2>5
  <2> QED BY <2>6
<1> HIDE DEF T, Marked
<1>5. 0 .. m \subseteq T
  BY <1>1, <1>3, <1>4, UpTo
<1>6. m \in T
  BY <1>1, <1>5
<1> QED BY <1>2, <1>6 DEF T, Marked

\* The levels of a descent.
LEMMA VisitedSteps ==
    ASSUME NEW tree, NEW subdivided, NEW q, NEW n \in Nat, n = tree.levels
    PROVE  \E f : /\ Root(tree) \in f[0]
                  /\ \A k \in 1 .. n : \A r \in f[k - 1] : \A c \in 0 .. 3 :
                         Interior(tree, subdivided, k - 1, r) /\ Reaches(q, r.box, c) => Child(r, c) \in f[k]
                  /\ ~ Misses(q, tree.box) =>
                         \A l \in 0 .. n : \A r \in f[l] :
                             Taken(tree, subdivided, q, l, r) => LevelOffset(l) + r.at \in Hits(tree, subdivided, q)
<1> DEFINE base == {Root(tree)}
           step(x, k) == UNION {Reached(q, r) : r \in {s \in x : Interior(tree, subdivided, k - 1, s)}}
           Rec(f, m) == f = [k \in 0 .. m |-> IF k = 0 THEN base ELSE step(f[k - 1], k)]
           T == {m \in 0 .. n : \E f : Rec(f, m)}
<1> DEFINE f == CHOOSE g : Rec(g, n)
<1>1. ASSUME ~ Misses(q, tree.box), NEW l \in 0 .. n, NEW r \in f[l], Taken(tree, subdivided, q, l, r)
      PROVE  LevelOffset(l) + r.at \in Hits(tree, subdivided, q)
  <2>1. Hits(tree, subdivided, q) = UNION {{LevelOffset(m) + s.at : s \in {t \in f[m] : Taken(tree, subdivided, q, m, t)}} : m \in 0 .. n}
    BY <1>1 DEF Hits
  <2> HIDE DEF f
  <2> QED BY <1>1, <2>1
<1> HIDE DEF f
<1>2. ASSUME NEW k \in 1 .. n, NEW x, NEW r \in x, NEW c \in 0 .. 3,
             Interior(tree, subdivided, k - 1, r), Reaches(q, r.box, c)
      PROVE  Child(r, c) \in step(x, k)
  <2>1. Child(r, c) \in Reached(q, r)
    BY <1>2 DEF Reached
  <2> QED BY <1>2, <2>1
<1> HIDE DEF step
<1>3. \A e : \A m \in Nat :
          (e = [k \in 0 .. m |-> e[k]] /\ \A k \in 0 .. m : e[k] = IF k = 0 THEN base ELSE step(e[k - 1], k))
            => Rec(e, m)
  OBVIOUS
<1>4. \A e : \A m \in Nat :
          Rec(e, m) => \A k \in 0 .. m : e[k] = IF k = 0 THEN base ELSE step(e[k - 1], k)
  OBVIOUS
<1> HIDE DEF Rec, base
<1>5. 0 \in T
  <2> DEFINE g == [k \in 0 .. 0 |-> base]
  <2>1. g = [k \in 0 .. 0 |-> g[k]] /\ \A k \in 0 .. 0 : g[k] = IF k = 0 THEN base ELSE step(g[k - 1], k)
    OBVIOUS
  <2> HIDE DEF g
  <2>2. Rec(g, 0)
    BY <2>1, <1>3
  <2> QED BY <2>2
<1>6. ASSUME NEW m \in 1 .. n, m - 1 \in T PROVE m \in T
  <2>1. PICK g : Rec(g, m - 1)
    BY <1>6
  <2> DEFINE x == step(g[m - 1], m)
             h == [k \in 0 .. m |-> IF k = m THEN x ELSE g[k]]
  <2>2. h[m] = x /\ \A k \in 0 .. m - 1 : h[k] = g[k]
    OBVIOUS
  <2>3. h = [k \in 0 .. m |-> h[k]]
    OBVIOUS
  <2> HIDE DEF h
  <2>4. \A k \in 0 .. m - 1 : g[k] = IF k = 0 THEN base ELSE step(g[k - 1], k)
    BY <2>1, <1>4
  <2>5. ASSUME NEW k \in 0 .. m
        PROVE  h[k] = IF k = 0 THEN base ELSE step(h[k - 1], k)
    <3>1. k # 0 => k - 1 \in 0 .. m - 1
      OBVIOUS
    <3>2. CASE k = m
      BY <2>2, <3>1, <3>2
    <3>3. CASE k # m
      <4>1. k \in 0 .. m - 1 /\ h[k] = g[k]
        BY <2>2, <3>3
      <4>2. k # 0 => h[k - 1] = g[k - 1]
        BY <2>2, <3>1
      <4> QED BY <2>4, <4>1, <4>2
    <3> QED BY <3>2, <3>3
  <2>6. Rec(h, m)
    <3>1. m \in Nat /\ \A k \in 0 .. m : h[k] = IF k = 0 THEN base ELSE step(h[k - 1], k)
      BY <2>5
    <3> QED BY ONLY <1>3, <2>3, <3>1
  <2> QED BY <2>6
<1>7. 0 .. n \subseteq T
  BY <1>5, <1>6, UpTo
<1>8. Rec(f, n)
  BY <1>7 DEF f
<1>9. f[0] = base /\ \A k \in 1 .. n : f[k] = step(f[k - 1], k)
  BY <1>4, <1>8
<1>10. Root(tree) \in f[0]
  BY <1>9 DEF base
<1>11. ASSUME NEW k \in 1 .. n, NEW r \in f[k - 1], NEW c \in 0 .. 3,
              Interior(tree, subdivided, k - 1, r), Reaches(q, r.box, c)
       PROVE  Child(r, c) \in f[k]
  BY <1>2, <1>9, <1>11
<1> QED BY <1>1, <1>10, <1>11

LEMMA RegionFields ==
    ASSUME NEW q \in Regions
    PROVE  /\ q.x0 \in Int /\ q.x1 \in Int /\ q.y0 \in Int /\ q.y1 \in Int
           /\ q.cx \in Int /\ q.cy \in Int /\ q.radius \in Int /\ q.circle \in BOOLEAN
           /\ q.circle => /\ q.x0 = q.cx - q.radius /\ q.x1 = q.cx + q.radius
                          /\ q.y0 = q.cy - q.radius /\ q.y1 = q.cy + q.radius
           /\ ~ q.circle => q.radius = 0
BY RegionsAssumption

LEMMA SquareIsNat == ASSUME NEW a \in Int PROVE Square(a) \in Nat
<1>1. CASE a >= 0
  BY <1>1 DEF Square
<1>2. CASE a < 0
  <2>1. (-a) * (-a) \in Nat
    BY <1>2
  <2>2. (-a) * (-a) = a * a
    OBVIOUS
  <2> QED BY <2>1, <2>2 DEF Square
<1> QED BY <1>1, <1>2

LEMMA SquareRises ==
    ASSUME NEW a \in Nat, NEW b \in Nat, a <= b PROVE Square(a) <= Square(b)
<1>1. a * a <= b * a /\ a * b <= b * b
  BY TimesRises
<1>2. b * a = a * b /\ a * a \in Int /\ a * b \in Int /\ b * b \in Int
  OBVIOUS
<1> DEFINE x == a * a
           y == a * b
           z == b * b
<1>3. x <= y /\ y <= z /\ x \in Int /\ y \in Int /\ z \in Int
  BY <1>1, <1>2
<1>4. Square(a) = x /\ Square(b) = z
  BY DEF Square
<1> HIDE DEF x, y, z
<1> QED BY <1>3, <1>4

LEMMA SquareOfMinus == ASSUME NEW a \in Int PROVE Square(-a) = Square(a)
BY DEF Square

\* Of two squares that are less than a third together, so is each.
LEMMA LessThanRadius ==
    ASSUME NEW a \in Int, NEW b \in Int, NEW r \in Int, r > 0, Square(a) + Square(b) < Square(r)
    PROVE  -r < a /\ a < r
<1>1. Square(a) \in Nat /\ Square(b) \in Nat /\ Square(r) \in Nat
  BY SquareIsNat
<1>2. Square(a) < Square(r)
  BY <1>1
<1>3. CASE a >= r
  <2>1. Square(r) <= Square(a)
    BY <1>3, SquareRises
  <2> QED BY <1>1, <1>2, <2>1
<1>4. CASE a <= -r
  <2>1. -a \in Nat /\ r \in Nat /\ r <= -a
    BY <1>4
  <2>2. Square(r) <= Square(-a)
    BY <2>1, SquareRises
  <2>3. Square(-a) = Square(a)
    BY SquareOfMinus
  <2> QED BY <1>1, <1>2, <2>2, <2>3
<1> QED BY <1>3, <1>4

\* What is inside a region is in its rectangle, and nothing is inside an empty one.
LEMMA InsideIsInRect ==
    ASSUME NEW q \in Regions, NEW p \in Points, Inside(q, p)
    PROVE  q.x0 <= p.x /\ p.x < q.x1 /\ q.y0 <= p.y /\ p.y < q.y1
<1>1. p.x \in Int /\ p.y \in Int
  BY DEF Points
<1>2. CASE q.radius > 0
  <2> DEFINE a == p.x - q.cx
             b == p.y - q.cy
             r == q.radius
  <2>1. a \in Int /\ b \in Int /\ r \in Int /\ r > 0
    BY <1>1, <1>2, RegionFields
  <2>2. Square(a) + Square(b) < Square(r)
    BY <1>2 DEF Inside
  <2>3. /\ q.x0 = q.cx - r /\ q.x1 = q.cx + r /\ q.y0 = q.cy - r /\ q.y1 = q.cy + r
        /\ q.cx \in Int /\ q.cy \in Int
    BY <1>2, RegionFields
  <2>4. p.x = q.cx + a /\ p.y = q.cy + b
    BY <1>1, <2>3
  <2> HIDE DEF a, b, r
  <2>5. -r < a /\ a < r
    BY <2>1, <2>2, LessThanRadius
  <2>6. Square(b) + Square(a) < Square(r)
    BY <2>1, <2>2, SquareIsNat
  <2>7. -r < b /\ b < r
    BY <2>1, <2>6, LessThanRadius
  <2> QED BY <2>1, <2>3, <2>4, <2>5, <2>7
<1>3. CASE ~ (q.radius > 0)
  BY <1>3 DEF Inside
<1> QED BY <1>2, <1>3

LEMMA DistanceIsLess ==
    ASSUME NEW low \in Int, NEW high \in Int, NEW c \in Int, NEW v \in Int, low <= v, v <= high
    PROVE  Square(Distance(low, high, c)) <= Square(v - c)
<1>1. CASE high < c
  <2>1. c - high \in Nat /\ c - v \in Nat /\ c - high <= c - v /\ v - c \in Int
    BY <1>1
  <2>2. Distance(low, high, c) = c - high
    BY <1>1 DEF Distance
  <2>3. Square(c - high) <= Square(c - v)
    BY <2>1, SquareRises
  <2>4. Square(-(v - c)) = Square(v - c) /\ -(v - c) = c - v
    BY <2>1, SquareOfMinus
  <2> QED BY <2>2, <2>3, <2>4
<1>2. CASE ~ (high < c) /\ low > c
  <2>1. low - c \in Nat /\ v - c \in Nat /\ low - c <= v - c
    BY <1>2
  <2>2. Distance(low, high, c) = low - c
    BY <1>2 DEF Distance
  <2> QED BY <2>1, <2>2, SquareRises
<1>3. CASE ~ (high < c) /\ ~ (low > c)
  <2>1. Distance(low, high, c) = 0
    BY <1>3 DEF Distance
  <2>2. Square(v - c) \in Nat /\ Square(0) = 0
    BY SquareIsNat DEF Square
  <2> QED BY <2>1, <2>2
<1> QED BY <1>1, <1>2, <1>3

\* A circle meets every cell that has a point inside it.
LEMMA CircleMeetsIt ==
    ASSUME NEW q \in Regions, q.radius > 0, NEW p \in Points, Inside(q, p),
           NEW box \in Box, InBox(p, box)
    PROVE  CircleMeets(q, box)
<1>1. /\ p.x \in Int /\ p.y \in Int
      /\ box.x0 \in Int /\ box.x1 \in Int /\ box.y0 \in Int /\ box.y1 \in Int
      /\ q.cx \in Int /\ q.cy \in Int /\ q.radius \in Int
  BY RegionFields DEF Points, Box
<1> DEFINE a == Square(Distance(box.x0, box.x1, q.cx))
           b == Square(Distance(box.y0, box.y1, q.cy))
           c == Square(p.x - q.cx)
           d == Square(p.y - q.cy)
           r == Square(q.radius)
<1>2. a <= c /\ b <= d
  BY <1>1, DistanceIsLess DEF InBox
<1>3. c + d < r
  BY DEF Inside
<1>4. a \in Int /\ b \in Int /\ c \in Int /\ d \in Int /\ r \in Int
  <2>1. Distance(box.x0, box.x1, q.cx) \in Int /\ Distance(box.y0, box.y1, q.cy) \in Int
    BY <1>1 DEF Distance
  <2>2. p.x - q.cx \in Int /\ p.y - q.cy \in Int
    BY <1>1
  <2> QED BY <1>1, <2>1, <2>2, SquareIsNat
<1>5. CircleMeets(q, box) <=> a + b < r
  BY DEF CircleMeets
<1> HIDE DEF a, b, c, d, r
<1> QED BY <1>2, <1>3, <1>4, <1>5

\* A quarter of a box a point is in: it is reached, and has the point.
LEMMA QuarterProperties ==
    ASSUME NEW box \in Box, NEW p \in Points, InBox(p, box)
    PROVE  LET k == QuarterOf(box, p)
           IN  /\ k \in 0 .. 3
               /\ InBox(p, Quarter(box, k))
               /\ \A q \in Regions : Inside(q, p) => Reaches(q, box, k)
<1> DEFINE mx == Mid(box.x0, box.x1)
           my == Mid(box.y0, box.y1)
           k == QuarterOf(box, p)
<1>1. /\ p.x \in Int /\ p.y \in Int
      /\ box.x0 \in Int /\ box.x1 \in Int /\ box.y0 \in Int /\ box.y1 \in Int
      /\ mx \in Int /\ my \in Int
  BY MidIsInt DEF Points, Box
<1>2. k = (IF p.x < mx THEN 0 ELSE 1) + (IF p.y < my THEN 0 ELSE 2)
  BY DEF QuarterOf
<1>3. /\ k \in 0 .. 3
      /\ k % 2 = 0 <=> p.x < mx
      /\ k \div 2 = 0 <=> p.y < my
  <2> HIDE DEF k, mx, my
  <2>1. CASE p.x < mx /\ p.y < my
    BY <1>2, <2>1
  <2>2. CASE p.x < mx /\ ~ (p.y < my)
    BY <1>2, <2>2
  <2>3. CASE ~ (p.x < mx) /\ p.y < my
    BY <1>2, <2>3
  <2>4. CASE ~ (p.x < mx) /\ ~ (p.y < my)
    BY <1>2, <2>4
  <2> QED BY <2>1, <2>2, <2>3, <2>4
<1>4. /\ Quarter(box, k).x0 = IF p.x < mx THEN box.x0 ELSE mx
      /\ Quarter(box, k).x1 = IF p.x < mx THEN mx ELSE box.x1
      /\ Quarter(box, k).y0 = IF p.y < my THEN box.y0 ELSE my
      /\ Quarter(box, k).y1 = IF p.y < my THEN my ELSE box.y1
  <2> HIDE DEF k
  <2>1. /\ Quarter(box, k).x0 = IF k % 2 = 0 THEN box.x0 ELSE mx
        /\ Quarter(box, k).x1 = IF k % 2 = 0 THEN mx ELSE box.x1
        /\ Quarter(box, k).y0 = IF k \div 2 = 0 THEN box.y0 ELSE my
        /\ Quarter(box, k).y1 = IF k \div 2 = 0 THEN my ELSE box.y1
    BY DEF Quarter
  <2> HIDE DEF mx, my
  <2> QED BY <1>3, <2>1
<1>5. ASSUME NEW q \in Regions, Inside(q, p) PROVE Reaches(q, box, k)
  <2>1. q.x0 <= p.x /\ p.x < q.x1 /\ q.y0 <= p.y /\ p.y < q.y1
    BY <1>5, InsideIsInRect
  <2>2. q.x0 \in Int /\ q.x1 \in Int /\ q.y0 \in Int /\ q.y1 \in Int
    BY RegionFields
  <2>3. Reaches(q, box, k) <=> /\ IF k % 2 = 0 THEN q.x0 < mx ELSE q.x1 > mx
                               /\ IF k \div 2 = 0 THEN q.y0 < my ELSE q.y1 > my
    <3> HIDE DEF k
    <3> QED BY DEF Reaches
  <2> HIDE DEF k, mx, my
  <2>4. IF k % 2 = 0 THEN q.x0 < mx ELSE q.x1 > mx
    BY <1>1, <1>3, <2>1, <2>2
  <2>5. IF k \div 2 = 0 THEN q.y0 < my ELSE q.y1 > my
    BY <1>1, <1>3, <2>1, <2>2
  <2> QED BY <2>3, <2>4, <2>5
<1>6. InBox(p, Quarter(box, k))
  <2> HIDE DEF k, mx, my
  <2> QED BY <1>1, <1>4 DEF InBox
<1> HIDE DEF k
<1> QED BY <1>3, <1>5, <1>6 DEF k

\* The cell of a descent at a level.
At(w, l) == LevelOffset(l) + w[l].at

\* The way down to a point's leaf: it stays around the point, and what is above
\* the leaf is on it.
LEMMA DescentProperties ==
    ASSUME NEW tree, tree.levels \in 0 .. MaxLevels, tree.box \in Box,
           NEW p \in Points, InBox(p, tree.box)
    PROVE  \E w :
               /\ w[0] = Root(tree)
               /\ \A l \in 0 .. tree.levels : w[l].box \in Box /\ InBox(p, w[l].box)
               /\ \A l \in 1 .. tree.levels : w[l] = Child(w[l - 1], QuarterOf(w[l - 1].box, p))
               /\ \A a \in OrAbove(Leaf(tree, p)) : \E l \in 0 .. tree.levels : a = At(w, l)
               /\ \A l \in 0 .. tree.levels : \A m \in 0 .. l - 1 : At(w, m) \in Above(At(w, l))
<1> DEFINE n == tree.levels
<1>1. n \in Nat /\ n \in 0 .. n
  BY TreeAssumption
<1>2. PICK w : /\ Descends(w, tree, p)
               /\ \A l \in 0 .. tree.levels :
                      /\ LevelOffset(l) + w[l].at \in InTree
                      /\ LevelOf(LevelOffset(l) + w[l].at) = l
                      /\ l > 0 => Parent(LevelOffset(l) + w[l].at) = LevelOffset(l - 1) + w[l - 1].at
  BY LeafProperties
<1>3. /\ w[0] = Root(tree)
      /\ \A l \in 1 .. n : w[l] = Child(w[l - 1], QuarterOf(w[l - 1].box, p))
      /\ Leaf(tree, p) = At(w, n)
  BY <1>2 DEF Descends, At
<1>4. \A l \in 0 .. n : /\ At(w, l) \in InTree /\ LevelOf(At(w, l)) = l
                        /\ l > 0 => Parent(At(w, l)) = At(w, l - 1)
  BY <1>2 DEF At
<1> HIDE DEF n
<1>5. At(w, 0) = 0
  BY <1>3, Offsets DEF At, Root
<1> DEFINE Good(l) == /\ w[l].box \in Box /\ InBox(p, w[l].box)
                      /\ \A a \in OrAbove(At(w, l)) : \E m \in 0 .. l : a = At(w, m)
                      /\ \A m \in 0 .. l - 1 : At(w, m) \in Above(At(w, l))
           T == {l \in 0 .. n : Good(l)}
<1>6. 0 \in T
  <2>1. w[0].box = tree.box
    BY <1>3 DEF Root
  <2>2. 0 \in InTree
    BY <1>1, <1>4, <1>5
  <2>3. OrAbove(At(w, 0)) = {0}
    BY <1>5, <2>2, AncestorsStep DEF OrAbove
  <2> QED BY <1>1, <1>5, <2>1, <2>3
<1>7. ASSUME NEW l \in 1 .. n, l - 1 \in T PROVE l \in T
  <2> DEFINE r == w[l - 1]
             k == QuarterOf(r.box, p)
  <2>1. r.box \in Box /\ InBox(p, r.box)
    BY <1>7
  <2>2. w[l] = Child(r, k)
    BY <1>3
  <2>3. k \in 0 .. 3 /\ InBox(p, Quarter(r.box, k))
    BY <2>1, QuarterProperties
  <2>4. w[l].box = Quarter(r.box, k)
    BY <2>2 DEF Child
  <2> HIDE DEF k
  <2>5. w[l].box \in Box /\ InBox(p, w[l].box)
    BY <2>1, <2>3, <2>4, QuarterIsBox
  <2>6. At(w, l) # 0
    <3>1. LevelOf(At(w, l)) = l /\ LevelOf(At(w, 0)) = 0
      BY <1>1, <1>4
    <3> QED BY <1>1, <1>5, <3>1
  <2>7. At(w, l) \in InTree /\ Parent(At(w, l)) = At(w, l - 1)
    BY <1>1, <1>4
  <2>8. Above(At(w, l)) = OrAbove(At(w, l - 1))
    BY <2>6, <2>7, AncestorsStep
  <2>9. ASSUME NEW a \in OrAbove(At(w, l)) PROVE \E m \in 0 .. l : a = At(w, m)
    <3>1. CASE a = At(w, l)
      BY <1>1, <3>1
    <3>2. CASE a \in OrAbove(At(w, l - 1))
      BY <1>7, <3>2
    <3> QED BY <2>8, <3>1, <3>2 DEF OrAbove
  <2>10. ASSUME NEW m \in 0 .. l - 1 PROVE At(w, m) \in Above(At(w, l))
    <3>1. CASE m = l - 1
      BY <2>8, <3>1 DEF OrAbove
    <3>2. CASE m \in 0 .. (l - 1) - 1
      BY <1>7, <2>8, <3>2 DEF OrAbove
    <3> QED BY <3>1, <3>2
  <2>11. Good(l) /\ l \in 0 .. n
    BY <2>5, <2>9, <2>10
  <2> QED BY <2>11
<1> HIDE DEF T
<1>8. 0 .. n \subseteq T
  BY <1>1, <1>6, <1>7, UpTo
<1>9. ASSUME NEW l \in 0 .. n PROVE Good(l)
  BY <1>8 DEF T
<1>10. \A a \in OrAbove(Leaf(tree, p)) : \E l \in 0 .. n : a = At(w, l)
  <2>1. n \in 0 .. n
    BY <1>1
  <2>2. Good(n)
    BY <1>9, <2>1
  <2> QED BY <1>3, <2>2
<1>11. \A l \in 0 .. n : \A m \in 0 .. l - 1 : At(w, m) \in Above(At(w, l))
  BY <1>9
<1>12. \A l \in 0 .. n : w[l].box \in Box /\ InBox(p, w[l].box)
  BY <1>9
<1> QED BY <1>3, <1>10, <1>11, <1>12 DEF n

\* What a query selects is in a cell that it hits.
LEMMA HeldIsHit ==
    ASSUME NEW points \in Seq(Points), HasItsPoints(points),
           NEW x, SoundIndex(x), OwnIndex(points, x),
           NEW q \in Regions, NEW i \in 0 .. Len(points) - 1, Inside(q, points[i + 1])
    PROVE  \E c \in HitOf(x, q) : Covers(x.cells[c], i)
<1> DEFINE p == points[i + 1]
           n == x.levels
           cells == x.cells
           sub == x.subdivided
<1>1. Len(points) \in Nat /\ i + 1 \in 1 .. Len(points) /\ p \in Points
  BY LenProperties, ElementOfSeq
<1>2. x.box \in Box /\ InBox(p, x.box)
  <2>1. points # <<>>
    BY <1>1
  <2> QED BY <1>1, <2>1 DEF HasItsPoints, OwnIndex
<1>3. n \in 0 .. MaxLevels /\ n \in Nat
  BY TreeAssumption DEF SoundIndex
<1>4. /\ q.x0 <= p.x /\ p.x < q.x1 /\ q.y0 <= p.y /\ p.y < q.y1
      /\ q.x0 \in Int /\ q.x1 \in Int /\ q.y0 \in Int /\ q.y1 \in Int
      /\ p.x \in Int /\ p.y \in Int
  BY <1>1, InsideIsInRect, RegionFields DEF Points
<1> HIDE DEF p
<1>5. ~ Misses(q, x.box)
  <2>1. x.box.x0 \in Int /\ x.box.x1 \in Int /\ x.box.y0 \in Int /\ x.box.y1 \in Int
    BY <1>2 DEF Box
  <2> DEFINE u == x.box
  <2>2. u.x0 <= p.x /\ p.x <= u.x1 /\ u.y0 <= p.y /\ p.y <= u.y1
    BY ONLY <1>2 DEF InBox
  <2>3. u.x0 \in Int /\ u.x1 \in Int /\ u.y0 \in Int /\ u.y1 \in Int
    BY ONLY <2>1
  <2> HIDE DEF u
  <2>4. \A a, b, c \in Int : /\ a <= b /\ b < c => ~(c <= a)
                            /\ a <= b /\ b <= c => ~(a > c)
    OBVIOUS
  <2>5. ~(q.x1 <= u.x0) /\ ~(q.x0 > u.x1)
    BY ONLY <1>4, <2>2, <2>3, <2>4
  <2>6. ~(q.y1 <= u.y0) /\ ~(q.y0 > u.y1)
    BY ONLY <1>4, <2>2, <2>3, <2>4
  <2>7. ~ Misses(q, u)
    BY ONLY <2>5, <2>6 DEF Misses
  <2> QED BY ONLY <2>7 DEF u
<1>6. PICK w :
          /\ w[0] = Root(x)
          /\ \A l \in 0 .. x.levels : w[l].box \in Box /\ InBox(p, w[l].box)
          /\ \A l \in 1 .. x.levels : w[l] = Child(w[l - 1], QuarterOf(w[l - 1].box, p))
          /\ \A a \in OrAbove(Leaf(x, p)) : \E l \in 0 .. x.levels : a = At(w, l)
          /\ \A l \in 0 .. x.levels : \A m \in 0 .. l - 1 : At(w, m) \in Above(At(w, l))
  BY ONLY <1>1, <1>2, <1>3, DescentProperties
<1>7. PICK c \in DOMAIN cells : cells[c].index \in OrAbove(Leaf(x, p)) /\ Covers(cells[c], i)
  BY DEF OwnIndex, HoldsAll, HeldAbove, Live, p
<1>8. PICK t \in 0 .. n : cells[c].index = At(w, t)
  BY <1>6, <1>7
<1>9. /\ c \in 1 .. Len(cells) /\ DOMAIN cells = 1 .. Len(cells)
      /\ \A d \in 1 .. Len(cells) : cells[d].index \in InTree
  BY <1>7, LenProperties DEF SoundIndex, SoundEntries, SoundEntry
<1>10. sub = UNION {Above(cells[d].index) : d \in 1 .. Len(cells)}
  BY SubdividedProperties DEF SoundIndex, OwnIndex
<1>11. \A m \in 0 .. t - 1 : At(w, m) \in sub
  <2> SUFFICES ASSUME NEW m \in 0 .. t - 1 PROVE At(w, m) \in sub
    OBVIOUS
  <2>1. At(w, m) \in Above(cells[c].index)
    BY <1>6, <1>8
  <2> QED BY <1>9, <1>10, <2>1
<1>12. At(w, t) \notin sub
  <2> SUFFICES ASSUME NEW d \in 1 .. Len(cells), cells[c].index \in Above(cells[d].index) PROVE FALSE
    BY <1>8, <1>10
  <2>1. CASE d = c
    <3>1. cells[c].index \in 0 .. cells[c].index - 1 /\ cells[c].index \in Nat
      BY <1>9, <2>1, AboveProperties DEF InTree
    <3> QED BY <3>1
  <2>2. CASE d # c
    BY <1>9, <2>2 DEF OwnIndex, Antichain, Live
  <2> QED BY <2>1, <2>2
<1> HIDE DEF sub, cells, n
<1>13. PICK f : /\ Root(x) \in f[0]
                /\ \A k \in 1 .. n : \A r \in f[k - 1] : \A d \in 0 .. 3 :
                       Interior(x, sub, k - 1, r) /\ Reaches(q, r.box, d) => Child(r, d) \in f[k]
                /\ ~ Misses(q, x.box) =>
                       \A l \in 0 .. n : \A r \in f[l] :
                           Taken(x, sub, q, l, r) => LevelOffset(l) + r.at \in Hits(x, sub, q)
  BY <1>3, VisitedSteps DEF n
<1> DEFINE T == {l \in 0 .. t : w[l] \in f[l]}
<1>14. 0 \in T
  BY <1>3, <1>6, <1>8, <1>13
<1>15. ASSUME NEW l \in 1 .. t, l - 1 \in T PROVE l \in T
  <2> DEFINE r == w[l - 1]
             k == QuarterOf(r.box, p)
  <2>1. l \in 1 .. n /\ l - 1 \in 0 .. n /\ l - 1 < n /\ l - 1 \in 0 .. t - 1 /\ l \in 0 .. t
    BY <1>3, <1>8
  <2>2. r \in f[l - 1]
    BY <1>15
  <2>3. r.box \in Box /\ InBox(p, r.box) /\ w[l] = Child(r, k)
    BY <1>6, <2>1 DEF n
  <2>4. Interior(x, sub, l - 1, r)
    BY <1>11, <2>1 DEF Interior, At, n
  <2>5. k \in 0 .. 3 /\ Reaches(q, r.box, k)
    BY <1>1, <2>3, QuarterProperties DEF p
  <2> HIDE DEF r, k
  <2>6. w[l] \in f[l]
    BY <1>13, <2>1, <2>2, <2>3, <2>4, <2>5 DEF r
  <2> QED BY <2>1, <2>6
<1> HIDE DEF T
<1>16. 0 .. t \subseteq T
  <2>1. t \in Nat
    BY <1>3
  <2> QED BY <1>14, <1>15, <2>1, UpTo
<1>17. w[t] \in f[t] /\ t \in 0 .. n
  BY <1>3, <1>8, <1>16 DEF T
<1>18. Taken(x, sub, q, t, w[t])
  <2>1. ~ Interior(x, sub, t, w[t])
    BY <1>12 DEF Interior, At
  <2>2. w[t].box \in Box /\ InBox(p, w[t].box)
    BY <1>6, <1>17 DEF n
  <2>3. q.radius > 0 => CircleMeets(q, w[t].box)
    BY <1>1, <2>2, CircleMeetsIt DEF p
  <2> QED BY <2>1, <2>3 DEF Taken
<1>19. At(w, t) \in Hits(x, sub, q)
  BY <1>5, <1>13, <1>17, <1>18 DEF At
<1>20. c \in HitOf(x, q)
  BY <1>7, <1>8, <1>19 DEF HitOf, cells, sub
<1> QED BY <1>7, <1>20 DEF cells

\* An index of the points themselves loses none of those a query selects.
LEMMA SpansOfCover ==
    ASSUME file \in Seq(Points), HasItsPoints(file),
           NEW x, x = None \/ (SoundIndex(x) /\ OwnIndex(file, x)),
           NEW q \in Regions, Valid(q)
    PROVE  /\ InTurn(SpansOf(x, q))
           /\ \A i \in 0 .. Len(file) - 1 : Inside(q, file[i + 1]) => SpanHas(SpansOf(x, q), i)
<1>1. Len(file) \in Nat
  BY LenProperties
<1>2. CASE Empty(q)
  <2>1. SpansOf(x, q) = <<>>
    BY <1>2 DEF SpansOf
  <2>2. ASSUME NEW i \in 0 .. Len(file) - 1, Inside(q, file[i + 1]) PROVE FALSE
    <3>1. i + 1 \in 1 .. Len(file)
      BY <1>1
    <3>2. file[i + 1] \in Points
      BY <3>1, ElementOfSeq
    <3> DEFINE p == file[i + 1]
    <3>3. q.x0 <= p.x /\ p.x < q.x1 /\ p.x \in Int
      BY <2>2, <3>2, InsideIsInRect DEF Points
    <3>4. q.radius = 0 /\ q.x0 = q.cx - q.radius /\ q.x1 = q.cx + q.radius /\ q.cx \in Int
      BY <1>2, RegionFields DEF Empty
    <3> HIDE DEF p
    <3> QED BY <3>3, <3>4
  <2> QED BY <2>1, <2>2, NoSpans
<1>3. CASE ~ Empty(q) /\ x = None
  <2> DEFINE run == Run(0, Len(file))
  <2>1. SpansOf(x, q) = <<run>>
    BY <1>3 DEF SpansOf
  <2>2. run.start = 0 /\ run.end = Len(file)
    BY DEF Run
  <2> HIDE DEF run
  <2>3. Len(<<run>>) = 1 /\ <<run>>[1] = run
    OBVIOUS
  <2>4. InTurn(<<run>>)
    BY <2>3 DEF InTurn
  <2>5. \A i \in 0 .. Len(file) - 1 : SpanHas(<<run>>, i)
    <3> SUFFICES ASSUME NEW i \in 0 .. Len(file) - 1 PROVE SpanHas(<<run>>, i)
      OBVIOUS
    <3>1. i \in run.start .. run.end - 1
      BY <1>1, <2>2
    <3>2. 1 \in 1 .. Len(<<run>>) /\ i \in <<run>>[1].start .. <<run>>[1].end - 1
      BY <2>3, <3>1
    <3> QED BY <3>2 DEF SpanHas
  <2> QED BY <2>1, <2>4, <2>5
<1>4. CASE ~ Empty(q) /\ x # None
  <2> DEFINE runs == Intervals(x, q)
             all == Clamped(runs, Len(file))
  <2>1. SpansOf(x, q) = all /\ SoundIndex(x) /\ OwnIndex(file, x)
    BY <1>4 DEF SpansOf
  <2> HIDE DEF runs, all
  <2>2. ~ (q.x0 > q.x1 \/ q.y0 > q.y1)
    <3>1. /\ q.x0 \in Int /\ q.x1 \in Int /\ q.y0 \in Int /\ q.y1 \in Int
          /\ q.cx \in Int /\ q.cy \in Int /\ q.radius \in Int
      BY RegionFields
    <3>2. CASE q.circle
      <4>1. /\ q.x0 = q.cx - q.radius /\ q.x1 = q.cx + q.radius
            /\ q.y0 = q.cy - q.radius /\ q.y1 = q.cy + q.radius /\ q.radius >= 0
        BY <3>2, RegionFields DEF Valid
      <4> QED BY <3>1, <4>1
    <3>3. CASE ~ q.circle
      BY <3>1, <3>3 DEF Valid
    <3> QED BY <3>2, <3>3
  <2>3. /\ RunsAreSound(runs)
        /\ \A r \in 1 .. Len(runs) : runs[r].start >= 0
        /\ (\A c \in 1 .. Len(x.cells) : Apart(x.cells[c].runs, 0)) => Apart(runs, 0)
        /\ \A c \in HitOf(x, q) : \A i \in Nat : Covers(x.cells[c], i) => Holds(runs, i)
    BY <2>1, <2>2, IntervalsProperties DEF runs
  <2>4. Apart(runs, 0)
    BY <2>1, <2>3 DEF OwnIndex
  <2>5. InTurn(all) /\ \A i \in 0 .. Len(file) - 1 : Holds(runs, i) => SpanHas(all, i)
    BY <1>1, <2>3, <2>4, ClampedProperties DEF all
  <2>6. ASSUME NEW i \in 0 .. Len(file) - 1, Inside(q, file[i + 1]) PROVE SpanHas(all, i)
    <3>1. PICK c \in HitOf(x, q) : Covers(x.cells[c], i)
      BY <2>1, <2>6, HeldIsHit
    <3>2. i \in Nat
      OBVIOUS
    <3> QED BY <2>3, <2>5, <3>1, <3>2
  <2> QED BY <2>1, <2>5, <2>6
<1> QED BY <1>2, <1>3, <1>4

-----------------------------------------------------------------------------
(* A query is a filtered scan. *)

Within(points, q, from, to) == {k \in from .. to - 1 : Inside(q, points[k + 1])}

\* Up to `from` everything has been handed out, and the spans have what is left.
Scanned(points, q, all, h, from, n) ==
    /\ from \in 0 .. n
    /\ InTurn(all)
    /\ Lists(h, Within(points, q, 0, from))
    /\ \A i \in Within(points, q, from, n) : SpanHas(all, i)

\* Where the spans begin, or the file ends.
Begins(all, n) == IF all = <<>> THEN n ELSE Head(all).start

ScanPosition == IF begun THEN index ELSE Begins(spans, Len(file))

FilterInv ==
    HasItsPoints(file) /\ region # None /\ (ix = None \/ ix.own) =>
        Scanned(file, region, spans, got, ScanPosition, Len(file))

\* What is within a stretch is within one part of it or the other.
LEMMA WithinSplits ==
    ASSUME NEW points, NEW q, NEW a \in Int, NEW b \in Int, NEW c \in Int, a <= b, b <= c
    PROVE  Within(points, q, a, c) = Within(points, q, a, b) \cup Within(points, q, b, c)
<1>1. ASSUME NEW i \in Within(points, q, a, c)
      PROVE  i \in Within(points, q, a, b) \/ i \in Within(points, q, b, c)
  <2>1. i \in a .. c - 1 /\ Inside(q, points[i + 1])
    BY <1>1 DEF Within
  <2>2. i \in a .. b - 1 \/ i \in b .. c - 1
    BY <2>1
  <2> QED BY <2>1, <2>2 DEF Within
<1>2. ASSUME NEW i, i \in Within(points, q, a, b) \/ i \in Within(points, q, b, c)
      PROVE  i \in Within(points, q, a, c)
  <2>1. (i \in a .. b - 1 \/ i \in b .. c - 1) /\ Inside(q, points[i + 1])
    BY <1>2 DEF Within
  <2>2. i \in a .. c - 1
    BY <2>1
  <2> QED BY <2>1, <2>2 DEF Within
<1> QED BY <1>1, <1>2

\* Where the first span begins, nothing has been missed.
LEMMA ScanBegins ==
    ASSUME NEW points, NEW q, NEW n \in Nat, NEW all, SoundSpans(all, n), InTurn(all),
           \A i \in Within(points, q, 0, n) : SpanHas(all, i),
           NEW from, from = Begins(all, n)
    PROVE  Scanned(points, q, all, <<>>, from, n)
<1>1. /\ all \in Seq(Runs) /\ Len(all) \in Nat
      /\ all # <<>> => Len(all) > 0 /\ Head(all) = all[1]
      /\ \A s \in 1 .. Len(all) : all[s].start \in Int /\ all[s].end \in Int
  <2>1. all \in Seq(Runs)
    BY DEF SoundSpans
  <2>2. Len(all) \in Nat /\ \A s \in 1 .. Len(all) : all[s] \in Runs
    BY <2>1, LenProperties, ElementOfSeq
  <2>3. all # <<>> => Len(all) > 0 /\ Head(all) = all[1]
    BY <2>1, <2>2, EmptySeq, HeadTailProperties
  <2> QED BY <2>1, <2>2, <2>3 DEF Runs
<1>2. from \in 0 .. n
  <2>1. CASE all = <<>>
    BY <2>1 DEF Begins
  <2>2. CASE all # <<>>
    <3>1. 1 \in 1 .. Len(all) /\ from = all[1].start
      BY <1>1, <2>2 DEF Begins
    <3>2. 0 <= all[1].start /\ all[1].start <= all[1].end /\ all[1].end <= n
      BY <3>1 DEF SoundSpans
    <3> QED BY <1>1, <3>1, <3>2
  <2> QED BY <2>1, <2>2
<1>3. ASSUME NEW i \in Within(points, q, 0, from) PROVE FALSE
  <2>1. i \in 0 .. from - 1 /\ i \in Within(points, q, 0, n)
    <3>1. i \in 0 .. from - 1 /\ Inside(q, points[i + 1])
      BY <1>3 DEF Within
    <3>2. i \in 0 .. n - 1
      BY <1>2, <3>1
    <3> QED BY <3>1, <3>2 DEF Within
  <2>2. PICK s \in 1 .. Len(all) : i \in all[s].start .. all[s].end - 1
    BY <2>1 DEF SpanHas
  <2>3. Len(all) > 0 /\ from = all[1].start
    <3>1. all # <<>>
      <4>1. Len(<<>>) = 0
        OBVIOUS
      <4> QED BY <1>1, <2>2, <4>1
    <3> QED BY <1>1, <3>1 DEF Begins
  <2>4. all[1].start <= all[s].start
    <3>1. 1 \in 1 .. Len(all)
      BY <1>1, <2>3
    <3>2. CASE s = 1
      BY <1>1, <3>1, <3>2
    <3>3. CASE s # 1
      <4>1. 1 < s
        BY <3>3
      <4>2. all[1].end <= all[s].start /\ all[1].start <= all[1].end
        BY <3>1, <4>1 DEF InTurn, SoundSpans
      <4> QED BY <1>1, <3>1, <4>2
    <3> QED BY <3>2, <3>3
  <2> QED BY <1>1, <2>1, <2>2, <2>3, <2>4
<1>4. Lists(<<>>, Within(points, q, 0, from))
  <2> DEFINE S == Within(points, q, 0, from)
  <2>1. S = {}
    BY <1>3
  <2> HIDE DEF S
  <2> QED BY <2>1, ListsNothing DEF S
<1>5. ASSUME NEW i \in Within(points, q, from, n) PROVE SpanHas(all, i)
  <2>1. i \in from .. n - 1 /\ Inside(q, points[i + 1])
    BY <1>5 DEF Within
  <2>2. i \in 0 .. n - 1
    BY <1>2, <2>1
  <2> QED BY <2>1, <2>2 DEF Within
<1> QED BY <1>2, <1>4, <1>5 DEF Scanned

\* A span without a point that is inside, from where it has been read, is done.
LEMMA ScanGoesOn ==
    ASSUME NEW points, NEW q, NEW n \in Nat, NEW all, SoundSpans(all, n), all # <<>>,
           NEW h, NEW from, Scanned(points, q, all, h, from, n),
           NEW last, last = Head(all).end, from <= last, Within(points, q, from, last) = {},
           NEW to, to = Begins(Tail(all), n)
    PROVE  Scanned(points, q, Tail(all), h, to, n)
<1> DEFINE rest == Tail(all)
           m == Len(all)
<1>1. /\ all \in Seq(Runs) /\ m \in Nat /\ m > 0 /\ Head(all) = all[1]
      /\ rest \in Seq(Runs) /\ Len(rest) = m - 1 /\ \A k \in 1 .. m - 1 : rest[k] = all[k + 1]
      /\ rest # <<>> => m > 1 /\ Head(rest) = all[2]
  <2>1. all \in Seq(Runs)
    BY DEF SoundSpans
  <2>2. m \in Nat /\ m > 0
    BY <2>1, EmptySeq, LenProperties
  <2>3. /\ rest \in Seq(Runs) /\ Len(rest) = m - 1 /\ Head(all) = all[1]
        /\ \A k \in 1 .. m - 1 : rest[k] = all[k + 1]
    BY <2>1, <2>2, HeadTailProperties
  <2>4. rest # <<>> => Len(rest) > 0 /\ Head(rest) = rest[1]
    <3> HIDE DEF rest
    <3> QED BY <2>2, <2>3, EmptySeq, LenProperties, HeadTailProperties
  <2> QED BY <2>1, <2>2, <2>3, <2>4
<1>2. \A s \in 1 .. m : /\ all[s].start \in Int /\ all[s].end \in Int
                        /\ 0 <= all[s].start /\ all[s].start <= all[s].end /\ all[s].end <= n
  <2>1. \A s \in 1 .. m : all[s] \in Runs
    BY <1>1, ElementOfSeq
  <2> QED BY <2>1 DEF SoundSpans, Runs
<1>3. /\ from \in 0 .. n /\ InTurn(all) /\ Lists(h, Within(points, q, 0, from))
      /\ \A i \in Within(points, q, from, n) : SpanHas(all, i)
  BY DEF Scanned
<1> HIDE DEF m, rest
<1>4. 1 \in 1 .. m /\ from <= all[1].end /\ last = all[1].end
  BY <1>1
<1>5. to \in 0 .. n /\ from <= to /\ all[1].end <= to
  <2>1. CASE rest = <<>>
    BY <1>2, <1>3, <1>4, <2>1 DEF rest, Begins
  <2>2. CASE rest # <<>>
    <3>1. 2 \in 1 .. m /\ to = all[2].start
      BY <1>1, <2>2 DEF rest, Begins
    <3>2. all[1].end <= all[2].start
      BY <1>3, <1>4, <3>1 DEF InTurn, m
    <3> QED BY <1>2, <1>3, <1>4, <3>1, <3>2
  <2> QED BY <2>1, <2>2
<1>6. ASSUME NEW i \in Within(points, q, from, n)
      PROVE  i >= to /\ SpanHas(rest, i)
  <2>1. i \in from .. n - 1 /\ Inside(q, points[i + 1])
    BY <1>6 DEF Within
  <2>2. PICK s \in 1 .. m : i \in all[s].start .. all[s].end - 1
    BY <1>3, <1>6 DEF SpanHas, m
  <2>3. s # 1
    <3> SUFFICES ASSUME s = 1 PROVE FALSE
      OBVIOUS
    <3>1. i \in from .. all[1].end - 1
      BY <1>2, <1>3, <1>4, <2>1, <2>2
    <3>2. i \in Within(points, q, from, last)
      BY <1>4, <2>1, <3>1 DEF Within
    <3> QED BY <3>2
  <2>4. s - 1 \in 1 .. m - 1 /\ rest[s - 1] = all[s] /\ Len(rest) = m - 1 /\ m > 1
    BY <1>1, <2>3
  <2>5. SpanHas(rest, i)
    BY <2>2, <2>4 DEF SpanHas
  <2>6. rest # <<>>
    <3>1. Len(<<>>) = 0
      OBVIOUS
    <3> QED BY <1>1, <2>4, <3>1
  <2>7. to = all[2].start /\ 2 \in 1 .. m
    BY <1>1, <2>4, <2>6 DEF rest, Begins
  <2>8. all[2].start <= all[s].start
    <3>1. CASE s = 2
      BY <1>2, <3>1
    <3>2. CASE s # 2
      <4>1. 2 < s
        BY <2>3, <3>2
      <4>2. all[2].end <= all[s].start
        BY <1>3, <2>7, <4>1 DEF InTurn, m
      <4> QED BY <1>2, <2>7, <4>2
    <3> QED BY <3>1, <3>2
  <2> QED BY <1>2, <2>1, <2>2, <2>5, <2>7, <2>8
<1>7. Lists(h, Within(points, q, 0, to))
  <2> DEFINE S == Within(points, q, 0, to)
             R == Within(points, q, 0, from)
  <2>1. S = R \cup Within(points, q, from, to)
    BY <1>3, <1>5, WithinSplits
  <2>2. ASSUME NEW i \in Within(points, q, from, to) PROVE FALSE
    <3>1. i \in from .. to - 1 /\ Inside(q, points[i + 1])
      BY <2>2 DEF Within
    <3>2. i \in from .. n - 1
      BY <1>3, <1>5, <3>1
    <3>3. i \in Within(points, q, from, n)
      BY <3>1, <3>2 DEF Within
    <3>4. i >= to
      BY <1>6, <3>3
    <3> QED BY <1>3, <1>5, <3>1, <3>4
  <2>3. S = R
    BY <2>1, <2>2
  <2> HIDE DEF S, R
  <2> QED BY <1>3, <2>3 DEF S, R
<1>8. ASSUME NEW i \in Within(points, q, to, n) PROVE SpanHas(rest, i)
  <2>1. i \in to .. n - 1 /\ Inside(q, points[i + 1])
    BY <1>8 DEF Within
  <2>2. i \in from .. n - 1
    BY <1>3, <1>5, <2>1
  <2>3. i \in Within(points, q, from, n)
    BY <2>1, <2>2 DEF Within
  <2> QED BY <1>6, <2>3
<1>9. InTurn(rest)
  <2> SUFFICES ASSUME NEW s \in 1 .. m - 1, NEW r \in 1 .. m - 1, s < r
               PROVE  rest[s].end <= rest[r].start
    BY <1>1 DEF InTurn
  <2>1. s + 1 \in 1 .. m /\ r + 1 \in 1 .. m /\ s + 1 < r + 1
    BY <1>1
  <2>2. all[s + 1].end <= all[r + 1].start
    BY <1>3, <2>1 DEF InTurn, m
  <2> QED BY <1>1, <2>2
<1> QED BY <1>5, <1>7, <1>8, <1>9 DEF Scanned, rest

\* The next point that is inside is the next one handed out.
LEMMA ScanHandsOut ==
    ASSUME NEW points, NEW q, NEW n \in Nat, NEW all,
           NEW h, NEW from, Scanned(points, q, all, h, from, n),
           NEW to \in Int, to <= n,
           NEW hits, hits # <<>>, Lists(hits, Within(points, q, from, to))
    PROVE  Scanned(points, q, all, Append(h, Head(hits)), Head(hits) + 1, n)
<1> DEFINE v == Head(hits)
<1>1. /\ from \in 0 .. n /\ InTurn(all) /\ Lists(h, Within(points, q, 0, from))
      /\ \A i \in Within(points, q, from, n) : SpanHas(all, i)
  BY DEF Scanned
<1>2. /\ hits \in Seq(Int) /\ Len(hits) \in Nat /\ Len(hits) > 0 /\ v = hits[1]
      /\ 1 \in 1 .. Len(hits) /\ \A i \in 1 .. Len(hits) : hits[i] \in Int
  <2>1. hits \in Seq(Int)
    BY DEF Lists
  <2>2. Len(hits) \in Nat /\ Len(hits) > 0
    BY <2>1, EmptySeq, LenProperties
  <2> QED BY <2>1, <2>2, HeadTailProperties, ElementOfSeq
<1> HIDE DEF v
<1>3. v \in Within(points, q, from, to)
  <2>1. IsIn(v, hits)
    BY <1>2 DEF IsIn
  <2> QED BY <2>1 DEF Lists
<1>4. v \in from .. to - 1 /\ Inside(q, points[v + 1])
  BY <1>3 DEF Within
<1>5. v + 1 \in 0 .. n /\ v \in Int /\ from <= v + 1
  BY <1>1, <1>4
<1>6. Within(points, q, from, v + 1) = {v}
  <2>1. v \in Within(points, q, from, v + 1)
    <3>1. v \in from .. (v + 1) - 1
      BY <1>1, <1>4
    <3> QED BY <1>4, <3>1 DEF Within
  <2>2. ASSUME NEW i \in Within(points, q, from, v + 1) PROVE i = v
    <3>1. i \in from .. (v + 1) - 1 /\ Inside(q, points[i + 1])
      BY <2>2 DEF Within
    <3>2. i \in from .. to - 1
      BY <1>1, <1>4, <3>1
    <3>3. i \in Within(points, q, from, to)
      BY <3>1, <3>2 DEF Within
    <3>4. PICK k \in 1 .. Len(hits) : hits[k] = i
      BY <3>3 DEF Lists, IsIn
    <3>5. CASE k = 1
      BY <1>2, <3>4, <3>5
    <3>6. CASE k # 1
      <4>1. 1 < k
        BY <3>6
      <4>2. hits[1] < hits[k]
        BY <1>2, <4>1 DEF Lists
      <4> QED BY <1>2, <1>5, <3>1, <3>4, <4>2
    <3> QED BY <3>5, <3>6
  <2> QED BY <2>1, <2>2
<1>7. Lists(Append(h, v), Within(points, q, 0, v + 1))
  <2> DEFINE S == Within(points, q, 0, from)
             R == {v}
             one == <<v>>
  <2>1. Within(points, q, 0, v + 1) = S \cup R
    BY <1>1, <1>5, <1>6, WithinSplits
  <2>2. Lists(one, R)
    <3>1. one \in Seq(Int) /\ Len(one) = 1 /\ one[1] = v
      BY <1>5
    <3> HIDE DEF one
    <3>2. \A x : IsIn(x, one) <=> x = v
      BY <3>1 DEF IsIn
    <3>3. \A i, j \in 1 .. Len(one) : ~ (i < j)
      BY <3>1
    <3> QED BY <3>1, <3>2, <3>3 DEF Lists
  <2>3. \A x \in S : \A y \in R : x < y
    <3> SUFFICES ASSUME NEW x \in S PROVE x < v
      OBVIOUS
    <3>1. x \in 0 .. from - 1
      BY DEF Within
    <3> QED BY <1>1, <1>4, <3>1
  <2>4. Append(h, v) = h \o one
    <3>1. h \in Seq(Int)
      BY <1>1 DEF Lists
    <3> QED BY <1>5, <3>1, AppendIsConcat
  <2> HIDE DEF S, R, one
  <2>5. Lists(h \o one, S \cup R)
    BY <1>1, <2>2, <2>3, ListsConcat DEF S
  <2> QED BY <2>1, <2>4, <2>5
<1>8. ASSUME NEW i \in Within(points, q, v + 1, n) PROVE SpanHas(all, i)
  <2>1. i \in v + 1 .. n - 1 /\ Inside(q, points[i + 1])
    BY <1>8 DEF Within
  <2>2. i \in from .. n - 1
    BY <1>1, <1>5, <2>1
  <2>3. i \in Within(points, q, from, n)
    BY <2>1, <2>2 DEF Within
  <2> QED BY <1>1, <2>3
<1> QED BY <1>1, <1>5, <1>7, <1>8 DEF Scanned, v

\* A turn of the generator goes on with the scan.
LEMMA ReadWithinScans ==
    ASSUME BuildInv, QueryInv, FilterInv, ReadWithin PROVE FilterInv'
<1> DEFINE n == Len(file)
           s == Head(spans)
           from == From
           hits == Selected(region, from, s.end)
<1>1. spans # <<>> /\ builder = Idle /\ UNCHANGED <<file, builder, lax, looked, ix, region>>
  BY DEF ReadWithin
<1>2. /\ n \in Nat
      /\ s.start \in Int /\ s.end \in Int /\ 0 <= s.start /\ s.start <= s.end /\ s.end <= n
  <2>1. spans \in Seq(Runs)
    BY DEF QueryInv, SoundSpans
  <2>2. Len(spans) \in Nat /\ Len(spans) > 0
    BY <1>1, <2>1, EmptySeq, LenProperties
  <2>3. s = spans[1] /\ 1 \in 1 .. Len(spans)
    BY <1>1, <2>1, <2>2, HeadTailProperties
  <2>4. spans[1] \in Runs
    BY <2>1, <2>3, ElementOfSeq
  <2>5. 0 <= spans[1].start /\ spans[1].start <= spans[1].end /\ spans[1].end <= n
    BY <2>3 DEF QueryInv, SoundSpans
  <2>6. n \in Nat
    BY LenProperties DEF BuildInv
  <2> QED BY <2>3, <2>4, <2>5, <2>6 DEF Runs
<1>3. from \in Int /\ s.start <= from /\ from <= s.end /\ from = ScanPosition
  BY <1>1, <1>2 DEF From, QueryInv, ScanPosition, Begins
<1>4. IF hits = <<>>
      THEN index' = s.end /\ begun' = FALSE /\ spans' = Tail(spans) /\ got' = got
      ELSE index' = Head(hits) + 1 /\ begun' = TRUE /\ spans' = spans /\ got' = Append(got, Head(hits))
  BY DEF ReadWithin, Advance
<1>5. Lists(hits, Within(file, region, from, s.end))
  <2>1. Lists(hits, In(region, from, s.end))
    BY <1>2, <1>3, SelectedProperties
  <2> QED BY <2>1 DEF In, Within
<1> SUFFICES ASSUME HasItsPoints(file), region # None, ix = None \/ ix.own
             PROVE  Scanned(file, region, spans', got', ScanPosition', n)
  BY <1>1 DEF FilterInv
<1> DEFINE last == s.end
<1>6. Scanned(file, region, spans, got, from, n)
  BY <1>3 DEF FilterInv
<1>7. SoundSpans(spans, n)
  BY DEF QueryInv
<1> HIDE DEF from, hits, n
<1>8. CASE hits = <<>>
  <2>1. begun' = FALSE /\ spans' = Tail(spans) /\ got' = got
    BY <1>4, <1>8
  <2> DEFINE to == Begins(Tail(spans), n)
  <2>2. ScanPosition' = to
    BY <1>1, <2>1 DEF ScanPosition, n
  <2>3. Within(file, region, from, last) = {}
    <3>1. \A x : ~ IsIn(x, hits)
      BY <1>8 DEF IsIn
    <3> QED BY <1>5, <3>1 DEF Lists
  <2>4. last = Head(spans).end /\ from <= last
    BY <1>3
  <2> HIDE DEF to, last, s
  <2>5. Scanned(file, region, Tail(spans), got, to, n)
    BY <1>1, <1>2, <1>6, <1>7, <2>3, <2>4, ScanGoesOn DEF to
  <2> QED BY <2>1, <2>2, <2>5
<1>9. CASE hits # <<>>
  <2>1. index' = Head(hits) + 1 /\ begun' = TRUE /\ spans' = spans /\ got' = Append(got, Head(hits))
    BY <1>4, <1>9
  <2>2. ScanPosition' = Head(hits) + 1
    BY <2>1 DEF ScanPosition
  <2>3. last \in Int /\ last <= n /\ n \in Nat
    BY <1>2
  <2>4. Lists(hits, Within(file, region, from, last))
    BY <1>5
  <2> HIDE DEF last, s
  <2>5. Scanned(file, region, spans, Append(got, Head(hits)), Head(hits) + 1, n)
    BY <1>6, <1>9, <2>3, <2>4, ScanHandsOut
  <2> QED BY <2>1, <2>2, <2>5
<1> QED BY <1>8, <1>9

\* What a query has to look through when it starts.
LEMMA QueryStarts ==
    ASSUME BuildInv, QueryInv, HasItsPoints(file), Look, ~ Refused,
           ix' = None \/ ix'.own, NEW q \in Regions, Valid(q)
    PROVE  /\ Len(file) \in Nat
           /\ SoundSpans(SpansOf(FoundNow, q), Len(file))
           /\ InTurn(SpansOf(FoundNow, q))
           /\ \A i \in Within(file, q, 0, Len(file)) : SpanHas(SpansOf(FoundNow, q), i)
<1> DEFINE x == FoundNow
<1>1. SoundFound(x)
  BY LookFinds
<1>2. ix' = x
  BY DEF Look
<1>3. x = None \/ (SoundIndex(x) /\ OwnIndex(file, x))
  <2> HIDE DEF x
  <2> QED BY <1>1, <1>2 DEF SoundFound
<1>4. file \in Seq(Points) /\ Len(file) \in Nat
  BY LenProperties DEF BuildInv
<1> HIDE DEF x
<1>5. SoundSpans(SpansOf(x, q), Len(file))
  BY <1>3, <1>4, SpansOfAreSound
<1>6. /\ InTurn(SpansOf(x, q))
      /\ \A i \in 0 .. Len(file) - 1 : Inside(q, file[i + 1]) => SpanHas(SpansOf(x, q), i)
  BY <1>3, <1>4, SpansOfCover
<1>7. \A i \in Within(file, q, 0, Len(file)) : SpanHas(SpansOf(x, q), i)
  BY <1>6 DEF Within
<1> QED BY <1>4, <1>5, <1>6, <1>7 DEF x

\* A query starts one.
LEMMA PointsWithinScans ==
    ASSUME BuildInv, QueryInv, NEW q \in Regions, PointsWithin(q) PROVE FilterInv'
<1>1. /\ UNCHANGED <<file, index, builder, lax>>
      /\ Valid(q) /\ Look
      /\ region' = IF Refused THEN None ELSE q
      /\ spans' = IF Refused THEN <<>> ELSE SpansOf(FoundNow, q)
      /\ begun' = FALSE /\ got' = <<>>
  BY DEF PointsWithin, buildVars
<1> SUFFICES ASSUME HasItsPoints(file), region' # None, ix' = None \/ ix'.own
             PROVE  Scanned(file, region', spans', got', ScanPosition', Len(file))
  BY <1>1 DEF FilterInv
<1>2. ~ Refused
  BY <1>1
<1> DEFINE all == SpansOf(FoundNow, q)
           n == Len(file)
<1>3. n \in Nat /\ SoundSpans(all, n) /\ InTurn(all) /\ \A i \in Within(file, q, 0, n) : SpanHas(all, i)
  BY <1>1, <1>2, QueryStarts
<1>4. region' = q /\ spans' = all /\ got' = <<>>
  BY <1>1, <1>2
<1>5. ScanPosition' = Begins(spans', n)
  BY <1>1 DEF ScanPosition
<1> HIDE DEF all, n
<1> DEFINE from == Begins(all, n)
<1>6. from = Begins(all, n)
  OBVIOUS
<1> HIDE DEF from
<1>7. Scanned(file, q, all, <<>>, from, n)
  BY <1>3, <1>6, ScanBegins
<1> QED BY <1>4, <1>5, <1>6, <1>7 DEF n

\* A query by arrays is a whole one.
LEMMA ArraysWithinScans ==
    ASSUME BuildInv, QueryInv, NEW q \in Regions, ArraysWithin(q) PROVE FilterInv'
<1> DEFINE all == SpansOf(FoundNow, q)
           blocks == BlocksOf(all)
           n == Len(file)
           g == FlattenSeq(AllSelected(q, blocks))
<1>1. /\ UNCHANGED <<file, builder, lax>>
      /\ Valid(q) /\ Look
      /\ region' = IF Refused THEN None ELSE q
      /\ spans' = <<>> /\ begun' = FALSE
      /\ ~ Refused => got' = g
  BY DEF ArraysWithin, Gathered, AllSelected
<1> SUFFICES ASSUME HasItsPoints(file), region' # None, ix' = None \/ ix'.own
             PROVE  Scanned(file, region', spans', got', ScanPosition', n)
  BY <1>1 DEF FilterInv
<1>2. ~ Refused
  BY <1>1
<1>3. n \in Nat /\ SoundSpans(all, n) /\ InTurn(all) /\ \A i \in Within(file, q, 0, n) : SpanHas(all, i)
  BY <1>1, <1>2, QueryStarts
<1>4. region' = q /\ spans' = <<>> /\ got' = g /\ ScanPosition' = n
  BY <1>1, <1>2 DEF ScanPosition, Begins
<1> HIDE DEF all
<1>5. SoundSpans(blocks, n) /\ InTurn(blocks) /\ \A i \in Within(file, q, 0, n) : SpanHas(blocks, i)
  BY <1>3, BlocksOfProperties
<1> HIDE DEF blocks
<1>6. Within(file, q, 0, n) = In(q, 0, n)
  BY DEF Within, In
<1>7. Lists(g, In(q, 0, n))
  <2>1. n = Len(file)
    OBVIOUS
  <2> HIDE DEF n
  <2> QED BY <1>3, <1>5, <1>6, <2>1, GatheredProperties
<1> HIDE DEF g, n
<1>8. ASSUME NEW i \in Within(file, q, n, n) PROVE FALSE
  <2>1. i \in n .. n - 1
    BY <1>8 DEF Within
  <2> QED BY <1>3, <2>1
<1>9. Scanned(file, q, <<>>, g, n, n)
  BY <1>3, <1>6, <1>7, <1>8, NoSpans DEF Scanned
<1> QED BY <1>4, <1>9

\* FilterInv says that queries are scans, which every step keeps.
LEMMA FilterInvKept ==
    ASSUME BuildInv, QueryInv, FilterInv, [Next]_vars PROVE FilterInv'
<1>1. CASE Build
  <2>1. region' = None
    BY <1>1 DEF Build, queryVars
  <2> QED BY <2>1 DEF FilterInv
<1>2. CASE ReadWithin
  BY <1>2, ReadWithinScans
<1>3. CASE Drop
  <2>1. region' = None
    BY <1>3 DEF Drop
  <2> QED BY <2>1 DEF FilterInv
<1>4. ASSUME NEW q \in Regions, PointsWithin(q) PROVE FilterInv'
  BY <1>4, PointsWithinScans
<1>5. ASSUME NEW q \in Regions, ArraysWithin(q) PROVE FilterInv'
  BY <1>5, ArraysWithinScans
<1>6. CASE UNCHANGED vars
  <2>1. UNCHANGED <<file, index, region, ix, spans, got, begun>>
    BY <1>6 DEF vars, buildVars, queryVars
  <2>2. ScanPosition' = ScanPosition
    BY <2>1 DEF ScanPosition
  <2> QED BY <2>1, <2>2 DEF FilterInv
<1> QED BY <1>1, <1>2, <1>3, <1>4, <1>5, <1>6 DEF Next

\* What a query has handed out is the first of what a scan of the file selects.
LEMMA ScannedIsPrefix ==
    ASSUME NEW q, NEW n, n \in Nat, NEW all, NEW h, NEW from,
           Scanned(file, q, all, h, from, n)
    PROVE  /\ IsPrefix(h, Selected(q, 0, n))
           /\ all = <<>> => h = Selected(q, 0, n)
<1> DEFINE t == Selected(q, 0, n)
           b == Selected(q, from, n)
           S == Within(file, q, 0, from)
           R == Within(file, q, from, n)
<1>1. /\ from \in 0 .. n /\ Lists(h, S)
      /\ \A i \in R : SpanHas(all, i)
  BY DEF Scanned
<1>2. from \in Int /\ 0 <= from /\ from <= n /\ n \in Int
  BY <1>1
<1>3. Lists(t, S \cup R)
  <2>1. Lists(t, In(q, 0, n))
    BY <1>2, SelectedProperties
  <2>2. In(q, 0, n) = Within(file, q, 0, n)
    BY DEF In, Within
  <2>3. Within(file, q, 0, n) = S \cup R
    BY <1>2, WithinSplits
  <2> QED BY <2>1, <2>2, <2>3
<1>4. Lists(b, R)
  <2>1. Lists(b, In(q, from, n))
    BY <1>2, SelectedProperties
  <2>2. In(q, from, n) = R
    BY DEF In, Within
  <2> QED BY <2>1, <2>2
<1>5. \A x \in S : \A y \in R : x < y
  <2> SUFFICES ASSUME NEW x \in S, NEW y \in R PROVE x < y
    OBVIOUS
  <2>1. x \in 0 .. from - 1 /\ y \in from .. n - 1
    BY DEF Within
  <2> QED BY <1>2, <2>1
<1> HIDE DEF t, b, S, R
<1>6. t = h \o b
  <2>1. Lists(h \o b, S \cup R)
    BY <1>1, <1>4, <1>5, ListsConcat
  <2> QED BY <1>3, <2>1, ListsOnce
<1>7. h \in Seq(Int) /\ b \in Seq(Int) /\ t \in Seq(Int)
  BY <1>1, <1>3, <1>4 DEF Lists
<1>8. IsPrefix(h, t)
  <2> DEFINE k == Len(h)
             u == SubSeq(t, 1, k)
  <2>1. /\ k \in Nat /\ Len(b) \in Nat /\ Len(t) = k + Len(b) /\ k <= Len(t)
        /\ \A i \in 1 .. k : t[i] = h[i]
    BY <1>6, <1>7, ConcatProperties, LenProperties
  <2>2. SubSeq(h, 1, k) = h
    BY <1>7, SubSeqFull
  <2>3. u = h
    <3>1. \A i \in 1 .. k : t[i] \in Int
      BY <1>7, <2>1, ElementOfSeq
    <3>2. u \in Seq(Int) /\ Len(u) = k /\ \A i \in 1 .. k : u[i] = t[i]
      <4>1. 1 \in Int /\ k \in Int /\ \A i \in 1 .. k : t[i] \in Int
        BY <2>1, <3>1
      <4>2. u \in Seq(Int) /\ Len(u) = (IF 1 <= k THEN k - 1 + 1 ELSE 0) /\ \A i \in 1 .. k - 1 + 1 : u[i] = t[1 + i - 1]
        BY <1>7, <2>1, SubSeqProperties
      <4> HIDE DEF u
      <4>3. Len(u) = k
        BY <2>1, <4>2
      <4>4. ASSUME NEW i \in 1 .. k PROVE u[i] = t[i]
        <5>1. i \in 1 .. k - 1 + 1 /\ 1 + i - 1 = i
          BY <2>1
        <5> QED BY <4>2, <5>1
      <4> QED BY <4>2, <4>3, <4>4
    <3> HIDE DEF u, k
    <3>3. Len(h) = k
      BY DEF k
    <3> QED BY <1>7, <2>1, <3>2, <3>3, SeqEqual
  <2> QED BY <2>1, <2>2, <2>3 DEF IsPrefix
<1>9. ASSUME all = <<>> PROVE h = t
  <2>1. \A i : ~ SpanHas(all, i)
    BY <1>9 DEF SpanHas
  <2>2. R = {}
    BY <1>1, <2>1
  <2>3. S \cup R = S
    BY <2>2
  <2> QED BY <1>1, <1>3, <2>3, ListsOnce
<1> QED BY <1>8, <1>9 DEF t

\* With an index of its points or without one, a query over a file whose points
\* are all in the box of its tree hands out what a scan of the whole file
\* selects, in file order and each point once (reader.py:951-953).
THEOREM QueriesAreFilteredScans ==
    Spec => [](HasItsPoints(file) => QueryIsAFilteredScan)
<1>1. Init => FilterInv
  BY DEF Init, FilterInv
<1>2. BuildInv /\ QueryInv /\ FilterInv /\ [Next]_vars => FilterInv'
  BY FilterInvKept
<1>3. BuildInv /\ FilterInv => (HasItsPoints(file) => QueryIsAFilteredScan)
  <2> SUFFICES ASSUME BuildInv, FilterInv, HasItsPoints(file), region # None, ix = None \/ ix.own
               PROVE  /\ IsPrefix(got, Selected(region, 0, Len(file)))
                      /\ spans = <<>> => got = Selected(region, 0, Len(file))
    BY DEF QueryIsAFilteredScan
  <2>1. Len(file) \in Nat
    BY LenProperties DEF BuildInv
  <2>2. Scanned(file, region, spans, got, ScanPosition, Len(file))
    BY DEF FilterInv
  <2> DEFINE n == Len(file)
             from == ScanPosition
  <2>3. n \in Nat /\ Scanned(file, region, spans, got, from, n)
    BY <2>1, <2>2
  <2>4. IsPrefix(got, Selected(region, 0, n)) /\ (spans = <<>> => got = Selected(region, 0, n))
    <3> HIDE DEF n, from
    <3> QED BY <2>3, ScannedIsPrefix
  <2> QED BY <2>4
<1> QED BY <1>1, <1>2, <1>3, QueryInvAlways, PTL DEF Spec
====
