------------------------- MODULE ChunkReaderProofs -------------------------
(***************************************************************************)
(* Proofs about the point reader.                                          *)
(*                                                                         *)
(* On any file, however its table lies, and for any sequence of reads,     *)
(* bulk reads and seeks, failed ones included: both chunk arrays stay      *)
(* inside what was allocated for them, no seek divides by zero             *)
(* (ArraysInBounds), and every field keeps to its type (TypeOK).  The      *)
(* inductive invariants are predicates on the reader's record, Arrays and  *)
(* Typed; each operator of ChunkReader gets a lemma saying that it         *)
(* preserves them, in the order in which they call one another.            *)
(*                                                                         *)
(* On intact files, whose points are all there and whose tables state no   *)
(* boundary the points do not have: the starts it keeps are boundaries,    *)
(* the core and the binding's index stay in step, no point of the file is  *)
(* refused, and points come out as an abstract cursor hands them out       *)
(* (PointSource).  A reader is Fresh until its table is read.  From then   *)
(* on Tables says what it has of the table, Where that the decoder is      *)
(* where chunk_count says as long as that is inside a chunk, and Stands    *)
(* that it is in front of a point.  One lemma per operator says what it    *)
(* makes of the three; ReadingStep and SeekingStep are a read and a turn   *)
(* of a seek's loop, and Kept is the inductive invariant of the binding's  *)
(* actions.                                                                *)
(***************************************************************************)
EXTENDS ChunkReader, WellFoundedInduction, TLAPS

Fields == {"readers", "chunk_size", "chunk_count", "current_chunk",
           "number_chunks", "tabled_chunks", "chunk_totals", "chunk_starts",
           "point_start", "tell", "eof", "failed", "origin", "decoded",
           "measured", "warning", "point", "ok"}

\* What is known of a table that states sizes: it is one total longer than it
\* has chunks, its totals never fall, and its starts are all there.
Totals(s) ==
    s.chunk_totals # NULL =>
        /\ s.chunk_totals \in [0 .. s.number_chunks -> Nat]
        /\ \A i \in 1 .. s.number_chunks :
              s.chunk_totals[i - 1] <= s.chunk_totals[i]
        /\ s.tabled_chunks = s.number_chunks + 1
        /\ s.number_chunks < U32_MAX

Starts(s) ==
    /\ s.number_chunks \in Nat
    /\ s.tabled_chunks \in Nat
    /\ s.current_chunk \in Nat
    /\ 0 .. s.tabled_chunks - 1 \subseteq DOMAIN s.chunk_starts
    /\ s.tabled_chunks <= s.number_chunks + 1

Size(s) == s.chunk_size \in Nat /\ (~chunk_is_tabled(s, 0) => s.chunk_size # 0)

Arrays(s) == DOMAIN s = Fields /\ Totals(s) /\ Starts(s) /\ Size(s)

-----------------------------------------------------------------------------
(* About numbers. *)

\* Every non-empty set of naturals below a bound has a largest element, and
\* that is the one Max chooses.
LEMMA MaxIsAnElement ==
    ASSUME NEW u \in Nat, NEW S \in SUBSET (0 .. u), S # {}
    PROVE  Max(S) \in S /\ \A y \in S : y <= Max(S)
<1> DEFINE T == {u - x : x \in S}
           R == OpToRel(<, Nat)
<1>1. T \subseteq Nat /\ T # {}
  <2>1. T \subseteq Nat
    OBVIOUS
  <2>2. PICK x \in S : TRUE
    OBVIOUS
  <2>3. u - x \in T
    OBVIOUS
  <2> QED BY <2>1, <2>3
<1>2. PICK t \in T : \A y \in T : ~ (<<y, t>> \in R)
  BY <1>1, NatLessThanWellFounded, WFMin
<1>R. R = {ss \in Nat \X Nat : ss[1] < ss[2]}
  BY DEF OpToRel
<1> HIDE DEF R
<1>3. ASSUME NEW y \in T PROVE t <= y
  <2>1. t \in Nat /\ y \in Nat
    BY <1>1
  <2>2. y < t => <<y, t>> \in R
    BY <1>R, <2>1
  <2> QED BY <1>2, <2>1, <2>2
<1>4. u - t \in S /\ \A y \in S : u - t >= y
  <2>1. PICK x \in S : t = u - x
    OBVIOUS
  <2>2. u - t = x
    BY <2>1
  <2>3. ASSUME NEW y \in S PROVE x >= y
    <3>1. u - y \in T /\ x \in Int /\ y \in Int
      OBVIOUS
    <3>2. u - x <= u - y
      BY <1>3, <2>1, <3>1
    <3> QED BY <3>1, <3>2
  <2> QED BY <2>2, <2>3
<1>5. Max(S) \in S /\ \A y \in S : Max(S) >= y
  BY <1>4 DEF Max
<1>6. S \subseteq Int
  OBVIOUS
<1>7. ASSUME NEW y \in S PROVE y <= Max(S)
  <2>1. Max(S) >= y /\ Max(S) \in Int /\ y \in Int
    BY <1>5, <1>6
  <2> QED BY <2>1
<1> QED BY <1>5, <1>7

-----------------------------------------------------------------------------
(* The chunk table. *)

\* What IsTable says of a table: its totals never fall.
LEMMA TableFacts ==
    ASSUME NEW t, IsTable(t)
    PROVE  /\ U32_MAX \in Nat /\ U32_MAX > 1
           /\ t.kind \in {"interrupted", "misplaced", "unreadable", "entries"}
           /\ t.deltas \in Seq(Int)
           /\ Len(t.deltas) \in Nat /\ Len(t.deltas) < U32_MAX
           /\ t.totals \in [0 .. Len(t.deltas) -> Nat]
           /\ \A i \in 1 .. Len(t.deltas) : t.totals[i - 1] <= t.totals[i]
           /\ t.behind \in Nat
<1>1. U32_MAX \in Nat \ {0, 1}
  BY FilesAssumption
<1>2. /\ t.deltas \in Seq(Int) /\ t.sizes \in Seq(0 .. U32_MAX)
      /\ Len(t.deltas) < U32_MAX
      /\ Len(t.sizes) = Len(t.deltas)
      /\ t.totals \in [0 .. Len(t.sizes) -> Nat]
      /\ \A i \in DOMAIN t.sizes : t.totals[i] = t.totals[i - 1] + t.sizes[i]
  BY DEF IsTable
<1>3. Len(t.deltas) \in Nat
  BY <1>2
<1>4. ASSUME NEW i \in 1 .. Len(t.deltas)
      PROVE  t.totals[i - 1] <= t.totals[i]
  <2>1. i \in DOMAIN t.sizes /\ t.sizes[i] \in Nat
    <3> DEFINE Sizes == 0 .. U32_MAX
    <3>1. t.sizes \in Seq(Sizes) /\ i \in 1 .. Len(t.sizes) /\ Sizes \subseteq Nat
      BY <1>2
    <3> HIDE DEF Sizes
    <3>2. i \in DOMAIN t.sizes /\ t.sizes[i] \in Sizes
      BY <3>1
    <3> QED BY <3>1, <3>2
  <2>2. i - 1 \in 0 .. Len(t.sizes)
    BY <1>2, <1>3
  <2>3. t.totals[i - 1] \in Nat
    BY <1>2, <2>2
  <2>4. t.totals[i] = t.totals[i - 1] + t.sizes[i]
    BY <1>2, <2>1
  <2> QED BY <2>1, <2>3, <2>4
<1>5. /\ t.kind \in {"interrupted", "misplaced", "unreadable", "entries"}
      /\ t.behind \in Nat
  BY DEF IsTable
<1> QED BY <1>1, <1>2, <1>3, <1>4, <1>5

\* Wherever the position of a table is read, it leads to something.
LEMMA EveryPositionLeads ==
    ASSUME NEW f \in Files, NEW p
    PROVE  IsTable(PositionAt(f, p))
<1>1. /\ IsTable(f.table) /\ f.end \in Nat /\ DOMAIN f.strays = 0 .. f.end
      /\ \A q \in 0 .. f.end : IsTable(f.strays[q])
  BY FilesAssumption DEF IsFile
<1>2. (IF p \in DOMAIN f.strays THEN p ELSE f.end) \in 0 .. f.end
  BY <1>1
<1> QED BY <1>1, <1>2 DEF PositionAt

LEMMA U32IsANumber == U32_MAX \in Nat /\ U32_MAX > 1
BY FilesAssumption

\* A fresh growable table has room for the one start it has.
LEMMA StartGrowableTable ==
    ASSUME NEW s, Arrays(s), s.chunk_totals = NULL, NEW at
    PROVE  Arrays(start_growable_table(s, at))
<1>1. GROWTH \in Nat \ {0}
  BY FilesAssumption
<1> QED BY <1>1 DEF Arrays, Totals, Starts, Size, Fields, start_growable_table,
                    chunk_is_tabled, NULL

\* The sums over a sequence of n deltas are indexed from 0 to n.
LEMMA SumsDomain ==
    ASSUME NEW first, NEW deltas
    PROVE  DOMAIN Sums(first, deltas) = 0 .. Len(deltas)
BY DEF Sums

\* Moving the stream is none of the arrays' business.
LEMMA SeekStreamKeepsArrays ==
    ASSUME NEW s, Arrays(s), NEW position
    PROVE  Arrays(SeekStream(s, position))
BY DEF SeekStream, Arrays, Totals, Starts, Size, Fields, chunk_is_tabled

\* Decoding a table, usable or not, leaves the arrays in bounds, and the
\* totals there only if the sizes are the table's to state.
LEMMA DecodeChunkTable ==
    ASSUME NEW table, IsTable(table), NEW s, Arrays(s), s.chunk_totals = NULL, NEW at
    PROVE  LET d == decode_chunk_table(table, s, at) IN
           /\ Arrays(d) /\ d.chunk_size = s.chunk_size
           /\ d.chunk_totals # NULL => s.chunk_size = U32_MAX
<1> DEFINE n == Len(table.deltas)
           starts == Sums(at, table.deltas)
           stuck == {i \in 1 .. n : table.deltas[i] <= 0}
           behind == [s EXCEPT !.tell = table.behind]
           mixed == [i \in 0 .. n |->
                        IF i <= Min(stuck) THEN starts[i] ELSE table.deltas[i]]
<1>1. n \in Nat /\ n < U32_MAX /\ U32_MAX \in Nat /\ U32_MAX > 1
      /\ table.totals \in [0 .. n -> Nat]
      /\ \A i \in 1 .. n : table.totals[i - 1] <= table.totals[i]
  BY TableFacts
<1>2. DOMAIN starts = 0 .. n /\ DOMAIN mixed = 0 .. n
  BY SumsDomain
<1>3. Arrays(behind) /\ behind.chunk_size = s.chunk_size /\ behind.chunk_totals = NULL
  BY DEF Arrays, Totals, Starts, Size, Fields, chunk_is_tabled
<1> DEFINE adopted == [behind EXCEPT
                         !.number_chunks = n,
                         !.chunk_totals  = IF s.chunk_size = U32_MAX
                                           THEN table.totals ELSE NULL,
                         !.chunk_starts  = starts,
                         !.tabled_chunks = n + 1]
           broken == [adopted EXCEPT !.ok = FALSE, !.chunk_starts = mixed]
           Kept(d) == /\ Arrays(d) /\ d.chunk_size = s.chunk_size
                      /\ d.chunk_totals # NULL => s.chunk_size = U32_MAX
<1> HIDE DEF behind
<1>4. Kept(adopted) /\ DOMAIN adopted = Fields
  <2> HIDE DEF n, starts
  <2> QED BY <1>1, <1>2, <1>3 DEF Arrays, Totals, Starts, Size, Fields,
                                  chunk_is_tabled, NULL
<1>5. Kept(broken)
  <2>1. adopted.tabled_chunks = n + 1
    BY <1>3 DEF Arrays, Fields
  <2> HIDE DEF adopted, mixed, n
  <2> QED BY <1>1, <1>2, <1>4, <2>1
          DEF Arrays, Totals, Starts, Size, Fields, chunk_is_tabled
<1>6. Kept([behind EXCEPT !.ok = FALSE])
  BY <1>3 DEF Arrays, Totals, Starts, Size, Fields, chunk_is_tabled
<1>7. Kept(SeekStream(s, -1))
  BY SeekStreamKeepsArrays
     DEF SeekStream, Arrays, Totals, Starts, Size, Fields, chunk_is_tabled
<1> QED BY <1>4, <1>5, <1>6, <1>7 DEF decode_chunk_table, behind

\* Giving a table up leaves starts for what is tabled, and no totals.
LEMMA RecoverChunkTable ==
    ASSUME NEW s, Arrays(s), NEW at,
           s.chunk_totals # NULL => s.chunk_size = U32_MAX
    PROVE  LET r == recover_chunk_table(s, at)
           IN  Arrays(r) /\ r.chunk_totals = NULL
<1> DEFINE kept == [s EXCEPT !.chunk_totals = NULL, !.ok = TRUE, !.warning = TRUE]
           deltas == [i \in 1 .. s.tabled_chunks - 1 |-> s.chunk_starts[i]]
           sums == Sums(s.chunk_starts[0], deltas)
<1>1. U32_MAX \in Nat /\ U32_MAX > 1 /\ s.chunk_size # 0
  BY U32IsANumber DEF Arrays, Size, chunk_is_tabled
<1>2. Arrays(kept) /\ kept.chunk_totals = NULL
  BY <1>1 DEF Arrays, Totals, Starts, Size, Fields, chunk_is_tabled, NULL
<1>3. 0 .. s.tabled_chunks - 1 \subseteq DOMAIN sums
  <2>1. s.tabled_chunks \in Nat
    BY DEF Arrays, Starts
  <2>2. CASE s.tabled_chunks = 0
    BY <2>2
  <2>3. CASE s.tabled_chunks # 0
    <3>1. Len(deltas) = s.tabled_chunks - 1
      BY <2>1, <2>3
    <3> QED BY <2>1, <3>1, SumsDomain
  <2> QED BY <2>2, <2>3
<1>4. Arrays([kept EXCEPT !.chunk_starts = sums])
  <2> HIDE DEF sums
  <2> QED BY <1>1, <1>3
          DEF Arrays, Totals, Starts, Size, Fields, chunk_is_tabled, NULL
<1>5. [kept EXCEPT !.chunk_starts = sums].chunk_totals = NULL
  BY <1>2 DEF Arrays, Fields
<1>6. Arrays(start_growable_table(kept, at))
      /\ start_growable_table(kept, at).chunk_totals = NULL
  BY <1>2, StartGrowableTable DEF start_growable_table, Arrays, Fields
<1>7. LET g == [s EXCEPT !.chunk_totals = NULL, !.ok = FALSE]
      IN  Arrays(g) /\ g.chunk_totals = NULL
  BY <1>1 DEF Arrays, Totals, Starts, Size, Fields, chunk_is_tabled, NULL
<1> QED
  <2> HIDE DEF sums
  <2> QED BY <1>2, <1>4, <1>5, <1>6, <1>7 DEF recover_chunk_table, sums

LEMMA ReadChunkTable ==
    ASSUME NEW f \in Files, NEW s, Arrays(s), s.number_chunks = U32_MAX
    PROVE  Arrays(read_chunk_table(f, s))
<1> DEFINE table == PositionAt(f, s.tell)
           past == [s EXCEPT !.tell = f.end, !.eof = TRUE]
           on == [s EXCEPT !.tell = @ + 1]
           here == IF s.tell + 1 > f.end THEN past ELSE on
           at == here.tell
           decoded == decode_chunk_table(table, here, at)
           usable == IF decoded.ok THEN decoded ELSE recover_chunk_table(decoded, at)
           grown == start_growable_table(here, at)
<1>1. s.chunk_totals = NULL
  BY U32IsANumber DEF Arrays, Totals
<1>2. IsTable(table)
  BY EveryPositionLeads
<1>3. /\ Arrays(here) /\ here.chunk_totals = NULL
      /\ Arrays([here EXCEPT !.ok = FALSE])
      /\ Arrays([here EXCEPT !.number_chunks = 0, !.tabled_chunks = 0])
  <2>1. ASSUME NEW h \in {past, on}
        PROVE  DOMAIN h = Fields /\ Arrays(h) /\ h.chunk_totals = NULL
    BY <1>1 DEF Arrays, Totals, Starts, Size, Fields, chunk_is_tabled, NULL
  <2>2. here \in {past, on}
    OBVIOUS
  <2> HIDE DEF here, past, on
  <2>3. DOMAIN here = Fields /\ Arrays(here) /\ here.chunk_totals = NULL
    BY <2>1, <2>2
  <2> QED BY <2>3 DEF Arrays, Totals, Starts, Size, Fields, chunk_is_tabled, NULL
<1> HIDE DEF table, here, at
<1>4. Arrays(usable)
  BY <1>2, <1>3, DecodeChunkTable, RecoverChunkTable
<1>5. Arrays([grown EXCEPT !.warning = TRUE])
  <2>1. Arrays(grown)
    BY <1>3, StartGrowableTable
  <2> HIDE DEF grown
  <2> QED BY <2>1 DEF Arrays, Totals, Starts, Size, Fields, chunk_is_tabled
<1>6. Arrays(SeekStream(usable, at))
  BY <1>4, SeekStreamKeepsArrays
<1>7. Arrays(Then(usable, LAMBDA q : SeekStream(q, at)))
  BY <1>4, <1>6 DEF Then
<1> HIDE DEF grown, usable
<1> QED BY <1>3, <1>5, <1>7 DEF read_chunk_table, grown, usable, decoded, table, here, at, past, on

\* Starting the decoder reads the table at most once, and if it does, it is
\* the first chunk that is being started.
LEMMA InitDec ==
    ASSUME NEW f \in Files, NEW s, Arrays(s)
    PROVE  LET t == init_dec(f, s) IN
           /\ Arrays(t)
           /\ \/ s.number_chunks = U32_MAX /\ (t.ok => t.current_chunk = 0)
              \/ /\ t.current_chunk = s.current_chunk
                 /\ t.number_chunks = s.number_chunks
                 /\ t.tabled_chunks = s.tabled_chunks
                 /\ t.chunk_totals = s.chunk_totals
<1> DEFINE read == read_chunk_table(f, s)
           first(q) == [q EXCEPT !.current_chunk = 0,
                                 !.chunk_size = IF chunk_is_tabled(q, 0)
                                                THEN q.chunk_totals[1] ELSE @]
           started(q) == [q EXCEPT !.point_start = q.tell, !.readers = "NULL"]
<1>1. ASSUME NEW q, Arrays(q)
      PROVE  Arrays(first(q)) /\ first(q).current_chunk = 0
  <2>1. ASSUME chunk_is_tabled(q, 0) PROVE q.chunk_totals[1] \in Nat
    <3>1. q.chunk_totals \in [0 .. q.number_chunks -> Nat] /\ 1 \in 0 .. q.number_chunks
      BY <1>1, <2>1 DEF Arrays, Totals, Starts, chunk_is_tabled
    <3> QED BY <3>1
  <2> QED BY <1>1, <2>1 DEF Arrays, Totals, Starts, Size, Fields, chunk_is_tabled
<1>2. ASSUME NEW q, Arrays(q)
      PROVE  /\ Arrays(started(q))
             /\ started(q).current_chunk = q.current_chunk
             /\ started(q).number_chunks = q.number_chunks
             /\ started(q).tabled_chunks = q.tabled_chunks
             /\ started(q).chunk_totals = q.chunk_totals
  BY <1>2 DEF Arrays, Totals, Starts, Size, Fields, chunk_is_tabled
<1>3. init_dec(f, s) = IF s.number_chunks # U32_MAX THEN started(s)
                       ELSE IF read.ok THEN started(first(read)) ELSE read
  BY DEF init_dec, Then
<1> HIDE DEF first, started
<1>4. CASE s.number_chunks # U32_MAX
  BY <1>2, <1>3, <1>4
<1>5. CASE s.number_chunks = U32_MAX
  <2>1. Arrays(read)
    BY <1>5, ReadChunkTable
  <2> HIDE DEF read
  <2> QED BY <1>1, <1>2, <1>3, <1>5, <2>1
<1> QED BY <1>4, <1>5

-----------------------------------------------------------------------------
(* Reading. *)

LEMMA NoteChunkStart ==
    ASSUME NEW s, Arrays(s), s.chunk_totals = NULL,
           s.current_chunk = s.tabled_chunks
    PROVE  Arrays(note_chunk_start(s))
<1>1. GROWTH \in Nat \ {0}
  BY FilesAssumption
<1> QED BY <1>1 DEF Arrays, Totals, Starts, Size, Fields, chunk_is_tabled, NULL,
                    note_chunk_start

LEMMA SizeFromTable ==
    ASSUME NEW s, Arrays(s)
    PROVE  Arrays(size_from_table(s))
<1> DEFINE c == s.current_chunk
           size == s.chunk_totals[c + 1] - s.chunk_totals[c]
<1>1. CASE chunk_is_tabled(s, c)
  <2>1. /\ s.chunk_totals \in [0 .. s.number_chunks -> Nat]
        /\ c \in 0 .. s.number_chunks - 1 /\ s.number_chunks \in Nat
        /\ \A i \in 1 .. s.number_chunks :
              s.chunk_totals[i - 1] <= s.chunk_totals[i]
    BY <1>1 DEF Arrays, Totals, Starts, chunk_is_tabled
  <2>2. /\ c + 1 \in 1 .. s.number_chunks
        /\ c + 1 \in 0 .. s.number_chunks
        /\ c \in 0 .. s.number_chunks
        /\ (c + 1) - 1 = c
    BY <2>1
  <2>3. s.chunk_totals[c] <= s.chunk_totals[c + 1]
    BY <2>1, <2>2
  <2>4. size \in Nat
    <3>1. s.chunk_totals[c] \in Nat /\ s.chunk_totals[c + 1] \in Nat
      BY <2>1, <2>2
    <3> QED BY <2>3, <3>1
  <2>5. chunk_is_tabled(s, 0)
    BY <1>1, <2>1 DEF chunk_is_tabled
  <2>6. size_from_table(s) = [s EXCEPT !.chunk_size = size]
    BY <1>1 DEF size_from_table
  <2> HIDE DEF size
  <2> QED BY <2>4, <2>5, <2>6
          DEF Arrays, Totals, Starts, Size, Fields, chunk_is_tabled
<1>2. CASE ~ chunk_is_tabled(s, c)
  BY <1>2 DEF size_from_table
<1> QED BY <1>1, <1>2

\* A table that states sizes has a start for every chunk a read can open, so
\* only one without them is ever extended.
LEMMA OnlyUnstatedIsExtended ==
    ASSUME NEW f \in Files, NEW s, Arrays(s),
           s.chunk_totals # NULL => s.current_chunk < s.number_chunks,
           NEW next \in {s.current_chunk, s.current_chunk + 1}
    PROVE  LET t == init_dec(f, [s EXCEPT !.current_chunk = next])
           IN  /\ Arrays(t)
               /\ t.ok /\ t.current_chunk = t.tabled_chunks => t.chunk_totals = NULL
<1> DEFINE u == [s EXCEPT !.current_chunk = next]
           t == init_dec(f, u)
<1>1. /\ Arrays(u) /\ u.number_chunks = s.number_chunks
      /\ u.tabled_chunks = s.tabled_chunks /\ u.chunk_totals = s.chunk_totals
      /\ u.chunk_totals # NULL => u.current_chunk <= u.number_chunks
  BY DEF Arrays, Totals, Starts, Size, Fields, chunk_is_tabled
<1> HIDE DEF u
<1>2. /\ Arrays(t)
      /\ \/ t.ok => t.current_chunk = 0
         \/ /\ t.current_chunk = u.current_chunk
            /\ t.number_chunks = u.number_chunks
            /\ t.chunk_totals = u.chunk_totals
  BY <1>1, InitDec
<1> HIDE DEF t
<1>3. ASSUME t.ok, t.current_chunk = t.tabled_chunks PROVE t.chunk_totals = NULL
  <2> SUFFICES ASSUME t.chunk_totals # NULL PROVE FALSE
    OBVIOUS
  <2>1. t.tabled_chunks = t.number_chunks + 1 /\ t.number_chunks \in Nat
    BY <1>2 DEF Arrays, Totals, Starts
  <2>2. t.current_chunk # 0
    BY <1>3, <2>1
  <2>3. /\ t.current_chunk = u.current_chunk /\ t.number_chunks = u.number_chunks
        /\ t.chunk_totals = u.chunk_totals
    BY <1>2, <1>3, <2>2
  <2> QED BY <1>1, <1>3, <2>1, <2>3
<1> QED BY <1>2, <1>3 DEF t, u

LEMMA OpenNextChunk ==
    ASSUME NEW f \in Files, NEW s, Arrays(s),
           s.chunk_totals # NULL => s.current_chunk < s.number_chunks
    PROVE  Arrays(open_next_chunk(f, s))
<1> DEFINE next == IF s.point_start # 0 THEN s.current_chunk + 1 ELSE s.current_chunk
           u == [s EXCEPT !.current_chunk = next]
           t == init_dec(f, u)
           noted == IF t.current_chunk = t.tabled_chunks THEN note_chunk_start(t)
                    ELSE size_from_table(t)
<1>1. Arrays(t) /\ (t.ok /\ t.current_chunk = t.tabled_chunks => t.chunk_totals = NULL)
  <2>1. next \in {s.current_chunk, s.current_chunk + 1}
    OBVIOUS
  <2> HIDE DEF next
  <2> QED BY <2>1, OnlyUnstatedIsExtended
<1> HIDE DEF t
<1>2. t.ok => Arrays(noted)
  BY <1>1, NoteChunkStart, SizeFromTable
<1>3. t.ok => Arrays([noted EXCEPT !.chunk_count = 0])
  <2> HIDE DEF noted
  <2> QED BY <1>2 DEF Arrays, Totals, Starts, Size, Fields, chunk_is_tabled
<1>4. Arrays([s EXCEPT !.ok = FALSE])
  BY DEF Arrays, Totals, Starts, Size, Fields, chunk_is_tabled
<1>5. open_next_chunk(f, s) =
          IF s.point_start # 0 /\ ~at_tabled_start(s, next) THEN [s EXCEPT !.ok = FALSE]
          ELSE IF t.ok THEN [noted EXCEPT !.chunk_count = 0] ELSE t
  BY DEF open_next_chunk, Then, t, u
<1> QED
  <2> HIDE DEF noted
  <2> QED BY <1>1, <1>3, <1>4, <1>5

LEMMA DecodeCoded ==
    ASSUME NEW f, NEW s, Arrays(s), NEW gap, NEW first
    PROVE  Arrays(decode_coded(f, s, gap, first))
<1> DEFINE inside == InChunk(f, s)
           c == CHOOSE x \in inside : TRUE
           after == IF inside = {} THEN s.tell + gap + (IF first THEN 1 ELSE 0)
                    ELSE IF s.decoded + 1 = f.counts[c + 1] THEN f.starts[c + 1]
                    ELSE s.origin + s.decoded + 1
           point == IF inside = {} THEN GARBAGE ELSE f.firsts[c] + s.decoded
           n == s.decoded + 1
<1>1. decode_coded(f, s, gap, first) =
        IF s.eof \/ after > f.end
        THEN [s EXCEPT !.eof = TRUE, !.tell = f.end,
                       !.readers = "compressed", !.point = GARBAGE]
        ELSE [s EXCEPT !.readers = "compressed", !.tell = after,
                       !.decoded = n, !.point = point]
  BY DEF decode_coded
<1> HIDE DEF after, point, n
<1>2. Arrays([s EXCEPT !.eof = TRUE, !.tell = f.end,
                       !.readers = "compressed", !.point = GARBAGE])
  BY DEF Arrays, Totals, Starts, Size, Fields, chunk_is_tabled
<1>3. Arrays([s EXCEPT !.readers = "compressed", !.tell = after,
                       !.decoded = n, !.point = point])
  BY DEF Arrays, Totals, Starts, Size, Fields, chunk_is_tabled
<1> QED BY <1>1, <1>2, <1>3

LEMMA LoadChunk ==
    ASSUME NEW f, NEW s, Arrays(s), NEW gap, NEW lucky
    PROVE  Arrays(load_chunk(f, s, gap, lucky))
<1> DEFINE inside  == InChunk(f, s)
           c       == CHOOSE x \in inside : TRUE
           after   == IF inside = {} THEN s.tell + 2 + gap ELSE f.starts[c + 1]
           unsized == s.tell + 2 > f.end
           refused == /\ f.seekable /\ ~unsized
                      /\ after > f.end \/ (inside = {} /\ ~lucky)
           short   == unsized \/ after > f.end
           eof     == IF f.seekable /\ ~s.measured THEN FALSE
                      ELSE s.eof \/ (short /\ ~refused)
           tell    == IF short THEN f.end ELSE after
           point   == IF s.eof \/ s.tell + 1 > f.end \/ inside = {} THEN GARBAGE
                      ELSE f.firsts[c] + s.decoded
           behind  == s.tell + 2
           n       == s.decoded + 1
           measured == [s EXCEPT !.measured = f.seekable, !.eof = eof]
<1>1. load_chunk(f, s, gap, lucky) =
        IF refused THEN [measured EXCEPT !.ok = FALSE, !.tell = behind]
        ELSE [measured EXCEPT !.readers = "compressed", !.tell = tell,
                              !.decoded = n, !.point = point]
  BY DEF load_chunk
<1> HIDE DEF refused, eof, tell, point, behind, n
<1>2. Arrays(measured)
  BY DEF Arrays, Totals, Starts, Size, Fields, chunk_is_tabled
<1> HIDE DEF measured
<1>3. Arrays([measured EXCEPT !.ok = FALSE, !.tell = behind])
  BY <1>2 DEF Arrays, Totals, Starts, Size, Fields, chunk_is_tabled
<1>4. Arrays([measured EXCEPT !.readers = "compressed", !.tell = tell,
                              !.decoded = n, !.point = point])
  BY <1>2 DEF Arrays, Totals, Starts, Size, Fields, chunk_is_tabled
<1> QED BY <1>1, <1>3, <1>4

LEMMA DecodeLayered ==
    ASSUME NEW f, NEW s, Arrays(s), NEW lucky
    PROVE  Arrays(decode_layered(f, s, lucky))
<1> DEFINE inside == InChunk(f, s)
           c      == CHOOSE x \in inside : TRUE
           n      == s.decoded + 1
           ok     == IF inside = {} THEN lucky ELSE f.starts[c + 1] <= f.end
           point  == IF inside = {} THEN GARBAGE ELSE f.firsts[c] + s.decoded
<1>1. decode_layered(f, s, lucky) =
        [s EXCEPT !.decoded = n, !.ok = ok, !.point = point]
  BY DEF decode_layered
<1> HIDE DEF n, ok, point
<1>2. Arrays([s EXCEPT !.decoded = n, !.ok = ok, !.point = point])
  BY DEF Arrays, Totals, Starts, Size, Fields, chunk_is_tabled
<1> QED BY <1>1, <1>2

LEMMA DecodePoint ==
    ASSUME NEW f, NEW s, Arrays(s), NEW gap, NEW lucky
    PROVE  Arrays(decode_point(f, s, gap, lucky))
<1> DEFINE first == s.readers = "NULL"
           d == IF first THEN [s EXCEPT !.origin = s.tell, !.decoded = 0] ELSE s
<1>1. Arrays(d)
  BY DEF Arrays, Totals, Starts, Size, Fields, chunk_is_tabled
<1> HIDE DEF d
<1>2. /\ Arrays(decode_coded(f, d, gap, first))
      /\ Arrays(load_chunk(f, d, gap, lucky))
      /\ Arrays(decode_layered(f, d, lucky))
  BY <1>1, DecodeCoded, LoadChunk, DecodeLayered
<1> QED BY <1>2 DEF decode_point, d

LEMMA ReadRaw ==
    ASSUME NEW f, NEW s, Arrays(s)
    PROVE  Arrays(point_is_whole(read_raw(f, s)))
<1>1. ASSUME NEW q, Arrays(q), NEW tell, NEW decoded, NEW point
      PROVE  /\ Arrays([q EXCEPT !.eof = TRUE, !.tell = tell, !.point = point])
             /\ Arrays([q EXCEPT !.tell = tell, !.decoded = decoded, !.point = point])
             /\ Arrays(point_is_whole(q))
  BY <1>1 DEF Arrays, Totals, Starts, Size, Fields, chunk_is_tabled, point_is_whole
<1>2. Arrays(read_raw(f, s))
  BY <1>1 DEF read_raw
<1> QED BY <1>1, <1>2

LEMMA ReadKeepsArrays ==
    ASSUME NEW f \in Files, NEW s, Arrays(s), NEW gap, NEW lucky
    PROVE  Arrays(laz_readpoint_read(f, s, gap, lucky))
<1> DEFINE begun == [s EXCEPT !.ok = TRUE]
           t == IF s.chunk_count = s.chunk_size THEN open_next_chunk(f, begun) ELSE begun
           e == [t EXCEPT !.chunk_count = (@ + 1) % (U32_MAX + 1)]
           d == decode_point(f, e, gap, lucky)
<1>1. /\ Arrays(begun) /\ Arrays([begun EXCEPT !.ok = FALSE])
      /\ begun.chunk_totals = s.chunk_totals
      /\ begun.current_chunk = s.current_chunk /\ begun.number_chunks = s.number_chunks
  BY DEF Arrays, Totals, Starts, Size, Fields, chunk_is_tabled
<1>2. CASE ~Compressed(f)
  BY <1>1, <1>2, ReadRaw DEF laz_readpoint_read
<1>3. CASE s.chunk_totals # NULL /\ ~chunk_is_tabled(s, s.current_chunk)
  BY <1>1, <1>2, <1>3 DEF laz_readpoint_read
<1>4. CASE ~ (s.chunk_totals # NULL /\ ~chunk_is_tabled(s, s.current_chunk))
  <2>1. begun.chunk_totals # NULL => begun.current_chunk < begun.number_chunks
    BY <1>1, <1>4 DEF chunk_is_tabled
  <2>2. Arrays(t)
    BY <1>1, <2>1, OpenNextChunk
  <2>3. Arrays(e)
    <3> HIDE DEF t
    <3> QED BY <2>2 DEF Arrays, Totals, Starts, Size, Fields, chunk_is_tabled
  <2>4. Arrays(d)
    <3> HIDE DEF e
    <3> QED BY <2>3, DecodePoint
  <2>5. Arrays(point_is_whole(d))
    <3> HIDE DEF d
    <3> QED BY <2>4 DEF point_is_whole, Arrays, Totals, Starts, Size, Fields,
                        chunk_is_tabled
  <2>6. laz_readpoint_read(f, s, gap, lucky) =
            IF ~Compressed(f) THEN point_is_whole(read_raw(f, begun))
            ELSE IF ~t.ok THEN t ELSE IF ~d.ok THEN d ELSE point_is_whole(d)
    BY <1>4 DEF laz_readpoint_read, Then
  <2> HIDE DEF d, t
  <2> QED BY <1>2, <2>2, <2>4, <2>5, <2>6
<1> QED BY <1>3, <1>4

-----------------------------------------------------------------------------
(* Seeking. *)

LEMMA SearchStaysInTheTable ==
    ASSUME NEW s, NEW i, NEW upper \in Nat, upper > 0
    PROVE  search_chunk_table(s, i, 0, upper) \in 0 .. upper - 1
<1> DEFINE at == {k \in 0 .. upper - 1 : k = 0 \/ s.chunk_totals[k] <= i}
<1>1. upper - 1 \in Nat /\ at \in SUBSET (0 .. upper - 1) /\ 0 \in at
  OBVIOUS
<1>2. Max(at) \in at
  BY <1>1, MaxIsAnElement
<1> HIDE DEF at
<1>3. search_chunk_table(s, i, 0, upper) = Max(at)
  BY DEF search_chunk_table, at
<1> QED BY <1>1, <1>2, <1>3

LEMMA JumpToChunk ==
    ASSUME NEW f \in Files, NEW s, Arrays(s), NEW chunk \in Nat
    PROVE  Arrays(jump_to_chunk(f, s, chunk))
<1> DEFINE t == SeekStream([s EXCEPT !.current_chunk = chunk], s.chunk_starts[chunk])
           u == init_dec(f, t)
<1>1. Arrays([s EXCEPT !.current_chunk = chunk])
  BY DEF Arrays, Totals, Starts, Size, Fields, chunk_is_tabled
<1>2. Arrays(t)
  BY <1>1, SeekStreamKeepsArrays
<1>3. Arrays(u)
  BY <1>2, InitDec
<1> HIDE DEF u, t
<1>4. Arrays([u EXCEPT !.chunk_count = 0])
  BY <1>3 DEF Arrays, Totals, Starts, Size, Fields, chunk_is_tabled
<1>5. jump_to_chunk(f, s, chunk) =
          IF ~t.ok THEN t ELSE IF ~u.ok THEN u ELSE [u EXCEPT !.chunk_count = 0]
  BY DEF jump_to_chunk, Then, t, u
<1> QED BY <1>2, <1>3, <1>4, <1>5

LEMMA SeekByTable ==
    ASSUME NEW f \in Files, NEW s, Arrays(s), NEW current, NEW target \in Nat
    PROVE  Arrays(seek_by_table(f, s, current, target).state)
<1> DEFINE tabled == chunk_is_tabled(s, 0)
           chunk  == IF tabled THEN search_chunk_table(s, target, 0, s.number_chunks)
                     ELSE (target \div s.chunk_size) % (U32_MAX + 1)
           sized  == IF tabled
                     THEN [s EXCEPT !.chunk_size = s.chunk_totals[chunk + 1]
                                                   - s.chunk_totals[chunk]]
                     ELSE s
           last   == s.tabled_chunks - 1
           known  == IF s.current_chunk < last THEN jump_to_chunk(f, sized, last)
                     ELSE sized
<1>1. chunk \in Nat /\ (tabled => chunk \in 0 .. s.number_chunks - 1)
  <2>1. CASE tabled
    <3>1. s.number_chunks \in Nat /\ s.number_chunks > 0
      BY <2>1 DEF Arrays, Starts, chunk_is_tabled
    <3> QED BY <2>1, <3>1, SearchStaysInTheTable
  <2>2. CASE ~tabled
    <3>1. s.chunk_size \in Nat /\ s.chunk_size > 0 /\ U32_MAX + 1 \in Nat
          /\ U32_MAX + 1 > 0
      BY <2>2, FilesAssumption DEF Arrays, Size
    <3>2. target \div s.chunk_size \in Int
      BY <3>1
    <3>3. (target \div s.chunk_size) % (U32_MAX + 1) \in Nat
      BY <3>1, <3>2
    <3> QED BY <2>2, <3>3
  <2> QED BY <2>1, <2>2
<1> HIDE DEF chunk
<1>2. Arrays(sized)
  <2>1. CASE tabled
    <3> DEFINE size == s.chunk_totals[chunk + 1] - s.chunk_totals[chunk]
    <3>1. /\ s.chunk_totals \in [0 .. s.number_chunks -> Nat]
          /\ s.number_chunks \in Nat
          /\ \A i \in 1 .. s.number_chunks :
                s.chunk_totals[i - 1] <= s.chunk_totals[i]
      BY <2>1 DEF Arrays, Totals, Starts, chunk_is_tabled
    <3>2. /\ chunk + 1 \in 1 .. s.number_chunks
          /\ chunk + 1 \in 0 .. s.number_chunks
          /\ chunk \in 0 .. s.number_chunks
          /\ (chunk + 1) - 1 = chunk
      BY <1>1, <2>1, <3>1
    <3>3. size \in Nat
      <4>1. s.chunk_totals[chunk] \in Nat /\ s.chunk_totals[chunk + 1] \in Nat
        BY <3>1, <3>2
      <4>2. s.chunk_totals[chunk] <= s.chunk_totals[chunk + 1]
        BY <3>1, <3>2
      <4> QED BY <4>1, <4>2
    <3> HIDE DEF size
    <3>4. Arrays([s EXCEPT !.chunk_size = size])
      BY <2>1, <3>3 DEF Arrays, Totals, Starts, Size, Fields, chunk_is_tabled
    <3> QED BY <2>1, <3>4 DEF size
  <2>2. CASE ~tabled
    BY <2>2
  <2> QED BY <2>1, <2>2
<1> HIDE DEF sized
<1>3. Arrays(known)
  <2>1. CASE s.current_chunk < last
    <3>1. last \in Nat
      BY <2>1 DEF Arrays, Starts
    <3> QED BY <1>2, <2>1, <3>1, JumpToChunk
  <2> QED BY <1>2, <2>1
<1>4. Arrays(jump_to_chunk(f, sized, chunk))
  BY <1>1, <1>2, JumpToChunk
<1> HIDE DEF known
<1> QED BY <1>2, <1>3, <1>4 DEF seek_by_table, chunk, sized, known

LEMMA SeekFromStart ==
    ASSUME NEW f \in Files, NEW s, Arrays(s), NEW current, NEW target
    PROVE  Arrays(seek_from_start(f, s, current, target).state)
<1>1. Arrays(SeekStream(s, s.point_start))
  BY SeekStreamKeepsArrays
<1>2. Arrays(init_dec(f, SeekStream(s, s.point_start)))
  BY <1>1, InitDec
<1> QED BY <1>1, <1>2 DEF seek_from_start, Then

LEMMA SeekKeepsArrays ==
    ASSUME NEW f \in Files, NEW s, Arrays(s), NEW current, NEW target \in Nat
    PROVE  Arrays(laz_readpoint_seek(f, s, current, target).state)
<1> DEFINE begun  == [s EXCEPT !.ok = TRUE]
           dec    == init_dec(f, begun)
           opened == IF begun.point_start # 0 THEN begun
                     ELSE IF dec.ok THEN [dec EXCEPT !.chunk_count = 0] ELSE dec
<1>1. Arrays(begun) /\ Arrays([begun EXCEPT !.ok = FALSE])
  BY DEF Arrays, Totals, Starts, Size, Fields, chunk_is_tabled
<1>2. Arrays(dec)
  BY <1>1, InitDec
<1>3. Arrays([dec EXCEPT !.chunk_count = 0])
  <2> HIDE DEF dec
  <2> QED BY <1>2 DEF Arrays, Totals, Starts, Size, Fields, chunk_is_tabled
<1>4. Arrays(opened)
  BY <1>1, <1>2, <1>3
<1>5. Arrays(SeekStream(begun, begun.point_start + target))
  BY <1>1, SeekStreamKeepsArrays
<1>6. /\ Arrays(seek_by_table(f, opened, current, target).state)
      /\ Arrays(seek_from_start(f, opened, current, target).state)
  BY <1>4, SeekByTable, SeekFromStart
<1>7. opened = IF begun.point_start # 0 THEN begun
               ELSE Then(dec, LAMBDA q : [q EXCEPT !.chunk_count = 0])
  BY DEF Then
<1> HIDE DEF opened
<1> QED BY <1>1, <1>4, <1>5, <1>6, <1>7 DEF laz_readpoint_seek

-----------------------------------------------------------------------------
(* The reader. *)

IInv == file \in Files /\ Arrays(rp)

LEMMA OpenedIsInBounds ==
    ASSUME NEW f \in Files
    PROVE  Arrays(Opened(f))
<1>1. U32_MAX \in Nat /\ U32_MAX > 1 /\ (Chunked(f) => f.chunk_size \in Nat \ {0})
  <2>1. IsFile(f) /\ U32_MAX \in Nat \ {0, 1}
    BY FilesAssumption
  <2> QED BY <2>1 DEF IsFile, Adaptive
<1> QED BY <1>1 DEF Opened, Arrays, Totals, Starts, Size, Fields,
                    chunk_is_tabled, NULL

\* One point decoded, by whichever call.
LEMMA NextPointKeepsArrays ==
    ASSUME IInv, reader_next
    PROVE  Arrays(rp')
BY ReadKeepsArrays DEF IInv, reader_next

LEMMA ArraysInduction == IInv /\ [Next]_vars => IInv'
<1> SUFFICES ASSUME IInv, [Next]_vars PROVE IInv'
  OBVIOUS
<1>1. CASE Reader_read
  BY <1>1, NextPointKeepsArrays DEF IInv, Reader_read
<1>2. ASSUME NEW t \in Targets, Reader_seek(t) PROVE IInv'
  <2>1. t \in Nat
    BY FilesAssumption
  <2> QED BY <1>2, <2>1, SeekKeepsArrays DEF IInv, Reader_seek
<1>3. CASE PassOver
  BY <1>3, NextPointKeepsArrays DEF IInv, PassOver
<1>4. CASE SeekDone
  BY <1>4 DEF IInv, SeekDone
<1>5. ASSUME NEW n \in Counts, Reader_read_into(n) PROVE IInv'
  BY <1>5 DEF IInv, Reader_read_into
<1>6. CASE ReadIntoStep
  BY <1>6, NextPointKeepsArrays DEF IInv, ReadIntoStep
<1>7. CASE ReadIntoDone
  BY <1>7 DEF IInv, ReadIntoDone
<1>8. CASE UNCHANGED vars
  BY <1>8 DEF IInv, vars
<1> QED BY <1>1, <1>2, <1>3, <1>4, <1>5, <1>6, <1>7, <1>8 DEF Next

LEMMA ArraysImplyBounds == IInv => ArraysInBounds
BY DEF IInv, Arrays, Totals, Starts, Size, ArraysInBounds

\* Whatever the file's table says, and whatever sequence of reads, bulk reads
\* and seeks is made of it, the chunk arrays are indexed inside what was
\* allocated and filled, and no seek divides by zero (decode_chunk_table,
\* recover_chunk_table, open_next_chunk, laz_readpoint_seek).
THEOREM ArraysStayInBounds == Spec => []ArraysInBounds
<1>1. Init => IInv
  BY OpenedIsInBounds DEF Init, IInv
<1> QED BY <1>1, ArraysInduction, ArraysImplyBounds, PTL DEF Spec

-----------------------------------------------------------------------------
(* Induction over data, by the least number something fails for. *)

LEMMA UpTo ==
    ASSUME NEW m \in Nat, NEW T, 0 \in T, \A i \in 1 .. m : i - 1 \in T => i \in T
    PROVE  0 .. m \subseteq T
<1> SUFFICES ASSUME ~(0 .. m \subseteq T) PROVE FALSE
  OBVIOUS
<1> DEFINE U == {i \in 0 .. m : i \notin T}
           R == OpToRel(<, Nat)
<1>1. U \subseteq Nat /\ U # {}
  OBVIOUS
<1>2. PICK t \in U : \A y \in U : ~ (<<y, t>> \in R)
  BY <1>1, NatLessThanWellFounded, WFMin
<1>R. R = {ss \in Nat \X Nat : ss[1] < ss[2]}
  BY DEF OpToRel
<1> HIDE DEF R
<1>3. t \in 1 .. m /\ t - 1 \in 0 .. m
  OBVIOUS
<1>4. t - 1 \notin U
  <2>1. <<t - 1, t>> \in R
    BY <1>R, <1>3
  <2> QED BY <1>2, <2>1
<1> QED BY <1>3, <1>4

\* The running sums over the first n of d.
Adds(a, first, d, n) ==
    a = [i \in 0 .. n |-> IF i = 0 THEN first ELSE a[i - 1] + d[i]]

InSteps(a, first, d, n) ==
    /\ a = [i \in 0 .. n |-> a[i]] /\ a[0] = first
    /\ \A i \in 1 .. n : a[i] = a[i - 1] + d[i]

LEMMA AddsInSteps ==
    ASSUME NEW a, NEW first, NEW d, NEW n \in Nat
    PROVE  Adds(a, first, d, n) <=> InSteps(a, first, d, n)
<1> DEFINE e(i) == IF i = 0 THEN first ELSE a[i - 1] + d[i]
<1>1. Adds(a, first, d, n) <=> a = [i \in 0 .. n |-> e(i)]
  BY DEF Adds
<1>2. e(0) = first /\ \A i \in 1 .. n : e(i) = a[i - 1] + d[i]
  OBVIOUS
<1> HIDE DEF e
<1>3. (a = [i \in 0 .. n |-> e(i)])
        <=> a = [i \in 0 .. n |-> a[i]] /\ \A i \in 0 .. n : a[i] = e(i)
  OBVIOUS
<1>4. (\A i \in 0 .. n : a[i] = e(i)) <=> a[0] = e(0) /\ \A i \in 1 .. n : a[i] = e(i)
  OBVIOUS
<1> QED BY <1>1, <1>2, <1>3, <1>4 DEF InSteps

LEMMA AddsExist ==
    ASSUME NEW first, NEW d, NEW m \in Nat
    PROVE  \E a : Adds(a, first, d, m)
<1> DEFINE T == {n \in 0 .. m : \E a : Adds(a, first, d, n)}
<1>1. 0 \in T
  <2> DEFINE a == [i \in 0 .. 0 |-> first]
  <2>1. a = [i \in 0 .. 0 |-> a[i]] /\ a[0] = first /\ \A i \in 1 .. 0 : a[i] = a[i - 1] + d[i]
    OBVIOUS
  <2> HIDE DEF a
  <2>2. Adds(a, first, d, 0)
    <3>1. 0 \in Nat /\ InSteps(a, first, d, 0)
      BY <2>1 DEF InSteps
    <3> QED BY ONLY <3>1, AddsInSteps
  <2> QED BY <2>2
<1>2. ASSUME NEW n \in 1 .. m, n - 1 \in T
      PROVE  n \in T
  <2>1. PICK a : Adds(a, first, d, n - 1)
    BY <1>2
  <2> DEFINE x == a[n - 1] + d[n]
             h == [i \in 0 .. n |-> IF i = n THEN x ELSE a[i]]
  <2>2. a[0] = first /\ \A i \in 1 .. n - 1 : a[i] = a[i - 1] + d[i]
    <3>1. n - 1 \in Nat
      OBVIOUS
    <3>2. InSteps(a, first, d, n - 1)
      BY ONLY <2>1, <3>1, AddsInSteps
    <3> QED BY <3>2 DEF InSteps
  <2>3. h[n] = x /\ \A i \in 0 .. n - 1 : h[i] = a[i]
    OBVIOUS
  <2>4. ASSUME NEW i \in 1 .. n
        PROVE  h[i] = h[i - 1] + d[i]
    <3>1. i - 1 \in 0 .. n - 1 /\ h[i - 1] = a[i - 1]
      BY <2>3
    <3> HIDE DEF h
    <3>2. CASE i = n
      BY <2>3, <3>1, <3>2
    <3>3. CASE i # n
      BY <2>2, <2>3, <3>1, <3>3
    <3> QED BY <3>2, <3>3
  <2>5. h = [i \in 0 .. n |-> h[i]] /\ h[0] = first
    BY <2>2
  <2> HIDE DEF h
  <2>6. Adds(h, first, d, n)
    <3>1. n \in Nat /\ \A i \in 1 .. n : h[i] = h[i - 1] + d[i]
      BY <2>4
    <3>2. InSteps(h, first, d, n)
      BY <2>5, <3>1 DEF InSteps
    <3> QED BY ONLY <3>1, <3>2, AddsInSteps
  <2> QED BY <2>6
<1>3. 0 .. m \subseteq T
  BY <1>1, <1>2, UpTo
<1> QED BY <1>3

\* What Sums computes.
LEMMA SumsInSteps ==
    ASSUME NEW first, NEW d, NEW n \in Nat, Len(d) = n
    PROVE  LET a == Sums(first, d)
           IN  /\ a = [i \in 0 .. n |-> a[i]] /\ a[0] = first
               /\ \A i \in 1 .. n : a[i] = a[i - 1] + d[i]
<1> DEFINE f == CHOOSE a : Adds(a, first, d, n)
           a == Sums(first, d)
<1>1. Adds(f, first, d, n)
  <2>1. \E g : Adds(g, first, d, n)
    BY AddsExist
  <2> QED BY <2>1
<1>2. a = [i \in 0 .. n |-> f[i]]
  BY DEF Sums, Adds
<1> HIDE DEF f, a
<1>3. f = [i \in 0 .. n |-> f[i]] /\ f[0] = first /\ \A i \in 1 .. n : f[i] = f[i - 1] + d[i]
  <2>1. InSteps(f, first, d, n)
    BY <1>1, AddsInSteps
  <2> QED BY <2>1 DEF InSteps
<1>4. a = f
  BY <1>2, <1>3
<1> QED BY <1>3, <1>4 DEF a

\* Sums of steps known are those sums.
LEMMA SumsOfSteps ==
    ASSUME NEW first, NEW d, NEW n \in Nat, Len(d) = n, NEW g, InSteps(g, first, d, n)
    PROVE  g = Sums(first, d)
<1> DEFINE a == Sums(first, d)
           T == {i \in 0 .. n : g[i] = a[i]}
<1>0. /\ g = [i \in 0 .. n |-> g[i]] /\ g[0] = first
      /\ \A i \in 1 .. n : g[i] = g[i - 1] + d[i]
  BY DEF InSteps
<1>1. /\ a = [i \in 0 .. n |-> a[i]] /\ a[0] = first
      /\ \A i \in 1 .. n : a[i] = a[i - 1] + d[i]
  BY SumsInSteps
<1> HIDE DEF a
<1>2. 0 \in T
  BY <1>0, <1>1
<1>3. ASSUME NEW i \in 1 .. n, i - 1 \in T PROVE i \in T
  <2>1. g[i - 1] = a[i - 1]
    BY <1>3
  <2>2. g[i] = g[i - 1] + d[i] /\ a[i] = a[i - 1] + d[i]
    BY <1>0, <1>1
  <2> QED BY <2>1, <2>2
<1>4. 0 .. n \subseteq T
  BY <1>2, <1>3, UpTo
<1>5. \A i \in 0 .. n : g[i] = a[i]
  BY <1>4
<1> QED BY <1>0, <1>1, <1>5 DEF a

\* Sums of integers are integers.
LEMMA SumsType ==
    ASSUME NEW first \in Int, NEW d, NEW n \in Nat, Len(d) = n, \A i \in 1 .. n : d[i] \in Int
    PROVE  Sums(first, d) \in [0 .. n -> Int]
<1> DEFINE a == Sums(first, d)
           T == {i \in 0 .. n : a[i] \in Int}
<1>1. /\ a = [i \in 0 .. n |-> a[i]] /\ a[0] = first
      /\ \A i \in 1 .. n : a[i] = a[i - 1] + d[i]
  BY SumsInSteps
<1> HIDE DEF a
<1>2. 0 \in T
  BY <1>1
<1>3. ASSUME NEW i \in 1 .. n, i - 1 \in T PROVE i \in T
  <2>1. a[i] = a[i - 1] + d[i] /\ a[i - 1] \in Int /\ d[i] \in Int
    BY <1>1, <1>3
  <2> QED BY <2>1
<1>4. 0 .. n \subseteq T
  BY <1>2, <1>3, UpTo
<1>5. a \in [0 .. n -> Int]
  <2>1. \A i \in 0 .. n : a[i] \in Int
    BY <1>4
  <2> QED BY <1>1, <2>1
<1> QED BY <1>5 DEF a

\* Sums of what is not negative never fall, and those of what is positive rise.
LEMMA SumsGrow ==
    ASSUME NEW n \in Nat, NEW a \in [0 .. n -> Int], NEW least \in {0, 1},
           \A i \in 1 .. n : a[i] >= a[i - 1] + least
    PROVE  \A i, j \in 0 .. n : i < j => a[i] + least <= a[j]
<1> SUFFICES ASSUME NEW i \in 0 .. n PROVE \A j \in 0 .. n : i < j => a[i] + least <= a[j]
  OBVIOUS
<1> DEFINE T == {j \in 0 .. n : i < j => a[i] + least <= a[j]}
<1>1. 0 \in T
  OBVIOUS
<1>2. ASSUME NEW j \in 1 .. n, j - 1 \in T PROVE j \in T
  <2>1. a[j] >= a[j - 1] + least /\ a[j] \in Int /\ a[j - 1] \in Int /\ a[i] \in Int
    OBVIOUS
  <2>2. i < j => i = j - 1 \/ i < j - 1
    OBVIOUS
  <2>3. i < j - 1 => a[i] + least <= a[j - 1]
    BY <1>2
  <2> DEFINE x == a[i]
             y == a[j - 1]
             z == a[j]
  <2>4. i = j - 1 => x = y
    OBVIOUS
  <2>5. z >= y + least /\ x \in Int /\ y \in Int /\ z \in Int
    BY <2>1
  <2>6. i < j - 1 => x + least <= y
    BY <2>3
  <2> HIDE DEF x, y, z
  <2>7. least \in {0, 1}
    OBVIOUS
  <2>8. i < j => x + least <= z
    BY ONLY <2>2, <2>4, <2>5, <2>6, <2>7
  <2>9. j \in 0 .. n
    OBVIOUS
  <2> QED BY <2>8, <2>9 DEF x, z
<1>3. 0 .. n \subseteq T
  BY <1>1, <1>2, UpTo
<1> QED BY <1>3

-----------------------------------------------------------------------------
(* The files. *)

\* Where the chunks of a file are and how many points lie before each.
Shape(f) ==
    LET n == Len(f.counts)
        extra == IF Compressed(f) THEN 1 ELSE 0
    IN  /\ n \in Nat \ {0}
        /\ \A i \in 1 .. n : f.counts[i] \in Nat \ {0}
        /\ f.firsts \in [0 .. n -> Nat] /\ f.starts \in [0 .. n -> Nat]
        /\ f.firsts[0] = 0 /\ f.starts[0] = f.base + (IF Chunked(f) THEN 1 ELSE 0)
        /\ \A i \in 1 .. n : /\ f.firsts[i] = f.firsts[i - 1] + f.counts[i]
                             /\ f.starts[i] = f.starts[i - 1] + f.counts[i] + extra
        /\ \A i, j \in 0 .. n : i < j => /\ f.firsts[i] < f.firsts[j]
                                         /\ f.starts[i] < f.starts[j]

LEMMA FilesHaveShape ==
    ASSUME NEW f \in Files
    PROVE  Shape(f)
<1> DEFINE n == Len(f.counts)
           extra == IF Compressed(f) THEN 1 ELSE 0
           head == f.base + (IF Chunked(f) THEN 1 ELSE 0)
           spans == [c \in DOMAIN f.counts |-> f.counts[c] + extra]
<1>1. /\ f.counts \in Seq(Nat) /\ Len(f.counts) >= 1
      /\ \A c \in 1 .. Len(f.counts) : f.counts[c] >= 1
      /\ f.base \in Nat
      /\ f.firsts = Sums(0, f.counts) /\ f.starts = Sums(head, spans)
  <2>1. IsFile(f)
    BY FilesAssumption
  <2> QED BY <2>1 DEF IsFile
<1>2. n \in Nat \ {0} /\ \A i \in 1 .. n : f.counts[i] \in Nat \ {0}
  BY <1>1
<1>3. extra \in {0, 1} /\ head \in Nat
  BY <1>1
<1>4. Len(spans) = n /\ \A i \in 1 .. n : spans[i] = f.counts[i] + extra
  <2>1. DOMAIN f.counts = 1 .. n /\ n \in Nat
    BY <1>1
  <2> QED BY <2>1
<1> HIDE DEF n, extra, head, spans
<1>5. InSteps(f.firsts, 0, f.counts, n) /\ InSteps(f.starts, head, spans, n)
  <2>1. n \in Nat /\ Len(f.counts) = n /\ Len(spans) = n
    BY <1>2, <1>4 DEF n
  <2>2. InSteps(Sums(0, f.counts), 0, f.counts, n)
    BY <2>1, SumsInSteps DEF InSteps
  <2>3. InSteps(Sums(head, spans), head, spans, n)
    BY <2>1, SumsInSteps DEF InSteps
  <2> QED BY <1>1, <2>2, <2>3
<1>6. ASSUME NEW a, NEW least \in Nat, NEW d, InSteps(a, least, d, n),
             NEW more \in {0, 1}, \A i \in 1 .. n : d[i] = f.counts[i] + more
      PROVE  /\ a \in [0 .. n -> Nat]
             /\ \A i, j \in 0 .. n : i < j => a[i] < a[j]
  <2>1. /\ a = [i \in 0 .. n |-> a[i]] /\ a[0] = least
        /\ \A i \in 1 .. n : a[i] = a[i - 1] + d[i]
    BY <1>6 DEF InSteps
  <2>s. \A i \in 1 .. n : a[i] = a[i - 1] + d[i]
    BY <2>1
  <2>2. \A i \in 1 .. n : d[i] \in Nat /\ d[i] >= 1
    BY <1>2, <1>6
  <2> DEFINE T == {i \in 0 .. n : a[i] \in Nat}
  <2>3. 0 .. n \subseteq T
    <3>1. 0 \in T
      BY <1>2, <2>1
    <3>2. ASSUME NEW i \in 1 .. n, i - 1 \in T PROVE i \in T
      <4>1. a[i] = a[i - 1] + d[i] /\ a[i - 1] \in Nat /\ d[i] \in Nat
        BY <2>1, <2>2, <3>2
      <4> QED BY <4>1
    <3>3. n \in Nat /\ \A i \in 1 .. n : i - 1 \in T => i \in T
      BY <1>2, <3>2
    <3> HIDE DEF T
    <3> QED BY ONLY <3>1, <3>3, UpTo
  <2>4. a \in [0 .. n -> Nat]
    <3>1. \A i \in 0 .. n : a[i] \in Nat
      BY <2>3
    <3> QED BY <2>1, <3>1
  <2>5. \A i, j \in 0 .. n : i < j => a[i] + 1 <= a[j]
    <3>1. \A i \in 1 .. n : a[i] >= a[i - 1] + 1
      <4> SUFFICES ASSUME NEW i \in 1 .. n PROVE a[i] >= a[i - 1] + 1
        OBVIOUS
      <4>1. i - 1 \in 0 .. n /\ d[i] \in Nat /\ d[i] >= 1 /\ a[i] = a[i - 1] + d[i]
        BY ONLY <1>2, <2>s, <2>2, i \in 1 .. n
      <4>2. a[i - 1] \in Nat
        BY <2>4, <4>1
      <4> QED BY <4>1, <4>2
    <3>2. a \in [0 .. n -> Int] /\ 1 \in {0, 1} /\ n \in Nat
      BY <1>2, <2>4
    <3> QED BY ONLY <3>1, <3>2, SumsGrow
  <2>6. \A i, j \in 0 .. n : i < j => a[i] < a[j]
    <3> SUFFICES ASSUME NEW i \in 0 .. n, NEW j \in 0 .. n, i < j PROVE a[i] < a[j]
      OBVIOUS
    <3>1. a[i] \in Nat /\ a[j] \in Nat /\ a[i] + 1 <= a[j]
      BY <2>4, <2>5
    <3> QED BY <3>1
  <2> QED BY <2>4, <2>6
<1>7. /\ f.firsts \in [0 .. n -> Nat]
      /\ \A i, j \in 0 .. n : i < j => f.firsts[i] < f.firsts[j]
  <2>1. 0 \in Nat /\ 0 \in {0, 1} /\ \A i \in 1 .. n : f.counts[i] = f.counts[i] + 0
    BY <1>2
  <2> QED BY <1>5, <1>6, <2>1
<1>8. /\ f.starts \in [0 .. n -> Nat]
      /\ \A i, j \in 0 .. n : i < j => f.starts[i] < f.starts[j]
  <2>1. head \in Nat /\ extra \in {0, 1} /\ \A i \in 1 .. n : spans[i] = f.counts[i] + extra
    BY <1>3, <1>4
  <2> QED BY ONLY <1>5, <1>6, <2>1
<1>9. /\ f.firsts[0] = 0 /\ \A i \in 1 .. n : f.firsts[i] = f.firsts[i - 1] + f.counts[i]
  BY <1>5 DEF InSteps
<1>10. f.starts[0] = head
       /\ \A i \in 1 .. n : f.starts[i] = f.starts[i - 1] + f.counts[i] + extra
  <2>1. f.starts[0] = head /\ \A i \in 1 .. n : f.starts[i] = f.starts[i - 1] + spans[i]
    BY <1>5 DEF InSteps
  <2>2. ASSUME NEW i \in 1 .. n
        PROVE  f.starts[i] = f.starts[i - 1] + f.counts[i] + extra
    <3>1. f.starts[i] = f.starts[i - 1] + (f.counts[i] + extra)
      BY <1>4, <2>1
    <3>2. f.starts[i - 1] \in Nat /\ f.counts[i] \in Nat /\ extra \in Nat
      <4>1. i - 1 \in 0 .. n
        BY <1>2
      <4> QED BY <1>2, <1>3, <1>8, <4>1
    <3> QED BY <3>1, <3>2
  <2> QED BY <2>1, <2>2
<1> QED BY <1>2, <1>7, <1>8, <1>9, <1>10 DEF Shape, n, extra, head

\* What else is said of a file.
LEMMA FileFacts ==
    ASSUME NEW f \in Files
    PROVE  /\ f.compressor \in {"none", "pointwise", "chunked", "layered"}
           /\ f.seekable \in BOOLEAN
           /\ f.base \in Nat /\ f.end \in Nat /\ f.base < f.end
           /\ f.chunk_size \in Nat
           /\ ~Chunked(f) => Len(f.counts) = 1
           /\ Chunked(f) => f.chunk_size \in 1 .. U32_MAX
           /\ Chunked(f) /\ ~Adaptive(f) =>
                /\ f.chunk_size < U32_MAX
                /\ \A c \in 1 .. Len(f.counts) - 1 : f.counts[c] = f.chunk_size
                /\ f.counts[Len(f.counts)] <= f.chunk_size
           /\ IsTable(f.table)
<1>1. IsFile(f) /\ U32_MAX \in Nat \ {0, 1}
  BY FilesAssumption
<1>2. Chunked(f) => f.chunk_size \in 1 .. U32_MAX
  BY <1>1 DEF IsFile, Adaptive
<1>3. Chunked(f) /\ ~Adaptive(f) => f.chunk_size < U32_MAX
  BY <1>1 DEF IsFile
<1> QED BY <1>1, <1>2, <1>3 DEF IsFile

\* What totals say of the sizes of n chunks.
Stated(totals, n) ==
    /\ totals[0] = 0
    /\ \A i \in 0 .. n - 1 : /\ totals[i] \in Nat /\ totals[i + 1] \in Nat
                             /\ totals[i + 1] - totals[i] \in 0 .. U32_MAX

\* The sizes a table states.
LEMMA StatedSizes ==
    ASSUME NEW table, IsTable(table)
    PROVE  Stated(table.totals, Len(table.deltas))
<1> DEFINE n == Len(table.deltas)
           Sizes == 0 .. U32_MAX
           t == table.totals
<1>1. U32_MAX \in Nat
  BY FilesAssumption
<1>2. /\ table.deltas \in Seq(Int) /\ table.sizes \in Seq(Sizes)
      /\ Len(table.sizes) = n /\ t \in [0 .. n -> Nat] /\ t[0] = 0
      /\ \A j \in DOMAIN table.sizes : t[j] = t[j - 1] + table.sizes[j]
  BY DEF IsTable
<1>3. n \in Nat
  BY <1>2
<1> HIDE DEF Sizes, t
<1>4. DOMAIN table.sizes = 1 .. n /\ \A j \in 1 .. n : table.sizes[j] \in Sizes
  BY <1>2, <1>3
<1> HIDE DEF n
<1>5. ASSUME NEW i \in 0 .. n - 1
      PROVE  t[i] \in Nat /\ t[i + 1] \in Nat /\ t[i + 1] - t[i] \in 0 .. U32_MAX
  <2>1. i + 1 \in 1 .. n /\ i + 1 \in 0 .. n /\ i \in 0 .. n /\ (i + 1) - 1 = i
    BY <1>3
  <2>2. t[i + 1] = t[i] + table.sizes[i + 1] /\ table.sizes[i + 1] \in Sizes
    BY <1>2, <1>4, <2>1
  <2>3. t[i] \in Nat /\ t[i + 1] \in Nat
    BY <1>2, <2>1
  <2>4. t[i + 1] - t[i] \in 0 .. U32_MAX
    BY <1>1, <2>2, <2>3 DEF Sizes
  <2> QED BY <2>3, <2>4
<1> QED BY <1>2, <1>5 DEF Stated, t, n

LEMMA MinIsAnElement ==
    ASSUME NEW S \in SUBSET Nat, S # {}
    PROVE  Min(S) \in S
<1> DEFINE R == OpToRel(<, Nat)
<1>1. PICK t \in S : \A y \in S : ~ (<<y, t>> \in R)
  BY NatLessThanWellFounded, WFMin
<1>R. R = {ss \in Nat \X Nat : ss[1] < ss[2]}
  BY DEF OpToRel
<1> HIDE DEF R
<1>2. ASSUME NEW y \in S PROVE t <= y
  <2>1. t \in Nat /\ y \in Nat
    OBVIOUS
  <2>2. y < t => <<y, t>> \in R
    BY <1>R, <2>1
  <2> QED BY <1>1, <2>1, <2>2
<1> QED BY <1>2 DEF Min


-----------------------------------------------------------------------------
(* Types. *)

\* A point is one of the file's, or garbage.
PointsOf(f) == {GARBAGE} \cup 0 .. Total(f) - 1

Bytes(f, s) ==
    /\ s.tell \in Nat /\ s.origin \in Nat /\ s.decoded \in Nat /\ s.point_start \in Nat
    /\ s.readers \in {"raw", "NULL", "compressed"}
    /\ s.point \in PointsOf(f)

Flags(s) ==
    s.eof \in BOOLEAN /\ s.failed \in BOOLEAN /\ s.measured \in BOOLEAN
    /\ s.warning \in BOOLEAN /\ s.ok \in BOOLEAN

\* What the arrays and the counters hold; totals are those of a table.
Counters(f, s) ==
    /\ s.chunk_size \in 0 .. U32_MAX /\ s.chunk_count \in 0 .. U32_MAX
    /\ \A i \in DOMAIN s.chunk_starts : s.chunk_starts[i] \in Int
    /\ s.chunk_totals # NULL => Stated(s.chunk_totals, s.number_chunks)

Typed(f, s) == Arrays(s) /\ Bytes(f, s) /\ Flags(s) /\ Counters(f, s)

LEMMA SeekStreamTyped ==
    ASSUME NEW f \in Files, NEW s, Typed(f, s), NEW position \in Int
    PROVE  Typed(f, SeekStream(s, position))
<1>1. Arrays(SeekStream(s, position))
  BY SeekStreamKeepsArrays DEF Typed
<1>2. DOMAIN s = Fields
  BY DEF Typed, Arrays
<1>3. Bytes(f, SeekStream(s, position))
  BY <1>2 DEF Typed, Bytes, SeekStream, Fields
<1>5. Flags(SeekStream(s, position))
  BY <1>2 DEF Typed, Flags, SeekStream, Fields
<1>4. Counters(f, SeekStream(s, position))
  BY <1>2 DEF Typed, Counters, SeekStream, Fields
<1> QED BY <1>1, <1>3, <1>4, <1>5 DEF Typed

LEMMA DecodeTableTyped ==
    ASSUME NEW f \in Files, NEW s, Typed(f, s), s.chunk_totals = NULL,
           NEW table, IsTable(table), NEW at \in Int
    PROVE  Typed(f, decode_chunk_table(table, s, at))
<1> DEFINE n == Len(table.deltas)
           starts == Sums(at, table.deltas)
           stuck == {i \in 1 .. n : table.deltas[i] <= 0}
           behind == [s EXCEPT !.tell = table.behind]
           mixed == [i \in 0 .. n |->
                        IF i <= Min(stuck) THEN starts[i] ELSE table.deltas[i]]
           totals == IF s.chunk_size = U32_MAX THEN table.totals ELSE NULL
           adopted == [behind EXCEPT !.number_chunks = n, !.chunk_totals = totals,
                                     !.chunk_starts = starts, !.tabled_chunks = n + 1]
           broken == [adopted EXCEPT !.ok = FALSE, !.chunk_starts = mixed]
           d == decode_chunk_table(table, s, at)
<1>1. DOMAIN s = Fields /\ Arrays(d)
  BY DecodeChunkTable DEF Typed, Arrays
<1>2. n \in Nat /\ table.deltas \in Seq(Int) /\ \A i \in 1 .. n : table.deltas[i] \in Int
  BY TableFacts
<1>3. table.behind \in Nat
  BY TableFacts
<1>4. starts \in [0 .. n -> Int]
  BY <1>2, SumsType
<1>5. stuck # {} => DOMAIN mixed = 0 .. n /\ \A i \in 0 .. n : mixed[i] \in Int
  <2> SUFFICES ASSUME stuck # {}, NEW i \in 0 .. n PROVE mixed[i] \in Int
    OBVIOUS
  <2>1. Min(stuck) \in stuck
    <3>1. stuck \in SUBSET Nat
      OBVIOUS
    <3> HIDE DEF stuck
    <3> QED BY <3>1, MinIsAnElement
  <2>2. CASE i <= Min(stuck)
    BY <1>4, <2>2
  <2>3. CASE ~(i <= Min(stuck))
    <3>1. i \in 1 .. n
      BY <1>2, <2>1, <2>3
    <3> QED BY <1>2, <2>3, <3>1
  <2> QED BY <2>2, <2>3
<1> HIDE DEF starts, mixed, stuck, n, totals
<1>6. \/ d = SeekStream(s, -1)
      \/ d = [behind EXCEPT !.ok = FALSE]
      \/ d = adopted
      \/ stuck # {} /\ d = broken
  <2>1. d = IF s.failed \/ table.kind = "misplaced" THEN SeekStream(s, -1)
            ELSE IF table.kind = "unreadable" THEN [behind EXCEPT !.ok = FALSE]
            ELSE IF stuck = {} THEN adopted ELSE broken
    BY DEF decode_chunk_table, n, starts, stuck, mixed, totals
  <2> HIDE DEF d, behind, adopted, broken
  <2> QED BY <2>1
<1>7. \A x \in {[behind EXCEPT !.ok = FALSE], adopted, broken} : Bytes(f, x) /\ Flags(x)
  <2>1. DOMAIN behind = Fields /\ Bytes(f, behind) /\ Flags(behind)
    BY <1>1, <1>3 DEF Typed, Bytes, Flags, Fields
  <2> HIDE DEF behind
  <2>2. DOMAIN adopted = Fields /\ Bytes(f, adopted) /\ Flags(adopted)
    BY <2>1 DEF Bytes, Flags, Fields
  <2> HIDE DEF adopted
  <2>3. Bytes(f, broken) /\ Flags(broken)
    BY <2>2 DEF Bytes, Flags, Fields
  <2>4. Bytes(f, [behind EXCEPT !.ok = FALSE]) /\ Flags([behind EXCEPT !.ok = FALSE])
    BY <2>1 DEF Bytes, Flags, Fields
  <2> HIDE DEF broken
  <2> QED BY <2>2, <2>3, <2>4
<1>8. Counters(f, [behind EXCEPT !.ok = FALSE])
  BY <1>1 DEF Typed, Counters, Fields
<1>9. totals # NULL => Stated(totals, n)
  BY StatedSizes DEF totals, n
<1>10. Counters(f, adopted)
  BY <1>1, <1>4, <1>9 DEF Typed, Counters, Fields
<1>11. stuck # {} => Counters(f, broken)
  BY <1>1, <1>5, <1>9 DEF Typed, Counters, Fields
<1>12. Typed(f, SeekStream(s, -1))
  BY SeekStreamTyped
<1> HIDE DEF adopted, broken, behind
<1> QED BY <1>1, <1>6, <1>7, <1>8, <1>10, <1>11, <1>12 DEF Typed

LEMMA StartGrowableTyped ==
    ASSUME NEW f \in Files, NEW s, Typed(f, s), s.chunk_totals = NULL, NEW at \in Int
    PROVE  LET g == start_growable_table(s, at)
           IN  Typed(f, g) /\ g.chunk_totals = NULL
<1> DEFINE g == start_growable_table(s, at)
<1>1. DOMAIN s = Fields /\ Arrays(g)
  BY StartGrowableTable DEF Typed, Arrays
<1>2. Bytes(f, g) /\ Flags(g)
  BY <1>1 DEF Typed, Bytes, Flags, start_growable_table, Fields
<1>3. Counters(f, g) /\ g.chunk_totals = NULL
  BY <1>1 DEF Typed, Counters, start_growable_table, Fields
<1> QED BY <1>1, <1>2, <1>3 DEF Typed

LEMMA RecoverTyped ==
    ASSUME NEW f \in Files, NEW s, Typed(f, s), NEW at \in Int,
           s.chunk_totals # NULL => s.chunk_size = U32_MAX,
           s.number_chunks # U32_MAX => s.tabled_chunks > 0
    PROVE  Typed(f, recover_chunk_table(s, at))
<1> DEFINE kept == [s EXCEPT !.chunk_totals = NULL, !.ok = TRUE, !.warning = TRUE]
           deltas == [i \in 1 .. s.tabled_chunks - 1 |-> s.chunk_starts[i]]
           sums == Sums(s.chunk_starts[0], deltas)
           summed == [kept EXCEPT !.chunk_starts = sums]
           given == [s EXCEPT !.chunk_totals = NULL, !.ok = FALSE]
           r == recover_chunk_table(s, at)
<1>1. DOMAIN s = Fields /\ Arrays(r)
  BY RecoverChunkTable DEF Typed, Arrays
<1>2. Bytes(f, kept) /\ Flags(kept) /\ Counters(f, kept)
      /\ Bytes(f, given) /\ Flags(given) /\ Counters(f, given)
  BY <1>1 DEF Typed, Bytes, Flags, Counters, Fields
<1>3. kept.chunk_totals = NULL /\ DOMAIN kept = Fields
  BY <1>1 DEF Fields
<1>4. s.number_chunks # U32_MAX => Bytes(f, summed) /\ Flags(summed) /\ Counters(f, summed)
  <2> SUFFICES ASSUME s.number_chunks # U32_MAX
               PROVE  Bytes(f, summed) /\ Flags(summed) /\ Counters(f, summed)
    OBVIOUS
  <2> DEFINE m == s.tabled_chunks - 1
  <2>1. m \in Nat /\ 0 .. m \subseteq DOMAIN s.chunk_starts
    BY DEF Typed, Arrays, Starts
  <2>2. Len(deltas) = m /\ \A i \in 1 .. m : deltas[i] \in Int
    BY <2>1 DEF Typed, Counters
  <2>3. s.chunk_starts[0] \in Int
    BY <2>1 DEF Typed, Counters
  <2> HIDE DEF m, deltas
  <2>4. sums \in [0 .. m -> Int]
    BY <2>1, <2>2, <2>3, SumsType
  <2> HIDE DEF sums, kept
  <2>5. \A i \in DOMAIN sums : sums[i] \in Int
    BY <2>4
  <2>6. Counters(f, summed)
    BY <1>2, <1>3, <2>5 DEF Counters, Fields
  <2>7. Bytes(f, summed) /\ Flags(summed)
    BY <1>2, <1>3 DEF Bytes, Flags, Fields
  <2> QED BY <2>6, <2>7
<1>5. s.chunk_size # U32_MAX => Typed(f, start_growable_table(kept, at))
  <2> SUFFICES ASSUME s.chunk_size # U32_MAX PROVE Typed(f, start_growable_table(kept, at))
    OBVIOUS
  <2>1. s.chunk_totals = NULL
    OBVIOUS
  <2>2. Arrays(kept)
    BY <2>1 DEF Typed, Arrays, Totals, Starts, Size, Fields, chunk_is_tabled
  <2>3. Typed(f, kept)
    BY <1>2, <2>2 DEF Typed
  <2> QED BY <1>3, <2>3, StartGrowableTyped
<1> HIDE DEF kept, summed, given
<1>6. \/ r = given
      \/ r = kept
      \/ s.number_chunks # U32_MAX /\ r = summed
      \/ s.chunk_size # U32_MAX /\ r = start_growable_table(kept, at)
  <2>1. r = IF s.chunk_size = U32_MAX THEN given
            ELSE IF s.number_chunks = U32_MAX
                 THEN start_growable_table(kept, at)
            ELSE IF s.chunk_starts # NULL THEN summed ELSE kept
    BY DEF recover_chunk_table, kept, summed, given
  <2> HIDE DEF r
  <2> QED BY <2>1
<1> HIDE DEF r
<1>7. Typed(f, r)
  BY <1>1, <1>2, <1>4, <1>5, <1>6 DEF Typed
<1> QED BY <1>7 DEF r

\* A decoded table has a start; one that is not has no count either.
LEMMA DecodedHasStarts ==
    ASSUME NEW table, IsTable(table), NEW s, Arrays(s), s.number_chunks = U32_MAX, NEW at
    PROVE  LET d == decode_chunk_table(table, s, at)
           IN  d.number_chunks # U32_MAX => d.tabled_chunks > 0
<1> DEFINE n == Len(table.deltas)
           d == decode_chunk_table(table, s, at)
<1>1. n \in Nat
  BY TableFacts
<1>2. DOMAIN s = Fields
  BY DEF Arrays
<1>3. \/ d.number_chunks = s.number_chunks
      \/ d.tabled_chunks = n + 1
  BY <1>2 DEF decode_chunk_table, SeekStream, Fields
<1> QED BY <1>1, <1>3

LEMMA ReadTableTyped ==
    ASSUME NEW f \in Files, NEW s, Typed(f, s), s.number_chunks = U32_MAX
    PROVE  Typed(f, read_chunk_table(f, s))
<1> DEFINE table == PositionAt(f, s.tell)
           past == [s EXCEPT !.tell = f.end, !.eof = TRUE]
           on == [s EXCEPT !.tell = @ + 1]
           here == IF s.tell + 1 > f.end THEN past ELSE on
           at == here.tell
           decoded == decode_chunk_table(table, here, at)
           usable == IF decoded.ok THEN decoded ELSE recover_chunk_table(decoded, at)
           grown == start_growable_table(here, at)
           warned == [grown EXCEPT !.warning = TRUE]
           failed == [here EXCEPT !.ok = FALSE]
           bare == [here EXCEPT !.number_chunks = 0, !.tabled_chunks = 0]
           r == read_chunk_table(f, s)
<1>1. s.chunk_totals = NULL /\ DOMAIN s = Fields /\ Arrays(s)
  BY U32IsANumber DEF Typed, Arrays, Totals
<1>2. /\ DOMAIN here = Fields /\ Bytes(f, here) /\ Flags(here) /\ Counters(f, here)
      /\ Arrays(here) /\ here.chunk_totals = NULL /\ here.number_chunks = U32_MAX
      /\ at \in Nat /\ IsTable(table)
  <2>1. s.tell \in Nat /\ f.end \in Nat
    BY FileFacts DEF Typed, Bytes
  <2>2. ASSUME NEW h \in {past, on}
        PROVE  /\ DOMAIN h = Fields /\ Bytes(f, h) /\ Flags(h) /\ Counters(f, h)
               /\ Arrays(h) /\ h.chunk_totals = NULL /\ h.number_chunks = U32_MAX
               /\ h.tell \in Nat
    <3>1. DOMAIN h = Fields /\ Bytes(f, h) /\ Flags(h) /\ h.tell \in Nat
      <4>1. CASE h = past
        BY <1>1, <2>1, <4>1 DEF Typed, Bytes, Flags, Fields
      <4>2. CASE h = on
        BY <1>1, <2>1, <4>2 DEF Typed, Bytes, Flags, Fields
      <4> QED BY <4>1, <4>2
    <3>2. Counters(f, h) /\ h.chunk_totals = NULL /\ h.number_chunks = U32_MAX
      BY <1>1 DEF Typed, Counters, Fields
    <3>3. Arrays(h)
      BY <1>1 DEF Arrays, Totals, Starts, Size, Fields, chunk_is_tabled, NULL
    <3> QED BY <3>1, <3>2, <3>3
  <2>3. here \in {past, on}
    OBVIOUS
  <2>4. IsTable(table)
    BY EveryPositionLeads
  <2> HIDE DEF here, past, on, table
  <2>5. /\ DOMAIN here = Fields /\ Bytes(f, here) /\ Flags(here) /\ Counters(f, here)
        /\ Arrays(here) /\ here.chunk_totals = NULL /\ here.number_chunks = U32_MAX
        /\ here.tell \in Nat
    BY <2>2, <2>3
  <2> QED BY <2>4, <2>5
<1> HIDE DEF table, here, at
<1>3. Bytes(f, here) /\ Flags(here) /\ Counters(f, here)
      /\ Bytes(f, failed) /\ Flags(failed) /\ Counters(f, failed)
  BY <1>2 DEF Bytes, Flags, Counters, Fields
<1>4. Bytes(f, bare) /\ Flags(bare) /\ Counters(f, bare)
  BY <1>2 DEF Bytes, Flags, Counters, Fields, NULL
<1>5. Arrays(failed) /\ Arrays(bare)
  BY <1>2 DEF Arrays, Totals, Starts, Size, Fields, chunk_is_tabled, NULL
<1>6. Typed(f, here) /\ Typed(f, failed) /\ Typed(f, bare)
  BY <1>2, <1>3, <1>4, <1>5 DEF Typed
<1> HIDE DEF failed, bare
<1>7. Typed(f, decoded)
  BY <1>2, <1>6, DecodeTableTyped
<1>8. Typed(f, usable)
  <2>1. decoded.chunk_totals # NULL => decoded.chunk_size = U32_MAX
    BY <1>2, DecodeChunkTable
  <2>2. decoded.number_chunks # U32_MAX => decoded.tabled_chunks > 0
    BY <1>2, DecodedHasStarts
  <2> HIDE DEF decoded
  <2> QED BY <1>2, <1>7, <2>1, <2>2, RecoverTyped
<1>9. Typed(f, SeekStream(usable, at))
  <2> HIDE DEF usable
  <2> QED BY <1>2, <1>8, SeekStreamTyped
<1>10. Typed(f, warned)
  <2>1. Typed(f, grown)
    BY <1>2, <1>6, StartGrowableTyped
  <2> HIDE DEF grown
  <2>2. DOMAIN grown = Fields /\ Arrays(warned)
    BY <2>1 DEF Typed, Arrays, Totals, Starts, Size, Fields, chunk_is_tabled
  <2>3. Bytes(f, warned) /\ Flags(warned) /\ Counters(f, warned)
    BY <2>1, <2>2 DEF Typed, Bytes, Flags, Counters, Fields
  <2> QED BY <2>2, <2>3 DEF Typed
<1>11. Typed(f, Then(usable, LAMBDA q : SeekStream(q, at)))
  BY <1>8, <1>9 DEF Then
<1> HIDE DEF warned, usable
<1> QED BY <1>6, <1>10, <1>11 DEF read_chunk_table, warned, usable, table, here, at, past, on, failed, bare

LEMMA InitDecTyped ==
    ASSUME NEW f \in Files, NEW s, Typed(f, s)
    PROVE  Typed(f, init_dec(f, s))
<1> DEFINE read == read_chunk_table(f, s)
           size(q) == IF chunk_is_tabled(q, 0) THEN q.chunk_totals[1] ELSE q.chunk_size
           first(q) == [q EXCEPT !.current_chunk = 0, !.chunk_size = size(q)]
           started(q) == [q EXCEPT !.point_start = q.tell, !.readers = "NULL"]
           t == init_dec(f, s)
<1>1. Arrays(s) /\ Arrays(t)
  BY InitDec DEF Typed
<1>2. ASSUME NEW q, Typed(f, q)
      PROVE  Bytes(f, first(q)) /\ Flags(first(q)) /\ Counters(f, first(q))
             /\ DOMAIN first(q) = Fields
  <2>1. DOMAIN q = Fields /\ q.chunk_size \in 0 .. U32_MAX
    BY <1>2 DEF Typed, Arrays, Counters
  <2>2. size(q) \in 0 .. U32_MAX
    <3>1. CASE chunk_is_tabled(q, 0)
      <4>1. Stated(q.chunk_totals, q.number_chunks) /\ 0 \in 0 .. q.number_chunks - 1
        BY <1>2, <3>1 DEF Typed, Counters, Arrays, Starts, chunk_is_tabled
      <4>2. /\ q.chunk_totals[1] \in Nat /\ q.chunk_totals[0] = 0
            /\ q.chunk_totals[1] - q.chunk_totals[0] \in 0 .. U32_MAX
        <5>1. 0 + 1 = 1
          OBVIOUS
        <5> QED BY <4>1, <5>1 DEF Stated
      <4>3. q.chunk_totals[1] \in 0 .. U32_MAX
        BY <4>2
      <4> QED BY <3>1, <4>3
    <3>2. CASE ~chunk_is_tabled(q, 0)
      BY <2>1, <3>2
    <3> QED BY <3>1, <3>2
  <2> HIDE DEF size
  <2>3. Bytes(f, first(q)) /\ Flags(first(q))
    BY <1>2, <2>1 DEF Typed, Bytes, Flags, Fields
  <2>4. Counters(f, first(q))
    BY <1>2, <2>1, <2>2 DEF Typed, Counters, Fields
  <2> QED BY <2>1, <2>3, <2>4
<1>3. ASSUME NEW q, Bytes(f, q), Flags(q), Counters(f, q), DOMAIN q = Fields
      PROVE  Bytes(f, started(q)) /\ Flags(started(q)) /\ Counters(f, started(q))
  BY <1>3 DEF Bytes, Flags, Counters, Fields
<1>4. t = IF s.number_chunks # U32_MAX THEN started(s)
          ELSE IF read.ok THEN started(first(read)) ELSE read
  BY DEF init_dec, Then
<1>5. s.number_chunks = U32_MAX => Typed(f, read)
  BY ReadTableTyped
<1>6. DOMAIN s = Fields /\ Bytes(f, s) /\ Flags(s) /\ Counters(f, s)
  BY DEF Typed, Arrays
<1> HIDE DEF first, started, read, t
<1>7. Bytes(f, t) /\ Flags(t) /\ Counters(f, t)
  BY <1>2, <1>3, <1>4, <1>5, <1>6 DEF Typed
<1>8. Typed(f, t)
  BY <1>1, <1>7 DEF Typed
<1> QED BY <1>8 DEF t

LEMMA NotedTyped ==
    ASSUME NEW f \in Files, NEW s, Typed(f, s)
    PROVE  /\ s.chunk_totals = NULL /\ s.current_chunk = s.tabled_chunks
                => Typed(f, note_chunk_start(s))
           /\ Typed(f, size_from_table(s))
<1>1. DOMAIN s = Fields /\ Arrays(s)
  BY DEF Typed, Arrays
<1>2. ASSUME s.chunk_totals = NULL, s.current_chunk = s.tabled_chunks
      PROVE  Typed(f, note_chunk_start(s))
  <2> DEFINE r == note_chunk_start(s)
             starts == [i \in 0 .. s.tabled_chunks |->
                  IF i < s.tabled_chunks THEN s.chunk_starts[i] ELSE s.point_start]
             number == IF s.current_chunk >= s.number_chunks THEN s.number_chunks + GROWTH
                       ELSE s.number_chunks
  <2>1. Arrays(r)
    BY <1>1, <1>2, NoteChunkStart
  <2>2. r = [s EXCEPT !.number_chunks = number, !.tabled_chunks = @ + 1,
                      !.chunk_starts = starts]
    BY DEF note_chunk_start
  <2>3. \A i \in DOMAIN starts : starts[i] \in Int
    <3>1. /\ s.tabled_chunks \in Nat /\ s.point_start \in Nat
          /\ 0 .. s.tabled_chunks - 1 \subseteq DOMAIN s.chunk_starts
          /\ \A i \in DOMAIN s.chunk_starts : s.chunk_starts[i] \in Int
      BY DEF Typed, Arrays, Starts, Bytes, Counters
    <3>2. \A i \in 0 .. s.tabled_chunks - 1 : s.chunk_starts[i] \in Int
      BY <3>1
    <3>3. ASSUME NEW i \in 0 .. s.tabled_chunks PROVE starts[i] \in Int
      <4>1. i < s.tabled_chunks => i \in 0 .. s.tabled_chunks - 1
        BY <3>1
      <4> QED BY <3>1, <3>2, <4>1
    <3> QED BY <3>3
  <2> HIDE DEF starts, number, r
  <2>4. Bytes(f, r) /\ Flags(r) /\ Counters(f, r)
    BY <1>1, <1>2, <2>2, <2>3 DEF Typed, Bytes, Flags, Counters, Fields
  <2>5. Typed(f, r)
    BY <2>1, <2>4 DEF Typed
  <2> QED BY <2>5 DEF r
<1>3. Typed(f, size_from_table(s))
  <2> DEFINE c == s.current_chunk
             size == s.chunk_totals[c + 1] - s.chunk_totals[c]
  <2>1. CASE chunk_is_tabled(s, c)
    <3>1. Arrays(size_from_table(s))
      BY <1>1, SizeFromTable
    <3>2. c \in 0 .. s.number_chunks - 1 /\ Stated(s.chunk_totals, s.number_chunks)
      BY <2>1 DEF Typed, Counters, Arrays, Starts, chunk_is_tabled
    <3>3. size \in 0 .. U32_MAX
      <4> HIDE DEF c
      <4> QED BY <3>2 DEF Stated
    <3>4. size_from_table(s) = [s EXCEPT !.chunk_size = size]
      BY <2>1 DEF size_from_table
    <3> HIDE DEF size
    <3>5. /\ Bytes(f, [s EXCEPT !.chunk_size = size]) /\ Flags([s EXCEPT !.chunk_size = size])
          /\ Counters(f, [s EXCEPT !.chunk_size = size])
      BY <1>1, <3>3 DEF Typed, Bytes, Flags, Counters, Fields
    <3> QED BY <3>1, <3>4, <3>5 DEF Typed
  <2>2. CASE ~chunk_is_tabled(s, c)
    BY <2>2 DEF size_from_table
  <2> QED BY <2>1, <2>2
<1> QED BY <1>2, <1>3

LEMMA OpenNextTyped ==
    ASSUME NEW f \in Files, NEW s, Typed(f, s),
           s.chunk_totals # NULL => s.current_chunk < s.number_chunks
    PROVE  Typed(f, open_next_chunk(f, s))
<1> DEFINE next == IF s.point_start # 0 THEN s.current_chunk + 1 ELSE s.current_chunk
           u == [s EXCEPT !.current_chunk = next]
           t == init_dec(f, u)
           noted == IF t.current_chunk = t.tabled_chunks THEN note_chunk_start(t)
                    ELSE size_from_table(t)
           opened == [noted EXCEPT !.chunk_count = 0]
           failed == [s EXCEPT !.ok = FALSE]
           r == open_next_chunk(f, s)
<1>1. Arrays(s) /\ DOMAIN s = Fields /\ next \in {s.current_chunk, s.current_chunk + 1}
  BY DEF Typed, Arrays
<1>2. /\ Arrays(r) /\ (t.ok /\ t.current_chunk = t.tabled_chunks => t.chunk_totals = NULL)
  <2> HIDE DEF next
  <2>1. t.ok /\ t.current_chunk = t.tabled_chunks => t.chunk_totals = NULL
    BY <1>1, OnlyUnstatedIsExtended
  <2> HIDE DEF t
  <2> QED BY <1>1, <2>1, OpenNextChunk
<1>3. Typed(f, u) /\ Bytes(f, failed) /\ Flags(failed) /\ Counters(f, failed)
  <2>1. Arrays(u)
    BY <1>1 DEF Arrays, Totals, Starts, Size, Fields, chunk_is_tabled
  <2> HIDE DEF next
  <2>2. Bytes(f, u) /\ Flags(u) /\ Counters(f, u)
    BY <1>1 DEF Typed, Bytes, Flags, Counters, Fields
  <2>3. Bytes(f, failed) /\ Flags(failed) /\ Counters(f, failed)
    BY <1>1 DEF Typed, Bytes, Flags, Counters, Fields
  <2> QED BY <2>1, <2>2, <2>3 DEF Typed
<1> HIDE DEF u
<1>4. Typed(f, t)
  BY <1>3, InitDecTyped
<1> HIDE DEF t
<1>5. t.ok => Typed(f, noted)
  BY <1>2, <1>4, NotedTyped
<1> HIDE DEF noted
<1>6. t.ok => Bytes(f, opened) /\ Flags(opened) /\ Counters(f, opened)
  <2> SUFFICES ASSUME t.ok PROVE Bytes(f, opened) /\ Flags(opened) /\ Counters(f, opened)
    OBVIOUS
  <2>1. DOMAIN noted = Fields /\ U32_MAX \in Nat
    BY <1>5, FilesAssumption DEF Typed, Arrays
  <2> QED BY <1>5, <2>1 DEF Typed, Bytes, Flags, Counters, Fields
<1>7. r = IF s.point_start # 0 /\ ~at_tabled_start(s, next) THEN failed
          ELSE IF t.ok THEN opened ELSE t
  BY DEF open_next_chunk, Then, t, u, noted
<1> HIDE DEF r, failed, opened
<1>8. Typed(f, r)
  BY <1>2, <1>3, <1>4, <1>6, <1>7 DEF Typed
<1> QED BY <1>8 DEF r

\* A decoder that is inside a chunk is inside of one, and hands out its points.
LEMMA InChunkFacts ==
    ASSUME NEW f \in Files, NEW s, s.decoded \in Nat, InChunk(f, s) # {},
           NEW c, c = CHOOSE x \in InChunk(f, s) : TRUE
    PROVE  /\ c \in 0 .. Len(f.counts) - 1 /\ c + 1 \in 0 .. Len(f.counts)
           /\ f.starts[c] = s.origin /\ s.decoded < f.counts[c + 1]
           /\ f.starts[c + 1] \in Nat /\ f.counts[c + 1] \in Nat
           /\ f.firsts[c] \in Nat /\ f.firsts[c] + s.decoded \in PointsOf(f)
<1> DEFINE n == Len(f.counts)
<1>1. c \in InChunk(f, s)
  OBVIOUS
<1>2. c \in 0 .. n - 1 /\ f.starts[c] = s.origin /\ s.decoded < f.counts[c + 1]
  BY <1>1 DEF InChunk, Chunks
<1>3. /\ n \in Nat \ {0}
      /\ \A i \in 1 .. n : f.counts[i] \in Nat
      /\ f.firsts \in [0 .. n -> Nat] /\ f.starts \in [0 .. n -> Nat]
      /\ \A i \in 1 .. n : f.firsts[i] = f.firsts[i - 1] + f.counts[i]
      /\ \A i, j \in 0 .. n : i < j => f.firsts[i] < f.firsts[j]
  BY FilesHaveShape DEF Shape
<1> HIDE DEF n
<1>4. c + 1 \in 1 .. n /\ c + 1 \in 0 .. n /\ c \in 0 .. n /\ (c + 1) - 1 = c /\ n \in 0 .. n
  <2>1. n \in Nat \ {0} /\ c \in 0 .. n - 1
    BY <1>2, <1>3
  <2> QED BY ONLY <2>1
<1>5. f.starts[c + 1] \in Nat /\ f.counts[c + 1] \in Nat /\ f.firsts[c] \in Nat
      /\ f.firsts[c + 1] = f.firsts[c] + f.counts[c + 1] /\ f.firsts[n] \in Nat
  BY <1>3, <1>4
<1>6. f.firsts[c + 1] <= f.firsts[n]
  <2>1. c + 1 = n \/ c + 1 < n
    BY <1>3, <1>4
  <2>2. c + 1 < n => f.firsts[c + 1] < f.firsts[n]
    BY <1>3, <1>4
  <2>3. f.firsts[c + 1] \in Nat
    BY <1>3, <1>4
  <2> QED BY <1>5, <2>1, <2>2, <2>3
<1>7. f.firsts[c] + s.decoded \in PointsOf(f)
  <2>1. Total(f) = f.firsts[n]
    BY DEF Total, n
  <2> QED BY <1>2, <1>5, <1>6, <2>1 DEF PointsOf
<1> QED BY <1>2, <1>4, <1>5, <1>7 DEF n

LEMMA DecodeCodedTyped ==
    ASSUME NEW f \in Files, NEW s, Typed(f, s), NEW gap \in Nat, NEW first \in BOOLEAN
    PROVE  Typed(f, decode_coded(f, s, gap, first))
<1> DEFINE inside == InChunk(f, s)
           c == CHOOSE x \in inside : TRUE
           after == IF inside = {} THEN s.tell + gap + (IF first THEN 1 ELSE 0)
                    ELSE IF s.decoded + 1 = f.counts[c + 1] THEN f.starts[c + 1]
                    ELSE s.origin + s.decoded + 1
           point == IF inside = {} THEN GARBAGE ELSE f.firsts[c] + s.decoded
           n == s.decoded + 1
           ended == [s EXCEPT !.eof = TRUE, !.tell = f.end,
                              !.readers = "compressed", !.point = GARBAGE]
           gone == [s EXCEPT !.readers = "compressed", !.tell = after,
                             !.decoded = n, !.point = point]
           r == decode_coded(f, s, gap, first)
<1>1. DOMAIN s = Fields /\ Arrays(r) /\ f.end \in Nat
  BY FileFacts, DecodeCoded DEF Typed, Arrays
<1>2. s.tell \in Nat /\ s.origin \in Nat /\ s.decoded \in Nat
  BY DEF Typed, Bytes
<1>3. r = IF s.eof \/ after > f.end THEN ended ELSE gone
  BY DEF decode_coded
<1>4. after \in Nat /\ point \in PointsOf(f) /\ n \in Nat
  <2>1. CASE inside = {}
    BY <1>2, <2>1 DEF PointsOf
  <2>2. CASE inside # {}
    <3>1. f.starts[c + 1] \in Nat /\ f.firsts[c] + s.decoded \in PointsOf(f)
      BY <1>2, <2>2, InChunkFacts
    <3> QED BY <1>2, <2>2, <3>1
  <2> QED BY <2>1, <2>2
<1> HIDE DEF after, point, n
<1>5. GARBAGE \in PointsOf(f)
  BY DEF PointsOf
<1>6. Bytes(f, ended) /\ Flags(ended) /\ Counters(f, ended)
  BY <1>1, <1>5 DEF Typed, Bytes, Flags, Counters, Fields
<1>7. Bytes(f, gone) /\ Flags(gone) /\ Counters(f, gone)
  BY <1>1, <1>4 DEF Typed, Bytes, Flags, Counters, Fields
<1> HIDE DEF r, ended, gone
<1>8. Typed(f, r)
  BY <1>1, <1>3, <1>6, <1>7 DEF Typed
<1> QED BY <1>8 DEF r

LEMMA LoadChunkTyped ==
    ASSUME NEW f \in Files, NEW s, Typed(f, s), NEW gap \in Nat, NEW lucky \in BOOLEAN
    PROVE  Typed(f, load_chunk(f, s, gap, lucky))
<1> DEFINE inside  == InChunk(f, s)
           c       == CHOOSE x \in inside : TRUE
           after   == IF inside = {} THEN s.tell + 2 + gap ELSE f.starts[c + 1]
           unsized == s.tell + 2 > f.end
           refused == /\ f.seekable /\ ~unsized
                      /\ after > f.end \/ (inside = {} /\ ~lucky)
           short   == unsized \/ after > f.end
           eof     == IF f.seekable /\ ~s.measured THEN FALSE
                      ELSE s.eof \/ (short /\ ~refused)
           tell    == IF short THEN f.end ELSE after
           point   == IF s.eof \/ s.tell + 1 > f.end \/ inside = {} THEN GARBAGE
                      ELSE f.firsts[c] + s.decoded
           behind  == s.tell + 2
           n       == s.decoded + 1
           measured == [s EXCEPT !.measured = f.seekable, !.eof = eof]
           stopped == [measured EXCEPT !.ok = FALSE, !.tell = behind]
           loaded  == [measured EXCEPT !.readers = "compressed", !.tell = tell,
                                       !.decoded = n, !.point = point]
           r == load_chunk(f, s, gap, lucky)
<1>1. DOMAIN s = Fields /\ Arrays(r) /\ f.end \in Nat /\ f.seekable \in BOOLEAN
  BY FileFacts, LoadChunk DEF Typed, Arrays
<1>2. s.tell \in Nat /\ s.decoded \in Nat /\ s.eof \in BOOLEAN
  BY DEF Typed, Bytes, Flags
<1>3. r = IF refused THEN stopped ELSE loaded
  BY DEF load_chunk
<1>4. eof \in BOOLEAN
  BY <1>2
<1>5. tell \in Nat /\ point \in PointsOf(f) /\ n \in Nat /\ behind \in Nat
  <2>1. CASE inside = {}
    BY <1>1, <1>2, <2>1 DEF PointsOf
  <2>2. CASE inside # {}
    <3>1. f.starts[c + 1] \in Nat /\ f.firsts[c] + s.decoded \in PointsOf(f)
      BY <1>2, <2>2, InChunkFacts
    <3>2. GARBAGE \in PointsOf(f)
      BY DEF PointsOf
    <3>3. tell \in Nat
      BY <1>1, <2>2, <3>1
    <3>4. point \in PointsOf(f)
      <4> HIDE DEF inside, c
      <4>1. point = GARBAGE \/ point = f.firsts[c] + s.decoded
        OBVIOUS
      <4>2. f.firsts[c] + s.decoded \in PointsOf(f)
        BY <3>1 DEF c, inside
      <4> QED BY ONLY <3>2, <4>1, <4>2
    <3> QED BY <1>2, <3>3, <3>4
  <2> QED BY <2>1, <2>2
<1> HIDE DEF refused, eof, tell, point, n, behind
<1>6. DOMAIN measured = Fields /\ Bytes(f, measured) /\ Flags(measured) /\ Counters(f, measured)
  BY <1>1, <1>4 DEF Typed, Bytes, Flags, Counters, Fields
<1> HIDE DEF measured
<1>7. Bytes(f, stopped) /\ Flags(stopped) /\ Counters(f, stopped)
  BY <1>5, <1>6 DEF Bytes, Flags, Counters, Fields
<1>8. Bytes(f, loaded) /\ Flags(loaded) /\ Counters(f, loaded)
  BY <1>5, <1>6 DEF Bytes, Flags, Counters, Fields
<1> HIDE DEF r, stopped, loaded
<1>9. Typed(f, r)
  BY <1>1, <1>3, <1>7, <1>8 DEF Typed
<1> QED BY <1>9 DEF r

LEMMA DecodeLayeredTyped ==
    ASSUME NEW f \in Files, NEW s, Typed(f, s), NEW lucky \in BOOLEAN
    PROVE  Typed(f, decode_layered(f, s, lucky))
<1> DEFINE inside == InChunk(f, s)
           c      == CHOOSE x \in inside : TRUE
           n      == s.decoded + 1
           ok     == IF inside = {} THEN lucky ELSE f.starts[c + 1] <= f.end
           point  == IF inside = {} THEN GARBAGE ELSE f.firsts[c] + s.decoded
           r      == decode_layered(f, s, lucky)
<1>1. DOMAIN s = Fields /\ Arrays(r)
  BY DecodeLayered DEF Typed, Arrays
<1>2. s.decoded \in Nat
  BY DEF Typed, Bytes
<1>3. r = [s EXCEPT !.decoded = n, !.ok = ok, !.point = point]
  BY DEF decode_layered
<1>4. n \in Nat /\ ok \in BOOLEAN /\ point \in PointsOf(f)
  <2>1. CASE inside = {}
    BY <1>2, <2>1 DEF PointsOf
  <2>2. CASE inside # {}
    <3>1. f.firsts[c] + s.decoded \in PointsOf(f)
      BY <1>2, <2>2, InChunkFacts
    <3>2. point = f.firsts[c] + s.decoded /\ ok = (f.starts[c + 1] <= f.end)
      BY <2>2
    <3> HIDE DEF point, ok, c
    <3>3. ok \in BOOLEAN
      BY <3>2
    <3> QED BY <1>2, <3>1, <3>2, <3>3
  <2> QED BY <2>1, <2>2
<1> HIDE DEF n, ok, point, r
<1>5. Bytes(f, r) /\ Flags(r) /\ Counters(f, r)
  BY <1>1, <1>3, <1>4 DEF Typed, Bytes, Flags, Counters, Fields
<1>6. Typed(f, r)
  BY <1>1, <1>5 DEF Typed
<1> QED BY <1>6 DEF r

LEMMA DecodePointTyped ==
    ASSUME NEW f \in Files, NEW s, Typed(f, s), NEW gap \in Nat, NEW lucky \in BOOLEAN
    PROVE  Typed(f, decode_point(f, s, gap, lucky))
<1> DEFINE first == s.readers = "NULL"
           begun == [s EXCEPT !.origin = s.tell, !.decoded = 0]
           d == IF first THEN begun ELSE s
<1>1. DOMAIN s = Fields /\ Arrays(begun)
  BY DEF Typed, Arrays, Totals, Starts, Size, Fields, chunk_is_tabled
<1>2. Bytes(f, begun) /\ Flags(begun) /\ Counters(f, begun)
  BY <1>1 DEF Typed, Bytes, Flags, Counters, Fields
<1>3. Typed(f, d)
  BY <1>1, <1>2 DEF Typed
<1> HIDE DEF d
<1>4. first \in BOOLEAN
  OBVIOUS
<1> HIDE DEF first
<1>5. /\ Typed(f, decode_coded(f, d, gap, first))
      /\ Typed(f, load_chunk(f, d, gap, lucky))
      /\ Typed(f, decode_layered(f, d, lucky))
  BY <1>3, <1>4, DecodeCodedTyped, LoadChunkTyped, DecodeLayeredTyped
<1> QED BY <1>5 DEF decode_point, d, first

LEMMA WholeTyped ==
    ASSUME NEW f \in Files, NEW s, Typed(f, s)
    PROVE  Typed(f, point_is_whole(s))
<1>1. DOMAIN s = Fields /\ Arrays(point_is_whole(s))
  BY DEF Typed, Arrays, Totals, Starts, Size, Fields, chunk_is_tabled, point_is_whole
<1>2. Bytes(f, point_is_whole(s)) /\ Counters(f, point_is_whole(s))
  BY <1>1 DEF Typed, Bytes, Counters, Fields, point_is_whole
<1>3. Flags(point_is_whole(s))
  BY <1>1 DEF Typed, Flags, Fields, point_is_whole
<1> QED BY <1>1, <1>2, <1>3 DEF Typed

LEMMA ReadRawTyped ==
    ASSUME NEW f \in Files, NEW s, Typed(f, s)
    PROVE  Typed(f, read_raw(f, s))
<1> DEFINE at == s.tell - f.base
           tell == s.tell + 1
           decoded == IF at \in 0 .. Total(f) THEN at + 1 ELSE 0
           point == IF at \in 0 .. Total(f) - 1 THEN at ELSE GARBAGE
           ended == [s EXCEPT !.eof = TRUE, !.tell = f.end, !.point = GARBAGE]
           moved == [s EXCEPT !.tell = tell, !.decoded = decoded, !.point = point]
           r == read_raw(f, s)
<1>1. DOMAIN s = Fields /\ f.end \in Nat /\ f.base \in Nat /\ s.tell \in Nat
  BY FileFacts DEF Typed, Arrays, Bytes
<1>2. r = IF s.eof \/ s.tell + 1 > f.end THEN ended ELSE moved
  BY DEF read_raw
<1>3. tell \in Nat /\ decoded \in Nat /\ point \in PointsOf(f) /\ GARBAGE \in PointsOf(f)
  <2>1. at \in Int
    BY <1>1
  <2>2. decoded \in Nat
    <3> HIDE DEF at
    <3> QED BY <2>1
  <2> QED BY <1>1, <2>2 DEF PointsOf
<1> HIDE DEF tell, decoded, point
<1>4. Arrays(ended) /\ Arrays(moved)
  BY <1>1 DEF Typed, Arrays, Totals, Starts, Size, Fields, chunk_is_tabled
<1>5. Bytes(f, ended) /\ Flags(ended) /\ Counters(f, ended)
  BY <1>1, <1>3 DEF Typed, Bytes, Flags, Counters, Fields
<1>6. Bytes(f, moved) /\ Flags(moved) /\ Counters(f, moved)
  BY <1>1, <1>3 DEF Typed, Bytes, Flags, Counters, Fields
<1> HIDE DEF r, ended, moved
<1>7. Typed(f, r)
  BY <1>2, <1>4, <1>5, <1>6 DEF Typed
<1> QED BY <1>7 DEF r

LEMMA ReadTyped ==
    ASSUME NEW f \in Files, NEW s, Typed(f, s), NEW gap \in Nat, NEW lucky \in BOOLEAN
    PROVE  Typed(f, laz_readpoint_read(f, s, gap, lucky))
<1> DEFINE begun == [s EXCEPT !.ok = TRUE]
           failed == [begun EXCEPT !.ok = FALSE]
           t == IF s.chunk_count = s.chunk_size THEN open_next_chunk(f, begun) ELSE begun
           e == [t EXCEPT !.chunk_count = (@ + 1) % (U32_MAX + 1)]
           d == decode_point(f, e, gap, lucky)
           r == laz_readpoint_read(f, s, gap, lucky)
<1>1. DOMAIN s = Fields /\ Arrays(begun) /\ Arrays(failed)
      /\ begun.chunk_totals = s.chunk_totals /\ begun.number_chunks = s.number_chunks
      /\ begun.current_chunk = s.current_chunk
  BY DEF Typed, Arrays, Totals, Starts, Size, Fields, chunk_is_tabled
<1>2. Bytes(f, begun) /\ Bytes(f, failed) /\ Counters(f, begun) /\ Counters(f, failed)
  BY <1>1 DEF Typed, Bytes, Counters, Fields
<1>3. Flags(begun) /\ Flags(failed)
  BY <1>1 DEF Typed, Flags, Fields
<1>4. Typed(f, begun) /\ Typed(f, failed)
  BY <1>1, <1>2, <1>3 DEF Typed
<1> HIDE DEF begun, failed
<1>5. ~Compressed(f) => Typed(f, point_is_whole(read_raw(f, begun)))
  BY <1>4, ReadRawTyped, WholeTyped
<1>6. ASSUME s.chunk_totals = NULL \/ chunk_is_tabled(s, s.current_chunk)
      PROVE  Typed(f, t) /\ Typed(f, d) /\ Typed(f, point_is_whole(d))
  <2>1. begun.chunk_totals # NULL => begun.current_chunk < begun.number_chunks
    BY <1>1, <1>6 DEF chunk_is_tabled
  <2>2. Typed(f, t)
    BY <1>4, <2>1, OpenNextTyped
  <2> HIDE DEF t
  <2> DEFINE n == (t.chunk_count + 1) % (U32_MAX + 1)
             x == [t EXCEPT !.chunk_count = n]
  <2>3. n \in 0 .. U32_MAX
    <3>1. t.chunk_count \in Nat /\ U32_MAX \in Nat
      BY <2>2, FilesAssumption DEF Typed, Counters
    <3> QED BY <3>1
  <2>4. DOMAIN t = Fields /\ e = x
    BY <2>2 DEF Typed, Arrays
  <2> HIDE DEF n, e
  <2>5. Arrays(x)
    BY <2>2, <2>4 DEF Typed, Arrays, Totals, Starts, Size, Fields, chunk_is_tabled
  <2>6. Bytes(f, x) /\ Flags(x) /\ Counters(f, x)
    BY <2>2, <2>3, <2>4 DEF Typed, Bytes, Flags, Counters, Fields
  <2>7. Typed(f, e)
    BY <2>4, <2>5, <2>6 DEF Typed
  <2>8. Typed(f, d)
    BY <2>7, DecodePointTyped
  <2> HIDE DEF d
  <2> QED BY <2>2, <2>8, WholeTyped
<1>7. r = IF ~Compressed(f) THEN point_is_whole(read_raw(f, begun))
          ELSE IF s.chunk_totals # NULL /\ ~chunk_is_tabled(s, s.current_chunk) THEN failed
          ELSE IF ~t.ok THEN t ELSE IF ~d.ok THEN d ELSE point_is_whole(d)
  BY DEF laz_readpoint_read, Then, begun, failed
<1> HIDE DEF r, t, d
<1>8. Typed(f, r)
  BY <1>4, <1>5, <1>6, <1>7
<1> QED BY <1>8 DEF r

-----------------------------------------------------------------------------
(* Types, of the seeks. *)

LEMMA JumpTyped ==
    ASSUME NEW f \in Files, NEW s, Typed(f, s), NEW chunk \in Nat,
           chunk \in DOMAIN s.chunk_starts
    PROVE  Typed(f, jump_to_chunk(f, s, chunk))
<1> DEFINE moved == [s EXCEPT !.current_chunk = chunk]
           t == SeekStream(moved, s.chunk_starts[chunk])
           u == init_dec(f, t)
           v == [u EXCEPT !.chunk_count = 0]
           r == jump_to_chunk(f, s, chunk)
<1>1. DOMAIN s = Fields /\ Arrays(moved)
  BY DEF Typed, Arrays, Totals, Starts, Size, Fields, chunk_is_tabled
<1>2. Bytes(f, moved) /\ Flags(moved) /\ Counters(f, moved)
  BY <1>1 DEF Typed, Bytes, Flags, Counters, Fields
<1>3. Typed(f, t)
  <2>1. Typed(f, moved) /\ s.chunk_starts[chunk] \in Int
    BY <1>1, <1>2 DEF Typed, Counters
  <2> HIDE DEF moved
  <2> QED BY <2>1, SeekStreamTyped
<1> HIDE DEF t
<1>4. Typed(f, u)
  BY <1>3, InitDecTyped
<1> HIDE DEF u
<1>5. Typed(f, v)
  <2>1. DOMAIN u = Fields /\ Arrays(v)
    BY <1>4 DEF Typed, Arrays, Totals, Starts, Size, Fields, chunk_is_tabled
  <2>2. U32_MAX \in Nat
    BY FilesAssumption
  <2>3. Bytes(f, v) /\ Flags(v) /\ Counters(f, v)
    BY <1>4, <2>1, <2>2 DEF Typed, Bytes, Flags, Counters, Fields
  <2> QED BY <2>1, <2>3 DEF Typed
<1> HIDE DEF v
<1>6. r = IF ~t.ok THEN t ELSE IF ~u.ok THEN u ELSE v
  BY DEF jump_to_chunk, Then, t, u, v
<1> HIDE DEF r
<1>7. Typed(f, r)
  BY <1>3, <1>4, <1>5, <1>6
<1> QED BY <1>7 DEF r

\* The chunk a search ends at starts at or before what is searched for.
LEMMA SearchIsAtOrBefore ==
    ASSUME NEW s, NEW i \in Nat, NEW upper \in Nat, upper > 0, s.chunk_totals[0] = 0
    PROVE  s.chunk_totals[search_chunk_table(s, i, 0, upper)] <= i
<1> DEFINE at == {k \in 0 .. upper - 1 : k = 0 \/ s.chunk_totals[k] <= i}
<1>1. upper - 1 \in Nat /\ at \in SUBSET (0 .. upper - 1) /\ 0 \in at
  OBVIOUS
<1>2. Max(at) \in at
  BY <1>1, MaxIsAnElement
<1>3. search_chunk_table(s, i, 0, upper) = Max(at)
  BY DEF search_chunk_table
<1> DEFINE m == Max(at)
<1>4. m = 0 \/ s.chunk_totals[m] <= i
  BY <1>2
<1> HIDE DEF m
<1>5. s.chunk_totals[m] <= i
  BY <1>4
<1> QED BY <1>3, <1>5 DEF m

LEMMA SeekByTableTyped ==
    ASSUME NEW f \in Files, NEW s, Typed(f, s), NEW current \in Nat, NEW target \in Nat
    PROVE  LET plan == seek_by_table(f, s, current, target)
           IN  Typed(f, plan.state) /\ plan.delta \in Nat
<1> DEFINE tabled == chunk_is_tabled(s, 0)
           chunk  == IF tabled THEN search_chunk_table(s, target, 0, s.number_chunks)
                     ELSE (target \div s.chunk_size) % (U32_MAX + 1)
           size   == s.chunk_totals[chunk + 1] - s.chunk_totals[chunk]
           resized == [s EXCEPT !.chunk_size = size]
           sized  == IF tabled THEN resized ELSE s
           within == IF tabled THEN target - s.chunk_totals[chunk]
                     ELSE target % s.chunk_size
           last   == s.tabled_chunks - 1
           known  == IF s.current_chunk < last THEN jump_to_chunk(f, sized, last)
                     ELSE sized
           ahead  == (known.chunk_size * (chunk - known.current_chunk)
                      - known.chunk_count) % (U32_MAX + 1)
           far    == [state |-> known, delta |-> within + ahead]
           jumped == [state |-> jump_to_chunk(f, sized, chunk), delta |-> within]
           onward == [state |-> sized, delta |-> target - current]
           plan   == seek_by_table(f, s, current, target)
<1>1. /\ DOMAIN s = Fields /\ U32_MAX \in Nat /\ s.tabled_chunks \in Nat
      /\ s.chunk_size \in Nat /\ (~tabled => s.chunk_size > 0)
      /\ 0 .. s.tabled_chunks - 1 \subseteq DOMAIN s.chunk_starts
  BY FilesAssumption DEF Typed, Arrays, Size, Starts
<1>2. ASSUME tabled
      PROVE  Typed(f, sized) /\ DOMAIN sized.chunk_starts = DOMAIN s.chunk_starts
             /\ chunk \in Nat /\ within \in Nat
  <2>1. /\ Stated(s.chunk_totals, s.number_chunks)
        /\ s.number_chunks \in Nat /\ s.number_chunks > 0
    BY <1>2 DEF Typed, Counters, Arrays, Starts, chunk_is_tabled
  <2>2. chunk \in 0 .. s.number_chunks - 1
    BY <1>2, <2>1, SearchStaysInTheTable
  <2>3. s.chunk_totals[chunk] <= target
    <3>1. s.chunk_totals[0] = 0
      BY <2>1 DEF Stated
    <3> QED BY <1>2, <2>1, <3>1, SearchIsAtOrBefore
  <2> HIDE DEF chunk
  <2>4. /\ s.chunk_totals[chunk] \in Nat /\ size \in 0 .. U32_MAX
    BY <2>1, <2>2 DEF Stated
  <2> HIDE DEF size
  <2>5. chunk \in Nat /\ within \in Nat
    BY <1>2, <2>1, <2>2, <2>3, <2>4
  <2>6. Arrays(resized)
    BY <1>1, <1>2, <2>4 DEF Typed, Arrays, Totals, Starts, Size, Fields, chunk_is_tabled
  <2>7. Bytes(f, resized) /\ Flags(resized) /\ Counters(f, resized)
    BY <1>1, <2>4 DEF Typed, Bytes, Flags, Counters, Fields
  <2>8. Typed(f, sized) /\ DOMAIN sized.chunk_starts = DOMAIN s.chunk_starts
    BY <1>1, <1>2, <2>6, <2>7 DEF Typed, Fields
  <2> QED BY <2>5, <2>8
<1>3. ASSUME ~tabled
      PROVE  Typed(f, sized) /\ DOMAIN sized.chunk_starts = DOMAIN s.chunk_starts
             /\ chunk \in Nat /\ within \in Nat
  <2>1. target \div s.chunk_size \in Int
    BY <1>1, <1>3
  <2>2. chunk \in Nat
    BY <1>1, <1>3, <2>1
  <2>3. within \in Nat
    BY <1>1, <1>3
  <2> QED BY <1>3, <2>2, <2>3
<1>4. Typed(f, sized) /\ DOMAIN sized.chunk_starts = DOMAIN s.chunk_starts
      /\ chunk \in Nat /\ within \in Nat
  BY <1>2, <1>3
<1> HIDE DEF sized, chunk, within
<1>5. Typed(f, known)
  <2>1. CASE s.current_chunk < last
    <3>1. last \in Nat /\ last \in DOMAIN sized.chunk_starts
      <4>1. s.current_chunk \in Nat
        BY DEF Typed, Arrays, Starts
      <4>2. last \in Nat /\ last \in 0 .. s.tabled_chunks - 1
        BY <1>1, <2>1, <4>1
      <4> QED BY <1>1, <1>4, <4>2
    <3> HIDE DEF last
    <3> QED BY <1>4, <2>1, <3>1, JumpTyped
  <2>2. CASE ~(s.current_chunk < last)
    BY <1>4, <2>2
  <2> QED BY <2>1, <2>2
<1> HIDE DEF known
<1>6. ahead \in Nat
  <2>1. known.chunk_size \in Nat /\ known.current_chunk \in Nat /\ known.chunk_count \in Nat
    BY <1>1, <1>5 DEF Typed, Arrays, Starts, Counters
  <2> DEFINE a == known.chunk_size * (chunk - known.current_chunk)
  <2>2. a \in Int
    BY <1>4, <2>1
  <2> HIDE DEF a
  <2>3. (a - known.chunk_count) % (U32_MAX + 1) \in Nat
    BY <1>1, <2>1, <2>2
  <2> QED BY <2>3 DEF a
<1> HIDE DEF ahead
<1>7. ~(chunk >= s.tabled_chunks) => Typed(f, jump_to_chunk(f, sized, chunk))
  <2> SUFFICES ASSUME ~(chunk >= s.tabled_chunks)
               PROVE  Typed(f, jump_to_chunk(f, sized, chunk))
    OBVIOUS
  <2>1. chunk \in 0 .. s.tabled_chunks - 1
    BY <1>1, <1>4
  <2>2. chunk \in DOMAIN sized.chunk_starts
    BY <1>1, <1>4, <2>1
  <2> QED BY <1>4, <2>2, JumpTyped
<1>8. plan = IF chunk >= s.tabled_chunks THEN far
             ELSE IF s.current_chunk # chunk \/ current > target THEN jumped ELSE onward
  BY DEF seek_by_table, tabled, chunk, size, resized, sized, within, last, known, ahead
<1>9. /\ Typed(f, far.state) /\ far.delta \in Nat
      /\ ~(chunk >= s.tabled_chunks) => Typed(f, jumped.state) /\ jumped.delta \in Nat
      /\ Typed(f, onward.state) /\ (~(current > target) => onward.delta \in Nat)
  BY <1>4, <1>5, <1>6, <1>7
<1> HIDE DEF far, jumped, onward, plan
<1>10. Typed(f, plan.state) /\ plan.delta \in Nat
  BY <1>8, <1>9
<1> QED BY <1>10 DEF plan

LEMMA SeekFromStartTyped ==
    ASSUME NEW f \in Files, NEW s, Typed(f, s), NEW current \in Nat, NEW target \in Nat
    PROVE  LET plan == seek_from_start(f, s, current, target)
           IN  Typed(f, plan.state) /\ plan.delta \in Nat
<1> DEFINE there == SeekStream(s, s.point_start)
           back == IF there.ok THEN init_dec(f, there) ELSE there
           plan == seek_from_start(f, s, current, target)
<1>1. Typed(f, there)
  <2>1. s.point_start \in Int
    BY DEF Typed, Bytes
  <2> QED BY <2>1, SeekStreamTyped
<1> HIDE DEF there
<1>2. Typed(f, back)
  BY <1>1, InitDecTyped
<1> HIDE DEF back
<1>3. plan = IF current > target THEN [state |-> back, delta |-> target]
             ELSE [state |-> s, delta |-> target - current]
  BY DEF seek_from_start, Then, back, there
<1>4. ~(current > target) => target - current \in Nat
  OBVIOUS
<1> QED BY <1>2, <1>3, <1>4

LEMMA SeekTyped ==
    ASSUME NEW f \in Files, NEW s, Typed(f, s), NEW current \in Nat, NEW target \in Nat
    PROVE  LET plan == laz_readpoint_seek(f, s, current, target)
           IN  Typed(f, plan.state) /\ plan.delta \in Nat
<1> DEFINE begun  == [s EXCEPT !.ok = TRUE]
           refused == [begun EXCEPT !.ok = FALSE]
           dec    == init_dec(f, begun)
           counted == [dec EXCEPT !.chunk_count = 0]
           opened == IF begun.point_start # 0 THEN begun
                     ELSE IF dec.ok THEN counted ELSE dec
           stop(t) == [state |-> t, delta |-> 0]
           moved == IF current = target THEN begun
                    ELSE SeekStream(begun, begun.point_start + target)
           plan == laz_readpoint_seek(f, s, current, target)
<1>1. DOMAIN s = Fields /\ Arrays(begun) /\ Arrays(refused)
  BY DEF Typed, Arrays, Totals, Starts, Size, Fields, chunk_is_tabled
<1>2. Bytes(f, begun) /\ Bytes(f, refused) /\ Counters(f, begun) /\ Counters(f, refused)
  BY <1>1 DEF Typed, Bytes, Counters, Fields
<1>3. Flags(begun) /\ Flags(refused)
  BY <1>1 DEF Typed, Flags, Fields
<1>4. Typed(f, begun) /\ Typed(f, refused)
  BY <1>1, <1>2, <1>3 DEF Typed
<1> HIDE DEF begun, refused
<1>5. Typed(f, dec)
  BY <1>4, InitDecTyped
<1> HIDE DEF dec
<1>6. Typed(f, counted)
  <2>1. DOMAIN dec = Fields /\ Arrays(counted)
    BY <1>5 DEF Typed, Arrays, Totals, Starts, Size, Fields, chunk_is_tabled
  <2>2. U32_MAX \in Nat
    BY FilesAssumption
  <2>3. Bytes(f, counted) /\ Flags(counted) /\ Counters(f, counted)
    BY <1>5, <2>1, <2>2 DEF Typed, Bytes, Flags, Counters, Fields
  <2> QED BY <2>1, <2>3 DEF Typed
<1> HIDE DEF counted
<1>7. Typed(f, opened)
  BY <1>4, <1>5, <1>6
<1>8. Typed(f, moved)
  <2>1. begun.point_start + target \in Int
    BY <1>4 DEF Typed, Bytes
  <2> QED BY <1>4, <2>1, SeekStreamTyped
<1> HIDE DEF opened, moved
<1>9. LET by == seek_by_table(f, opened, current, target)
          from == seek_from_start(f, opened, current, target)
      IN  /\ Typed(f, by.state) /\ by.delta \in Nat
          /\ Typed(f, from.state) /\ from.delta \in Nat
  BY <1>7, SeekByTableTyped, SeekFromStartTyped
<1>10. plan = IF ~f.seekable THEN stop(refused)
              ELSE IF ~Compressed(f) THEN stop(moved)
              ELSE IF ~opened.ok THEN stop(opened)
              ELSE IF opened.chunk_starts # NULL THEN seek_by_table(f, opened, current, target)
              ELSE seek_from_start(f, opened, current, target)
  BY DEF laz_readpoint_seek, Then, begun, refused, dec, counted, opened, moved
<1>11. \A t : stop(t).state = t /\ stop(t).delta = 0
  OBVIOUS
<1> HIDE DEF stop, plan
<1>12. Typed(f, plan.state) /\ plan.delta \in Nat
  BY <1>4, <1>7, <1>8, <1>9, <1>10, <1>11
<1> QED BY <1>12 DEF plan

-----------------------------------------------------------------------------
(* The reader, typed. *)

Typing == /\ file \in Files /\ Typed(file, rp)
          /\ {index, left, goal, done} \subseteq Nat
          /\ pc \in {"idle", "seek", "read_into"}

LEMMA OpenedTyped ==
    ASSUME NEW f \in Files
    PROVE  Typed(f, Opened(f))
<1>1. Arrays(Opened(f))
  BY OpenedIsInBounds
<1>2. f.base \in Nat /\ U32_MAX \in Nat /\ (Chunked(f) => f.chunk_size \in 1 .. U32_MAX)
  BY FileFacts, FilesAssumption
<1>3. Bytes(f, Opened(f))
  BY <1>2 DEF Bytes, Opened, PointsOf
<1>4. Flags(Opened(f))
  BY DEF Flags, Opened
<1>5. Counters(f, Opened(f))
  BY <1>2 DEF Counters, Opened, NULL
<1> QED BY <1>1, <1>3, <1>4, <1>5 DEF Typed

LEMMA NextPointTyped ==
    ASSUME Typing, reader_next
    PROVE  Typed(file, rp')
<1>1. Gaps \subseteq Nat
  BY FilesAssumption
<1> QED BY <1>1, ReadTyped DEF Typing, reader_next

LEMMA TypingInduction == Typing /\ [Next]_vars => Typing'
<1> SUFFICES ASSUME Typing, [Next]_vars PROVE Typing'
  OBVIOUS
<1>1. CASE Reader_read
  BY <1>1, NextPointTyped DEF Typing, Reader_read
<1>2. ASSUME NEW t \in Targets, Reader_seek(t) PROVE Typing'
  <2>1. t \in Nat
    BY FilesAssumption
  <2> DEFINE plan == laz_readpoint_seek(file, rp, index, t)
  <2>2. Typed(file, plan.state) /\ plan.delta \in Nat
    BY <2>1, SeekTyped DEF Typing
  <2> HIDE DEF plan
  <2>3. /\ rp' = plan.state
        /\ \/ pc' = "seek" /\ left' = plan.delta /\ goal' = t
           \/ UNCHANGED <<pc, left, goal>>
        /\ UNCHANGED <<file, index, done>>
    BY <1>2 DEF Reader_seek, plan
  <2> QED BY <2>1, <2>2, <2>3 DEF Typing
<1>3. CASE PassOver
  BY <1>3, NextPointTyped DEF Typing, PassOver
<1>4. CASE SeekDone
  BY <1>4 DEF Typing, SeekDone
<1>5. ASSUME NEW n \in Counts, Reader_read_into(n) PROVE Typing'
  BY <1>5, FilesAssumption DEF Typing, Reader_read_into
<1>6. CASE ReadIntoStep
  BY <1>6, NextPointTyped DEF Typing, ReadIntoStep
<1>7. CASE ReadIntoDone
  BY <1>7 DEF Typing, ReadIntoDone
<1>8. CASE UNCHANGED vars
  BY <1>8 DEF Typing, vars
<1> QED BY <1>1, <1>2, <1>3, <1>4, <1>5, <1>6, <1>7, <1>8 DEF Next

LEMMA TypingImpliesTypeOK == Typing => TypeOK
BY DEF Typing, Typed, Arrays, Starts, Bytes, Flags, Counters, TypeOK

\* Whatever the file holds and whatever is asked of it, the reader keeps to its
\* types: the chunk counters wrap inside 32 bits, positions do not go below zero
\* and the loops of the binding end at a count (laz_readpoint_init, _read and
\* _seek, Reader_seek, Reader_read_into).
THEOREM ReaderTypes == Spec => []TypeOK
<1>1. Init => Typing
  BY OpenedTyped DEF Init, Typing
<1> QED BY <1>1, TypingInduction, TypingImpliesTypeOK, PTL DEF Spec

-----------------------------------------------------------------------------
(* Intact files. *)

\* An intact file has a true table, or one that is given up.
LEMMA IntactTables ==
    ASSUME NEW f \in Files, Intact(f), Chunked(f)
    PROVE  LET n == Len(f.counts)
               d == f.table.deltas
           IN  /\ f.end >= f.starts[n]
               /\ f.table.kind # "misplaced"
               /\ f.table.kind = "entries" =>
                    /\ \A i \in 1 .. Len(d) : d[i] > 0
                    /\ \/ Len(d) = n /\ Sums(ChunksStart(f), d) = f.starts
                       \/ Len(d) = 0 /\ ~Adaptive(f)
               /\ Adaptive(f) => /\ f.table.kind = "entries"
                                 /\ f.table.totals = f.firsts /\ Len(d) = n
<1> DEFINE n == Len(f.counts)
           d == f.table.deltas
           a == Sums(ChunksStart(f), d)
<1>1. /\ n \in Nat \ {0} /\ f.starts \in [0 .. n -> Nat]
      /\ \A i, j \in 0 .. n : i < j => f.starts[i] < f.starts[j]
  BY FilesHaveShape DEF Shape
<1>2. d \in Seq(Int) /\ Len(d) \in Nat
  BY FileFacts, TableFacts
<1>3. f.end >= f.starts[n] /\ TableIsTrue(f)
  BY DEF Intact, DataEnd
<1>4. ASSUME f.table.kind = "entries", f.starts = a
      PROVE  Len(d) = n /\ \A i \in 1 .. Len(d) : d[i] > 0
  <2>1. /\ a = [i \in 0 .. Len(d) |-> a[i]] /\ a[0] = ChunksStart(f)
        /\ \A i \in 1 .. Len(d) : a[i] = a[i - 1] + d[i]
    <3> DEFINE m == Len(d)
    <3>1. m \in Nat /\ Len(d) = m
      BY <1>2
    <3> HIDE DEF m, d
    <3>2. /\ a = [i \in 0 .. m |-> a[i]] /\ a[0] = ChunksStart(f)
          /\ \A i \in 1 .. m : a[i] = a[i - 1] + d[i]
      BY ONLY <3>1, SumsInSteps
    <3> QED BY <3>2 DEF m
  <2> HIDE DEF a
  <2>2. Len(d) = n
    <3>1. 0 .. Len(d) = 0 .. n
      BY <1>1, <1>4, <2>1
    <3>2. Len(d) \in 0 .. n /\ n \in 0 .. Len(d)
      BY <1>1, <1>2, <3>1
    <3> QED BY <1>1, <1>2, <3>2
  <2>3. ASSUME NEW i \in 1 .. n PROVE d[i] > 0
    <3>1. i - 1 \in 0 .. n /\ i \in 0 .. n /\ i - 1 < i /\ i \in 1 .. Len(d)
      BY <1>1, <2>2
    <3>2. f.starts[i] = f.starts[i - 1] + d[i] /\ d[i] \in Int
      <4>1. d[i] \in Int
        BY <1>2, <3>1
      <4>2. a[i] = a[i - 1] + d[i]
        BY <2>1, <3>1
      <4> QED BY <1>4, <4>1, <4>2
    <3>3. f.starts[i - 1] < f.starts[i] /\ f.starts[i] \in Nat /\ f.starts[i - 1] \in Nat
      BY <1>1, <3>1
    <3> QED BY <3>2, <3>3
  <2> QED BY <2>2, <2>3
<1>5. ASSUME d = <<>>
      PROVE  Len(d) = 0 /\ \A i \in 1 .. Len(d) : d[i] > 0
  BY <1>5
<1>6. ASSUME f.starts = a, f.table.kind = "entries", Adaptive(f)
      PROVE  f.table.totals = f.firsts
  <2>1. f.table.sizes = f.counts
    <3>1. ~(~Adaptive(f))
      BY <1>6
    <3> QED BY <1>3, <3>1 DEF TableIsTrue
  <2>2. IsFile(f)
    BY FilesAssumption
  <2>3. Len(f.table.sizes) = n /\ f.counts \in Seq(Nat) /\ f.firsts = Sums(0, f.counts)
    BY <2>1, <2>2 DEF IsFile, IsTable
  <2>4. /\ f.table.totals \in [0 .. n -> Nat] /\ f.table.totals[0] = 0
        /\ \A i \in DOMAIN f.table.sizes :
              f.table.totals[i] = f.table.totals[i - 1] + f.table.sizes[i]
    BY <2>2, <2>3 DEF IsFile, IsTable
  <2>5. DOMAIN f.counts = 1 .. n
    BY <2>3
  <2> DEFINE g == f.table.totals
  <2>6. g = [i \in 0 .. n |-> g[i]] /\ g[0] = 0 /\ \A i \in 1 .. n : g[i] = g[i - 1] + f.counts[i]
    BY <2>1, <2>4, <2>5
  <2> HIDE DEF g
  <2>7. g = Sums(0, f.counts)
    <3>1. n \in Nat /\ Len(f.counts) = n
      BY <1>1
    <3>2. InSteps(g, 0, f.counts, n)
      BY <2>6 DEF InSteps
    <3> HIDE DEF n
    <3> QED BY ONLY <3>1, <3>2, SumsOfSteps
  <2> QED BY <2>3, <2>7 DEF g
<1>7. \/ f.table.kind = "entries" /\ f.starts = a
      \/ ~Adaptive(f) /\ f.table.kind # "misplaced" /\ (f.table.kind = "entries" => d = <<>>)
  BY <1>3 DEF TableIsTrue
<1> HIDE DEF a
<1> QED BY <1>1, <1>3, <1>4, <1>5, <1>6, <1>7 DEF a

\* Where the chunks of a file of fixed size begin.
LEMMA FixedFirsts ==
    ASSUME NEW f \in Files, Chunked(f), ~Adaptive(f)
    PROVE  LET n == Len(f.counts)
           IN  /\ \A c \in 0 .. n - 1 : f.firsts[c] = c * f.chunk_size
               /\ Total(f) = (n - 1) * f.chunk_size + f.counts[n]
               /\ f.counts[n] <= f.chunk_size
<1> DEFINE n == Len(f.counts)
           z == f.chunk_size
           T == {c \in 0 .. n - 1 : f.firsts[c] = c * z}
<1>1. /\ n \in Nat \ {0} /\ f.firsts \in [0 .. n -> Nat] /\ f.firsts[0] = 0
      /\ \A i \in 1 .. n : f.counts[i] \in Nat
      /\ \A i \in 1 .. n : f.firsts[i] = f.firsts[i - 1] + f.counts[i]
  BY FilesHaveShape DEF Shape
<1>2. z \in Nat /\ (\A c \in 1 .. n - 1 : f.counts[c] = z) /\ f.counts[n] <= z
  BY FileFacts
<1> HIDE DEF n, z
<1>3. 0 \in T
  BY <1>1, <1>2
<1>4. ASSUME NEW c \in 1 .. n - 1, c - 1 \in T PROVE c \in T
  <2>1. c \in 1 .. n /\ c \in 0 .. n - 1
    BY ONLY <1>1, c \in 1 .. n - 1
  <2>2. f.firsts[c] = f.firsts[c - 1] + f.counts[c] /\ f.counts[c] = z
    BY <1>1, <1>2, <2>1
  <2>3. f.firsts[c - 1] = (c - 1) * z
    BY <1>4
  <2>4. (c - 1) * z + z = c * z
    BY <1>2, <2>1
  <2> QED BY <2>1, <2>2, <2>3, <2>4
<1>5. 0 .. n - 1 \subseteq T
  <2>1. n - 1 \in Nat
    BY <1>1
  <2> HIDE DEF T
  <2> QED BY <1>3, <1>4, <2>1, UpTo
<1>6. \A c \in 0 .. n - 1 : f.firsts[c] = c * z
  BY <1>5
<1>7. Total(f) = (n - 1) * z + f.counts[n]
  <2>1. n \in 1 .. n /\ n - 1 \in 0 .. n - 1
    BY <1>1
  <2> QED BY <1>1, <1>6, <2>1 DEF Total, n
<1> QED BY <1>2, <1>6, <1>7 DEF n, z

\* A chunk holds a point at least.
LEMMA NoMoreChunksThanPoints ==
    ASSUME NEW f \in Files
    PROVE  Len(f.counts) <= Total(f) /\ Len(f.counts) \in Nat \ {0} /\ Total(f) \in Nat
<1> DEFINE n == Len(f.counts)
           T == {c \in 0 .. n : c <= f.firsts[c]}
<1>1. /\ n \in Nat \ {0} /\ f.firsts \in [0 .. n -> Nat]
      /\ \A i, j \in 0 .. n : i < j => f.firsts[i] < f.firsts[j]
  BY FilesHaveShape DEF Shape
<1> HIDE DEF n
<1>2. 0 \in T
  BY <1>1
<1>3. ASSUME NEW c \in 1 .. n, c - 1 \in T PROVE c \in T
  <2>1. c \in 0 .. n /\ c - 1 \in 0 .. n /\ c - 1 < c
    BY ONLY <1>1, c \in 1 .. n
  <2>2. f.firsts[c - 1] < f.firsts[c] /\ f.firsts[c] \in Nat /\ f.firsts[c - 1] \in Nat
    BY <1>1, <2>1
  <2>3. c - 1 <= f.firsts[c - 1]
    BY <1>3
  <2> QED BY <2>1, <2>2, <2>3
<1>4. 0 .. n \subseteq T
  <2> HIDE DEF T
  <2> QED BY <1>1, <1>2, <1>3, UpTo
<1>5. n <= f.firsts[n] /\ f.firsts[n] \in Nat
  BY <1>1, <1>4
<1> QED BY <1>1, <1>5 DEF Total, n

-----------------------------------------------------------------------------
(* What holds of the reader of an intact, compressed file. *)

\* Points decoded of the chunk the decoder stands in.
DecodedOf(s) == IF s.readers = "NULL" THEN 0 ELSE s.decoded

\* The size chunks have that no table states one for.
UntoldSize(f) == IF Chunked(f) THEN f.chunk_size ELSE U32_MAX

\* The table is shorter than the number that says none has been read.
Room(s) == /\ s.number_chunks <= s.tabled_chunks + GROWTH
           /\ s.tabled_chunks + GROWTH < U32_MAX

\* Every start tabled of a chunk the file has is where it begins.
StartsRight(f, s) ==
    /\ DOMAIN s.chunk_starts = 0 .. s.tabled_chunks - 1
    /\ s.tabled_chunks = 0 => s.chunk_starts = NULL
    /\ \A i \in 0 .. s.tabled_chunks - 1 : s.chunk_starts[i] \in Nat \ {0}
    /\ \A i \in 0 .. s.tabled_chunks - 1 :
          i < Len(f.counts) => s.chunk_starts[i] = f.starts[i]

\* A table states the sizes of all chunks or of none.
TotalsRight(f, s) ==
    /\ ~Adaptive(f) => s.chunk_totals = NULL /\ s.chunk_size = UntoldSize(f)
    /\ Adaptive(f) => /\ s.chunk_totals = f.firsts
                      /\ s.number_chunks = Len(f.counts)
                      /\ s.tabled_chunks = Len(f.counts) + 1

\* The size in use is that of the chunk the reader is in.
SizeRight(f, s) ==
    Adaptive(f) /\ s.current_chunk < Len(f.counts)
        => s.chunk_size = f.counts[s.current_chunk + 1]

\* As it was opened, but for the verdict on a call that failed at once.
Fresh(f, s) == s = [Opened(f) EXCEPT !.ok = s.ok] /\ s.ok \in BOOLEAN

\* A decoder about to be started, where a chunk begins if there is that chunk.
Starting(f, s) ==
    /\ s.readers = "NULL" /\ ~s.failed
    /\ s.point_start = s.tell /\ s.tell \in Nat
    /\ s.current_chunk < Len(f.counts) => s.tell = f.starts[s.current_chunk] /\ ~s.eof

\* What the theorems take for granted: nobody counts up to U32_MAX.
Modest(f) == Total(f) + GROWTH + 1 < U32_MAX

LEMMA Constants ==
    /\ U32_MAX \in Nat \ {0, 1} /\ GROWTH \in Nat \ {0} /\ Counts \subseteq Nat
    /\ Targets \subseteq Nat /\ Gaps \subseteq Nat
BY FilesAssumption

\* Nothing of a file begins at the very start, there is a header.
LEMMA StartsPositive ==
    ASSUME NEW f \in Files, Intact(f), NEW c \in 0 .. Len(f.counts)
    PROVE  f.starts[c] \in Nat \ {0}
<1> DEFINE n == Len(f.counts)
<1>1. /\ n \in Nat \ {0} /\ f.starts \in [0 .. n -> Nat]
      /\ f.starts[0] = f.base + (IF Chunked(f) THEN 1 ELSE 0)
      /\ \A i, j \in 0 .. n : i < j => f.starts[i] < f.starts[j]
  BY FilesHaveShape DEF Shape
<1>2. f.starts[0] \in Nat \ {0}
  <2>1. f.base \in Nat /\ f.base # 0
    BY FileFacts DEF Intact
  <2> QED BY ONLY <1>1, <2>1
<1> HIDE DEF n
<1>3. c \in 0 .. n /\ 0 \in 0 .. n
  BY <1>1 DEF n
<1>4. c # 0 => f.starts[0] < f.starts[c]
  BY <1>1, <1>3
<1>5. f.starts[c] \in Nat
  BY <1>1, <1>3
<1> QED BY <1>2, <1>4, <1>5

LEMMA FreshFields ==
    ASSUME NEW f \in Files, Compressed(f), NEW s, Fresh(f, s)
    PROVE  /\ DOMAIN s = Fields
           /\ s.readers = "NULL" /\ s.chunk_size = UntoldSize(f)
           /\ s.current_chunk = 0 /\ s.tabled_chunks = 0
           /\ s.number_chunks = (IF Chunked(f) THEN U32_MAX ELSE 0)
           /\ s.chunk_totals = NULL /\ s.chunk_starts = NULL
           /\ s.point_start = 0 /\ ~s.eof /\ ~s.failed /\ s.decoded = 0
           /\ s.chunk_count = s.chunk_size /\ s.tell = f.base
<1> DEFINE o == Opened(f)
<1>1. DOMAIN o = Fields
  BY DEF Opened, Fields
<1>2. /\ o.readers = "NULL" /\ o.chunk_size = UntoldSize(f)
      /\ o.current_chunk = 0 /\ o.tabled_chunks = 0
      /\ o.number_chunks = (IF Chunked(f) THEN U32_MAX ELSE 0)
  BY DEF Opened, UntoldSize
<1>3. /\ o.chunk_totals = NULL /\ o.chunk_starts = NULL
      /\ o.point_start = 0 /\ ~o.eof /\ ~o.failed /\ o.decoded = 0 /\ o.tell = f.base
  BY DEF Opened
<1>4. o.chunk_count = UntoldSize(f)
  BY DEF Opened, UntoldSize
<1>5. s = [o EXCEPT !.ok = s.ok]
  BY DEF Fresh
<1> HIDE DEF o
<1> QED BY <1>1, <1>2, <1>3, <1>4, <1>5 DEF Fields

LEMMA FreshTyped ==
    ASSUME NEW f \in Files, Compressed(f), NEW s, Fresh(f, s)
    PROVE  Typed(f, s)
<1> DEFINE o == Opened(f)
           t == [o EXCEPT !.ok = s.ok]
<1>1. Typed(f, o)
  BY OpenedTyped
<1>2. s = t /\ s.ok \in BOOLEAN
  BY DEF Fresh
<1> HIDE DEF o
<1>3. DOMAIN o = Fields
  BY <1>1 DEF Typed, Arrays
<1>4. Arrays(t)
  BY <1>1, <1>3 DEF Typed, Arrays, Totals, Starts, Size, Fields, chunk_is_tabled
<1>5. Bytes(f, t) /\ Flags(t) /\ Counters(f, t)
  BY <1>1, <1>2, <1>3 DEF Typed, Bytes, Flags, Counters, Fields
<1>6. Typed(f, t)
  BY <1>4, <1>5 DEF Typed
<1> HIDE DEF t
<1> QED BY <1>2, <1>6

\* Whatever the verdict is, it is as it was opened.
LEMMA FreshAgain ==
    ASSUME NEW f \in Files, Compressed(f), NEW s, Fresh(f, s), NEW ok \in BOOLEAN
    PROVE  LET b == [s EXCEPT !.ok = ok] IN Fresh(f, b) /\ b.ok = ok /\ b.chunk_totals = NULL
<1> DEFINE o == Opened(f)
           b == [o EXCEPT !.ok = ok]
           begun == [s EXCEPT !.ok = ok]
<1>1. s = [o EXCEPT !.ok = s.ok]
  BY DEF Fresh
<1>2. DOMAIN o = Fields /\ o.chunk_totals = NULL
  BY DEF Opened, Fields
<1> HIDE DEF o
<1>3. begun = b
  BY <1>1, <1>2 DEF Fields
<1>4. b.ok = ok /\ b.chunk_totals = NULL
  BY <1>2 DEF Fields
<1> HIDE DEF b, begun
<1>5. begun = [o EXCEPT !.ok = begun.ok]
  BY <1>3, <1>4 DEF b
<1>6. Fresh(f, begun)
  BY <1>3, <1>4, <1>5 DEF Fresh, o
<1> QED BY <1>3, <1>4, <1>6 DEF begun

\* The tables reading can leave of an intact file.
LEMMA GrowableIsRight ==
    ASSUME NEW f \in Files, Chunked(f), Intact(f), ~Adaptive(f), Modest(f),
           NEW s, Typed(f, s), s.chunk_totals = NULL, s.chunk_size = f.chunk_size
    PROVE  LET g == start_growable_table(s, ChunksStart(f))
           IN  /\ Room(g) /\ StartsRight(f, g) /\ TotalsRight(f, g) /\ g.tabled_chunks = 1
               /\ g.number_chunks = GROWTH
<1> DEFINE starts == [i \in {0} |-> ChunksStart(f)]
           g == [s EXCEPT !.number_chunks = GROWTH, !.chunk_starts = starts,
                          !.tabled_chunks = 1]
<1>1. DOMAIN s = Fields
  BY DEF Typed, Arrays
<1>2. Len(f.counts) \in Nat \ {0} /\ Len(f.counts) <= Total(f) /\ Total(f) \in Nat
  BY NoMoreChunksThanPoints
<1>3. ChunksStart(f) = f.starts[0] /\ f.starts[0] \in Nat \ {0}
  BY <1>2, StartsPositive DEF ChunksStart
<1>4. DOMAIN starts = 0 .. 0 /\ starts[0] = f.starts[0]
  BY <1>3
<1> HIDE DEF starts
<1>5. /\ g.number_chunks = GROWTH /\ g.chunk_starts = starts /\ g.tabled_chunks = 1
      /\ g.chunk_totals = NULL /\ g.chunk_size = f.chunk_size
  BY <1>1 DEF Fields
<1>6. g = start_growable_table(s, ChunksStart(f))
  BY DEF start_growable_table, starts
<1> HIDE DEF g
<1>7. Room(g)
  BY <1>2, <1>5, Constants DEF Room, Modest
<1>8. StartsRight(f, g)
  BY <1>3, <1>4, <1>5 DEF StartsRight
<1>9. TotalsRight(f, g)
  BY <1>5 DEF TotalsRight, UntoldSize
<1> QED BY <1>5, <1>6, <1>7, <1>8, <1>9

\* The table of an intact file read, or done without.
TableRead(f, t) ==
    /\ t.readers = "NULL" /\ ~t.eof /\ ~t.failed
    /\ t.tell = f.starts[0] /\ t.current_chunk = 0
    /\ t.chunk_size = f.chunk_size
    /\ Room(t) /\ StartsRight(f, t) /\ TotalsRight(f, t)
    /\ f.seekable => t.tabled_chunks > 0

LEMMA AdoptedIsRight ==
    ASSUME NEW f \in Files, Chunked(f), Intact(f), Modest(f),
           NEW s, Typed(f, s), s.chunk_totals = NULL, s.chunk_size = f.chunk_size,
           ~s.failed, f.table.kind = "entries"
    PROVE  LET d == decode_chunk_table(f.table, s, ChunksStart(f))
           IN  /\ Room(d) /\ StartsRight(f, d) /\ TotalsRight(f, d) /\ d.tabled_chunks > 0
               /\ d.ok = s.ok /\ d.readers = s.readers /\ d.eof = s.eof
               /\ d.failed = s.failed /\ d.current_chunk = s.current_chunk
               /\ d.chunk_size = s.chunk_size
<1> DEFINE m == Len(f.table.deltas)
           n == Len(f.counts)
           starts == Sums(ChunksStart(f), f.table.deltas)
           stuck == {i \in 1 .. m : f.table.deltas[i] <= 0}
           behind == [s EXCEPT !.tell = f.table.behind]
           mixed == [i \in 0 .. m |->
                        IF i <= Min(stuck) THEN starts[i] ELSE f.table.deltas[i]]
           totals == IF s.chunk_size = U32_MAX THEN f.table.totals ELSE NULL
           adopted == [behind EXCEPT !.number_chunks = m, !.chunk_totals = totals,
                                     !.chunk_starts = starts, !.tabled_chunks = m + 1]
           broken == [adopted EXCEPT !.ok = FALSE, !.chunk_starts = mixed]
           d == decode_chunk_table(f.table, s, ChunksStart(f))
<1>1. /\ \A i \in 1 .. m : f.table.deltas[i] > 0
      /\ (m = n /\ starts = f.starts) \/ (m = 0 /\ ~Adaptive(f))
      /\ Adaptive(f) => f.table.totals = f.firsts /\ m = n
  BY IntactTables
<1>2. DOMAIN s = Fields /\ f.table.deltas \in Seq(Int)
  BY FileFacts, TableFacts DEF Typed, Arrays
<1>3. m \in Nat /\ \A i \in 1 .. m : f.table.deltas[i] \in Int
  BY <1>2
<1>4. stuck = {}
  BY <1>1, <1>3
<1>5. d = adopted
  <2>1. d = IF s.failed \/ f.table.kind = "misplaced" THEN SeekStream(s, -1)
            ELSE IF f.table.kind = "unreadable" THEN [behind EXCEPT !.ok = FALSE]
            ELSE IF stuck = {} THEN adopted ELSE broken
    BY DEF decode_chunk_table
  <2> HIDE DEF d, behind, adopted, broken, stuck
  <2> QED BY <1>4, <2>1
<1>6. n \in Nat \ {0} /\ n <= Total(f) /\ Total(f) \in Nat
  BY NoMoreChunksThanPoints
<1>7. (\A i \in 0 .. n : f.starts[i] \in Nat \ {0}) /\ ChunksStart(f) = f.starts[0]
  BY StartsPositive DEF ChunksStart
<1>8. /\ DOMAIN starts = 0 .. m /\ starts[0] = ChunksStart(f)
      /\ (m = n /\ starts = f.starts) \/ m = 0
  <2>1. starts[0] = ChunksStart(f) /\ DOMAIN starts = 0 .. m
    <3>1. m \in Nat /\ Len(f.table.deltas) = m
      BY <1>3
    <3> HIDE DEF m
    <3>2. starts = [i \in 0 .. m |-> starts[i]] /\ starts[0] = ChunksStart(f)
      BY ONLY <3>1, SumsInSteps
    <3> HIDE DEF starts
    <3> QED BY <3>2
  <2> QED BY <1>1, <2>1
<1>9. totals = IF f.chunk_size = U32_MAX THEN f.table.totals ELSE NULL
  OBVIOUS
<1> HIDE DEF starts, totals, m, d, stuck
<1>10. /\ adopted.number_chunks = m /\ adopted.chunk_totals = totals
       /\ adopted.chunk_starts = starts /\ adopted.tabled_chunks = m + 1
       /\ adopted.ok = s.ok /\ adopted.readers = s.readers /\ adopted.eof = s.eof
       /\ adopted.failed = s.failed /\ adopted.current_chunk = s.current_chunk
       /\ adopted.chunk_size = s.chunk_size
  BY <1>2 DEF Fields
<1> HIDE DEF adopted
<1>11. Room(d)
  <2>1. m <= n
    BY <1>1, <1>3, <1>6
  <2> HIDE DEF n
  <2> QED BY <1>3, <1>5, <1>6, <1>10, <2>1, Constants DEF Room, Modest
<1>12. StartsRight(f, d)
  <2>1. DOMAIN d.chunk_starts = 0 .. d.tabled_chunks - 1
    BY <1>3, <1>5, <1>8, <1>10
  <2>2. d.tabled_chunks # 0
    BY <1>3, <1>5, <1>10
  <2>3. ASSUME NEW i \in 0 .. d.tabled_chunks - 1
        PROVE  d.chunk_starts[i] \in Nat \ {0} /\ d.chunk_starts[i] = f.starts[i]
    <3>1. i \in 0 .. m
      BY <1>3, <1>5, <1>10
    <3>2. CASE m = n /\ starts = f.starts
      BY <1>5, <1>7, <1>10, <3>1, <3>2
    <3>3. CASE m = 0
      <4>1. i = 0 /\ f.starts[0] \in Nat \ {0}
        BY <1>6, <1>7, <3>1, <3>3
      <4> QED BY <1>5, <1>7, <1>8, <1>10, <4>1
    <3> QED BY <1>8, <3>2, <3>3
  <2> QED BY <2>1, <2>2, <2>3 DEF StartsRight
<1>13. TotalsRight(f, d)
  BY <1>1, <1>5, <1>9, <1>10 DEF TotalsRight, UntoldSize, Adaptive, n
<1> QED BY <1>3, <1>5, <1>10, <1>11, <1>12, <1>13 DEF d

\* Reading the table of an intact file works the first time, and where it has
\* none it is done without.
LEMMA ReadIntactTable ==
    ASSUME NEW f \in Files, Chunked(f), Intact(f), Modest(f), NEW s, Fresh(f, s), s.ok
    PROVE  LET t == read_chunk_table(f, s)
           IN  t.ok /\ TableRead(f, t)
<1> DEFINE past == [s EXCEPT !.tell = f.end, !.eof = TRUE]
           on == [s EXCEPT !.tell = @ + 1]
           there == IF s.tell + 1 > f.end THEN past ELSE on
           here == [s EXCEPT !.tell = ChunksStart(f)]
           decoded == decode_chunk_table(f.table, here, ChunksStart(f))
           behind == [here EXCEPT !.tell = f.table.behind]
           spoilt == [behind EXCEPT !.ok = FALSE]
           kept == [spoilt EXCEPT !.chunk_totals = NULL, !.ok = TRUE, !.warning = TRUE]
           usable == IF decoded.ok THEN decoded
                     ELSE recover_chunk_table(decoded, ChunksStart(f))
           grown == start_growable_table(here, ChunksStart(f))
           warned == [grown EXCEPT !.warning = TRUE]
           failed == [here EXCEPT !.ok = FALSE]
           bare == [here EXCEPT !.number_chunks = 0, !.tabled_chunks = 0]
           back == SeekStream(usable, ChunksStart(f))
           t == read_chunk_table(f, s)
<1>1. Compressed(f) /\ UntoldSize(f) = f.chunk_size /\ (Adaptive(f) <=> f.chunk_size = U32_MAX)
  BY DEF Chunked, Compressed, UntoldSize, Adaptive
<1>2. /\ DOMAIN s = Fields /\ s.readers = "NULL" /\ s.chunk_size = f.chunk_size
      /\ s.current_chunk = 0 /\ s.tabled_chunks = 0 /\ s.number_chunks = U32_MAX
      /\ s.chunk_totals = NULL /\ s.chunk_starts = NULL /\ ~s.eof /\ ~s.failed
  BY <1>1, FreshFields
<1>3. ChunksStart(f) = f.starts[0] /\ f.starts[0] \in Nat /\ DataEnd(f) \in Nat
  <2> DEFINE n == Len(f.counts)
  <2>1. n \in Nat \ {0} /\ f.starts \in [0 .. n -> Nat]
    BY FilesHaveShape DEF Shape
  <2> HIDE DEF n
  <2>2. f.starts[0] \in Nat /\ f.starts[n] \in Nat
    BY ONLY <2>1
  <2> QED BY <2>2 DEF ChunksStart, DataEnd, n
<1>4. Typed(f, here)
  <2>1. Typed(f, s)
    BY <1>1, FreshTyped
  <2>2. Arrays(here)
    BY <1>2, <2>1 DEF Typed, Arrays, Totals, Starts, Size, Fields, chunk_is_tabled
  <2>3. Bytes(f, here) /\ Flags(here) /\ Counters(f, here)
    BY <1>2, <1>3, <2>1 DEF Typed, Bytes, Flags, Counters, Fields
  <2> QED BY <2>2, <2>3 DEF Typed
<1>5. /\ DOMAIN here = Fields /\ here.readers = "NULL" /\ here.chunk_size = f.chunk_size
      /\ here.current_chunk = 0 /\ here.tabled_chunks = 0 /\ here.number_chunks = U32_MAX
      /\ here.chunk_totals = NULL /\ here.chunk_starts = NULL /\ ~here.eof /\ ~here.failed
      /\ here.ok /\ here.tell = f.starts[0]
  BY <1>2, <1>3 DEF Fields
<1>6. there = here /\ here.tell = ChunksStart(f) /\ PositionAt(f, s.tell) = f.table
  <2>1. s.tell = f.base /\ f.base \in Nat
    BY <1>1, FreshFields, FileFacts
  <2>2. ChunksStart(f) = f.base + 1 /\ f.base + 1 <= f.end /\ f.end \in Nat
    <3>1. f.starts[0] = f.base + 1
      BY FilesHaveShape DEF Shape
    <3>2. f.base < f.end /\ f.end \in Nat
      BY FileFacts
    <3> QED BY <1>3, <2>1, <3>1, <3>2
  <2>3. there = on
    BY <2>1, <2>2
  <2>4. on = here
    BY <2>1, <2>2
  <2>5. PositionAt(f, s.tell) = f.table
    BY <2>1 DEF PositionAt
  <2> QED BY <1>3, <1>5, <2>3, <2>4, <2>5
<1>7. f.table.behind \in Nat
  BY FileFacts, TableFacts
<1> HIDE DEF past, on, here
<1>8. ~Adaptive(f) => warned.ok /\ TableRead(f, warned)
  <2> SUFFICES ASSUME ~Adaptive(f) PROVE warned.ok /\ TableRead(f, warned)
    OBVIOUS
  <2>1. /\ Room(grown) /\ StartsRight(f, grown) /\ TotalsRight(f, grown)
        /\ grown.tabled_chunks = 1
    BY <1>4, <1>5, GrowableIsRight
  <2>2. /\ DOMAIN grown = Fields /\ grown.readers = "NULL" /\ grown.chunk_size = f.chunk_size
        /\ grown.current_chunk = 0 /\ ~grown.eof /\ ~grown.failed
        /\ grown.ok /\ grown.tell = f.starts[0]
    BY <1>5 DEF start_growable_table, Fields
  <2> HIDE DEF grown
  <2>3. Room(warned) /\ StartsRight(f, warned) /\ TotalsRight(f, warned)
    BY <2>1, <2>2 DEF Room, StartsRight, TotalsRight, Fields
  <2>4. /\ warned.readers = "NULL" /\ warned.chunk_size = f.chunk_size
        /\ warned.current_chunk = 0 /\ ~warned.eof /\ ~warned.failed
        /\ warned.ok /\ warned.tell = f.starts[0] /\ warned.tabled_chunks = 1
    BY <2>1, <2>2 DEF Fields
  <2> HIDE DEF warned
  <2> QED BY <2>3, <2>4 DEF TableRead
<1>9. ~Adaptive(f) /\ ~f.seekable => bare.ok /\ TableRead(f, bare)
  <2> SUFFICES ASSUME ~Adaptive(f), ~f.seekable PROVE bare.ok /\ TableRead(f, bare)
    OBVIOUS
  <2>1. /\ bare.readers = "NULL" /\ bare.chunk_size = f.chunk_size
        /\ bare.current_chunk = 0 /\ bare.tabled_chunks = 0 /\ bare.number_chunks = 0
        /\ bare.chunk_totals = NULL /\ bare.chunk_starts = NULL /\ ~bare.eof /\ ~bare.failed
        /\ bare.ok /\ bare.tell = f.starts[0]
    BY <1>5 DEF Fields
  <2> HIDE DEF bare
  <2>2. Total(f) \in Nat
    BY NoMoreChunksThanPoints
  <2>3. Room(bare)
    BY <2>1, <2>2, Constants DEF Room, Modest
  <2>4. StartsRight(f, bare)
    BY <2>1 DEF StartsRight, NULL
  <2>5. TotalsRight(f, bare)
    BY <1>1, <2>1 DEF TotalsRight
  <2> QED BY <2>1, <2>3, <2>4, <2>5 DEF TableRead
<1>10. f.table.kind # "interrupted" =>
          /\ usable.ok /\ DOMAIN usable = Fields /\ usable.readers = "NULL"
          /\ ~usable.failed /\ usable.current_chunk = 0 /\ usable.chunk_size = f.chunk_size
          /\ Room(usable) /\ StartsRight(f, usable) /\ TotalsRight(f, usable)
          /\ usable.tabled_chunks > 0
  <2> SUFFICES ASSUME f.table.kind # "interrupted"
               PROVE  /\ usable.ok /\ DOMAIN usable = Fields /\ usable.readers = "NULL"
                      /\ ~usable.failed /\ usable.current_chunk = 0
                      /\ usable.chunk_size = f.chunk_size
                      /\ Room(usable) /\ StartsRight(f, usable) /\ TotalsRight(f, usable)
                      /\ usable.tabled_chunks > 0
    OBVIOUS
  <2>1. f.table.kind \in {"unreadable", "entries"}
    BY FileFacts, TableFacts, IntactTables
  <2>2. CASE f.table.kind = "entries"
    <3>1. /\ Room(decoded) /\ StartsRight(f, decoded) /\ TotalsRight(f, decoded)
          /\ decoded.tabled_chunks > 0 /\ decoded.ok /\ decoded.readers = "NULL"
          /\ ~decoded.failed /\ decoded.current_chunk = 0
          /\ decoded.chunk_size = f.chunk_size
      BY <1>4, <1>5, <2>2, AdoptedIsRight
    <3>2. DOMAIN decoded = Fields
      <4>1. IsTable(f.table) /\ ChunksStart(f) \in Int
        BY <1>3, FileFacts
      <4>2. Typed(f, decoded)
        BY <1>4, <1>5, <4>1, DecodeTableTyped
      <4> QED BY <4>2 DEF Typed, Arrays
    <3> HIDE DEF decoded
    <3> QED BY <3>1, <3>2
  <2>3. CASE f.table.kind = "unreadable"
    <3>1. decoded = spoilt
      BY <1>5, <2>3 DEF decode_chunk_table
    <3>2. ~Adaptive(f)
      BY <2>3, IntactTables
    <3>3. /\ DOMAIN spoilt = Fields /\ spoilt.ok = FALSE
          /\ spoilt.readers = "NULL" /\ spoilt.chunk_size = f.chunk_size
          /\ spoilt.current_chunk = 0 /\ spoilt.number_chunks = U32_MAX
          /\ ~spoilt.failed
      BY <1>5 DEF Fields
    <3>4. Typed(f, spoilt)
      <4>1. Arrays(spoilt)
        BY <1>4, <1>5 DEF Typed, Arrays, Totals, Starts, Size, Fields, chunk_is_tabled
      <4>2. Bytes(f, spoilt) /\ Flags(spoilt) /\ Counters(f, spoilt)
        BY <1>4, <1>5, <1>7 DEF Typed, Bytes, Flags, Counters, Fields
      <4> QED BY <4>1, <4>2 DEF Typed
    <3> HIDE DEF spoilt
    <3>5. recover_chunk_table(spoilt, ChunksStart(f)) = start_growable_table(kept, ChunksStart(f))
      BY <1>1, <3>2, <3>3 DEF recover_chunk_table
    <3>6. /\ DOMAIN kept = Fields /\ kept.ok /\ kept.readers = "NULL"
          /\ kept.chunk_size = f.chunk_size /\ kept.current_chunk = 0 /\ ~kept.failed
          /\ kept.chunk_totals = NULL
      BY <3>3 DEF Fields
    <3>7. Typed(f, kept)
      <4>1. Arrays(kept)
        BY <1>1, <3>2, <3>3, <3>4
           DEF Typed, Arrays, Totals, Starts, Size, Fields, chunk_is_tabled, NULL
      <4>2. Bytes(f, kept) /\ Flags(kept) /\ Counters(f, kept)
        BY <3>3, <3>4 DEF Typed, Bytes, Flags, Counters, Fields
      <4> QED BY <4>1, <4>2 DEF Typed
    <3> HIDE DEF kept
    <3> DEFINE g == start_growable_table(kept, ChunksStart(f))
    <3>8. /\ Room(g) /\ StartsRight(f, g) /\ TotalsRight(f, g) /\ g.tabled_chunks = 1
      BY <3>2, <3>6, <3>7, GrowableIsRight
    <3>9. /\ DOMAIN g = Fields /\ g.ok /\ g.readers = "NULL" /\ g.chunk_size = f.chunk_size
          /\ g.current_chunk = 0 /\ ~g.failed
      BY <3>6 DEF start_growable_table, Fields
    <3>10. usable = g
      BY <3>1, <3>3, <3>5
    <3> HIDE DEF g, usable
    <3> QED BY <3>8, <3>9, <3>10
  <2> QED BY <2>1, <2>2, <2>3
<1> HIDE DEF usable
<1>11. f.table.kind # "interrupted" => usable.ok /\ back.ok /\ TableRead(f, back)
  <2> SUFFICES ASSUME f.table.kind # "interrupted"
               PROVE  usable.ok /\ back.ok /\ TableRead(f, back)
    OBVIOUS
  <2>1. back = [usable EXCEPT !.tell = ChunksStart(f), !.eof = FALSE]
    BY <1>3, <1>10 DEF SeekStream
  <2>2. /\ back.ok /\ back.readers = "NULL" /\ ~back.eof /\ ~back.failed
        /\ back.tell = f.starts[0] /\ back.current_chunk = 0
        /\ back.chunk_size = f.chunk_size /\ back.tabled_chunks > 0
    BY <1>3, <1>10, <2>1 DEF Fields
  <2>3. Room(back) /\ StartsRight(f, back) /\ TotalsRight(f, back)
    BY <1>10, <2>1 DEF Room, StartsRight, TotalsRight, Fields
  <2> QED BY <1>10, <2>2, <2>3 DEF TableRead
<1>12. t = IF f.table.kind = "interrupted"
           THEN IF s.chunk_size = U32_MAX THEN failed ELSE warned
           ELSE IF ~f.seekable
           THEN IF s.chunk_size = U32_MAX THEN failed ELSE bare
           ELSE IF usable.ok THEN back ELSE usable
  <2> DEFINE table == PositionAt(f, s.tell)
             at == there.tell
             d == decode_chunk_table(table, there, at)
             u == IF d.ok THEN d ELSE recover_chunk_table(d, at)
  <2>1. t = IF table.kind = "interrupted"
            THEN IF s.chunk_size = U32_MAX THEN [there EXCEPT !.ok = FALSE]
                 ELSE [start_growable_table(there, at) EXCEPT !.warning = TRUE]
            ELSE IF ~f.seekable
            THEN IF s.chunk_size = U32_MAX THEN [there EXCEPT !.ok = FALSE]
                 ELSE [there EXCEPT !.number_chunks = 0, !.tabled_chunks = 0]
            ELSE IF u.ok THEN SeekStream(u, at) ELSE u
    BY DEF read_chunk_table, Then, past, on
  <2> HIDE DEF t, there
  <2>2. there = here /\ at = ChunksStart(f) /\ table = f.table
    BY <1>6
  <2> HIDE DEF table, at
  <2> QED BY <2>1, <2>2 DEF failed, warned, bare, back, usable, decoded, grown
<1> HIDE DEF warned, bare, back, t, failed
<1>13. Adaptive(f) => f.table.kind # "interrupted" /\ f.seekable
  BY IntactTables DEF Intact
<1>14. t.ok /\ TableRead(f, t)
  BY <1>1, <1>2, <1>8, <1>9, <1>11, <1>12, <1>13, FileFacts
<1> QED BY <1>14 DEF t

-----------------------------------------------------------------------------
(* Chunks begun in an intact, compressed file. *)

\* A decoder about to be started in a chunk the table knows, or comes to know.
Opens(f, s) ==
    /\ Starting(f, s) /\ s.point_start # 0
    /\ Room(s) /\ StartsRight(f, s) /\ TotalsRight(f, s)
    /\ s.current_chunk <= s.tabled_chunks
    /\ Adaptive(f) => s.current_chunk <= Len(f.counts)

\* A table states the size of a chunk if the file is adaptive and has it.
LEMMA TotalsAreTabled ==
    ASSUME NEW f \in Files, NEW s, TotalsRight(f, s), NEW i
    PROVE  chunk_is_tabled(s, i) <=> Adaptive(f) /\ i < Len(f.counts)
<1>1. f.firsts # NULL
  <2>1. f.firsts \in [0 .. Len(f.counts) -> Nat] /\ Len(f.counts) \in Nat
    BY FilesHaveShape DEF Shape
  <2>2. 0 \in DOMAIN f.firsts /\ 0 \notin DOMAIN NULL
    BY <2>1 DEF NULL
  <2> QED BY <2>2
<1> QED BY <1>1 DEF TotalsRight, chunk_is_tabled

\* Its sizes are the counts.
LEMMA SizesAreCounts ==
    ASSUME NEW f \in Files, NEW c \in 0 .. Len(f.counts) - 1
    PROVE  /\ f.firsts[c + 1] - f.firsts[c] = f.counts[c + 1]
           /\ f.counts[c + 1] \in Nat \ {0} /\ f.firsts[c + 1] \in Nat /\ f.firsts[c] \in Nat
           /\ f.firsts[c + 1] = f.firsts[c] + f.counts[c + 1]
           /\ c + 1 \in 1 .. Len(f.counts) /\ f.firsts[c + 1] <= Total(f)
           /\ c + 1 < Len(f.counts) => f.firsts[c + 1] < Total(f)
           /\ f.starts[c] \in Nat /\ f.starts[c + 1] \in Nat
           /\ f.starts[c + 1] <= DataEnd(f)
           /\ f.starts[c + 1] = f.starts[c] + f.counts[c + 1] + (IF Compressed(f) THEN 1 ELSE 0)
<1> DEFINE n == Len(f.counts)
           extra == IF Compressed(f) THEN 1 ELSE 0
<1>1. /\ n \in Nat \ {0} /\ \A i \in 1 .. n : f.counts[i] \in Nat \ {0}
      /\ f.firsts \in [0 .. n -> Nat] /\ f.starts \in [0 .. n -> Nat]
      /\ \A i \in 1 .. n : /\ f.firsts[i] = f.firsts[i - 1] + f.counts[i]
                           /\ f.starts[i] = f.starts[i - 1] + f.counts[i] + extra
      /\ \A i, j \in 0 .. n : i < j => /\ f.firsts[i] < f.firsts[j]
                                       /\ f.starts[i] < f.starts[j]
  BY FilesHaveShape DEF Shape
<1>2. c \in 0 .. n - 1 /\ Total(f) = f.firsts[n] /\ DataEnd(f) = f.starts[n]
  BY DEF Total, DataEnd
<1> HIDE DEF n, extra
<1>3. /\ c + 1 \in 1 .. n /\ c + 1 \in 0 .. n /\ c \in 0 .. n /\ (c + 1) - 1 = c
      /\ n \in 0 .. n /\ (c + 1 = n \/ c + 1 < n)
  <2>1. n \in Nat \ {0} /\ c \in 0 .. n - 1
    BY <1>1, <1>2
  <2> QED BY ONLY <2>1
<1>4. /\ f.counts[c + 1] \in Nat \ {0} /\ f.firsts[c + 1] \in Nat /\ f.firsts[c] \in Nat
      /\ f.starts[c + 1] \in Nat /\ f.starts[c] \in Nat
      /\ f.firsts[n] \in Nat /\ f.starts[n] \in Nat
  BY <1>1, <1>3
<1>5. /\ f.firsts[c + 1] = f.firsts[c] + f.counts[c + 1]
      /\ f.starts[c + 1] = f.starts[c] + f.counts[c + 1] + extra
  BY <1>1, <1>3
<1>6. /\ c + 1 < n => f.firsts[c + 1] < f.firsts[n] /\ f.starts[c + 1] < f.starts[n]
      /\ f.firsts[c + 1] <= f.firsts[n] /\ f.starts[c + 1] <= f.starts[n]
  <2>1. c + 1 < n => f.firsts[c + 1] < f.firsts[n] /\ f.starts[c + 1] < f.starts[n]
    BY <1>1, <1>3
  <2>2. CASE c + 1 = n
    BY <1>4, <2>1, <2>2
  <2>3. CASE c + 1 < n
    BY <1>4, <2>1, <2>3
  <2> QED BY <1>3, <2>2, <2>3
<1>7. f.firsts[c + 1] - f.firsts[c] = f.counts[c + 1]
  BY <1>4, <1>5
<1> QED BY <1>2, <1>3, <1>4, <1>5, <1>6, <1>7 DEF n, extra

LEMMA InitFresh ==
    ASSUME NEW f \in Files, Compressed(f), Intact(f), Modest(f), NEW s, Fresh(f, s), s.ok
    PROVE  LET t == init_dec(f, s)
           IN  /\ t.ok /\ Opens(f, t) /\ SizeRight(f, t) /\ t.current_chunk = 0
               /\ Chunked(f) /\ f.seekable => t.tabled_chunks > 0
               /\ ~Chunked(f) => t.tabled_chunks = 0
<1> DEFINE read == read_chunk_table(f, s)
           size == IF chunk_is_tabled(read, 0) THEN read.chunk_totals[1] ELSE read.chunk_size
           first == [read EXCEPT !.current_chunk = 0, !.chunk_size = size]
           started == [first EXCEPT !.point_start = first.tell, !.readers = "NULL"]
           begun == [s EXCEPT !.point_start = s.tell, !.readers = "NULL"]
           t == init_dec(f, s)
<1>1. /\ DOMAIN s = Fields /\ s.readers = "NULL" /\ s.chunk_size = UntoldSize(f)
      /\ s.current_chunk = 0 /\ s.tabled_chunks = 0
      /\ s.number_chunks = (IF Chunked(f) THEN U32_MAX ELSE 0)
      /\ s.chunk_totals = NULL /\ s.chunk_starts = NULL /\ ~s.eof /\ ~s.failed
  BY FreshFields
<1>2. /\ f.starts[0] \in Nat \ {0} /\ Len(f.counts) \in Nat \ {0}
      /\ (~Chunked(f) => f.starts[0] = f.base)
  <2>1. /\ f.starts[0] = f.base + (IF Chunked(f) THEN 1 ELSE 0)
        /\ Len(f.counts) \in Nat \ {0}
    BY FilesHaveShape DEF Shape
  <2>2. f.base \in Nat \ {0}
    BY FileFacts DEF Intact
  <2> QED BY <2>1, <2>2
<1>3. t = IF s.number_chunks # U32_MAX THEN begun ELSE IF read.ok THEN started ELSE read
  BY DEF init_dec, Then
<1>4. CASE ~Chunked(f)
  <2>1. s.tell = f.base
    BY FreshFields
  <2>2. t = begun
    BY <1>1, <1>3, <1>4, Constants
  <2>3. /\ begun.readers = "NULL" /\ begun.chunk_size = U32_MAX
        /\ begun.current_chunk = 0 /\ begun.tabled_chunks = 0 /\ begun.number_chunks = 0
        /\ begun.chunk_totals = NULL /\ begun.chunk_starts = NULL
        /\ ~begun.eof /\ ~begun.failed /\ begun.tell = f.starts[0]
        /\ begun.point_start = f.starts[0] /\ begun.ok
    BY <1>1, <1>2, <1>4, <2>1 DEF Fields, UntoldSize
  <2> HIDE DEF begun
  <2>4. Total(f) \in Nat
    BY NoMoreChunksThanPoints
  <2>5. Room(begun)
    BY <2>3, <2>4, Constants DEF Room, Modest
  <2>6. StartsRight(f, begun)
    BY <2>3 DEF StartsRight, NULL
  <2>7. TotalsRight(f, begun) /\ SizeRight(f, begun)
    BY <1>4, <2>3 DEF TotalsRight, SizeRight, UntoldSize, Adaptive
  <2>8. Starting(f, begun)
    BY <1>2, <2>3 DEF Starting
  <2>9. Opens(f, begun)
    BY <1>2, <1>4, <2>3, <2>5, <2>6, <2>7, <2>8 DEF Opens, Adaptive
  <2> QED BY <1>4, <2>2, <2>3, <2>7, <2>9
<1>5. CASE Chunked(f)
  <2>1. read.ok /\ TableRead(f, read)
    BY <1>5, ReadIntactTable
  <2>2. t = IF read.ok THEN started ELSE read
    BY <1>1, <1>3, <1>5
  <2>3. DOMAIN read = Fields
    <3>1. Typed(f, s)
      BY FreshTyped
    <3>2. Typed(f, read)
      BY <1>1, <1>5, <3>1, ReadTableTyped
    <3> QED BY <3>2 DEF Typed, Arrays
  <2> HIDE DEF read
  <2>4. ASSUME read.ok, TableRead(f, read)
        PROVE  /\ started.ok /\ Opens(f, started) /\ SizeRight(f, started)
               /\ started.current_chunk = 0 /\ (f.seekable => started.tabled_chunks > 0)
    <3>1. TotalsRight(f, read) /\ StartsRight(f, read) /\ Room(read)
      BY <2>4 DEF TableRead
    <3>2. chunk_is_tabled(read, 0) <=> Adaptive(f)
      BY <1>2, <3>1, TotalsAreTabled
    <3>3. Adaptive(f) => size = f.counts[1]
      <4>1. f.firsts[0 + 1] = f.firsts[0] + f.counts[0 + 1] /\ f.counts[0 + 1] \in Nat
            /\ f.firsts[0] = 0
        BY <1>2, SizesAreCounts, FilesHaveShape DEF Shape
      <4>2. f.firsts[1] = f.counts[1]
        BY <4>1
      <4> QED BY <3>1, <3>2, <4>2 DEF TotalsRight
    <3>4. ~Adaptive(f) => size = read.chunk_size
      BY <3>2
    <3> HIDE DEF size
    <3>5. /\ started.readers = "NULL" /\ started.chunk_size = size
          /\ started.current_chunk = 0 /\ started.tabled_chunks = read.tabled_chunks
          /\ started.number_chunks = read.number_chunks
          /\ started.chunk_totals = read.chunk_totals
          /\ started.chunk_starts = read.chunk_starts
          /\ started.eof = read.eof /\ started.failed = read.failed
          /\ started.tell = read.tell /\ started.point_start = read.tell /\ started.ok
      BY <2>3, <2>4 DEF Fields
    <3> HIDE DEF started
    <3>6. Room(started) /\ StartsRight(f, started)
      BY <3>1, <3>5 DEF Room, StartsRight
    <3>7. TotalsRight(f, started) /\ SizeRight(f, started)
      BY <1>2, <3>1, <3>3, <3>4, <3>5 DEF TotalsRight, SizeRight
    <3>8. Starting(f, started) /\ started.point_start # 0
      BY <1>2, <2>4, <3>5 DEF Starting, TableRead
    <3>9. started.tabled_chunks \in Nat
      <4>1. Typed(f, s)
        BY FreshTyped
      <4>2. Typed(f, read)
        BY <1>1, <1>5, <4>1, ReadTableTyped DEF read
      <4> QED BY <3>5, <4>2 DEF Typed, Arrays, Starts
    <3>10. Opens(f, started)
      BY <1>2, <3>5, <3>6, <3>7, <3>8, <3>9 DEF Opens
    <3> QED BY <2>4, <3>5, <3>7, <3>10 DEF TableRead
  <2> HIDE DEF started, t
  <2>5. /\ t.ok /\ Opens(f, t) /\ SizeRight(f, t) /\ t.current_chunk = 0
        /\ (f.seekable => t.tabled_chunks > 0)
    BY <2>1, <2>2, <2>4
  <2> QED BY <1>5, <2>5 DEF t
<1> QED BY <1>4, <1>5

\* The decoder is in a chunk of the file, as many points into it as it has decoded.
Inside(f, s) ==
    LET c == s.current_chunk
        n == f.counts[c + 1]
    IN  /\ c \in 0 .. Len(f.counts) - 1
        /\ s.point_start = f.starts[c] /\ ~s.eof
        /\ \/ s.readers = "NULL" /\ s.tell = f.starts[c]
           \/ /\ s.readers = "compressed" /\ s.origin = f.starts[c]
              /\ s.decoded \in 1 .. n
              /\ s.tell = IF f.compressor = "layered" \/ s.decoded = n
                          THEN f.starts[c + 1] ELSE f.starts[c] + s.decoded

\* And that many have been counted.
At(f, s) == Inside(f, s) /\ (Chunked(f) => s.chunk_count = DecodedOf(s))

\* The table of a reader that has begun, and the chunk it is in.
Tables(f, s) ==
    /\ Room(s) /\ StartsRight(f, s) /\ TotalsRight(f, s) /\ SizeRight(f, s)
    /\ s.point_start # 0 /\ s.tell # 0 /\ ~s.failed
    /\ Chunked(f) => s.current_chunk < s.tabled_chunks
    /\ ~Chunked(f) => /\ s.current_chunk = 0 /\ s.tabled_chunks <= 1
                      /\ s.point_start = f.starts[0]
    /\ Chunked(f) /\ (Adaptive(f) => s.current_chunk < Len(f.counts))
          => s.chunk_count <= s.chunk_size

\* In a chunk the file has, not more points of it decoded than it has, the
\* decoder is where that many points put it.
Where(f, s) ==
    Chunked(f) /\ s.current_chunk < Len(f.counts)
               /\ s.chunk_count <= f.counts[s.current_chunk + 1]
        => At(f, s)

LEMMA StartingIsAt ==
    ASSUME NEW f \in Files, NEW s, Starting(f, s), s.current_chunk \in 0 .. Len(f.counts) - 1,
           Chunked(f) => s.chunk_count = 0
    PROVE  At(f, s) /\ DecodedOf(s) = 0
<1>1. Len(f.counts) \in Nat
  BY NoMoreChunksThanPoints
<1> QED BY <1>1 DEF Starting, At, Inside, DecodedOf

LEMMA StartingIsWhere ==
    ASSUME NEW f \in Files, NEW s, Starting(f, s), s.current_chunk \in Nat, s.chunk_count = 0
    PROVE  Where(f, s)
<1>1. Len(f.counts) \in Nat
  BY NoMoreChunksThanPoints
<1>2. ASSUME s.current_chunk < Len(f.counts) PROVE At(f, s)
  <2>1. s.current_chunk \in 0 .. Len(f.counts) - 1
    BY <1>1, <1>2
  <2> QED BY <2>1, StartingIsAt
<1> QED BY <1>2 DEF Where

\* What open_next_chunk does once the decoder is started.
LEMMA NotedIsRight ==
    ASSUME NEW f \in Files, Compressed(f), NEW s, Typed(f, s), Opens(f, s),
           s.current_chunk = s.tabled_chunks => s.tabled_chunks + 1 + GROWTH < U32_MAX,
           ~Chunked(f) => s.current_chunk = 0 /\ s.tabled_chunks = 0
    PROVE  LET noted == IF s.current_chunk = s.tabled_chunks THEN note_chunk_start(s)
                        ELSE size_from_table(s)
               r == [noted EXCEPT !.chunk_count = 0]
           IN  /\ Tables(f, r) /\ Starting(f, r) /\ r.chunk_count = 0
               /\ r.current_chunk = s.current_chunk /\ r.ok = s.ok
<1> DEFINE c == s.current_chunk
           n == Len(f.counts)
           starts == [i \in 0 .. s.tabled_chunks |->
                  IF i < s.tabled_chunks THEN s.chunk_starts[i] ELSE s.point_start]
           number == IF c >= s.number_chunks THEN s.number_chunks + GROWTH ELSE s.number_chunks
           tabled == s.tabled_chunks + 1
           size == s.chunk_totals[c + 1] - s.chunk_totals[c]
           grown == [s EXCEPT !.number_chunks = number, !.tabled_chunks = tabled,
                              !.chunk_starts = starts]
           sized == [s EXCEPT !.chunk_size = size]
           noted == IF c = s.tabled_chunks THEN note_chunk_start(s) ELSE size_from_table(s)
           r == [noted EXCEPT !.chunk_count = 0]
<1>1. /\ DOMAIN s = Fields /\ c \in Nat /\ s.tabled_chunks \in Nat /\ s.number_chunks \in Nat
      /\ s.chunk_size \in Nat /\ s.chunk_count \in Nat /\ s.point_start \in Nat
      /\ n \in Nat \ {0}
  <2>1. U32_MAX \in Nat /\ n \in Nat \ {0}
    BY Constants, NoMoreChunksThanPoints
  <2> HIDE DEF n
  <2> QED BY <2>1 DEF Typed, Arrays, Starts, Bytes, Counters
<1>2. /\ Starting(f, s) /\ s.point_start # 0
      /\ Room(s) /\ StartsRight(f, s) /\ TotalsRight(f, s)
      /\ c <= s.tabled_chunks /\ (Adaptive(f) => c <= n)
  BY DEF Opens
<1>3. CASE c = s.tabled_chunks
  <2>1. ~Adaptive(f)
    BY <1>1, <1>2, <1>3 DEF TotalsRight
  <2>2. noted = grown
    BY <1>3 DEF note_chunk_start
  <2>3. /\ DOMAIN starts = 0 .. s.tabled_chunks
        /\ \A i \in 0 .. s.tabled_chunks :
              starts[i] \in Nat \ {0} /\ (i < n => starts[i] = f.starts[i])
    <3> SUFFICES ASSUME NEW i \in 0 .. s.tabled_chunks
                 PROVE  starts[i] \in Nat \ {0} /\ (i < n => starts[i] = f.starts[i])
      OBVIOUS
    <3>1. CASE i < s.tabled_chunks
      <4>1. i \in 0 .. s.tabled_chunks - 1 /\ starts[i] = s.chunk_starts[i]
        BY <1>1, <3>1
      <4> HIDE DEF starts
      <4> QED BY <1>2, <4>1 DEF StartsRight
    <3>2. CASE i = c
      <4>1. starts[i] = s.point_start
        BY <1>1, <1>3, <3>2
      <4> HIDE DEF starts
      <4> QED BY <1>1, <1>2, <3>2, <4>1 DEF Starting
    <3> QED BY <1>1, <1>3, <3>1, <3>2
  <2>4. number \in Nat /\ number <= tabled + GROWTH /\ tabled \in Nat
    <3>1. s.number_chunks <= s.tabled_chunks + GROWTH /\ GROWTH \in Nat
      BY <1>2, Constants DEF Room
    <3>2. /\ s.number_chunks \in Nat /\ s.tabled_chunks \in Nat
          /\ (c >= s.number_chunks => s.number_chunks <= s.tabled_chunks)
      BY <1>1, <1>3
    <3>3. \/ c >= s.number_chunks /\ number = s.number_chunks + GROWTH
          \/ number = s.number_chunks
      OBVIOUS
    <3> HIDE DEF number, c
    <3> QED BY ONLY <3>1, <3>2, <3>3
  <2> HIDE DEF starts, number
  <2>5. /\ r.number_chunks = number /\ r.tabled_chunks = tabled /\ r.chunk_starts = starts
        /\ r.chunk_count = 0 /\ r.chunk_totals = s.chunk_totals /\ r.chunk_size = s.chunk_size
        /\ r.current_chunk = c /\ r.point_start = s.point_start /\ r.tell = s.tell
        /\ r.readers = s.readers /\ r.eof = s.eof /\ r.failed = s.failed /\ r.ok = s.ok
    <3> HIDE DEF tabled, c
    <3>1. DOMAIN s = Fields
      BY <1>1
    <3>2. /\ grown.number_chunks = number /\ grown.tabled_chunks = tabled
          /\ grown.chunk_starts = starts /\ grown.chunk_totals = s.chunk_totals
          /\ grown.chunk_size = s.chunk_size /\ grown.current_chunk = s.current_chunk
          /\ grown.point_start = s.point_start /\ grown.tell = s.tell
          /\ grown.readers = s.readers /\ grown.eof = s.eof /\ grown.failed = s.failed
          /\ grown.ok = s.ok /\ DOMAIN grown = Fields
      BY ONLY <3>1 DEF Fields
    <3>3. r = [grown EXCEPT !.chunk_count = 0]
      BY <2>2
    <3> HIDE DEF grown, r
    <3> QED BY ONLY <3>2, <3>3 DEF Fields, c
  <2> HIDE DEF r
  <2>6. Room(r)
    BY <1>1, <1>3, <2>4, <2>5 DEF Room
  <2>7. StartsRight(f, r)
    <3>1. tabled - 1 = s.tabled_chunks /\ tabled # 0
      BY <1>1
    <3> HIDE DEF tabled
    <3> QED BY <2>3, <2>5, <3>1 DEF StartsRight
  <2>8. TotalsRight(f, r) /\ SizeRight(f, r)
    BY <1>2, <2>1, <2>5 DEF TotalsRight, SizeRight
  <2>9. Starting(f, r)
    BY <1>2, <2>5 DEF Starting
  <2>10. Chunked(f) => r.current_chunk < r.tabled_chunks /\ r.chunk_count <= r.chunk_size
    BY <1>1, <1>3, <2>5
  <2>11. ~Chunked(f) => /\ r.current_chunk = 0 /\ r.tabled_chunks <= 1
                        /\ r.point_start = f.starts[0]
    BY <1>1, <2>5, <2>9 DEF Starting
  <2>12. r.point_start # 0 /\ r.tell # 0 /\ ~r.failed
    BY <1>2, <2>5, <2>9 DEF Starting
  <2> HIDE DEF tabled
  <2> QED BY <2>5, <2>6, <2>7, <2>8, <2>9, <2>10, <2>11, <2>12 DEF Tables, r
<1>4. CASE c # s.tabled_chunks
  <2>1. noted = IF chunk_is_tabled(s, c) THEN sized ELSE s
    BY <1>4 DEF size_from_table
  <2>2. chunk_is_tabled(s, c) <=> Adaptive(f) /\ c < n
    BY <1>2, TotalsAreTabled
  <2>3. Adaptive(f) /\ c < n => size = f.counts[c + 1] /\ size \in Nat
    <3> SUFFICES ASSUME Adaptive(f), c < n PROVE size = f.counts[c + 1] /\ size \in Nat
      OBVIOUS
    <3>1. c \in 0 .. n - 1
      BY <1>1
    <3> HIDE DEF c
    <3>2. f.firsts[c + 1] - f.firsts[c] = f.counts[c + 1] /\ f.counts[c + 1] \in Nat
      BY <3>1, SizesAreCounts
    <3>3. s.chunk_totals = f.firsts
      BY <1>2 DEF TotalsRight
    <3> QED BY <3>2, <3>3
  <2> HIDE DEF size
  <2>4. /\ r.number_chunks = s.number_chunks /\ r.tabled_chunks = s.tabled_chunks
        /\ r.chunk_starts = s.chunk_starts
        /\ r.chunk_count = 0 /\ r.chunk_totals = s.chunk_totals
        /\ r.chunk_size = (IF Adaptive(f) /\ c < n THEN f.counts[c + 1] ELSE s.chunk_size)
        /\ r.current_chunk = c /\ r.point_start = s.point_start /\ r.tell = s.tell
        /\ r.readers = s.readers /\ r.eof = s.eof /\ r.failed = s.failed /\ r.ok = s.ok
    <3> DEFINE stated == Adaptive(f) /\ c < n
               value == IF stated THEN f.counts[c + 1] ELSE s.chunk_size
    <3>1. noted = IF stated THEN sized ELSE s
      BY <2>1, <2>2
    <3>2. stated => size = f.counts[c + 1]
      BY <2>3
    <3> HIDE DEF stated, c
    <3>3. DOMAIN s = Fields
      BY <1>1
    <3>4. DOMAIN sized = Fields /\ sized.chunk_size = size
          /\ \A k \in Fields \ {"chunk_size"} : sized[k] = s[k]
      BY ONLY <3>3 DEF Fields
    <3> HIDE DEF sized, noted
    <3>5. DOMAIN noted = Fields /\ noted.chunk_size = value
          /\ \A k \in Fields \ {"chunk_size"} : noted[k] = s[k]
      BY ONLY <3>1, <3>2, <3>3, <3>4 DEF Fields, value
    <3> HIDE DEF value
    <3>6. /\ r.number_chunks = noted.number_chunks /\ r.tabled_chunks = noted.tabled_chunks
          /\ r.chunk_starts = noted.chunk_starts /\ r.chunk_count = 0
          /\ r.chunk_totals = noted.chunk_totals /\ r.chunk_size = noted.chunk_size
          /\ r.current_chunk = noted.current_chunk /\ r.point_start = noted.point_start
          /\ r.tell = noted.tell /\ r.readers = noted.readers /\ r.eof = noted.eof
          /\ r.failed = noted.failed /\ r.ok = noted.ok
      BY ONLY <3>5 DEF Fields
    <3> HIDE DEF r
    <3> QED BY ONLY <3>5, <3>6 DEF Fields, c, value, stated
  <2>5. r.chunk_size \in Nat
    BY <1>1, <2>3, <2>4
  <2> HIDE DEF r
  <2>6. Room(r) /\ StartsRight(f, r)
    BY <1>2, <2>4 DEF Room, StartsRight
  <2>7. TotalsRight(f, r) /\ SizeRight(f, r)
    BY <1>2, <2>4 DEF TotalsRight, SizeRight
  <2>8. Starting(f, r)
    BY <1>2, <2>4 DEF Starting
  <2>9. Chunked(f) => r.current_chunk < r.tabled_chunks /\ r.chunk_count <= r.chunk_size
    BY <1>1, <1>2, <1>4, <2>4, <2>5
  <2>10. ~Chunked(f) => /\ r.current_chunk = 0 /\ r.tabled_chunks <= 1
                        /\ r.point_start = f.starts[0]
    BY <1>1, <2>4, <2>8 DEF Starting
  <2>11. r.point_start # 0 /\ r.tell # 0 /\ ~r.failed
    BY <1>2, <2>4, <2>8 DEF Starting
  <2> QED BY <2>4, <2>6, <2>7, <2>8, <2>9, <2>10, <2>11 DEF Tables, r
<1> QED BY <1>3, <1>4

\* The size in use, against the count of a chunk the file has.
LEMMA SizesFit ==
    ASSUME NEW f \in Files, Chunked(f), NEW s, TotalsRight(f, s), SizeRight(f, s),
           s.current_chunk \in 0 .. Len(f.counts) - 1
    PROVE  LET c == s.current_chunk
           IN  /\ f.counts[c + 1] \in Nat \ {0} /\ s.chunk_size \in Nat
               /\ f.counts[c + 1] <= s.chunk_size
               /\ c + 1 < Len(f.counts) \/ Adaptive(f) => s.chunk_size = f.counts[c + 1]
<1> DEFINE c == s.current_chunk
           n == Len(f.counts)
<1>1. n \in Nat \ {0} /\ c \in 0 .. n - 1 /\ f.counts[c + 1] \in Nat \ {0}
  BY NoMoreChunksThanPoints, SizesAreCounts
<1>2. CASE Adaptive(f)
  <2>1. s.chunk_size = f.counts[c + 1]
    BY <1>1, <1>2 DEF SizeRight
  <2> QED BY <1>1, <2>1
<1>3. CASE ~Adaptive(f)
  <2>1. s.chunk_size = f.chunk_size
    BY <1>3 DEF TotalsRight, UntoldSize
  <2>2. /\ f.chunk_size \in Nat
        /\ \A i \in 1 .. n - 1 : f.counts[i] = f.chunk_size
        /\ f.counts[n] <= f.chunk_size
    BY <1>3, FileFacts
  <2> HIDE DEF c, n
  <2>3. c + 1 < n => c + 1 \in 1 .. n - 1
    BY <1>1
  <2>4. c + 1 < n \/ c + 1 = n
    BY <1>1
  <2>5. CASE c + 1 < n
    <3>1. f.counts[c + 1] = f.chunk_size
      BY <2>2, <2>3, <2>5
    <3> QED BY <1>1, <1>3, <2>1, <2>2, <3>1 DEF c
  <2>6. CASE c + 1 = n
    <3>1. f.counts[c + 1] <= f.chunk_size /\ ~(c + 1 < n)
      BY <1>1, <2>2, <2>6
    <3> QED BY <1>1, <1>3, <2>1, <2>2, <3>1 DEF c, n
  <2> QED BY <2>4, <2>5, <2>6
<1> QED BY <1>2, <1>3

\* A chunk read to its end has been read to where the next one begins.
LEMMA AtTheEnd ==
    ASSUME NEW f \in Files, Chunked(f), Intact(f), NEW s, Tables(f, s), Where(f, s),
           s.current_chunk \in Nat, s.current_chunk + 1 < Len(f.counts),
           s.chunk_count = s.chunk_size
    PROVE  /\ s.tell = f.starts[s.current_chunk + 1] /\ ~s.eof
           /\ f.starts[s.current_chunk + 1] \in Nat \ {0}
<1> DEFINE c == s.current_chunk
           n == Len(f.counts)
<1>1. n \in Nat \ {0}
  BY NoMoreChunksThanPoints
<1>2. c \in 0 .. n - 1 /\ c + 1 \in 0 .. n /\ c < n
  BY <1>1
<1>3. f.counts[c + 1] \in Nat \ {0} /\ s.chunk_size = f.counts[c + 1]
  BY <1>2, SizesFit DEF Tables
<1>4. At(f, s)
  BY <1>2, <1>3 DEF Where
<1>5. DecodedOf(s) = f.counts[c + 1] /\ ~s.eof
  BY <1>3, <1>4 DEF At, Inside
<1>6. s.readers # "NULL" /\ s.decoded = f.counts[c + 1]
  BY <1>3, <1>5 DEF DecodedOf
<1>7. s.tell = f.starts[c + 1]
  BY <1>4, <1>6 DEF At, Inside
<1>8. f.starts[c + 1] \in Nat \ {0}
  BY <1>2, StartsPositive
<1> QED BY <1>5, <1>7, <1>8

\* The first chunk of a fresh reader.
LEMMA OpenFresh ==
    ASSUME NEW f \in Files, Compressed(f), Intact(f), Modest(f), NEW s, Fresh(f, s), s.ok
    PROVE  LET r == open_next_chunk(f, s)
           IN  /\ r.ok /\ Tables(f, r) /\ Starting(f, r)
               /\ r.chunk_count = 0 /\ r.current_chunk = 0
<1> DEFINE t == init_dec(f, s)
           noted == IF t.current_chunk = t.tabled_chunks THEN note_chunk_start(t)
                    ELSE size_from_table(t)
           opened == [noted EXCEPT !.chunk_count = 0]
           r == open_next_chunk(f, s)
<1>1. DOMAIN s = Fields /\ s.point_start = 0 /\ s.current_chunk = 0
  BY FreshFields
<1>2. [s EXCEPT !.current_chunk = 0] = s
  <2> DEFINE o == Opened(f)
  <2>1. s = [o EXCEPT !.ok = s.ok]
    BY DEF Fresh
  <2> HIDE DEF o
  <2> QED BY <1>1, <2>1 DEF Fields
<1>3. r = IF t.ok THEN opened ELSE t
  BY <1>1, <1>2 DEF open_next_chunk, Then
<1>4. Typed(f, t)
  BY FreshTyped, InitDecTyped
<1>5. /\ t.ok /\ Opens(f, t) /\ SizeRight(f, t) /\ t.current_chunk = 0
      /\ ~Chunked(f) => t.tabled_chunks = 0
  BY InitFresh
<1>6. Total(f) \in Nat \ {0} /\ GROWTH \in Nat /\ Total(f) + GROWTH + 1 < U32_MAX /\ U32_MAX \in Nat
  BY NoMoreChunksThanPoints, Constants DEF Modest
<1>7. t.tabled_chunks = 0 => t.tabled_chunks + 1 + GROWTH < U32_MAX
  BY <1>6
<1> HIDE DEF t
<1>8. t.ok /\ Opens(f, t) /\ t.current_chunk = 0 /\ (~Chunked(f) => t.tabled_chunks = 0)
        => /\ Tables(f, opened) /\ Starting(f, opened) /\ opened.chunk_count = 0
           /\ opened.current_chunk = 0 /\ opened.ok
  BY <1>4, <1>7, NotedIsRight
<1> HIDE DEF opened
<1> QED BY <1>3, <1>5, <1>8

\* The next chunk of one that has begun; only past the last point may the table
\* know better.
LEMMA OpenNextRight ==
    ASSUME NEW f \in Files, Chunked(f), Intact(f), NEW s, Typed(f, s), Tables(f, s), Where(f, s),
           s.ok, s.chunk_count = s.chunk_size,
           Adaptive(f) => s.current_chunk < Len(f.counts),
           s.current_chunk + 1 = s.tabled_chunks => s.tabled_chunks + 1 + GROWTH < U32_MAX
    PROVE  LET r == open_next_chunk(f, s)
           IN  \/ /\ r.ok /\ Tables(f, r) /\ Starting(f, r)
                  /\ r.chunk_count = 0 /\ r.current_chunk = s.current_chunk + 1
               \/ r = [s EXCEPT !.ok = FALSE] /\ s.current_chunk + 1 >= Len(f.counts)
<1> DEFINE c == s.current_chunk
           n == Len(f.counts)
           next == c + 1
           u == [s EXCEPT !.current_chunk = next]
           t == init_dec(f, u)
           begun == [u EXCEPT !.point_start = u.tell, !.readers = "NULL"]
           noted == IF t.current_chunk = t.tabled_chunks THEN note_chunk_start(t)
                    ELSE size_from_table(t)
           opened == [noted EXCEPT !.chunk_count = 0]
           r == open_next_chunk(f, s)
<1>1. /\ DOMAIN s = Fields /\ c \in Nat /\ s.tabled_chunks \in Nat /\ s.tell \in Nat
      /\ s.number_chunks \in Nat
  BY DEF Typed, Arrays, Starts, Bytes
<1>2. n \in Nat \ {0} /\ Compressed(f)
  BY NoMoreChunksThanPoints DEF Chunked, Compressed
<1>3. s.point_start # 0 /\ s.tell # 0 /\ c < s.tabled_chunks
      /\ Room(s) /\ StartsRight(f, s) /\ TotalsRight(f, s) /\ ~s.failed
  BY DEF Tables
<1>4. next < n => s.tell = f.starts[next] /\ ~s.eof
  BY <1>1, AtTheEnd
<1>5. ~at_tabled_start(s, next) => next >= n
  <2> SUFFICES ASSUME next < n PROVE at_tabled_start(s, next)
    BY <1>1, <1>2
  <2>1. next < s.tabled_chunks => s.chunk_starts[next] = f.starts[next]
    <3>1. next < s.tabled_chunks => next \in 0 .. s.tabled_chunks - 1
      BY <1>1
    <3> HIDE DEF next
    <3> QED BY <1>3, <3>1 DEF StartsRight
  <2> HIDE DEF next
  <2> QED BY <1>4, <2>1 DEF at_tabled_start
<1>6. r = IF ~at_tabled_start(s, next) THEN [s EXCEPT !.ok = FALSE]
          ELSE IF t.ok THEN opened ELSE t
  BY <1>3 DEF open_next_chunk, Then
<1>7. t = begun
  <2>1. s.number_chunks # U32_MAX
    BY <1>1, <1>3, Constants DEF Room
  <2>2. u.number_chunks # U32_MAX
    BY <1>1, <2>1 DEF Fields
  <2> QED BY <2>2 DEF init_dec
<1>8. Typed(f, t)
  <2>1. Typed(f, u)
    <3>1. Arrays(u)
      BY <1>1 DEF Typed, Arrays, Totals, Starts, Size, Fields, chunk_is_tabled
    <3> HIDE DEF next
    <3>2. Bytes(f, u) /\ Flags(u) /\ Counters(f, u)
      BY <1>1 DEF Typed, Bytes, Flags, Counters, Fields
    <3> QED BY <3>1, <3>2 DEF Typed
  <2> HIDE DEF u
  <2> QED BY <2>1, InitDecTyped
<1> HIDE DEF next
<1>9. /\ t.current_chunk = next /\ t.tabled_chunks = s.tabled_chunks
      /\ t.number_chunks = s.number_chunks /\ t.chunk_starts = s.chunk_starts
      /\ t.chunk_totals = s.chunk_totals /\ t.chunk_size = s.chunk_size
      /\ t.readers = "NULL" /\ t.eof = s.eof /\ t.failed = s.failed /\ t.ok
      /\ t.tell = s.tell /\ t.point_start = s.tell
  BY <1>1, <1>7 DEF Fields
<1> HIDE DEF t
<1>10. Opens(f, t)
  <2>1. Starting(f, t) /\ t.point_start # 0
    BY <1>1, <1>3, <1>4, <1>9 DEF Starting
  <2>2. Room(t) /\ StartsRight(f, t) /\ TotalsRight(f, t)
    BY <1>3, <1>9 DEF Room, StartsRight, TotalsRight
  <2>3. t.current_chunk <= t.tabled_chunks /\ (Adaptive(f) => t.current_chunk <= n)
    BY <1>1, <1>2, <1>3, <1>9 DEF next
  <2> QED BY <2>1, <2>2, <2>3 DEF Opens
<1>11. /\ Tables(f, opened) /\ Starting(f, opened) /\ opened.chunk_count = 0
       /\ opened.current_chunk = next /\ opened.ok
  <2>1. t.current_chunk = t.tabled_chunks => t.tabled_chunks + 1 + GROWTH < U32_MAX
    BY <1>9 DEF next
  <2> QED BY <1>2, <1>8, <1>9, <1>10, <2>1, NotedIsRight
<1> HIDE DEF opened, r
<1>12. \/ /\ r.ok /\ Tables(f, r) /\ Starting(f, r)
          /\ r.chunk_count = 0 /\ r.current_chunk = next
       \/ r = [s EXCEPT !.ok = FALSE] /\ next >= n
  BY <1>5, <1>6, <1>9, <1>11
<1> QED BY <1>12 DEF r, next

-----------------------------------------------------------------------------
(* Points decoded of an intact, compressed file. *)

\* What decoding leaves alone.
SameChunks(s, t) ==
    /\ t.chunk_size = s.chunk_size /\ t.chunk_count = s.chunk_count
    /\ t.current_chunk = s.current_chunk /\ t.number_chunks = s.number_chunks
    /\ t.tabled_chunks = s.tabled_chunks /\ t.chunk_totals = s.chunk_totals
    /\ t.chunk_starts = s.chunk_starts /\ t.point_start = s.point_start
    /\ t.failed = s.failed

\* Decoded, the next point of a chunk, and the stream behind it.
NextOf(f, s, c, d) ==
    /\ d.readers = "compressed" /\ d.origin = s.origin /\ d.ok /\ ~d.eof
    /\ d.decoded = s.decoded + 1 /\ d.point = f.firsts[c] + s.decoded
    /\ d.tell = IF f.compressor = "layered" \/ s.decoded + 1 = f.counts[c + 1]
                THEN f.starts[c + 1] ELSE f.starts[c] + (s.decoded + 1)
    /\ SameChunks(s, d)

\* The chunk a decoder is in that was started at the start of one.
LEMMA ChunkOf ==
    ASSUME NEW f \in Files, NEW s, NEW c \in 0 .. Len(f.counts) - 1,
           s.origin = f.starts[c], s.decoded < f.counts[c + 1]
    PROVE  InChunk(f, s) # {} /\ (CHOOSE x \in InChunk(f, s) : TRUE) = c
<1> DEFINE n == Len(f.counts)
<1>1. /\ n \in Nat \ {0} /\ f.starts \in [0 .. n -> Nat]
      /\ \A i, j \in 0 .. n : i < j => f.starts[i] < f.starts[j]
  BY FilesHaveShape DEF Shape
<1>2. c \in InChunk(f, s)
  BY DEF InChunk, Chunks
<1>3. ASSUME NEW x \in InChunk(f, s) PROVE x = c
  <2>1. x \in 0 .. n - 1 /\ f.starts[x] = f.starts[c] /\ c \in 0 .. n - 1
    BY DEF InChunk, Chunks
  <2> HIDE DEF n
  <2>2. x \in 0 .. n /\ c \in 0 .. n /\ x \in Int /\ c \in Int
    BY ONLY <1>1, <2>1
  <2>3. f.starts[x] \in Nat
    BY <1>1, <2>2
  <2>4. ~(x < c) /\ ~(c < x)
    BY <1>1, <2>1, <2>2, <2>3
  <2> QED BY <2>2, <2>4
<1>4. InChunk(f, s) = {c}
  BY <1>2, <1>3
<1> QED BY <1>4

LEMMA CodedRight ==
    ASSUME NEW f \in Files, Compressed(f), Intact(f), f.compressor # "layered",
           NEW s, Typed(f, s), NEW c \in 0 .. Len(f.counts) - 1, ~s.eof, s.ok,
           s.origin = f.starts[c], s.decoded < f.counts[c + 1], NEW gap, NEW first
    PROVE  NextOf(f, s, c, decode_coded(f, s, gap, first))
<1> DEFINE inside == InChunk(f, s)
           x      == CHOOSE y \in inside : TRUE
           after  == IF inside = {} THEN s.tell + gap + (IF first THEN 1 ELSE 0)
                     ELSE IF s.decoded + 1 = f.counts[x + 1] THEN f.starts[x + 1]
                     ELSE s.origin + s.decoded + 1
           point  == IF inside = {} THEN GARBAGE ELSE f.firsts[x] + s.decoded
           to     == IF s.decoded + 1 = f.counts[c + 1] THEN f.starts[c + 1]
                     ELSE f.starts[c] + (s.decoded + 1)
           n      == s.decoded + 1
           p      == f.firsts[c] + s.decoded
           ended  == [s EXCEPT !.eof = TRUE, !.tell = f.end,
                               !.readers = "compressed", !.point = GARBAGE]
           gone   == [s EXCEPT !.readers = "compressed", !.tell = after,
                               !.decoded = n, !.point = point]
           d == decode_coded(f, s, gap, first)
<1>1. inside # {} /\ x = c
  BY ChunkOf
<1>2. /\ f.counts[c + 1] \in Nat \ {0} /\ f.starts[c] \in Nat /\ f.starts[c + 1] \in Nat
      /\ f.starts[c + 1] <= DataEnd(f)
      /\ f.starts[c + 1] = f.starts[c] + f.counts[c + 1] + (IF Compressed(f) THEN 1 ELSE 0)
  BY SizesAreCounts
<1>3. DataEnd(f) <= f.end /\ f.end \in Nat /\ DataEnd(f) \in Nat
  <2>1. f.end >= DataEnd(f) /\ f.end \in Nat
    BY FileFacts DEF Intact
  <2>2. DataEnd(f) \in Nat
    <3>1. Len(f.counts) \in Nat /\ f.starts \in [0 .. Len(f.counts) -> Nat]
      BY FilesHaveShape DEF Shape
    <3> QED BY <3>1 DEF DataEnd
  <2> QED BY <2>1, <2>2
<1>4. s.decoded \in Nat /\ DOMAIN s = Fields
  BY DEF Typed, Bytes, Arrays
<1>5. d = IF s.eof \/ after > f.end THEN ended ELSE gone
  BY DEF decode_coded
<1> HIDE DEF inside, x
<1>6. after = to /\ point = p
  <2>1. s.origin + s.decoded + 1 = f.starts[c] + (s.decoded + 1)
    <3> DEFINE m == s.decoded
               a == f.starts[c]
    <3>1. m \in Nat /\ a \in Nat /\ s.origin = a
      BY <1>2, <1>4
    <3> HIDE DEF m, a
    <3>2. a + m + 1 = a + (m + 1)
      BY ONLY <3>1
    <3> QED BY <3>1, <3>2 DEF m, a
  <2> QED BY <1>1, <2>1
<1>7. to <= f.end
  <2> DEFINE size == f.counts[c + 1]
             m == s.decoded
             a == f.starts[c]
             b == f.starts[c + 1]
             e == DataEnd(f)
  <2>1. b = a + size + 1 /\ b <= e /\ size \in Nat /\ a \in Nat /\ b \in Nat
    BY <1>2
  <2>2. m < size /\ m \in Nat
    BY <1>4
  <2>3. e <= f.end /\ f.end \in Nat /\ e \in Nat
    BY <1>3
  <2>4. to = IF m + 1 = size THEN b ELSE a + (m + 1)
    OBVIOUS
  <2> HIDE DEF size, m, a, b, e, to
  <2> QED BY <2>1, <2>2, <2>3, <2>4
<1>8. to \in Nat
  BY <1>2, <1>4
<1> HIDE DEF after, point, to, n, p
<1>9. ~(s.eof \/ after > f.end)
  BY <1>3, <1>6, <1>7, <1>8
<1> HIDE DEF ended
<1>10. d = gone
  BY <1>5, <1>9
<1>11. /\ d.readers = "compressed" /\ d.decoded = n /\ d.point = p /\ d.tell = to
       /\ d.origin = s.origin /\ d.ok /\ ~d.eof /\ SameChunks(s, d)
  BY <1>4, <1>6, <1>10 DEF Fields, SameChunks
<1> QED BY <1>11 DEF n, p, to, NextOf

LEMMA LoadedRight ==
    ASSUME NEW f \in Files, Compressed(f), Intact(f), f.compressor = "layered",
           NEW s, Typed(f, s), NEW c \in 0 .. Len(f.counts) - 1, ~s.eof, s.ok,
           s.origin = f.starts[c], s.tell = f.starts[c], s.decoded = 0, NEW gap, NEW lucky
    PROVE  NextOf(f, s, c, load_chunk(f, s, gap, lucky))
<1> DEFINE inside  == InChunk(f, s)
           x       == CHOOSE y \in inside : TRUE
           after   == IF inside = {} THEN s.tell + 2 + gap ELSE f.starts[x + 1]
           unsized == s.tell + 2 > f.end
           refused == /\ f.seekable /\ ~unsized
                      /\ after > f.end \/ (inside = {} /\ ~lucky)
           short   == unsized \/ after > f.end
           eof     == IF f.seekable /\ ~s.measured THEN FALSE
                      ELSE s.eof \/ (short /\ ~refused)
           tell    == IF short THEN f.end ELSE after
           point   == IF s.eof \/ s.tell + 1 > f.end \/ inside = {} THEN GARBAGE
                      ELSE f.firsts[x] + s.decoded
           behind  == s.tell + 2
           n       == s.decoded + 1
           to      == f.starts[c + 1]
           measured == [s EXCEPT !.measured = f.seekable, !.eof = eof]
           loaded  == [measured EXCEPT !.readers = "compressed", !.tell = tell,
                                       !.decoded = n, !.point = point]
           d == load_chunk(f, s, gap, lucky)
<1>1. /\ f.counts[c + 1] \in Nat \ {0} /\ f.starts[c] \in Nat /\ to \in Nat
      /\ to <= DataEnd(f) /\ f.firsts[c] \in Nat
      /\ to = f.starts[c] + f.counts[c + 1] + (IF Compressed(f) THEN 1 ELSE 0)
  BY SizesAreCounts
<1>2. inside # {} /\ x = c
  <2>1. s.decoded < f.counts[c + 1]
    BY <1>1
  <2> QED BY <2>1, ChunkOf
<1>3. DataEnd(f) <= f.end /\ f.end \in Nat /\ DataEnd(f) \in Nat
  <2>1. f.end >= DataEnd(f) /\ f.end \in Nat
    BY FileFacts DEF Intact
  <2>2. DataEnd(f) \in Nat
    <3>1. Len(f.counts) \in Nat /\ f.starts \in [0 .. Len(f.counts) -> Nat]
      BY FilesHaveShape DEF Shape
    <3> QED BY <3>1 DEF DataEnd
  <2> QED BY <2>1, <2>2
<1>4. DOMAIN s = Fields
  BY DEF Typed, Arrays
<1>5. d = IF refused THEN [measured EXCEPT !.ok = FALSE, !.tell = behind] ELSE loaded
  BY ONLY TRUE DEF load_chunk, d, loaded, measured, refused, unsized, short, after, eof, tell,
                   point, behind, n, inside, x
<1> HIDE DEF inside, x
<1>6. after = to
  BY <1>2
<1> HIDE DEF after
<1>7. ~unsized /\ ~(s.tell + 1 > f.end)
  <2> DEFINE size == f.counts[c + 1]
             e == DataEnd(f)
  <2>1. to = s.tell + size + 1 /\ to <= e /\ size \in Nat \ {0} /\ s.tell \in Nat
    BY <1>1
  <2>2. e <= f.end /\ f.end \in Nat /\ e \in Nat
    BY <1>3
  <2> HIDE DEF size, e, to
  <2>3. ~(s.tell + 2 > f.end) /\ ~(s.tell + 1 > f.end)
    BY ONLY <2>1, <2>2
  <2> QED BY ONLY <2>3 DEF unsized, behind
<1>8. ~(after > f.end)
  <2> HIDE DEF to
  <2> QED BY <1>1, <1>3, <1>6
<1>9. ~refused /\ ~short
  BY <1>2, <1>7, <1>8
<1>10. eof = FALSE /\ tell = to /\ n = 1
  BY <1>6, <1>9
<1>11. point = f.firsts[c]
  BY <1>1, <1>2, <1>7
<1> HIDE DEF refused, eof, tell, point, behind, n, to
<1>12. d = loaded
  BY <1>5, <1>9
<1>13. /\ d.readers = "compressed" /\ d.decoded = n /\ d.point = f.firsts[c] /\ d.tell = to
       /\ d.origin = s.origin /\ d.ok /\ ~d.eof /\ SameChunks(s, d)
  BY <1>4, <1>10, <1>11, <1>12 DEF Fields, SameChunks
<1>14. n = s.decoded + 1 /\ f.firsts[c] + s.decoded = f.firsts[c]
  BY <1>1 DEF n
<1> QED BY <1>13, <1>14 DEF to, NextOf

LEMMA LayeredRight ==
    ASSUME NEW f \in Files, Intact(f), f.compressor = "layered",
           NEW s, Typed(f, s), NEW c \in 0 .. Len(f.counts) - 1, ~s.eof,
           s.readers = "compressed", s.tell = f.starts[c + 1],
           s.origin = f.starts[c], s.decoded < f.counts[c + 1], NEW lucky
    PROVE  NextOf(f, s, c, decode_layered(f, s, lucky))
<1> DEFINE inside == InChunk(f, s)
           x      == CHOOSE y \in inside : TRUE
           n      == s.decoded + 1
           p      == f.firsts[c] + s.decoded
           ok     == IF inside = {} THEN lucky ELSE f.starts[x + 1] <= f.end
           point  == IF inside = {} THEN GARBAGE ELSE f.firsts[x] + s.decoded
           d      == decode_layered(f, s, lucky)
<1>1. inside # {} /\ x = c
  BY ChunkOf
<1>2. d = [s EXCEPT !.decoded = n, !.ok = ok, !.point = point]
  BY DEF decode_layered
<1>3. f.starts[c + 1] \in Nat /\ f.starts[c + 1] <= DataEnd(f)
  BY SizesAreCounts
<1>4. f.end >= DataEnd(f) /\ f.end \in Nat
  BY FileFacts DEF Intact
<1>5. DataEnd(f) \in Nat
  <2>1. Len(f.counts) \in Nat /\ f.starts \in [0 .. Len(f.counts) -> Nat]
    BY FilesHaveShape DEF Shape
  <2> QED BY <2>1 DEF DataEnd
<1>6. f.starts[c + 1] <= f.end
  BY <1>3, <1>4, <1>5
<1> HIDE DEF inside, x
<1>7. ok = TRUE /\ point = p
  BY <1>1, <1>6
<1> HIDE DEF ok, point, p, n, d
<1>8. DOMAIN s = Fields
  BY DEF Typed, Arrays
<1>9. /\ d.readers = "compressed" /\ d.decoded = n /\ d.point = p /\ d.tell = s.tell
      /\ d.origin = s.origin /\ d.ok /\ ~d.eof /\ SameChunks(s, d)
  BY <1>2, <1>7, <1>8 DEF Fields, SameChunks
<1> QED BY <1>9 DEF n, p, d, NextOf

\* A point decoded short of the end of a chunk is the next one of it.
LEMMA DecodeInside ==
    ASSUME NEW f \in Files, Compressed(f), Intact(f), NEW s, Typed(f, s), Inside(f, s),
           DecodedOf(s) < f.counts[s.current_chunk + 1], s.ok, NEW gap, NEW lucky
    PROVE  LET d == decode_point(f, s, gap, lucky)
           IN  /\ Inside(f, d) /\ DecodedOf(d) = DecodedOf(s) + 1 /\ d.ok /\ ~d.eof
               /\ d.point = f.firsts[s.current_chunk] + DecodedOf(s) /\ SameChunks(s, d)
<1> DEFINE first == s.readers = "NULL"
           begun == [s EXCEPT !.origin = s.tell, !.decoded = 0]
           u == IF first THEN begun ELSE s
           c == s.current_chunk
           k == DecodedOf(s)
           size == f.counts[c + 1]
           d == decode_point(f, s, gap, lucky)
<1>1. DOMAIN s = Fields /\ s.tell \in Nat /\ s.readers \in {"raw", "NULL", "compressed"}
  BY DEF Typed, Arrays, Bytes
<1>2. Typed(f, begun)
  <2>1. Arrays(begun)
    BY <1>1 DEF Typed, Arrays, Totals, Starts, Size, Fields, chunk_is_tabled
  <2>2. Bytes(f, begun) /\ Flags(begun) /\ Counters(f, begun)
    BY <1>1 DEF Typed, Bytes, Flags, Counters, Fields
  <2> QED BY <2>1, <2>2 DEF Typed
<1>3. /\ c \in 0 .. Len(f.counts) - 1 /\ s.point_start = f.starts[c] /\ ~s.eof
      /\ first => s.tell = f.starts[c]
      /\ ~first => s.readers = "compressed" /\ s.origin = f.starts[c]
      /\ f.compressor = "layered" /\ ~first => s.tell = f.starts[c + 1]
  BY DEF Inside
<1>4. /\ size \in Nat \ {0} /\ k \in Nat /\ k < size
  <2>1. size \in Nat \ {0}
    BY <1>3, SizesAreCounts
  <2>2. k \in Nat
    BY DEF DecodedOf, Typed, Bytes
  <2> QED BY <2>1, <2>2
<1>5. /\ Typed(f, u) /\ u.origin = f.starts[c] /\ u.decoded = k /\ ~u.eof /\ u.ok
      /\ u.tell = s.tell /\ SameChunks(s, u) /\ u.current_chunk = c
  <2>1. CASE first
    <3>1. u = begun
      BY <2>1
    <3> HIDE DEF u, c
    <3> QED BY <1>1, <1>2, <1>3, <2>1, <3>1 DEF Fields, SameChunks, DecodedOf, c
  <2>2. CASE ~first
    <3>1. u = s
      BY <2>2
    <3> HIDE DEF u, c
    <3> QED BY <1>1, <1>3, <2>2, <3>1 DEF SameChunks, DecodedOf, c
  <2> QED BY <2>1, <2>2
<1>6. d = IF f.compressor # "layered" THEN decode_coded(f, u, gap, first)
          ELSE IF first THEN load_chunk(f, u, gap, lucky)
          ELSE decode_layered(f, u, lucky)
  BY DEF decode_point
<1>7. DOMAIN u = Fields
  BY <1>5 DEF Typed, Arrays
<1> HIDE DEF u, first, k, size, d
<1>8. NextOf(f, u, c, d)
  <2>1. CASE f.compressor # "layered"
    <3>1. ~u.eof /\ u.ok /\ u.origin = f.starts[c] /\ u.decoded < f.counts[c + 1]
      BY <1>4, <1>5 DEF size
    <3>2. c \in 0 .. Len(f.counts) - 1 /\ d = decode_coded(f, u, gap, first)
      BY <1>3, <1>6, <2>1
    <3> HIDE DEF c
    <3> QED BY <1>5, <2>1, <3>1, <3>2, CodedRight
  <2>2. CASE f.compressor = "layered" /\ first
    <3>1. k = 0
      BY <2>2 DEF first, DecodedOf, k
    <3>2. ~u.eof /\ u.ok /\ u.origin = f.starts[c] /\ u.decoded = 0 /\ u.tell = f.starts[c]
      BY <1>3, <1>5, <2>2, <3>1
    <3>3. c \in 0 .. Len(f.counts) - 1 /\ d = load_chunk(f, u, gap, lucky)
      BY <1>3, <1>6, <2>2
    <3> HIDE DEF c
    <3> QED BY <1>5, <2>2, <3>2, <3>3, LoadedRight
  <2>3. CASE f.compressor = "layered" /\ ~first
    <3>1. u.readers = "compressed" /\ u.tell = f.starts[c + 1] /\ ~u.eof
      BY <1>3, <1>5, <2>3 DEF u
    <3>2. u.origin = f.starts[c] /\ u.decoded < f.counts[c + 1]
      BY <1>4, <1>5 DEF size
    <3>3. c \in 0 .. Len(f.counts) - 1 /\ d = decode_layered(f, u, lucky)
      BY <1>3, <1>6, <2>3
    <3> HIDE DEF c
    <3> QED BY <1>5, <2>3, <3>1, <3>2, <3>3, LayeredRight
  <2> QED BY <2>1, <2>2, <2>3
<1>9. SameChunks(s, d)
  BY <1>5, <1>8 DEF SameChunks, NextOf
<1>10. DecodedOf(d) = k + 1
  BY <1>5, <1>8 DEF DecodedOf, NextOf
<1>11. Inside(f, d)
  <2>1. k + 1 \in 1 .. size
    BY <1>4
  <2>2. d.current_chunk = c /\ d.point_start = f.starts[c] /\ size = f.counts[c + 1]
    BY <1>3, <1>9 DEF SameChunks, size
  <2>3. /\ d.readers = "compressed" /\ ~d.eof /\ d.origin = f.starts[c] /\ d.decoded = k + 1
        /\ d.tell = IF f.compressor = "layered" \/ k + 1 = f.counts[c + 1]
                    THEN f.starts[c + 1] ELSE f.starts[c] + (k + 1)
    BY <1>5, <1>8 DEF NextOf
  <2> QED BY <1>3, <2>1, <2>2, <2>3 DEF Inside
<1>12. d.ok /\ ~d.eof /\ d.point = f.firsts[c] + k
  BY <1>5, <1>8 DEF NextOf
<1> QED BY <1>9, <1>10, <1>11, <1>12 DEF d, k

\* Whatever is decoded, the chunk table stays as it was, and the stream never
\* goes back to the start of the file.
LEMMA DecodeFrame ==
    ASSUME NEW f \in Files, Intact(f), NEW s, Typed(f, s), s.tell # 0, NEW gap \in Nat, NEW lucky
    PROVE  LET d == decode_point(f, s, gap, lucky)
           IN  SameChunks(s, d) /\ d.tell # 0
<1> DEFINE first == s.readers = "NULL"
           begun == [s EXCEPT !.origin = s.tell, !.decoded = 0]
           u == IF first THEN begun ELSE s
           d == decode_point(f, s, gap, lucky)
           extra == IF first THEN 1 ELSE 0
           coded == decode_coded(f, u, gap, first)
           loaded == load_chunk(f, u, gap, lucky)
           layered == decode_layered(f, u, lucky)
<1>1. DOMAIN s = Fields /\ s.tell \in Nat /\ s.decoded \in Nat /\ s.origin \in Nat
  BY DEF Typed, Arrays, Bytes
<1>2. /\ DOMAIN u = Fields /\ SameChunks(s, u) /\ u.tell \in Nat \ {0} /\ u.decoded \in Nat
      /\ u.origin \in Nat
  <2>1. CASE first
    <3>1. u = begun
      BY <2>1
    <3> HIDE DEF u
    <3> QED BY <1>1, <2>1, <3>1 DEF Fields, SameChunks
  <2>2. CASE ~first
    <3>1. u = s
      BY <2>2
    <3> HIDE DEF u
    <3> QED BY <1>1, <2>2, <3>1 DEF SameChunks
  <2> QED BY <2>1, <2>2
<1>3. f.end \in Nat \ {0}
  BY FileFacts
<1>4. d = IF f.compressor # "layered" THEN coded
          ELSE IF first THEN loaded ELSE layered
  BY DEF decode_point
<1> DEFINE inside  == InChunk(f, u)
           x       == CHOOSE y \in inside : TRUE
<1>5. inside # {} => f.starts[x + 1] \in Nat \ {0}
  <2> SUFFICES ASSUME inside # {} PROVE f.starts[x + 1] \in Nat \ {0}
    OBVIOUS
  <2>1. x \in inside
    OBVIOUS
  <2>2. x + 1 \in 0 .. Len(f.counts)
    <3>1. x \in 0 .. Len(f.counts) - 1 /\ Len(f.counts) \in Nat
      BY <2>1, NoMoreChunksThanPoints DEF InChunk, Chunks
    <3> HIDE DEF x
    <3> QED BY <3>1
  <2> HIDE DEF x
  <2> QED BY <2>2, StartsPositive
<1> HIDE DEF u
<1>6. SameChunks(u, coded) /\ coded.tell # 0
  <2> DEFINE after == IF inside = {} THEN u.tell + gap + extra
                      ELSE IF u.decoded + 1 = f.counts[x + 1] THEN f.starts[x + 1]
                      ELSE u.origin + u.decoded + 1
             point == IF inside = {} THEN GARBAGE ELSE f.firsts[x] + u.decoded
             n     == u.decoded + 1
             ended == [u EXCEPT !.eof = TRUE, !.tell = f.end,
                                !.readers = "compressed", !.point = GARBAGE]
             gone  == [u EXCEPT !.readers = "compressed", !.tell = after,
                                !.decoded = n, !.point = point]
  <2>1. coded = IF u.eof \/ after > f.end THEN ended ELSE gone
    BY DEF decode_coded
  <2>2. after # 0
    <3>1. extra \in Nat
      OBVIOUS
    <3> HIDE DEF extra, inside, x
    <3>2. u.tell + gap + extra # 0 /\ u.origin + u.decoded + 1 # 0
      BY <1>2, <3>1
    <3> QED BY <1>5, <3>2
  <2> HIDE DEF after, point, n, coded
  <2>3. SameChunks(u, ended) /\ ended.tell # 0
    BY <1>2, <1>3 DEF Fields, SameChunks
  <2>4. SameChunks(u, gone) /\ gone.tell # 0
    BY <1>2, <2>2 DEF Fields, SameChunks
  <2> QED BY <2>1, <2>3, <2>4
<1>7. SameChunks(u, loaded) /\ loaded.tell # 0
  <2> DEFINE after   == IF inside = {} THEN u.tell + 2 + gap ELSE f.starts[x + 1]
             unsized == u.tell + 2 > f.end
             refused == /\ f.seekable /\ ~unsized
                        /\ after > f.end \/ (inside = {} /\ ~lucky)
             short   == unsized \/ after > f.end
             eof     == IF f.seekable /\ ~u.measured THEN FALSE
                        ELSE u.eof \/ (short /\ ~refused)
             tell    == IF short THEN f.end ELSE after
             point   == IF u.eof \/ u.tell + 1 > f.end \/ inside = {} THEN GARBAGE
                        ELSE f.firsts[x] + u.decoded
             behind  == u.tell + 2
             n       == u.decoded + 1
             measured == [u EXCEPT !.measured = f.seekable, !.eof = eof]
             stopped == [measured EXCEPT !.ok = FALSE, !.tell = behind]
             taken   == [measured EXCEPT !.readers = "compressed", !.tell = tell,
                                         !.decoded = n, !.point = point]
  <2>1. loaded = IF refused THEN stopped ELSE taken
    BY DEF load_chunk
  <2>2. after # 0 /\ behind # 0
    <3> HIDE DEF inside, x
    <3>1. u.tell + 2 + gap # 0
      BY <1>2
    <3> QED BY <1>2, <1>5, <3>1
  <2>3. tell # 0
    BY <1>3, <2>2
  <2> HIDE DEF refused, eof, tell, point, behind, n, loaded
  <2>4. SameChunks(u, stopped) /\ stopped.tell # 0
    BY <1>2, <2>2 DEF Fields, SameChunks
  <2>5. SameChunks(u, taken) /\ taken.tell # 0
    BY <1>2, <2>3 DEF Fields, SameChunks
  <2> HIDE DEF stopped, taken
  <2> QED BY <2>1, <2>4, <2>5
<1>8. SameChunks(u, layered) /\ layered.tell # 0
  <2> DEFINE n     == u.decoded + 1
             ok    == IF inside = {} THEN lucky ELSE f.starts[x + 1] <= f.end
             point == IF inside = {} THEN GARBAGE ELSE f.firsts[x] + u.decoded
  <2>1. layered = [u EXCEPT !.decoded = n, !.ok = ok, !.point = point]
    BY DEF decode_layered
  <2> HIDE DEF n, ok, point, layered
  <2> QED BY <1>2, <2>1 DEF Fields, SameChunks
<1> HIDE DEF d, coded, loaded, layered
<1>9. SameChunks(u, d) /\ d.tell # 0
  BY <1>4, <1>6, <1>7, <1>8
<1>10. SameChunks(s, d)
  BY <1>2, <1>9 DEF SameChunks
<1> QED BY <1>9, <1>10 DEF d

-----------------------------------------------------------------------------
(* Reads of an intact, compressed file. *)

\* p points lie before the decoder: p of the file's chunks, or all of them, after
\* a jump to where there is no more.
Stands(f, s, p) ==
    \/ At(f, s) /\ p = f.firsts[s.current_chunk] + DecodedOf(s)
    \/ /\ p = Total(f) /\ s.current_chunk = Len(f.counts)
       /\ s.readers = "NULL" /\ ~s.eof

\* A read that has come to decode leaves the reader where the point is behind it.
LEMMA DecodeKeeps ==
    ASSUME NEW f \in Files, Compressed(f), Intact(f), NEW s, Typed(f, s),
           Tables(f, s), Where(f, s), s.ok, s.chunk_count < U32_MAX,
           Chunked(f) /\ (Adaptive(f) => s.current_chunk < Len(f.counts))
              => s.chunk_count # s.chunk_size,
           NEW gap \in Nat, NEW lucky \in BOOLEAN, NEW p
    PROVE  LET d == decode_point(f, [s EXCEPT !.chunk_count = (@ + 1) % (U32_MAX + 1)],
                                 gap, lucky)
               r == IF d.ok THEN point_is_whole(d) ELSE d
           IN  /\ Tables(f, r) /\ Where(f, r)
               /\ r.chunk_count = s.chunk_count + 1 /\ r.current_chunk = s.current_chunk
               /\ Stands(f, s, p) /\ p < Total(f)
                    => r.ok /\ r.point = p /\ Stands(f, r, p + 1)
<1> DEFINE c == s.current_chunk
           n == Len(f.counts)
           size == f.counts[c + 1]
           k == DecodedOf(s)
           count == (s.chunk_count + 1) % (U32_MAX + 1)
           e == [s EXCEPT !.chunk_count = count]
           d == decode_point(f, e, gap, lucky)
           whole == [d EXCEPT !.ok = ~d.eof]
           r == IF d.ok THEN point_is_whole(d) ELSE d
<1>1. /\ DOMAIN s = Fields /\ c \in Nat /\ s.chunk_count \in Nat /\ s.chunk_size \in Nat
      /\ s.tell \in Nat /\ k \in Nat
  <2>1. U32_MAX \in Nat
    BY Constants
  <2>2. /\ DOMAIN s = Fields /\ c \in Nat /\ s.chunk_count \in Nat /\ s.chunk_size \in Nat
    BY <2>1 DEF Typed, Arrays, Starts, Counters
  <2>3. s.tell \in Nat /\ k \in Nat
    BY DEF Typed, Bytes, DecodedOf
  <2> QED BY <2>2, <2>3
<1>2. n \in Nat \ {0} /\ (c < n => c \in 0 .. n - 1) /\ (c \in 0 .. n - 1 => c < n)
  BY <1>1, NoMoreChunksThanPoints
<1>3. count = s.chunk_count + 1 /\ count \in 0 .. U32_MAX
  <2> DEFINE m == s.chunk_count
  <2>1. m \in Nat /\ m < U32_MAX /\ U32_MAX \in Nat /\ count = (m + 1) % (U32_MAX + 1)
    BY <1>1, Constants
  <2> HIDE DEF m, count
  <2>2. count = m + 1 /\ count \in 0 .. U32_MAX
    BY ONLY <2>1
  <2> QED BY <2>2 DEF m
<1>4. /\ e.chunk_count = count /\ DOMAIN e = Fields /\ Typed(f, e)
      /\ e.current_chunk = c /\ e.ok /\ e.tell = s.tell /\ DecodedOf(e) = k
      /\ e.chunk_size = s.chunk_size
  <2> HIDE DEF count
  <2>1. e.chunk_count = count /\ DOMAIN e = Fields /\ e.current_chunk = c /\ e.ok
        /\ e.tell = s.tell /\ DecodedOf(e) = k /\ e.chunk_size = s.chunk_size
    BY <1>1 DEF Fields, DecodedOf
  <2>2. Arrays(e)
    BY <1>1 DEF Typed, Arrays, Totals, Starts, Size, Fields, chunk_is_tabled
  <2>3. Bytes(f, e) /\ Flags(e) /\ Counters(f, e)
    BY <1>1, <1>3 DEF Typed, Bytes, Flags, Counters, Fields
  <2> QED BY <2>1, <2>2, <2>3 DEF Typed
<1>5. Chunked(f) /\ (Adaptive(f) => c < n) => s.chunk_count < s.chunk_size
  BY <1>1 DEF Tables
<1>6. Inside(f, s) => Inside(f, e)
  <2> HIDE DEF count
  <2>1. /\ e.point_start = s.point_start /\ e.eof = s.eof /\ e.readers = s.readers
        /\ e.origin = s.origin /\ e.decoded = s.decoded
    BY <1>1 DEF Fields
  <2> HIDE DEF e
  <2> QED BY <1>4, <2>1 DEF Inside
<1>7. Tables(f, e)
  <2> HIDE DEF count
  <2>1. /\ e.number_chunks = s.number_chunks /\ e.tabled_chunks = s.tabled_chunks
        /\ e.chunk_starts = s.chunk_starts /\ e.chunk_totals = s.chunk_totals
        /\ e.point_start = s.point_start /\ e.failed = s.failed
    BY <1>1 DEF Fields
  <2> HIDE DEF e
  <2>2. Room(e) /\ StartsRight(f, e) /\ TotalsRight(f, e) /\ SizeRight(f, e)
    BY <1>4, <2>1 DEF Tables, Room, StartsRight, TotalsRight, SizeRight
  <2>3. Chunked(f) /\ (Adaptive(f) => c < n) => e.chunk_count <= e.chunk_size
    BY <1>1, <1>3, <1>4, <1>5
  <2> QED BY <1>4, <2>1, <2>2, <2>3 DEF Tables
<1> HIDE DEF e, count
<1>8. /\ SameChunks(e, d) /\ d.tell # 0 /\ DOMAIN d = Fields
  <2>1. e.tell # 0
    BY <1>4 DEF Tables
  <2>2. Typed(f, d)
    BY <1>4, DecodePointTyped
  <2> HIDE DEF d
  <2>3. DOMAIN d = Fields
    BY <2>2 DEF Typed, Arrays
  <2> QED BY <1>4, <2>1, <2>3, DecodeFrame DEF d
<1>9. ASSUME Inside(f, s), k < size
      PROVE  /\ Inside(f, d) /\ DecodedOf(d) = k + 1 /\ d.ok /\ ~d.eof
             /\ d.point = f.firsts[c] + k
  <2>1. Inside(f, e) /\ DecodedOf(e) < f.counts[e.current_chunk + 1]
    BY <1>4, <1>6, <1>9
  <2> HIDE DEF c, k
  <2>2. /\ Inside(f, d) /\ DecodedOf(d) = DecodedOf(e) + 1 /\ d.ok /\ ~d.eof
        /\ d.point = f.firsts[e.current_chunk] + DecodedOf(e)
    BY <1>4, <2>1, DecodeInside
  <2> HIDE DEF d
  <2> QED BY <1>4, <2>2
<1> HIDE DEF d
<1>10. r = whole \/ (r = d /\ ~d.ok)
  BY DEF point_is_whole
<1>11. /\ SameChunks(e, r) /\ r.tell # 0 /\ r.readers = d.readers /\ r.origin = d.origin
       /\ r.decoded = d.decoded /\ r.tell = d.tell /\ r.eof = d.eof /\ r.point = d.point
       /\ d.ok => r.ok = ~d.eof
  <2>1. /\ SameChunks(e, whole) /\ whole.tell # 0 /\ whole.readers = d.readers
        /\ whole.origin = d.origin /\ whole.decoded = d.decoded /\ whole.tell = d.tell
        /\ whole.eof = d.eof /\ whole.point = d.point /\ whole.ok = ~d.eof
    BY <1>8 DEF Fields, SameChunks
  <2> HIDE DEF whole, r
  <2> QED BY <1>8, <1>10, <2>1
<1> HIDE DEF r
<1>12. r.chunk_count = s.chunk_count + 1 /\ r.current_chunk = c
  BY <1>3, <1>4, <1>11 DEF SameChunks
<1>13. Inside(f, d) => Inside(f, r) /\ DecodedOf(r) = DecodedOf(d)
  <2>1. d.current_chunk = r.current_chunk /\ d.point_start = r.point_start
    BY <1>8, <1>11 DEF SameChunks
  <2> QED BY <1>11, <2>1 DEF Inside, DecodedOf
<1>14. Tables(f, r)
  <2>1. /\ r.chunk_size = e.chunk_size /\ r.chunk_count = e.chunk_count
        /\ r.current_chunk = e.current_chunk /\ r.number_chunks = e.number_chunks
        /\ r.tabled_chunks = e.tabled_chunks /\ r.chunk_totals = e.chunk_totals
        /\ r.chunk_starts = e.chunk_starts /\ r.point_start = e.point_start
        /\ r.failed = e.failed /\ r.tell # 0
    BY <1>11 DEF SameChunks
  <2>2. Room(r) /\ StartsRight(f, r) /\ TotalsRight(f, r) /\ SizeRight(f, r)
    BY <1>7, <2>1 DEF Tables, Room, StartsRight, TotalsRight, SizeRight
  <2> QED BY <1>7, <2>1, <2>2 DEF Tables
<1>15. ASSUME Chunked(f), c < n, r.chunk_count <= size PROVE At(f, r)
  <2>1. size \in Nat
    BY <1>2, <1>15, SizesAreCounts
  <2>2. s.chunk_count < size /\ s.chunk_count <= size
    <3> HIDE DEF size
    <3> QED BY <1>1, <1>12, <1>15, <2>1
  <2>3. At(f, s)
    BY <1>15, <2>2 DEF Where
  <2>4. Inside(f, s) /\ k = s.chunk_count
    BY <1>15, <2>3 DEF At
  <2>5. Inside(f, r) /\ DecodedOf(r) = k + 1
    BY <1>9, <1>13, <2>2, <2>4
  <2> QED BY <1>12, <2>4, <2>5 DEF At
<1>16. Where(f, r)
  BY <1>12, <1>15 DEF Where
<1>17. ASSUME Stands(f, s, p), p < Total(f)
       PROVE  r.ok /\ r.point = p /\ Stands(f, r, p + 1)
  <2>1. At(f, s) /\ p = f.firsts[c] + k
    <3>1. Total(f) \in Nat
      BY NoMoreChunksThanPoints
    <3> QED BY <1>17, <3>1 DEF Stands
  <2>2. Inside(f, s) /\ c \in 0 .. n - 1
    BY <2>1 DEF At, Inside
  <2>3. /\ size \in Nat \ {0} /\ f.firsts[c] \in Nat /\ f.firsts[c + 1] = f.firsts[c] + size
        /\ c + 1 \in 1 .. n
    BY <2>2, SizesAreCounts
  <2>4. k <= size
    <3>1. k = 0 \/ k \in 1 .. size
      BY <2>2 DEF Inside, DecodedOf
    <3> HIDE DEF size, k
    <3> QED BY <2>3, <3>1
  <2>5. k # size
    <3> SUFFICES ASSUME k = size PROVE FALSE
      OBVIOUS
    <3>1. p = f.firsts[c + 1]
      BY <2>1, <2>3
    <3>2. c + 1 # n
      BY <1>17, <2>3, <3>1, NoMoreChunksThanPoints DEF Total
    <3>3. Chunked(f)
      <4>1. ~Chunked(f) => n = 1
        BY FilesAssumption DEF IsFile
      <4>2. c + 1 \in 1 .. n /\ c + 1 # n /\ n \in Nat
        BY <1>2, <2>3, <3>2
      <4> HIDE DEF n
      <4> QED BY <4>1, <4>2
    <3>4. c + 1 < n
      BY <1>2, <2>3, <3>2
    <3>5. s.chunk_size = size
      <4>1. TotalsRight(f, s) /\ SizeRight(f, s)
        BY DEF Tables
      <4> QED BY <2>2, <3>3, <3>4, <4>1, SizesFit
    <3>6. s.chunk_count = k
      BY <2>1, <3>3 DEF At
    <3> QED BY <1>2, <1>5, <1>1, <2>2, <3>3, <3>5, <3>6
  <2>6. k < size
    <3> HIDE DEF k, size
    <3> QED BY <1>1, <2>3, <2>4, <2>5
  <2>7. Inside(f, r) /\ DecodedOf(r) = k + 1 /\ r.ok /\ r.point = p
    BY <1>9, <1>11, <1>13, <2>1, <2>2, <2>6
  <2>8. Chunked(f) => r.chunk_count = k + 1
    BY <1>12, <2>1 DEF At
  <2>9. p + 1 = f.firsts[c] + (k + 1)
    <3>1. p = f.firsts[c] + k /\ k \in Nat /\ f.firsts[c] \in Nat
      BY <1>1, <2>1, <2>3
    <3> HIDE DEF k
    <3> QED BY ONLY <3>1
  <2>10. At(f, r)
    BY <2>7, <2>8 DEF At
  <2> QED BY <1>12, <2>7, <2>9, <2>10 DEF Stands
<1> QED BY <1>12, <1>14, <1>16, <1>17 DEF r, d, e, count

\* What a read leaves of a reader that has begun.
ReadRight(f, s, r, p) ==
    /\ Tables(f, r) /\ Where(f, r) /\ r.chunk_count <= s.chunk_count + 1
    /\ r.current_chunk <= s.current_chunk + 1
    /\ Stands(f, s, p) /\ p < Total(f)
         => r.ok /\ r.point = p /\ Stands(f, r, p + 1)

\* What the table and the place of a reader depend on.
LEMMA PlaceDependsOn ==
    ASSUME NEW f \in Files, NEW s, NEW b, SameChunks(s, b),
           b.tell = s.tell, b.readers = s.readers, b.origin = s.origin,
           b.decoded = s.decoded, b.eof = s.eof
    PROVE  /\ Tables(f, s) => Tables(f, b)
           /\ Where(f, s) => Where(f, b)
           /\ \A p : Stands(f, s, p) <=> Stands(f, b, p)
<1>1. Tables(f, s) => Tables(f, b)
  BY DEF Tables, Room, StartsRight, TotalsRight, SizeRight, SameChunks
<1>2. (Inside(f, s) <=> Inside(f, b)) /\ DecodedOf(b) = DecodedOf(s)
  BY DEF Inside, DecodedOf, SameChunks
<1>3. At(f, s) <=> At(f, b)
  BY <1>2 DEF At, SameChunks
<1>4. Where(f, s) => Where(f, b)
  BY <1>3 DEF Where, SameChunks
<1>5. \A p : Stands(f, s, p) <=> Stands(f, b, p)
  BY <1>2, <1>3 DEF Stands, SameChunks
<1> QED BY <1>1, <1>4, <1>5

\* Read again, s with another verdict on the call before it.
LEMMA VerdictsDontMatter ==
    ASSUME NEW f \in Files, NEW s, Typed(f, s), NEW ok \in BOOLEAN
    PROVE  LET b == [s EXCEPT !.ok = ok]
           IN  /\ Typed(f, b) /\ b.ok = ok /\ SameChunks(s, b)
               /\ Tables(f, s) => Tables(f, b)
               /\ Where(f, s) => Where(f, b)
               /\ \A p : Stands(f, s, p) <=> Stands(f, b, p)
<1> DEFINE b == [s EXCEPT !.ok = ok]
<1>1. DOMAIN s = Fields
  BY DEF Typed, Arrays
<1>2. Typed(f, b)
  <2>1. Arrays(b)
    BY <1>1 DEF Typed, Arrays, Totals, Starts, Size, Fields, chunk_is_tabled
  <2>2. Bytes(f, b) /\ Counters(f, b)
    BY <1>1 DEF Typed, Bytes, Counters, Fields
  <2>3. Flags(b)
    BY <1>1 DEF Typed, Flags, Fields
  <2> QED BY <2>1, <2>2, <2>3 DEF Typed
<1>3. /\ b.ok = ok /\ SameChunks(s, b) /\ b.tell = s.tell /\ b.readers = s.readers
      /\ b.origin = s.origin /\ b.decoded = s.decoded /\ b.eof = s.eof
  BY <1>1 DEF Fields, SameChunks
<1> HIDE DEF b
<1>4. /\ Tables(f, s) => Tables(f, b)
      /\ Where(f, s) => Where(f, b)
      /\ \A p : Stands(f, s, p) <=> Stands(f, b, p)
  BY <1>3, PlaceDependsOn
<1> QED BY <1>2, <1>3, <1>4 DEF b

\* In a reader that has begun, a read leaves the table right and the decoder
\* where it counts, and where that is short of the last point, works.
LEMMA ReadBegun ==
    ASSUME NEW f \in Files, Compressed(f), Intact(f), NEW s, Typed(f, s),
           Tables(f, s), Where(f, s), s.chunk_count < U32_MAX,
           s.current_chunk + 1 = s.tabled_chunks => s.tabled_chunks + 1 + GROWTH < U32_MAX,
           NEW gap \in Nat, NEW lucky \in BOOLEAN, NEW p
    PROVE  ReadRight(f, s, laz_readpoint_read(f, s, gap, lucky), p)
<1> DEFINE c == s.current_chunk
           n == Len(f.counts)
           begun == [s EXCEPT !.ok = TRUE]
           failed == [begun EXCEPT !.ok = FALSE]
           over == s.chunk_totals # NULL /\ ~chunk_is_tabled(s, c)
           t == IF s.chunk_count = s.chunk_size THEN open_next_chunk(f, begun) ELSE begun
           e == [t EXCEPT !.chunk_count = (@ + 1) % (U32_MAX + 1)]
           d == decode_point(f, e, gap, lucky)
           w == IF d.ok THEN point_is_whole(d) ELSE d
           r == laz_readpoint_read(f, s, gap, lucky)
<1>1. /\ c \in Nat /\ s.chunk_count \in Nat /\ s.chunk_size \in Nat
      /\ n \in Nat \ {0} /\ Total(f) \in Nat
  <2>1. U32_MAX \in Nat /\ n \in Nat \ {0} /\ Total(f) \in Nat
    BY Constants, NoMoreChunksThanPoints
  <2> HIDE DEF n
  <2> QED BY <2>1 DEF Typed, Arrays, Starts, Counters
<1>2. /\ Typed(f, begun) /\ begun.ok = TRUE /\ SameChunks(s, begun)
      /\ Tables(f, begun) /\ Where(f, begun)
      /\ \A q : Stands(f, s, q) <=> Stands(f, begun, q)
  BY VerdictsDontMatter
<1>3. /\ Typed(f, failed) /\ SameChunks(begun, failed)
      /\ Tables(f, failed) /\ Where(f, failed)
  <2> HIDE DEF begun
  <2> QED BY <1>2, VerdictsDontMatter
<1>4. TotalsRight(f, s) /\ SizeRight(f, s)
  BY DEF Tables
<1>5. over <=> Adaptive(f) /\ ~(c < n)
  <2>1. chunk_is_tabled(s, c) <=> Adaptive(f) /\ c < n
    BY <1>4, TotalsAreTabled
  <2>2. s.chunk_totals # NULL <=> Adaptive(f)
    <3>1. chunk_is_tabled(s, 0) <=> Adaptive(f) /\ 0 < n
      BY <1>4, TotalsAreTabled
    <3> QED BY <1>1, <1>4, <3>1 DEF chunk_is_tabled, TotalsRight
  <2> QED BY <2>1, <2>2
<1>6. r = IF over THEN failed ELSE IF ~t.ok THEN t ELSE w
  BY <1>2 DEF laz_readpoint_read, Then
<1> HIDE DEF begun, failed
<1>7. Stands(f, s, p) /\ p < Total(f)
        => At(f, s) /\ c \in 0 .. n - 1 /\ c < n /\ p = f.firsts[c] + DecodedOf(s)
  BY <1>1 DEF Stands, At, Inside
<1>8. CASE over
  <2>1. r = failed
    BY <1>6, <1>8
  <2>2. r.chunk_count = s.chunk_count /\ r.current_chunk = c
    BY <1>2, <1>3, <2>1 DEF SameChunks
  <2> HIDE DEF r
  <2> QED BY <1>1, <1>3, <1>5, <1>7, <1>8, <2>1, <2>2 DEF ReadRight, r
<1>9. CASE ~over /\ s.chunk_count # s.chunk_size
  <2>1. t = begun
    BY <1>9
  <2>2. Chunked(f) /\ (Adaptive(f) => t.current_chunk < n) => t.chunk_count # t.chunk_size
    BY <1>2, <1>9, <2>1 DEF SameChunks
  <2>3. /\ Typed(f, t) /\ Tables(f, t) /\ Where(f, t) /\ t.ok /\ t.chunk_count < U32_MAX
        /\ t.chunk_count = s.chunk_count /\ t.current_chunk = c
    BY <1>2, <2>1 DEF SameChunks
  <2> HIDE DEF t
  <2>4. /\ Tables(f, w) /\ Where(f, w)
        /\ w.chunk_count = t.chunk_count + 1 /\ w.current_chunk = t.current_chunk
        /\ Stands(f, t, p) /\ p < Total(f)
             => w.ok /\ w.point = p /\ Stands(f, w, p + 1)
    BY <2>2, <2>3, DecodeKeeps
  <2> HIDE DEF w
  <2>5. r = w
    BY <1>6, <1>9, <2>3
  <2> HIDE DEF r
  <2> QED BY <1>1, <1>2, <2>1, <2>3, <2>4, <2>5 DEF ReadRight, r
<1>10. CASE ~over /\ s.chunk_count = s.chunk_size
  <2>1. t = open_next_chunk(f, begun)
    BY <1>10
  <2>2. Chunked(f)
    <3>1. ~Chunked(f) => s.chunk_size = U32_MAX
      BY <1>4 DEF TotalsRight, UntoldSize, Adaptive
    <3> QED BY <1>10, <3>1, Constants
  <2>3. Adaptive(f) => c < n
    BY <1>5, <1>10
  <2>4. /\ begun.ok /\ begun.chunk_count = begun.chunk_size
        /\ (Adaptive(f) => begun.current_chunk < n)
        /\ begun.current_chunk = c /\ begun.chunk_count = s.chunk_count
        /\ (begun.current_chunk + 1 = begun.tabled_chunks
              => begun.tabled_chunks + 1 + GROWTH < U32_MAX)
    BY <1>2, <1>10, <2>3 DEF SameChunks
  <2>5. \/ /\ t.ok /\ Tables(f, t) /\ Starting(f, t)
           /\ t.chunk_count = 0 /\ t.current_chunk = c + 1
        \/ t = [begun EXCEPT !.ok = FALSE] /\ c + 1 >= n
    <3> HIDE DEF t, c
    <3> QED BY <1>2, <2>1, <2>2, <2>4, OpenNextRight
  <2>6. Typed(f, t)
    <3>1. begun.chunk_totals # NULL => begun.current_chunk < begun.number_chunks
      BY <1>2, <1>10 DEF chunk_is_tabled, SameChunks
    <3> HIDE DEF t
    <3> QED BY <1>2, <2>1, <3>1, OpenNextTyped
  <2>7. Stands(f, s, p) /\ p < Total(f) => c + 1 < n /\ p = f.firsts[c + 1]
    <3> SUFFICES ASSUME Stands(f, s, p), p < Total(f) PROVE c + 1 < n /\ p = f.firsts[c + 1]
      OBVIOUS
    <3> DEFINE size == f.counts[c + 1]
               k == DecodedOf(s)
    <3>1. c \in 0 .. n - 1 /\ At(f, s) /\ p = f.firsts[c] + k
      BY <1>7
    <3>2. /\ size \in Nat \ {0} /\ f.firsts[c] \in Nat /\ f.firsts[c + 1] = f.firsts[c] + size
          /\ c + 1 \in 1 .. n
      BY <3>1, SizesAreCounts
    <3>3. size <= s.chunk_size
      BY <1>4, <2>2, <3>1, SizesFit
    <3>4. k = s.chunk_size /\ k \in Nat
      BY <1>1, <1>10, <2>2, <3>1 DEF At
    <3>5. k <= size
      <4>1. k = 0 \/ k \in 1 .. size
        BY <3>1 DEF At, Inside, DecodedOf
      <4> HIDE DEF size, k
      <4> QED BY <3>2, <4>1
    <3>6. k = size
      <4> HIDE DEF size, k
      <4> QED BY <3>2, <3>3, <3>4, <3>5
    <3>7. p = f.firsts[c + 1]
      BY <3>1, <3>2, <3>6
    <3>8. c + 1 # n
      BY <1>1, <3>7 DEF Total
    <3>9. c + 1 < n
      <4> HIDE DEF c, n
      <4> QED BY <1>1, <3>2, <3>8
    <3> QED BY <3>7, <3>9
  <2> HIDE DEF t
  <2>8. CASE t.ok /\ Tables(f, t) /\ Starting(f, t)
              /\ t.chunk_count = 0 /\ t.current_chunk = c + 1
    <3>1. Where(f, t)
      <4>1. t.current_chunk \in Nat
        BY <1>1, <2>8
      <4> HIDE DEF c
      <4> QED BY <2>8, <4>1, StartingIsWhere
    <3>2. Chunked(f) /\ (Adaptive(f) => t.current_chunk < n) => t.chunk_count # t.chunk_size
      <4> SUFFICES ASSUME Adaptive(f) => t.current_chunk < n PROVE t.chunk_size # 0
        BY <2>8
      <4>1. TotalsRight(f, t) /\ SizeRight(f, t)
        BY <2>8 DEF Tables
      <4>2. CASE ~Adaptive(f)
        <5>1. f.chunk_size \in 1 .. U32_MAX
          BY <2>2, FileFacts
        <5> QED BY <2>2, <4>1, <4>2, <5>1, Constants DEF TotalsRight, UntoldSize
      <4>3. CASE Adaptive(f)
        <5>1. t.current_chunk \in 0 .. n - 1
          BY <1>1, <2>8, <4>3
        <5>2. f.counts[t.current_chunk + 1] \in Nat \ {0}
          BY <5>1, SizesAreCounts
        <5> QED BY <4>1, <4>3, <5>2 DEF SizeRight
      <4> QED BY <4>2, <4>3
    <3>3. t.chunk_count < U32_MAX
      BY <2>8, Constants
    <3>4. /\ Tables(f, w) /\ Where(f, w)
          /\ w.chunk_count = t.chunk_count + 1 /\ w.current_chunk = t.current_chunk
          /\ Stands(f, t, p) /\ p < Total(f)
               => w.ok /\ w.point = p /\ Stands(f, w, p + 1)
      <4> HIDE DEF c
      <4> QED BY <2>6, <2>8, <3>1, <3>2, <3>3, DecodeKeeps
    <3> HIDE DEF w
    <3>5. r = w
      BY <1>6, <1>10, <2>8
    <3>6. Stands(f, s, p) /\ p < Total(f) => Stands(f, t, p)
      <4> SUFFICES ASSUME c + 1 < n, p = f.firsts[c + 1] PROVE Stands(f, t, p)
        BY <2>7
      <4>1. t.current_chunk \in 0 .. n - 1 /\ p = f.firsts[t.current_chunk]
        BY <1>1, <2>8
      <4>2. At(f, t) /\ DecodedOf(t) = 0
        BY <2>8, <4>1, StartingIsAt
      <4>3. f.firsts[t.current_chunk] \in Nat
        BY <4>1, SizesAreCounts
      <4> QED BY <4>1, <4>2, <4>3 DEF Stands
    <3> HIDE DEF r
    <3>7. r.chunk_count <= s.chunk_count + 1 /\ r.current_chunk <= c + 1
      BY <1>1, <2>8, <3>4, <3>5
    <3> QED BY <3>4, <3>5, <3>6, <3>7 DEF ReadRight, r
  <2>9. CASE t = [begun EXCEPT !.ok = FALSE] /\ c + 1 >= n
    <3>1. t = failed
      BY <2>9 DEF failed
    <3>2. ~t.ok
      BY <2>9, <1>2 DEF Typed, Arrays, Fields
    <3>3. r = failed
      BY <1>6, <1>10, <3>1, <3>2
    <3>4. r.chunk_count = s.chunk_count /\ r.current_chunk = c
      BY <1>2, <1>3, <3>3 DEF SameChunks
    <3>5. ~(Stands(f, s, p) /\ p < Total(f))
      BY <1>1, <2>7, <2>9
    <3> HIDE DEF r
    <3> QED BY <1>1, <1>3, <3>3, <3>4, <3>5 DEF ReadRight, r
  <2> QED BY <2>5, <2>8, <2>9
<1> QED BY <1>8, <1>9, <1>10

\* The first read of a reader as it was opened.
LEMMA ReadFresh ==
    ASSUME NEW f \in Files, Compressed(f), Intact(f), Modest(f), NEW s, Fresh(f, s),
           NEW gap \in Nat, NEW lucky \in BOOLEAN
    PROVE  LET r == laz_readpoint_read(f, s, gap, lucky)
           IN  /\ Tables(f, r) /\ Where(f, r) /\ r.chunk_count <= 1 /\ r.current_chunk = 0
               /\ r.ok /\ r.point = 0 /\ Stands(f, r, 1)
<1> DEFINE n == Len(f.counts)
           begun == [s EXCEPT !.ok = TRUE]
           t == open_next_chunk(f, begun)
           e == [t EXCEPT !.chunk_count = (@ + 1) % (U32_MAX + 1)]
           d == decode_point(f, e, gap, lucky)
           w == IF d.ok THEN point_is_whole(d) ELSE d
           r == laz_readpoint_read(f, s, gap, lucky)
<1>1. /\ n \in Nat \ {0} /\ Total(f) \in Nat /\ n <= Total(f) /\ U32_MAX \in Nat \ {0, 1}
  BY NoMoreChunksThanPoints, Constants
<1>2. DOMAIN s = Fields /\ s.chunk_totals = NULL /\ s.chunk_count = s.chunk_size
  BY FreshFields
<1>3. Fresh(f, begun) /\ begun.ok
  BY FreshAgain
<1>4. r = IF ~t.ok THEN t ELSE w
  BY <1>2 DEF laz_readpoint_read, Then
<1> HIDE DEF begun
<1>5. /\ t.ok /\ Tables(f, t) /\ Starting(f, t)
      /\ t.chunk_count = 0 /\ t.current_chunk = 0
  BY <1>3, OpenFresh
<1>6. Typed(f, t)
  <2>1. Typed(f, begun) /\ begun.chunk_totals = NULL
    BY <1>3, FreshTyped, FreshFields
  <2> QED BY <2>1, OpenNextTyped
<1> HIDE DEF t
<1>7. t.current_chunk \in 0 .. n - 1 /\ t.current_chunk \in Nat
  BY <1>1, <1>5
<1>8. Where(f, t) /\ At(f, t) /\ DecodedOf(t) = 0
  BY <1>5, <1>7, StartingIsWhere, StartingIsAt
<1>9. Stands(f, t, 0)
  <2>1. f.firsts[0] = 0
    BY FilesHaveShape DEF Shape
  <2> QED BY <1>5, <1>8, <2>1 DEF Stands
<1>10. Chunked(f) /\ (Adaptive(f) => t.current_chunk < n) => t.chunk_count # t.chunk_size
  <2> SUFFICES ASSUME Chunked(f) PROVE t.chunk_size # 0
    BY <1>5
  <2>1. TotalsRight(f, t) /\ SizeRight(f, t)
    BY <1>5 DEF Tables
  <2>2. f.counts[t.current_chunk + 1] \in Nat \ {0} /\ t.chunk_size \in Nat
        /\ f.counts[t.current_chunk + 1] <= t.chunk_size
    BY <1>7, <2>1, SizesFit
  <2> DEFINE size == f.counts[t.current_chunk + 1]
  <2> HIDE DEF size
  <2> QED BY <2>2 DEF size
<1>11. t.chunk_count < U32_MAX /\ 0 < Total(f)
  BY <1>1, <1>5
<1>12. /\ Tables(f, w) /\ Where(f, w)
       /\ w.chunk_count = t.chunk_count + 1 /\ w.current_chunk = t.current_chunk
       /\ Stands(f, t, 0) /\ 0 < Total(f)
            => w.ok /\ w.point = 0 /\ Stands(f, w, 0 + 1)
  BY <1>6, <1>5, <1>8, <1>10, <1>11, DecodeKeeps
<1> HIDE DEF w
<1>13. r = w
  BY <1>4, <1>5
<1> HIDE DEF r
<1> QED BY <1>5, <1>9, <1>11, <1>12, <1>13 DEF r

-----------------------------------------------------------------------------
(* Seeks in an intact, compressed file. *)

\* A jump to a chunk the table has stands at its first point.
LEMMA JumpRight ==
    ASSUME NEW f \in Files, Compressed(f), NEW s, Typed(f, s), Tables(f, s), s.ok,
           NEW z \in Nat, z = s.chunk_size \/ Adaptive(f),
           NEW chunk \in 0 .. s.tabled_chunks - 1,
           Adaptive(f) /\ chunk < Len(f.counts) => z = f.counts[chunk + 1],
           NEW u, u = [s EXCEPT !.chunk_size = z]
    PROVE  LET r == jump_to_chunk(f, u, chunk)
           IN  /\ r.ok /\ Tables(f, r) /\ Where(f, r) /\ r.chunk_count = 0
               /\ r.current_chunk = chunk /\ r.chunk_size = z
               /\ chunk <= Len(f.counts) => Stands(f, r, f.firsts[chunk])
<1> DEFINE n == Len(f.counts)
           start == s.chunk_starts[chunk]
           moved == [u EXCEPT !.current_chunk = chunk]
           there == [moved EXCEPT !.tell = start, !.eof = FALSE]
           started == [there EXCEPT !.point_start = there.tell, !.readers = "NULL"]
           counted == [started EXCEPT !.chunk_count = 0]
           r == jump_to_chunk(f, u, chunk)
<1>1. /\ DOMAIN s = Fields /\ s.tabled_chunks \in Nat /\ chunk \in Nat /\ ~s.failed
      /\ s.number_chunks \in Nat /\ s.number_chunks # U32_MAX /\ n \in Nat \ {0}
  <2>1. n \in Nat \ {0} /\ U32_MAX \in Nat /\ GROWTH \in Nat
    BY NoMoreChunksThanPoints, Constants
  <2> HIDE DEF n
  <2>2. DOMAIN s = Fields /\ s.tabled_chunks \in Nat /\ s.number_chunks \in Nat
    BY DEF Typed, Arrays, Starts
  <2>3. ~s.failed /\ s.number_chunks # U32_MAX
    BY <2>1, <2>2 DEF Tables, Room
  <2> QED BY <2>1, <2>2, <2>3
<1>2. Room(s) /\ StartsRight(f, s) /\ TotalsRight(f, s)
  BY DEF Tables
<1>3. start \in Nat \ {0} /\ (chunk < n => start = f.starts[chunk])
  BY <1>2 DEF StartsRight
<1>4. SeekStream(moved, start) = there
  <2> HIDE DEF start
  <2>1. moved.failed = s.failed
    BY <1>1 DEF Fields
  <2> HIDE DEF moved
  <2> QED BY <1>1, <1>3, <2>1 DEF SeekStream
<1>5. there.ok /\ started.ok /\ there.number_chunks # U32_MAX
  BY <1>1 DEF Fields
<1>6. r = counted
  <2>1. u.chunk_starts[chunk] = start
    BY <1>1 DEF Fields
  <2>2. r = Then(Then(SeekStream(moved, start), LAMBDA t : init_dec(f, t)),
                 LAMBDA t : [t EXCEPT !.chunk_count = 0])
    BY <2>1 DEF jump_to_chunk
  <2> HIDE DEF r, moved, start
  <2>3. init_dec(f, there) = started
    BY <1>5 DEF init_dec
  <2> QED BY <1>4, <1>5, <2>2, <2>3 DEF Then
<1> HIDE DEF start, r
<1>7. /\ r.number_chunks = s.number_chunks /\ r.tabled_chunks = s.tabled_chunks
      /\ r.chunk_starts = s.chunk_starts /\ r.chunk_totals = s.chunk_totals
      /\ r.chunk_size = z /\ r.current_chunk = chunk /\ r.chunk_count = 0
      /\ r.point_start = start /\ r.tell = start /\ r.readers = "NULL"
      /\ ~r.eof /\ r.failed = s.failed /\ r.ok = s.ok
  BY <1>1, <1>6 DEF Fields
<1>8. Room(r) /\ StartsRight(f, r) /\ TotalsRight(f, r)
  BY <1>2, <1>7 DEF Room, StartsRight, TotalsRight
<1>9. SizeRight(f, r)
  BY <1>7 DEF SizeRight
<1>10. Starting(f, r)
  BY <1>1, <1>3, <1>7 DEF Starting
<1>11. ~Chunked(f) => chunk = 0 /\ s.tabled_chunks <= 1
  BY <1>1 DEF Tables
<1>12. Tables(f, r)
  <2>1. chunk < s.tabled_chunks
    BY <1>1
  <2>2. ~Chunked(f) => /\ r.current_chunk = 0 /\ r.tabled_chunks <= 1
                       /\ r.point_start = f.starts[0]
    BY <1>1, <1>3, <1>7, <1>11
  <2> QED BY <1>1, <1>3, <1>7, <1>8, <1>9, <2>1, <2>2 DEF Tables
<1>13. Where(f, r)
  BY <1>1, <1>7, <1>10, StartingIsWhere
<1>14. chunk <= n => Stands(f, r, f.firsts[chunk])
  <2>1. CASE chunk = n
    <3>1. f.firsts[chunk] = Total(f)
      BY <2>1 DEF Total
    <3> QED BY <1>7, <2>1, <3>1 DEF Stands
  <2>2. CASE chunk < n
    <3>1. r.current_chunk \in 0 .. n - 1
      BY <1>1, <1>7, <2>2
    <3>2. At(f, r) /\ DecodedOf(r) = 0
      BY <1>7, <1>10, <3>1, StartingIsAt
    <3>3. f.firsts[chunk] \in Nat
      BY <1>7, <3>1, SizesAreCounts
    <3> QED BY <1>7, <3>2, <3>3 DEF Stands
  <2> QED BY <1>1, <2>1, <2>2
<1> QED BY <1>7, <1>12, <1>13, <1>14 DEF r

\* The chunk and the place in it that a division says, where sizes are fixed.
LEMMA FixedPlace ==
    ASSUME NEW f \in Files, Compressed(f), ~Adaptive(f), Modest(f),
           NEW target \in Nat, target <= Total(f)
    PROVE  LET z == UntoldSize(f)
               q == target \div z
           IN  /\ z \in Nat \ {0} /\ q \in 0 .. Len(f.counts) /\ q % (U32_MAX + 1) = q
               /\ f.firsts[q] = q * z /\ target % z = target - f.firsts[q]
               /\ f.firsts[q] <= target
               /\ \A c \in 0 .. Len(f.counts) - 1 : f.firsts[c] = c * z
               /\ q = Len(f.counts) => target = Total(f)
<1> DEFINE n == Len(f.counts)
           z == UntoldSize(f)
           q == target \div z
           m == target % z
<1>1. /\ n \in Nat \ {0} /\ Total(f) \in Nat /\ U32_MAX \in Nat \ {0} /\ Total(f) < U32_MAX
      /\ f.firsts \in [0 .. n -> Nat] /\ f.firsts[0] = 0 /\ Total(f) = f.firsts[n]
  <2>1. GROWTH \in Nat /\ U32_MAX \in Nat \ {0}
    BY Constants
  <2>2. n \in Nat \ {0} /\ Total(f) \in Nat
    BY NoMoreChunksThanPoints
  <2>3. f.firsts \in [0 .. n -> Nat] /\ f.firsts[0] = 0
    BY FilesHaveShape DEF Shape
  <2> QED BY <2>1, <2>2, <2>3 DEF Modest, Total
<1>2. z \in Nat \ {0}
  BY <1>1, FileFacts DEF UntoldSize
<1>3. /\ (\A c \in 0 .. n - 1 : f.firsts[c] = c * z)
      /\ Total(f) <= (n - 1) * z + z
  <2>1. CASE Chunked(f)
    <3>1. z = f.chunk_size
      BY <2>1 DEF UntoldSize
    <3>2. /\ \A c \in 0 .. n - 1 : f.firsts[c] = c * f.chunk_size
          /\ Total(f) = (n - 1) * f.chunk_size + f.counts[n]
          /\ f.counts[n] <= f.chunk_size
      BY <2>1, FixedFirsts
    <3>3. (n - 1) * z \in Nat /\ f.counts[n] \in Nat
      <4>1. n \in 1 .. n /\ \A i \in 1 .. n : f.counts[i] \in Nat
        BY <1>1, FilesHaveShape DEF Shape
      <4>2. n - 1 \in Nat /\ z \in Nat
        BY <1>1, <1>2
      <4> DEFINE e == n - 1
      <4> HIDE DEF e, z
      <4>3. e * z \in Nat
        BY ONLY <4>2, e = n - 1 DEF e
      <4> QED BY <1>1, <4>1, <4>3 DEF e
    <3> DEFINE a == (n - 1) * z
               b == f.counts[n]
    <3>4. Total(f) = a + b /\ a \in Nat /\ b \in Nat /\ b <= z
      BY <3>1, <3>2, <3>3
    <3> HIDE DEF a, b
    <3>5. Total(f) <= a + z
      BY ONLY <1>2, <3>4
    <3> QED BY <3>1, <3>2, <3>5 DEF a
  <2>2. CASE ~Chunked(f)
    <3>1. n = 1 /\ z = U32_MAX
      BY <2>2, FileFacts DEF UntoldSize
    <3> HIDE DEF n, z
    <3> QED BY <1>1, <1>2, <3>1
  <2> QED BY <2>1, <2>2
<1> HIDE DEF n, z
<1>4. q \in Nat /\ m \in Nat /\ target = q * z + m /\ m < z
  BY <1>2
<1> HIDE DEF q, m
<1>5. q * z \in Nat /\ q * z <= target
  BY <1>2, <1>4
<1>6. q <= n
  <2> SUFFICES ASSUME n + 1 <= q PROVE FALSE
    BY <1>1, <1>4
  <2>1. (n - 1) * z + z = n * z /\ n * z + z = (n + 1) * z
    BY <1>1, <1>2
  <2>2. (n + 1) * z <= q * z
    BY <1>1, <1>2, <1>4
  <2>3. n * z \in Nat /\ (n + 1) * z \in Nat
    BY <1>1, <1>2
  <2> QED BY <1>1, <1>2, <1>3, <1>5, <2>1, <2>2, <2>3
<1>7. q = n => target = Total(f) /\ Total(f) = n * z
  <2> SUFFICES ASSUME q = n PROVE target = Total(f) /\ Total(f) = n * z
    OBVIOUS
  <2>1. (n - 1) * z + z = n * z /\ n * z \in Nat
    BY <1>1, <1>2
  <2> QED BY <1>1, <1>3, <1>5, <2>1
<1>8. f.firsts[q] = q * z
  <2>1. CASE q = n
    BY <1>1, <1>7, <2>1
  <2>2. CASE q # n
    <3>1. q \in 0 .. n - 1
      BY <1>1, <1>4, <1>6, <2>2
    <3> QED BY <1>3, <3>1
  <2> QED BY <2>1, <2>2
<1>9. q \in 0 .. n
  BY <1>1, <1>4, <1>6
<1>10. q % (U32_MAX + 1) = q
  <2>1. q <= q * z
    BY <1>2, <1>4
  <2>2. q < U32_MAX + 1
    BY <1>1, <1>4, <1>5, <2>1
  <2> QED BY <1>1, <1>4, <2>2
<1>11. m = target - f.firsts[q]
  BY <1>4, <1>5, <1>8
<1> QED BY <1>2, <1>3, <1>5, <1>7, <1>8, <1>9, <1>10, <1>11 DEF m, q, z, n

\* What a seek plans: how far to pass over, and from where.
PlanRight(f, s, plan, current, target) ==
    /\ plan.state.ok /\ Tables(f, plan.state) /\ Where(f, plan.state)
    /\ plan.state.chunk_count \in {0, s.chunk_count}
    /\ plan.delta \in 0 .. target
    /\ plan.delta > 0 \/ target < Total(f) \/ current < Total(f)
         => Stands(f, plan.state, target - plan.delta)

\* A plan that stands where it starts to pass over.
LEMMA PlanFrom ==
    ASSUME NEW f \in Files, NEW s, NEW current \in Nat, NEW target \in Nat,
           NEW from \in 0 .. target, NEW plan, plan.state.ok, Tables(f, plan.state),
           Where(f, plan.state), plan.state.chunk_count \in {0, s.chunk_count},
           plan.delta = target - from,
           Stands(f, plan.state, from) \/ (from = target /\ target >= Total(f) /\ current >= Total(f))
    PROVE  PlanRight(f, s, plan, current, target)
<1>1. plan.delta \in 0 .. target /\ target - plan.delta = from
  OBVIOUS
<1>2. Total(f) \in Nat
  BY NoMoreChunksThanPoints
<1>3. plan.delta > 0 => from # target
  OBVIOUS
<1> QED BY <1>1, <1>2, <1>3 DEF PlanRight

\* In the chunk it is in, a seek forward passes over what is between.
LEMMA PlanOnward ==
    ASSUME NEW f \in Files, NEW s, NEW t, t.ok, Tables(f, t), Where(f, t),
           t.chunk_count \in {0, s.chunk_count},
           NEW current \in Nat, NEW target \in Nat, target <= Total(f), ~(current > target),
           current < Total(f) => Stands(f, t, current)
    PROVE  PlanRight(f, s, [state |-> t, delta |-> target - current], current, target)
<1> DEFINE plan == [state |-> t, delta |-> target - current]
<1>1. plan.state = t /\ plan.delta = target - current /\ current \in 0 .. target
  OBVIOUS
<1> HIDE DEF plan
<1>2. Total(f) \in Nat
  BY NoMoreChunksThanPoints
<1>3. Stands(f, t, current) \/ (current = target /\ target >= Total(f) /\ current >= Total(f))
  BY <1>2
<1>4. PlanRight(f, s, plan, current, target)
  BY <1>1, <1>3, PlanFrom
<1> QED BY <1>4 DEF plan

\* By the table of an adaptive file.
LEMMA SeekAdaptive ==
    ASSUME NEW f \in Files, Adaptive(f), NEW s, Typed(f, s),
           s.ok, Tables(f, s), Where(f, s),
           NEW current \in Nat, NEW target \in Nat, target <= Total(f),
           current < Total(f) => Stands(f, s, current)
    PROVE  PlanRight(f, s, seek_by_table(f, s, current, target), current, target)
<1> DEFINE n == Len(f.counts)
           chunk == search_chunk_table(s, target, 0, s.number_chunks)
           z == s.chunk_totals[chunk + 1] - s.chunk_totals[chunk]
           sized == [s EXCEPT !.chunk_size = z]
           within == target - s.chunk_totals[chunk]
           jumped == jump_to_chunk(f, sized, chunk)
           far == [state |-> jumped, delta |-> within]
           near == [state |-> sized, delta |-> target - current]
           from == f.firsts[chunk]
           plan == seek_by_table(f, s, current, target)
<1>1. /\ n \in Nat \ {0} /\ Compressed(f) /\ Chunked(f) /\ DOMAIN s = Fields
      /\ f.firsts[0] = 0 /\ f.firsts \in [0 .. n -> Nat]
  <2>1. n \in Nat \ {0} /\ Compressed(f) /\ Chunked(f)
    BY NoMoreChunksThanPoints DEF Adaptive, Chunked, Compressed
  <2>2. DOMAIN s = Fields
    BY DEF Typed, Arrays
  <2> QED BY <2>1, <2>2, FilesHaveShape DEF Shape
<1>2. /\ s.chunk_totals = f.firsts /\ s.number_chunks = n /\ s.tabled_chunks = n + 1
      /\ TotalsRight(f, s) /\ SizeRight(f, s)
  BY DEF Tables, TotalsRight
<1>3. chunk \in 0 .. n - 1
  <2>1. n \in Nat /\ 0 < n
    BY <1>1
  <2> HIDE DEF n
  <2>2. search_chunk_table(s, target, 0, n) \in 0 .. n - 1
    BY <2>1, SearchStaysInTheTable
  <2> QED BY <1>2, <2>2
<1>4. f.firsts[chunk] <= target
  <2>1. n \in Nat /\ n > 0 /\ s.chunk_totals[0] = 0
    BY <1>1, <1>2
  <2> HIDE DEF n
  <2>2. s.chunk_totals[search_chunk_table(s, target, 0, n)] <= target
    BY <2>1, SearchIsAtOrBefore
  <2> QED BY <1>2, <2>2
<1>5. chunk_is_tabled(s, 0)
  BY <1>1, <1>2, TotalsAreTabled
<1>6. plan = IF chunk >= s.tabled_chunks THEN plan
             ELSE IF s.current_chunk # chunk \/ current > target THEN far ELSE near
  BY <1>5 DEF seek_by_table
<1> HIDE DEF chunk, plan
<1>7. /\ z = f.counts[chunk + 1] /\ z \in Nat \ {0} /\ f.firsts[chunk] \in Nat
  BY <1>2, <1>3, SizesAreCounts
<1>8. within = target - f.firsts[chunk]
  BY <1>2
<1> HIDE DEF z, within
<1>9. /\ jumped.ok /\ Tables(f, jumped) /\ Where(f, jumped) /\ jumped.chunk_count = 0
      /\ Stands(f, jumped, f.firsts[chunk])
  <2>1. chunk \in 0 .. s.tabled_chunks - 1 /\ chunk <= n
    BY <1>1, <1>2, <1>3
  <2>2. z = s.chunk_size \/ Adaptive(f)
    OBVIOUS
  <2>3. sized = [s EXCEPT !.chunk_size = z] /\ z \in Nat
    BY <1>7
  <2>4. Adaptive(f) /\ chunk < Len(f.counts) => z = f.counts[chunk + 1]
    BY <1>7
  <2> HIDE DEF sized
  <2>5. /\ jumped.ok /\ Tables(f, jumped) /\ Where(f, jumped) /\ jumped.chunk_count = 0
        /\ chunk <= Len(f.counts) => Stands(f, jumped, f.firsts[chunk])
    BY <1>1, <2>1, <2>2, <2>3, <2>4, JumpRight
  <2> QED BY <2>1, <2>5
<1>10. PlanRight(f, s, far, current, target)
  <2>1. far.state = jumped /\ far.delta = target - f.firsts[chunk]
    BY <1>8
  <2>2. f.firsts[chunk] \in 0 .. target
    BY <1>4, <1>7
  <2> HIDE DEF far, jumped, from
  <2> QED BY <1>9, <2>1, <2>2, PlanFrom DEF from
<1>11. ASSUME s.current_chunk = chunk, ~(current > target)
       PROVE  PlanRight(f, s, near, current, target)
  <2>1. s.chunk_size = z
    <3>1. s.current_chunk < n
      BY <1>1, <1>3, <1>11
    <3> QED BY <1>2, <1>7, <1>11, <3>1 DEF SizeRight
  <2>2. /\ SameChunks(s, sized) /\ sized.tell = s.tell /\ sized.readers = s.readers
        /\ sized.origin = s.origin /\ sized.decoded = s.decoded /\ sized.eof = s.eof
        /\ sized.ok = s.ok
    BY <1>1, <2>1 DEF Fields, SameChunks
  <2> HIDE DEF sized
  <2>3. /\ sized.ok /\ Tables(f, sized) /\ Where(f, sized)
        /\ current < Total(f) => Stands(f, sized, current)
        /\ sized.chunk_count = s.chunk_count
    BY <2>2, PlaceDependsOn DEF SameChunks
  <2> QED BY <1>11, <2>3, PlanOnward
<1>12. ~(chunk >= s.tabled_chunks)
  BY <1>1, <1>2, <1>3
<1> HIDE DEF far, near
<1>13. PlanRight(f, s, plan, current, target)
  BY <1>6, <1>10, <1>11, <1>12
<1> QED BY <1>13 DEF plan

\* As a jump to a chunk, of a reader whose chunks have a fixed size.
LEMMA JumpFixed ==
    ASSUME NEW f \in Files, Compressed(f), ~Adaptive(f), NEW s, Typed(f, s),
           Tables(f, s), s.ok, NEW chunk \in 0 .. s.tabled_chunks - 1
    PROVE  LET r == jump_to_chunk(f, s, chunk)
           IN  /\ r.ok /\ Tables(f, r) /\ Where(f, r) /\ r.chunk_count = 0
               /\ r.current_chunk = chunk /\ r.chunk_size = s.chunk_size
               /\ chunk <= Len(f.counts) => Stands(f, r, f.firsts[chunk])
<1> DEFINE r == jump_to_chunk(f, s, chunk)
           z == s.chunk_size
           u == [s EXCEPT !.chunk_size = z]
           start == s.chunk_starts[chunk]
           a == [s EXCEPT !.current_chunk = chunk]
           b == [u EXCEPT !.current_chunk = chunk]
           q == jump_to_chunk(f, u, chunk)
<1>1. z \in Nat /\ DOMAIN s = Fields
  <2>1. U32_MAX \in Nat
    BY Constants
  <2> QED BY <2>1 DEF Typed, Arrays, Counters
<1>2. /\ q.ok /\ Tables(f, q) /\ Where(f, q) /\ q.chunk_count = 0
      /\ q.current_chunk = chunk /\ q.chunk_size = z
      /\ chunk <= Len(f.counts) => Stands(f, q, f.firsts[chunk])
  <2>1. u = [s EXCEPT !.chunk_size = z]
    OBVIOUS
  <2> HIDE DEF u
  <2>2. z = s.chunk_size \/ Adaptive(f)
    OBVIOUS
  <2> HIDE DEF z
  <2> QED BY <1>1, <2>1, <2>2, JumpRight
<1>3. u.chunk_starts = s.chunk_starts
  BY <1>1 DEF Fields
<1>4. a = b
  BY <1>1 DEF Fields
<1> HIDE DEF u, a, b
<1>5. r = q
  <2>1. r = Then(Then(SeekStream(a, start), LAMBDA t : init_dec(f, t)),
                 LAMBDA t : [t EXCEPT !.chunk_count = 0])
    BY DEF jump_to_chunk, a
  <2>2. q = Then(Then(SeekStream(b, start), LAMBDA t : init_dec(f, t)),
                 LAMBDA t : [t EXCEPT !.chunk_count = 0])
    BY <1>3 DEF jump_to_chunk, b
  <2> HIDE DEF r, q
  <2> QED BY <1>4, <2>1, <2>2
<1> HIDE DEF r, q
<1> QED BY <1>2, <1>5 DEF r

\* By the table, or by the size, of a file whose chunks have one.
LEMMA SeekFixed ==
    ASSUME NEW f \in Files, Compressed(f), ~Adaptive(f), Modest(f), NEW s, Typed(f, s),
           s.ok, Tables(f, s), Where(f, s), s.tabled_chunks > 0,
           NEW current \in Nat, NEW target \in Nat, target <= Total(f),
           current < Total(f) => Stands(f, s, current)
    PROVE  PlanRight(f, s, seek_by_table(f, s, current, target), current, target)
<1> DEFINE n == Len(f.counts)
           z == UntoldSize(f)
           q == target \div z
           chunk == (target \div s.chunk_size) % (U32_MAX + 1)
           within == target % s.chunk_size
           last == s.tabled_chunks - 1
           known == IF s.current_chunk < last THEN jump_to_chunk(f, s, last) ELSE s
           ahead == (known.chunk_size * (chunk - known.current_chunk)
                     - known.chunk_count) % (U32_MAX + 1)
           jumped == jump_to_chunk(f, s, chunk)
           beyond == [state |-> known, delta |-> within + ahead]
           far == [state |-> jumped, delta |-> within]
           near == [state |-> s, delta |-> target - current]
           plan == seek_by_table(f, s, current, target)
<1>1. /\ n \in Nat \ {0} /\ Total(f) \in Nat /\ Total(f) < U32_MAX /\ U32_MAX \in Nat \ {0}
      /\ f.firsts \in [0 .. n -> Nat]
  <2>1. GROWTH \in Nat /\ U32_MAX \in Nat \ {0}
    BY Constants
  <2>2. n \in Nat \ {0} /\ Total(f) \in Nat
    BY NoMoreChunksThanPoints
  <2>3. f.firsts \in [0 .. n -> Nat]
    BY FilesHaveShape DEF Shape
  <2> QED BY <2>1, <2>2, <2>3 DEF Modest
<1>2. /\ TotalsRight(f, s) /\ SizeRight(f, s) /\ s.chunk_size = z /\ s.tabled_chunks \in Nat
      /\ s.current_chunk \in Nat /\ s.chunk_count \in Nat
  <2>1. TotalsRight(f, s) /\ SizeRight(f, s)
    BY DEF Tables
  <2>2. s.chunk_size = z
    BY <2>1 DEF TotalsRight
  <2>3. s.tabled_chunks \in Nat /\ s.current_chunk \in Nat /\ s.chunk_count \in Nat
    BY <1>1 DEF Typed, Arrays, Starts, Counters
  <2> QED BY <2>1, <2>2, <2>3
<1>3. /\ z \in Nat \ {0} /\ q \in 0 .. n /\ f.firsts[q] = q * z
      /\ q % (U32_MAX + 1) = q
      /\ target % z = target - f.firsts[q] /\ f.firsts[q] <= target
      /\ \A c \in 0 .. n - 1 : f.firsts[c] = c * z
      /\ q = n => target = Total(f)
  BY FixedPlace
<1>4. chunk = q /\ within = target - f.firsts[q]
  BY <1>2, <1>3
<1>5. ~chunk_is_tabled(s, 0)
  BY <1>2, TotalsAreTabled
<1>6. plan = IF chunk >= s.tabled_chunks THEN beyond
             ELSE IF s.current_chunk # chunk \/ current > target THEN far ELSE near
  BY <1>5 DEF seek_by_table
<1> HIDE DEF plan, chunk, within, z, q
<1>7. f.firsts[q] \in Nat /\ q \in Nat
  BY <1>1, <1>3
<1> DEFINE from == f.firsts[q]
<1>8. ASSUME q < s.tabled_chunks PROVE PlanRight(f, s, far, current, target)
  <2>1. q \in 0 .. s.tabled_chunks - 1 /\ q <= n
    <3> DEFINE m == s.tabled_chunks
    <3>1. n \in Nat /\ m \in Nat /\ q \in 0 .. n /\ q < m
      BY <1>1, <1>2, <1>3, <1>8
    <3> HIDE DEF m, n
    <3> QED BY ONLY <3>1 DEF m, n
  <2>2. /\ jumped.ok /\ Tables(f, jumped) /\ Where(f, jumped) /\ jumped.chunk_count = 0
        /\ Stands(f, jumped, from)
    <3>1. jumped = jump_to_chunk(f, s, q)
      BY <1>4
    <3> HIDE DEF jumped
    <3> QED BY <2>1, <3>1, JumpFixed
  <2>3. far.state = jumped /\ far.delta = target - from /\ from \in 0 .. target
    BY <1>3, <1>4, <1>7
  <2> HIDE DEF far, jumped, from
  <2> QED BY <2>2, <2>3, PlanFrom
<1>9. ASSUME ~(current > target) PROVE PlanRight(f, s, near, current, target)
  BY <1>9, PlanOnward
<1>10. ASSUME q >= s.tabled_chunks PROVE PlanRight(f, s, beyond, current, target)
  <2>1. last \in 0 .. n - 1 /\ last < q /\ last \in 0 .. s.tabled_chunks - 1
    <3> DEFINE m == s.tabled_chunks
    <3>1. n \in Nat /\ m \in Nat \ {0} /\ q \in 0 .. n /\ q >= m /\ last = m - 1
      BY <1>1, <1>2, <1>3, <1>10
    <3> HIDE DEF m, n, last
    <3>2. last \in 0 .. n - 1 /\ last < q /\ last \in 0 .. m - 1
      BY ONLY <3>1
    <3> QED BY <3>2 DEF m
  <2> HIDE DEF last
  <2>2. Chunked(f)
    <3>1. n = 1 => s.tabled_chunks = 1 /\ q = 1
      <4> HIDE DEF n
      <4> QED BY <1>2, <1>3, <1>10
    <3>2. ~Chunked(f) => n = 1 /\ z = U32_MAX
      BY FileFacts DEF z, UntoldSize
    <3> SUFFICES ASSUME ~Chunked(f) PROVE FALSE
      OBVIOUS
    <3>3. f.firsts[q] = U32_MAX
      BY <1>1, <1>3, <3>1, <3>2
    <3>4. q = n /\ f.firsts[n] = Total(f)
      BY <3>1, <3>2 DEF Total
    <3> QED BY <1>1, <3>3, <3>4
  <2>3. s.current_chunk <= last
    BY <1>2, <2>2 DEF Tables, last
  <2> DEFINE k == IF s.current_chunk < last THEN 0 ELSE s.chunk_count
             start == f.firsts[last]
  <2>4. /\ start = last * z /\ start \in Nat /\ f.counts[last + 1] \in Nat \ {0}
        /\ f.counts[last + 1] <= z /\ z <= f.counts[last + 1]
    <3>1. f.counts[last + 1] \in Nat \ {0}
      BY <2>1, SizesAreCounts
    <3>2. start = last * z /\ start \in Nat
      BY <1>3, <2>1, SizesAreCounts
    <3>3. last + 1 < n \/ last + 1 = n
      BY <1>1, <2>1
    <3>4. z = f.chunk_size /\ (\A c \in 1 .. n - 1 : f.counts[c] = f.chunk_size)
          /\ f.counts[n] <= f.chunk_size
      BY <2>2, FileFacts DEF z, UntoldSize
    <3>5. CASE last + 1 < n
      <4>1. last + 1 \in 1 .. n - 1
        BY <1>1, <2>1, <3>5
      <4> QED BY <3>1, <3>2, <3>4, <4>1
    <3>6. CASE last + 1 = n
      <4>1. q = n
        <5>1. q \in 0 .. n /\ n \in Nat /\ last \in 0 .. n - 1 /\ last < q /\ last + 1 = n
          BY <1>1, <1>3, <2>1, <3>6
        <5> HIDE DEF n
        <5> QED BY ONLY <5>1
      <4>2. Total(f) = n * z
        BY <1>3, <4>1 DEF Total
      <4>3. Total(f) = (n - 1) * z + f.counts[n]
        BY <2>2, <3>4, FixedFirsts
      <4>4. n * z = (n - 1) * z + z /\ (n - 1) * z \in Nat
        <5>1. n \in Nat \ {0} /\ z \in Nat
          BY <1>1, <1>3
        <5> HIDE DEF n
        <5> QED BY ONLY <5>1
      <4> DEFINE a == (n - 1) * z
                 b == f.counts[n]
      <4>5. a + z = a + b /\ a \in Nat /\ b \in Nat
        BY <3>1, <3>6, <4>2, <4>3, <4>4
      <4> HIDE DEF a, b
      <4>6. b = z
        BY <1>3, <4>5
      <4> QED BY <3>1, <3>2, <3>6, <4>6 DEF b
    <3> QED BY <3>3, <3>5, <3>6
  <2>5. /\ known.ok /\ Tables(f, known) /\ Where(f, known)
        /\ known.chunk_count = k /\ known.current_chunk = last /\ known.chunk_size = z
        /\ k \in 0 .. z /\ Stands(f, known, start + k)
    <3>1. CASE s.current_chunk < last
      <4>1. known = jump_to_chunk(f, s, last) /\ k = 0
        BY <3>1
      <4>2. last <= n
        BY <1>1, <2>1
      <4> HIDE DEF known, k
      <4>3. /\ known.ok /\ Tables(f, known) /\ Where(f, known)
            /\ known.chunk_count = 0 /\ known.current_chunk = last
            /\ known.chunk_size = s.chunk_size /\ Stands(f, known, f.firsts[last])
        BY <2>1, <4>1, <4>2, JumpFixed
      <4>4. start + k = start
        BY <2>4, <4>1
      <4> QED BY <1>2, <1>3, <4>1, <4>3, <4>4
    <3>2. CASE ~(s.current_chunk < last)
      <4>1. known = s /\ k = s.chunk_count /\ s.current_chunk = last
        BY <1>2, <2>1, <2>3, <3>2
      <4> HIDE DEF known, k
      <4>2. k <= z
        BY <1>2, <2>2, <4>1 DEF Tables
      <4>3. s.current_chunk < n /\ k <= f.counts[last + 1]
        <5> DEFINE size == f.counts[last + 1]
        <5>1. z <= size /\ size \in Nat
          BY <2>4
        <5> HIDE DEF size
        <5>2. k \in Nat /\ z \in Nat
          BY <1>2, <1>3, <4>1
        <5>3. k <= size
          BY ONLY <4>2, <5>1, <5>2
        <5> QED BY <1>1, <2>1, <4>1, <5>3 DEF size
      <4>4. At(f, s)
        BY <2>2, <4>1, <4>3 DEF Where
      <4>5. DecodedOf(s) = k
        BY <2>2, <4>1, <4>4 DEF At
      <4>6. Stands(f, s, start + k)
        BY <4>1, <4>4, <4>5 DEF Stands
      <4> QED BY <1>2, <1>3, <4>1, <4>2, <4>6
    <3> QED BY <3>1, <3>2
  <2> HIDE DEF known, k
  <2>6. /\ ahead = f.firsts[q] - (start + k) /\ start + k \in 0 .. f.firsts[q]
    <3> DEFINE a == start + k
               b == f.firsts[q]
    <3>1. z * (q - last) = b - start
      <4>1. b = q * z /\ start = last * z
        BY <1>3, <2>4
      <4>2. last \in Nat
        BY <2>1
      <4>3. z * (q - last) = q * z - last * z
        BY <1>3, <1>7, <4>2
      <4> QED BY <4>1, <4>3
    <3>2. z <= z * (q - last)
      <4>1. q - last \in Nat \ {0}
        BY <1>7, <2>1
      <4> DEFINE m == q - last
      <4> HIDE DEF m
      <4>2. z \in Nat /\ m \in Nat \ {0}
        BY <1>3, <4>1 DEF m
      <4>3. z <= z * m
        BY ONLY <4>2
      <4> QED BY <4>3 DEF m
    <3>3. b \in Nat /\ b < U32_MAX /\ b <= target
      BY <1>1, <1>3, <1>7
    <3>4. ahead = (z * (q - last) - k) % (U32_MAX + 1)
      BY <1>4, <2>5
    <3>5. z * (q - last) - k = b - a /\ a \in 0 .. b /\ b - a \in 0 .. U32_MAX
      <4> HIDE DEF b, start
      <4>1. k \in 0 .. z /\ z \in Nat /\ start \in Nat /\ z <= b - start
        BY <1>3, <2>4, <2>5, <3>1, <3>2
      <4> QED BY <1>1, <3>1, <3>3, <4>1
    <3> DEFINE e == b - a
    <3>6. ahead = e % (U32_MAX + 1)
      BY <3>4, <3>5
    <3>7. e \in 0 .. U32_MAX
      BY <3>5
    <3> HIDE DEF e, ahead
    <3>8. ahead = e
      <4>1. U32_MAX \in Nat
        BY <1>1
      <4> QED BY ONLY <3>6, <3>7, <4>1
    <3> QED BY <3>5, <3>8 DEF e
  <2> HIDE DEF ahead
  <2> DEFINE place == start + k
  <2>7. /\ beyond.state = known /\ beyond.delta = target - place /\ place \in 0 .. target
    <3> DEFINE b == f.firsts[q]
    <3>1. within = target - b /\ ahead = b - place /\ place \in 0 .. b /\ b <= target
          /\ b \in Nat
      BY <1>3, <1>4, <1>7, <2>6
    <3> HIDE DEF b, place, ahead, within
    <3>2. within + ahead = target - place /\ place \in 0 .. target
      BY <3>1
    <3> QED BY <3>2
  <2>8. known.chunk_count \in {0, s.chunk_count}
    BY <2>5 DEF k
  <2>9. Stands(f, known, place)
    BY <2>5
  <2> HIDE DEF beyond, place
  <2> QED BY <2>5, <2>7, <2>8, <2>9, PlanFrom
<1>11. q >= s.tabled_chunks \/ q < s.tabled_chunks
  BY <1>2, <1>7
<1> HIDE DEF far, near, beyond
<1>12. PlanRight(f, s, plan, current, target)
  BY <1>4, <1>6, <1>8, <1>9, <1>10, <1>11
<1> QED BY <1>12 DEF plan

\* With no table, of points in one chunk.
LEMMA SeekFromStartRight ==
    ASSUME NEW f \in Files, Compressed(f), ~Chunked(f), Intact(f), NEW s, Typed(f, s),
           s.ok, Tables(f, s), Where(f, s),
           NEW current \in Nat, NEW target \in Nat, target <= Total(f),
           current < Total(f) => Stands(f, s, current)
    PROVE  PlanRight(f, s, seek_from_start(f, s, current, target), current, target)
<1> DEFINE start == s.point_start
           there == [s EXCEPT !.tell = start, !.eof = FALSE]
           back == [there EXCEPT !.point_start = there.tell, !.readers = "NULL"]
           far == [state |-> back, delta |-> target]
           near == [state |-> s, delta |-> target - current]
           plan == seek_from_start(f, s, current, target)
<1>1. /\ DOMAIN s = Fields /\ ~s.failed /\ s.number_chunks # U32_MAX
      /\ s.current_chunk = 0 /\ start = f.starts[0] /\ Len(f.counts) = 1
  <2>1. DOMAIN s = Fields /\ s.number_chunks \in Nat /\ s.tabled_chunks \in Nat
    BY DEF Typed, Arrays, Starts
  <2>2. s.number_chunks # U32_MAX
    BY <2>1, Constants DEF Tables, Room
  <2>3. ~s.failed /\ s.current_chunk = 0 /\ start = f.starts[0]
    BY DEF Tables
  <2> QED BY <2>1, <2>2, <2>3, FileFacts
<1>2. f.starts[0] \in Nat \ {0} /\ f.firsts[0] = 0
  <2>1. f.firsts[0] = 0
    BY FilesHaveShape DEF Shape
  <2>2. 0 \in 0 .. Len(f.counts)
    BY <1>1
  <2> QED BY <2>1, <2>2, StartsPositive
<1>3. SeekStream(s, start) = there
  BY <1>1, <1>2 DEF SeekStream
<1>4. there.ok /\ there.number_chunks # U32_MAX
  BY <1>1 DEF Fields
<1>5. init_dec(f, there) = back
  BY <1>4 DEF init_dec
<1> HIDE DEF there
<1>6. Then(SeekStream(s, start), LAMBDA t : init_dec(f, t)) = back
  BY <1>3, <1>4, <1>5 DEF Then
<1>7. plan = IF current > target THEN far ELSE near
  <2> HIDE DEF back
  <2> QED BY <1>6 DEF seek_from_start
<1>8. /\ back.number_chunks = s.number_chunks /\ back.tabled_chunks = s.tabled_chunks
      /\ back.chunk_starts = s.chunk_starts /\ back.chunk_totals = s.chunk_totals
      /\ back.chunk_size = s.chunk_size /\ back.current_chunk = 0
      /\ back.chunk_count = s.chunk_count /\ back.point_start = f.starts[0]
      /\ back.tell = f.starts[0] /\ back.readers = "NULL"
      /\ ~back.eof /\ ~back.failed /\ back.ok
  BY <1>1 DEF Fields, there
<1> HIDE DEF back
<1>9. Starting(f, back)
  BY <1>1, <1>2, <1>8 DEF Starting
<1>10. Tables(f, back)
  <2>1. Room(s) /\ StartsRight(f, s) /\ TotalsRight(f, s) /\ s.tabled_chunks <= 1
    BY DEF Tables
  <2>2. Room(back) /\ StartsRight(f, back) /\ TotalsRight(f, back)
    BY <1>8, <2>1 DEF Room, StartsRight, TotalsRight
  <2>3. SizeRight(f, back)
    BY DEF SizeRight, Adaptive
  <2> QED BY <1>2, <1>8, <2>1, <2>2, <2>3 DEF Tables
<1>11. Where(f, back)
  BY DEF Where
<1>12. Stands(f, back, 0)
  <2>1. At(f, back) /\ DecodedOf(back) = 0
    <3>1. back.current_chunk \in 0 .. Len(f.counts) - 1
      BY <1>1, <1>8
    <3> QED BY <1>9, <3>1, StartingIsAt
  <2> QED BY <1>2, <1>8, <2>1 DEF Stands
<1>13. PlanRight(f, s, far, current, target)
  <2>1. far.state = back /\ far.delta = target - 0 /\ 0 \in 0 .. target
    OBVIOUS
  <2> HIDE DEF far
  <2> QED BY <1>8, <1>10, <1>11, <1>12, <2>1, PlanFrom
<1>14. ~(current > target) => PlanRight(f, s, near, current, target)
  BY PlanOnward
<1> HIDE DEF plan, far, near
<1>15. PlanRight(f, s, plan, current, target)
  BY <1>7, <1>13, <1>14
<1> QED BY <1>15 DEF plan

\* A seek to a point of an intact file, or behind its last, plans to get there,
\* whether the reader has begun or not.
LEMMA SeekRight ==
    ASSUME NEW f \in Files, Compressed(f), Intact(f), Modest(f), f.seekable,
           NEW s, Typed(f, s),
           NEW current \in Nat, NEW target \in Nat, target <= Total(f),
           \/ Fresh(f, s) /\ current = 0
           \/ /\ Tables(f, s) /\ Where(f, s)
              /\ current < Total(f) => Stands(f, s, current)
    PROVE  LET plan == laz_readpoint_seek(f, s, current, target)
           IN  \/ Tables(f, s) /\ PlanRight(f, s, plan, current, target)
               \/ Fresh(f, s) /\ \E t : t.chunk_count = 0 /\ PlanRight(f, t, plan, current, target)
<1> DEFINE begun == [s EXCEPT !.ok = TRUE]
           t == init_dec(f, begun)
           first == [t EXCEPT !.chunk_count = 0]
           opened == IF begun.point_start # 0 THEN begun ELSE IF t.ok THEN first ELSE t
           plan == laz_readpoint_seek(f, s, current, target)
<1>1. plan = IF ~opened.ok THEN [state |-> opened, delta |-> 0]
             ELSE IF opened.chunk_starts # NULL
             THEN seek_by_table(f, opened, current, target)
             ELSE seek_from_start(f, opened, current, target)
  BY DEF laz_readpoint_seek, Then
<1> HIDE DEF plan
<1>2. /\ begun.ok = TRUE /\ SameChunks(s, begun) /\ Typed(f, begun)
      /\ Tables(f, s) => Tables(f, begun)
      /\ Where(f, s) => Where(f, begun)
      /\ \A p : Stands(f, s, p) <=> Stands(f, begun, p)
  BY VerdictsDontMatter
<1>3. ASSUME NEW u, Typed(f, u), u.ok, Tables(f, u), Where(f, u),
             Chunked(f) => u.tabled_chunks > 0,
             current < Total(f) => Stands(f, u, current), opened = u
      PROVE  PlanRight(f, u, plan, current, target)
  <2>1. u.chunk_starts # NULL <=> u.tabled_chunks > 0
    <3>1. StartsRight(f, u) /\ u.tabled_chunks \in Nat
      BY <1>3 DEF Tables, Typed, Arrays, Starts
    <3>2. u.tabled_chunks > 0 => 0 \in DOMAIN u.chunk_starts /\ 0 \notin DOMAIN NULL
      BY <3>1 DEF StartsRight, NULL
    <3> QED BY <3>1, <3>2 DEF StartsRight
  <2>2. CASE Adaptive(f)
    <3>1. plan = seek_by_table(f, u, current, target)
      BY <1>1, <1>3, <2>1, <2>2 DEF Adaptive
    <3> HIDE DEF opened
    <3> QED BY <1>3, <2>2, <3>1, SeekAdaptive
  <2>3. CASE ~Adaptive(f) /\ u.tabled_chunks > 0
    <3>1. plan = seek_by_table(f, u, current, target)
      BY <1>1, <1>3, <2>1, <2>3
    <3> HIDE DEF opened
    <3> QED BY <1>3, <2>3, <3>1, SeekFixed
  <2>4. CASE ~Adaptive(f) /\ ~(u.tabled_chunks > 0)
    <3>1. plan = seek_from_start(f, u, current, target) /\ ~Chunked(f)
      BY <1>1, <1>3, <2>1, <2>4
    <3> HIDE DEF opened
    <3> QED BY <1>3, <3>1, SeekFromStartRight
  <2> QED BY <2>2, <2>3, <2>4
<1>4. CASE Fresh(f, s) /\ current = 0
  <2>1. Fresh(f, begun) /\ begun.ok
    BY <1>4, FreshAgain
  <2> HIDE DEF begun
  <2>2. /\ t.ok /\ Opens(f, t) /\ SizeRight(f, t) /\ t.current_chunk = 0
        /\ Chunked(f) => t.tabled_chunks > 0
        /\ ~Chunked(f) => t.tabled_chunks = 0
    BY <2>1, InitFresh
  <2>3. Typed(f, t) /\ begun.point_start = 0
    BY <2>1, FreshTyped, FreshFields, InitDecTyped
  <2> HIDE DEF t
  <2>4. opened = first
    BY <2>2, <2>3
  <2>5. DOMAIN t = Fields /\ U32_MAX \in Nat \ {0} /\ Len(f.counts) \in Nat \ {0}
    BY <2>3, Constants, NoMoreChunksThanPoints DEF Typed, Arrays
  <2>6. /\ first.chunk_count = 0 /\ first.ok /\ first.chunk_size = t.chunk_size
        /\ first.current_chunk = 0 /\ first.number_chunks = t.number_chunks
        /\ first.tabled_chunks = t.tabled_chunks /\ first.chunk_totals = t.chunk_totals
        /\ first.chunk_starts = t.chunk_starts /\ first.point_start = t.point_start
        /\ first.failed = t.failed /\ first.tell = t.tell /\ first.eof = t.eof
        /\ first.readers = t.readers
    BY <2>2, <2>5 DEF Fields
  <2>7. Typed(f, first)
    <3>1. Arrays(first)
      BY <2>3, <2>5 DEF Typed, Arrays, Totals, Starts, Size, Fields, chunk_is_tabled
    <3>2. Bytes(f, first) /\ Flags(first) /\ Counters(f, first)
      BY <2>3, <2>5 DEF Typed, Bytes, Flags, Counters, Fields
    <3> QED BY <3>1, <3>2 DEF Typed
  <2>8. t.chunk_size \in Nat /\ t.tell \in Nat /\ t.tabled_chunks \in Nat
    BY <2>3, <2>5 DEF Typed, Arrays, Starts, Bytes, Counters
  <2> HIDE DEF first, opened
  <2>9. Starting(f, first) /\ first.tell = f.starts[0] /\ first.point_start # 0
    BY <2>2, <2>5, <2>6 DEF Opens, Starting
  <2>10. Tables(f, first)
    <3>1. Room(first) /\ StartsRight(f, first) /\ TotalsRight(f, first)
      BY <2>2, <2>6 DEF Opens, Room, StartsRight, TotalsRight
    <3>2. SizeRight(f, first)
      BY <2>2, <2>6 DEF SizeRight
    <3>3. first.tell # 0 /\ ~first.failed /\ first.point_start = f.starts[0]
      BY <2>9 DEF Starting
    <3> QED BY <2>2, <2>6, <2>8, <2>9, <3>1, <3>2, <3>3 DEF Tables
  <2>11. Where(f, first) /\ At(f, first) /\ DecodedOf(first) = 0
    <3>1. first.current_chunk \in 0 .. Len(f.counts) - 1 /\ first.current_chunk \in Nat
      BY <2>5, <2>6
    <3> QED BY <2>6, <2>9, <3>1, StartingIsWhere, StartingIsAt
  <2>12. Stands(f, first, 0)
    <3>1. f.firsts[0] = 0
      BY FilesHaveShape DEF Shape
    <3> QED BY <2>6, <2>11, <3>1 DEF Stands
  <2>13. PlanRight(f, first, plan, current, target)
    BY <1>3, <1>4, <2>2, <2>4, <2>6, <2>7, <2>10, <2>11, <2>12
  <2> QED BY <1>4, <2>6, <2>13 DEF plan
<1>5. CASE /\ Tables(f, s) /\ Where(f, s)
           /\ current < Total(f) => Stands(f, s, current)
  <2>1. begun.point_start # 0 /\ begun.chunk_count = s.chunk_count
    BY <1>2, <1>5 DEF SameChunks, Tables
  <2>2. opened = begun
    BY <2>1
  <2>3. Chunked(f) => begun.tabled_chunks > 0
    <3>1. Chunked(f) => s.current_chunk < s.tabled_chunks
      BY <1>5 DEF Tables
    <3>2. s.current_chunk \in Nat /\ s.tabled_chunks \in Nat
      BY DEF Typed, Arrays, Starts
    <3> QED BY <1>2, <3>1, <3>2 DEF SameChunks
  <2> HIDE DEF begun, opened
  <2>4. PlanRight(f, begun, plan, current, target)
    BY <1>2, <1>3, <1>5, <2>2, <2>3
  <2>5. PlanRight(f, s, plan, current, target)
    BY <2>1, <2>4 DEF PlanRight
  <2> QED BY <1>5, <2>5 DEF plan
<1> QED BY <1>4, <1>5

-----------------------------------------------------------------------------
(* Points that are not compressed. *)

\* The stream stands behind p points of the file, or as many bytes of what
\* follows them.
Raw(f, s, p) ==
    /\ s.readers = "raw" /\ s.point_start = f.base /\ ~s.failed
    /\ s.current_chunk = 0 /\ s.chunk_starts = NULL
    /\ s.tell = f.base + p /\ s.tell <= f.end
    /\ s.eof => s.tell = f.end

\* Of points that are not compressed, those the file has end where it may end.
LEMMA RawFile ==
    ASSUME NEW f \in Files, ~Compressed(f), Intact(f)
    PROVE  /\ Total(f) \in Nat /\ f.base \in Nat /\ f.end \in Nat
           /\ f.base + Total(f) <= f.end
<1>1. Len(f.counts) = 1 /\ f.base \in Nat /\ f.end \in Nat /\ ~Chunked(f)
  <2>1. ~Chunked(f)
    BY DEF Compressed, Chunked
  <2> QED BY <2>1, FileFacts
<1>2. 0 \in 0 .. Len(f.counts) - 1
  BY <1>1
<1>3. /\ f.firsts[1] = f.firsts[0] + f.counts[1] /\ f.starts[1] = f.starts[0] + f.counts[1]
      /\ f.firsts[0] = 0 /\ f.starts[0] = f.base /\ f.counts[1] \in Nat
  <2>1. /\ f.firsts[0 + 1] = f.firsts[0] + f.counts[0 + 1] /\ f.counts[0 + 1] \in Nat
        /\ f.starts[0 + 1] = f.starts[0] + f.counts[0 + 1] + 0 /\ f.starts[0] \in Nat
    BY <1>2, SizesAreCounts
  <2>2. f.firsts[0] = 0 /\ f.starts[0] = f.base + 0
    BY <1>1, FilesHaveShape DEF Shape
  <2> QED BY <1>1, <2>1, <2>2
<1>4. Total(f) = f.counts[1] /\ DataEnd(f) = f.base + f.counts[1]
  BY <1>1, <1>3 DEF Total, DataEnd
<1> QED BY <1>1, <1>3, <1>4 DEF Intact

LEMMA RawRead ==
    ASSUME NEW f \in Files, ~Compressed(f), Intact(f), NEW s, Typed(f, s),
           NEW p \in Nat, Raw(f, s, p), NEW gap \in Nat, NEW lucky \in BOOLEAN
    PROVE  LET r == laz_readpoint_read(f, s, gap, lucky)
           IN  \/ r.ok /\ ~r.eof /\ Raw(f, r, p + 1) /\ (p < Total(f) => r.point = p)
               \/ ~r.ok /\ Raw(f, r, p) /\ p >= Total(f)
<1> DEFINE begun == [s EXCEPT !.ok = TRUE]
           at == begun.tell - f.base
           tell == begun.tell + 1
           decoded == IF at \in 0 .. Total(f) THEN at + 1 ELSE 0
           point == IF at \in 0 .. Total(f) - 1 THEN at ELSE GARBAGE
           ended == [begun EXCEPT !.eof = TRUE, !.tell = f.end, !.point = GARBAGE]
           moved == [begun EXCEPT !.tell = tell, !.decoded = decoded, !.point = point]
           r == laz_readpoint_read(f, s, gap, lucky)
<1>1. /\ Total(f) \in Nat /\ f.base \in Nat /\ f.end \in Nat
      /\ f.base + Total(f) <= f.end
  BY RawFile
<1>2. DOMAIN s = Fields
  BY DEF Typed, Arrays
<1>3. r = IF begun.eof \/ begun.tell + 1 > f.end
          THEN [ended EXCEPT !.ok = ~ended.eof] ELSE [moved EXCEPT !.ok = ~moved.eof]
  <2>1. r = point_is_whole(read_raw(f, begun))
    BY DEF laz_readpoint_read
  <2> HIDE DEF begun, r
  <2>2. read_raw(f, begun) = IF begun.eof \/ begun.tell + 1 > f.end THEN ended ELSE moved
    BY DEF read_raw
  <2> HIDE DEF ended, moved
  <2> QED BY <2>1, <2>2 DEF point_is_whole
<1>4. /\ begun.tell = s.tell /\ begun.eof = s.eof /\ begun.readers = s.readers
      /\ begun.point_start = s.point_start /\ begun.failed = s.failed
      /\ begun.current_chunk = s.current_chunk /\ DOMAIN begun = Fields
      /\ begun.chunk_starts = s.chunk_starts
  BY <1>2 DEF Fields
<1>5. /\ s.tell = f.base + p /\ s.tell <= f.end /\ (s.eof => s.tell = f.end)
      /\ s.readers = "raw" /\ s.point_start = f.base /\ ~s.failed /\ s.current_chunk = 0
      /\ s.chunk_starts = NULL
  BY DEF Raw
<1> HIDE DEF begun
<1>6. CASE begun.eof \/ begun.tell + 1 > f.end
  <2>1. /\ r.ok = FALSE /\ r.eof = TRUE /\ r.tell = f.end /\ r.readers = s.readers
        /\ r.point_start = s.point_start /\ r.failed = s.failed
        /\ r.current_chunk = s.current_chunk /\ r.chunk_starts = s.chunk_starts
    <3>1. r = [ended EXCEPT !.ok = ~ended.eof]
      BY <1>3, <1>6
    <3>2. /\ ended.eof = TRUE /\ ended.tell = f.end /\ ended.readers = s.readers
          /\ ended.point_start = s.point_start /\ ended.failed = s.failed
          /\ ended.current_chunk = s.current_chunk /\ ended.chunk_starts = s.chunk_starts
          /\ DOMAIN ended = Fields
      BY <1>4 DEF Fields
    <3> HIDE DEF ended, r
    <3> QED BY <3>1, <3>2 DEF Fields
  <2>2. f.end = f.base + p
    BY <1>1, <1>4, <1>5, <1>6
  <2> HIDE DEF r
  <2> QED BY <1>1, <1>5, <2>1, <2>2 DEF Raw, r
<1>7. CASE ~(begun.eof \/ begun.tell + 1 > f.end)
  <2>1. at = p /\ tell = f.base + (p + 1) /\ tell <= f.end
    BY <1>1, <1>4, <1>5, <1>7
  <2>2. p < Total(f) => point = p
    BY <1>1, <2>1
  <2> HIDE DEF at, tell, decoded, point
  <2>3. /\ r.ok = TRUE /\ ~r.eof /\ r.tell = tell /\ r.readers = s.readers
        /\ r.point_start = s.point_start /\ r.failed = s.failed
        /\ r.current_chunk = s.current_chunk /\ r.point = point
        /\ r.chunk_starts = s.chunk_starts
    BY <1>3, <1>4, <1>7 DEF Fields
  <2> HIDE DEF r
  <2> QED BY <1>5, <2>1, <2>2, <2>3 DEF Raw, r
<1> QED BY <1>6, <1>7

LEMMA RawSeek ==
    ASSUME NEW f \in Files, ~Compressed(f), Intact(f), f.seekable, NEW s, Typed(f, s),
           NEW current \in Nat, NEW target \in Nat, target <= Total(f), Raw(f, s, current)
    PROVE  LET plan == laz_readpoint_seek(f, s, current, target)
           IN  /\ plan.delta = 0 /\ plan.state.ok /\ Raw(f, plan.state, target)
               /\ current < Total(f) => ~plan.state.eof
<1> DEFINE begun == [s EXCEPT !.ok = TRUE]
           position == begun.point_start + target
           there == [begun EXCEPT !.tell = position, !.eof = FALSE]
           plan == laz_readpoint_seek(f, s, current, target)
<1>1. /\ Total(f) \in Nat /\ f.base \in Nat /\ f.end \in Nat
      /\ f.base + Total(f) <= f.end
  BY RawFile
<1>2. DOMAIN s = Fields
  BY DEF Typed, Arrays
<1>3. /\ begun.tell = s.tell /\ begun.eof = s.eof /\ begun.readers = s.readers
      /\ begun.point_start = s.point_start /\ begun.failed = s.failed /\ begun.ok = TRUE
      /\ begun.current_chunk = s.current_chunk /\ DOMAIN begun = Fields
      /\ begun.chunk_starts = s.chunk_starts
  BY <1>2 DEF Fields
<1>4. /\ s.tell = f.base + current /\ s.tell <= f.end /\ (s.eof => s.tell = f.end)
      /\ s.readers = "raw" /\ s.point_start = f.base /\ ~s.failed /\ s.current_chunk = 0
      /\ s.chunk_starts = NULL
  BY DEF Raw
<1>5. plan = [state |-> IF current = target THEN begun ELSE SeekStream(begun, position),
              delta |-> 0]
  BY DEF laz_readpoint_seek
<1> HIDE DEF begun
<1>6. position = f.base + target /\ position <= f.end /\ ~(position < 0)
  BY <1>1, <1>3, <1>4
<1>7. SeekStream(begun, position) = there
  BY <1>3, <1>4, <1>6 DEF SeekStream
<1> HIDE DEF position
<1>8. /\ there.ok = TRUE /\ ~there.eof /\ there.tell = position /\ there.readers = "raw"
      /\ there.point_start = f.base /\ ~there.failed /\ there.current_chunk = 0
      /\ there.chunk_starts = NULL
  BY <1>3, <1>4 DEF Fields
<1> HIDE DEF there
<1>9. Raw(f, there, target)
  BY <1>6, <1>8 DEF Raw
<1>10. Raw(f, begun, current) /\ (current < Total(f) => ~begun.eof)
  BY <1>1, <1>3, <1>4 DEF Raw
<1>11. plan.delta = 0 /\ plan.state = IF current = target THEN begun ELSE there
  BY <1>5, <1>7
<1> HIDE DEF plan
<1> QED BY <1>3, <1>8, <1>9, <1>10, <1>11 DEF plan

-----------------------------------------------------------------------------
(* Between the calls of the core. *)

\* Where reads leave the reader of an intact file, p points handed out and room
\* for l more to be counted: as it was opened, or with a right table and, short
\* of the end, p points into the file.
Reading(f, s, p, l) ==
    \/ ~Compressed(f) /\ Raw(f, s, p)
    \/ Compressed(f) /\ Fresh(f, s) /\ p = 0 /\ l + GROWTH + 1 < U32_MAX
    \/ /\ Compressed(f) /\ Tables(f, s) /\ Where(f, s)
       /\ s.chunk_count + l < U32_MAX
       /\ l > 0 => s.current_chunk + l + GROWTH + 1 < U32_MAX
       /\ p < Total(f) => Stands(f, s, p)

\* Where the loop of a seek from index i to g has it, l points still to pass over.
Seeking(f, s, i, l, g) ==
    /\ l <= g /\ g <= Total(f)
    /\ \/ ~Compressed(f) /\ Raw(f, s, g) /\ l = 0 /\ (i < Total(f) => ~s.eof)
       \/ /\ Compressed(f) /\ Tables(f, s) /\ Where(f, s)
          /\ s.chunk_count + l < U32_MAX
          /\ l > 0 \/ g < Total(f) \/ i < Total(f) => Stands(f, s, g - l)

\* One point read: the next one, or nothing if there is none.
LEMMA ReadingStep ==
    ASSUME NEW f \in Files, Intact(f), Modest(f), NEW s, Typed(f, s),
           NEW p \in Nat, NEW l \in Nat \ {0}, Reading(f, s, p, l),
           NEW gap \in Nat, NEW lucky \in BOOLEAN
    PROVE  LET r == laz_readpoint_read(f, s, gap, lucky)
           IN  /\ ~r.failed
               /\ \/ r.ok /\ Reading(f, r, p + 1, l - 1) /\ (p < Total(f) => r.point = p)
                  \/ ~r.ok /\ Reading(f, r, p, 0) /\ p >= Total(f)
<1> DEFINE r == laz_readpoint_read(f, s, gap, lucky)
<1>1. /\ Total(f) \in Nat /\ U32_MAX \in Nat /\ GROWTH \in Nat
      /\ Total(f) + GROWTH + 1 < U32_MAX
  BY NoMoreChunksThanPoints, Constants DEF Modest
<1>2. Typed(f, r)
  BY ReadTyped
<1>3. r.chunk_count \in Nat /\ r.current_chunk \in Nat
  BY <1>1, <1>2 DEF Typed, Counters, Arrays, Starts
<1>4. s.chunk_count \in Nat /\ s.current_chunk \in Nat /\ s.tabled_chunks \in Nat
  BY <1>1 DEF Typed, Counters, Arrays, Starts
<1>5. CASE ~Compressed(f) /\ Raw(f, s, p)
  <2>1. \/ r.ok /\ ~r.eof /\ Raw(f, r, p + 1) /\ (p < Total(f) => r.point = p)
        \/ ~r.ok /\ Raw(f, r, p) /\ p >= Total(f)
    BY <1>5, RawRead
  <2> HIDE DEF r
  <2>2. ~r.failed
    BY <2>1 DEF Raw
  <2> QED BY <1>1, <1>5, <2>1, <2>2 DEF Reading, r
<1>6. CASE Compressed(f) /\ Fresh(f, s) /\ p = 0 /\ l + GROWTH + 1 < U32_MAX
  <2>1. /\ Tables(f, r) /\ Where(f, r) /\ r.chunk_count <= 1 /\ r.current_chunk = 0
        /\ r.ok /\ r.point = 0 /\ Stands(f, r, 1)
    BY <1>6, ReadFresh
  <2> HIDE DEF r
  <2>2. r.chunk_count + (l - 1) < U32_MAX
    BY <1>1, <1>3, <1>6, <2>1
  <2>3. 0 + (l - 1) + GROWTH + 1 < U32_MAX /\ p + 1 = 1
    BY <1>1, <1>6
  <2>4. Reading(f, r, p + 1, l - 1)
    BY <1>6, <2>1, <2>2, <2>3 DEF Reading
  <2>5. ~r.failed
    BY <2>1 DEF Tables
  <2> QED BY <1>6, <2>1, <2>4, <2>5 DEF r
<1>7. CASE /\ Compressed(f) /\ Tables(f, s) /\ Where(f, s)
           /\ s.chunk_count + l < U32_MAX
           /\ l > 0 => s.current_chunk + l + GROWTH + 1 < U32_MAX
           /\ p < Total(f) => Stands(f, s, p)
  <2>1. s.chunk_count < U32_MAX /\ s.current_chunk + l + GROWTH + 1 < U32_MAX
    BY <1>1, <1>4, <1>7
  <2>2. s.current_chunk + 1 = s.tabled_chunks => s.tabled_chunks + 1 + GROWTH < U32_MAX
    BY <1>1, <1>4, <2>1
  <2>3. ReadRight(f, s, r, p)
    BY <1>7, <2>1, <2>2, ReadBegun
  <2> HIDE DEF r
  <2>4. /\ Tables(f, r) /\ Where(f, r) /\ r.chunk_count <= s.chunk_count + 1
        /\ r.current_chunk <= s.current_chunk + 1 /\ ~r.failed
        /\ p < Total(f) => r.ok /\ r.point = p /\ Stands(f, r, p + 1)
    BY <1>7, <2>3 DEF ReadRight, Tables
  <2>5. /\ r.chunk_count + (l - 1) < U32_MAX /\ r.chunk_count + 0 < U32_MAX
        /\ r.current_chunk + (l - 1) + GROWTH + 1 < U32_MAX
        /\ p + 1 < Total(f) => p < Total(f)
    <3> DEFINE a == s.chunk_count
               b == r.chunk_count
               c == s.current_chunk
               d == r.current_chunk
               n == Total(f)
    <3>1. /\ a \in Nat /\ b \in Nat /\ c \in Nat /\ d \in Nat /\ b <= a + 1 /\ d <= c + 1
          /\ a + l < U32_MAX /\ c + l + GROWTH + 1 < U32_MAX /\ n \in Nat
      BY <1>1, <1>3, <1>4, <1>7, <2>1, <2>4
    <3> HIDE DEF a, b, c, d, n
    <3>2. /\ b + (l - 1) < U32_MAX /\ b + 0 < U32_MAX /\ d + (l - 1) + GROWTH + 1 < U32_MAX
          /\ p + 1 < n => p < n
      BY <1>1, <3>1
    <3> QED BY <3>2 DEF b, d, n
  <2>6. Reading(f, r, p + 1, l - 1)
    BY <1>7, <2>4, <2>5 DEF Reading
  <2>7. ~r.ok => Reading(f, r, p, 0)
    BY <1>7, <2>4, <2>5 DEF Reading
  <2>8. r.ok \/ (~r.ok /\ p >= Total(f))
    BY <1>1, <2>4
  <2> QED BY <2>4, <2>6, <2>7, <2>8 DEF r
<1> QED BY <1>5, <1>6, <1>7 DEF Reading

\* One point passed over.
LEMMA SeekingStep ==
    ASSUME NEW f \in Files, Intact(f), Modest(f), NEW s, Typed(f, s),
           NEW i \in Nat, NEW l \in Nat \ {0}, NEW g \in Nat, Seeking(f, s, i, l, g),
           NEW gap \in Nat, NEW lucky \in BOOLEAN
    PROVE  LET r == laz_readpoint_read(f, s, gap, lucky)
           IN  r.ok /\ Seeking(f, r, i, l - 1, g)
<1> DEFINE r == laz_readpoint_read(f, s, gap, lucky)
           p == g - l
           n == Len(f.counts)
<1>1. /\ Total(f) \in Nat /\ U32_MAX \in Nat /\ GROWTH \in Nat /\ n \in Nat /\ n <= Total(f)
      /\ Total(f) + GROWTH + 1 < U32_MAX
  BY NoMoreChunksThanPoints, Constants DEF Modest
<1>2. Typed(f, r)
  BY ReadTyped
<1>3. r.chunk_count \in Nat
  BY <1>1, <1>2 DEF Typed, Counters
<1>4. s.chunk_count \in Nat /\ s.current_chunk \in Nat /\ s.tabled_chunks \in Nat
  BY <1>1 DEF Typed, Counters, Arrays, Starts
<1>5. /\ Compressed(f) /\ Tables(f, s) /\ Where(f, s) /\ l <= g /\ g <= Total(f)
      /\ s.chunk_count + l < U32_MAX /\ Stands(f, s, p)
  BY DEF Seeking
<1>6. p \in Nat /\ p < Total(f) /\ p + 1 = g - (l - 1) /\ l - 1 <= g
  BY <1>1, <1>5
<1> HIDE DEF p
<1>7. s.current_chunk \in 0 .. n - 1
  BY <1>1, <1>5, <1>6 DEF Stands, At, Inside
<1>8. s.current_chunk + 1 = s.tabled_chunks => s.tabled_chunks + 1 + GROWTH < U32_MAX
  <2> HIDE DEF n
  <2> QED BY <1>1, <1>4, <1>7
<1>9. s.chunk_count < U32_MAX
  BY <1>1, <1>4, <1>5
<1>10. ReadRight(f, s, r, p)
  BY <1>5, <1>8, <1>9, ReadBegun
<1> HIDE DEF r
<1>11. /\ Tables(f, r) /\ Where(f, r) /\ r.chunk_count <= s.chunk_count + 1
       /\ r.ok /\ Stands(f, r, p + 1)
  BY <1>5, <1>6, <1>10 DEF ReadRight
<1>12. r.chunk_count + (l - 1) < U32_MAX
  <2> DEFINE a == s.chunk_count
             b == r.chunk_count
  <2>1. a \in Nat /\ b \in Nat /\ b <= a + 1 /\ a + l < U32_MAX
    BY <1>3, <1>4, <1>5, <1>11
  <2>2. l \in Nat \ {0} /\ U32_MAX \in Nat
    BY <1>1
  <2> HIDE DEF a, b
  <2>3. b + (l - 1) < U32_MAX
    BY ONLY <2>1, <2>2
  <2> QED BY <2>3 DEF b
<1> QED BY <1>5, <1>6, <1>11, <1>12 DEF Seeking, r

\* A seek up to its loop.
LEMMA SeekingStart ==
    ASSUME NEW f \in Files, Intact(f), Modest(f), NEW s, Typed(f, s),
           NEW i \in Nat, Reading(f, s, i, 0), NEW t \in Nat, t <= Total(f),
           s.point_start = 0 \/ s.chunk_count + Total(f) < U32_MAX
    PROVE  LET plan == laz_readpoint_seek(f, s, i, t)
           IN  IF f.seekable
               THEN plan.state.ok /\ Seeking(f, plan.state, i, plan.delta, t)
               ELSE ~plan.state.ok /\ Reading(f, plan.state, i, 0)
<1> DEFINE begun == [s EXCEPT !.ok = TRUE]
           failed == [begun EXCEPT !.ok = FALSE]
           plan == laz_readpoint_seek(f, s, i, t)
<1>1. /\ Total(f) \in Nat /\ U32_MAX \in Nat /\ GROWTH \in Nat
      /\ Total(f) + GROWTH + 1 < U32_MAX
  BY NoMoreChunksThanPoints, Constants DEF Modest
<1>2. s.chunk_count \in Nat /\ DOMAIN s = Fields
  BY <1>1 DEF Typed, Counters, Arrays
<1>3. CASE ~f.seekable
  <2>1. plan = [state |-> failed, delta |-> 0]
    BY <1>3 DEF laz_readpoint_seek
  <2>2. /\ failed.ok = FALSE /\ SameChunks(s, failed) /\ failed.tell = s.tell
        /\ failed.readers = s.readers /\ failed.origin = s.origin
        /\ failed.decoded = s.decoded /\ failed.eof = s.eof
    BY <1>2 DEF Fields, SameChunks
  <2>3. Compressed(f) /\ Fresh(f, s) => Fresh(f, failed)
    <3> SUFFICES ASSUME Compressed(f), Fresh(f, s) PROVE Fresh(f, failed)
      OBVIOUS
    <3>1. Fresh(f, begun)
      BY FreshAgain
    <3> HIDE DEF begun
    <3> QED BY <3>1, FreshAgain
  <2>4. plan.state = failed
    BY <2>1
  <2> HIDE DEF failed, plan
  <2>5. /\ Tables(f, s) => Tables(f, failed)
        /\ Where(f, s) => Where(f, failed)
        /\ Stands(f, s, i) => Stands(f, failed, i)
    BY <2>2, PlaceDependsOn
  <2>6. Raw(f, s, i) => Raw(f, failed, i)
    BY <2>2 DEF Raw, SameChunks
  <2>7. Reading(f, failed, i, 0)
    BY <2>2, <2>3, <2>5, <2>6 DEF Reading, SameChunks
  <2> QED BY <1>3, <2>2, <2>4, <2>7 DEF plan
<1>4. CASE f.seekable /\ ~Compressed(f)
  <2>1. Raw(f, s, i)
    BY <1>4 DEF Reading
  <2>2. /\ plan.delta = 0 /\ plan.state.ok /\ Raw(f, plan.state, t)
        /\ i < Total(f) => ~plan.state.eof
    BY <1>4, <2>1, RawSeek
  <2> HIDE DEF plan
  <2> QED BY <1>4, <2>2 DEF Seeking, plan
<1>5. CASE f.seekable /\ Compressed(f)
  <2>1. \/ Fresh(f, s) /\ i = 0
        \/ Tables(f, s) /\ Where(f, s) /\ (i < Total(f) => Stands(f, s, i))
    BY <1>5 DEF Reading
  <2>2. \/ Tables(f, s) /\ PlanRight(f, s, plan, i, t)
        \/ Fresh(f, s) /\ \E u : u.chunk_count = 0 /\ PlanRight(f, u, plan, i, t)
    BY <1>5, <2>1, SeekRight
  <2> HIDE DEF plan
  <2>3. /\ plan.state.ok /\ Tables(f, plan.state) /\ Where(f, plan.state)
        /\ plan.delta \in 0 .. t
        /\ plan.delta > 0 \/ t < Total(f) \/ i < Total(f)
             => Stands(f, plan.state, t - plan.delta)
    BY <2>2 DEF PlanRight
  <2>4. \/ plan.state.chunk_count = 0
        \/ s.chunk_count + Total(f) < U32_MAX /\ plan.state.chunk_count = s.chunk_count
    BY <2>2 DEF PlanRight, Tables
  <2>5. plan.state.chunk_count + plan.delta < U32_MAX
    BY <1>1, <1>2, <2>3, <2>4
  <2>6. plan.delta <= t /\ (plan.delta > 0 <=> plan.delta # 0)
    BY <2>3
  <2> QED BY <1>5, <2>3, <2>5, <2>6 DEF Seeking, plan
<1> QED BY <1>3, <1>4, <1>5

-----------------------------------------------------------------------------
(* The calls of the binding. *)

\* What the theorems take for granted of the bounds: no counter of the reader
\* gets to U32_MAX within them, from where a call is made or on the way.
FarFromLimits ==
    /\ MaxCount \in Nat /\ MaxChunks \in Nat
    /\ \A n \in Counts \cup {1} : /\ MaxCount + n < U32_MAX
                                  /\ MaxChunks + n + GROWTH + 1 < U32_MAX
    /\ \A f \in Files : Intact(f) => Modest(f) /\ MaxCount + Total(f) < U32_MAX

\* And of the callers: they seek to a point of the file, or behind its last
\* (reader.py's seek() raises IndexError for anything else).
SeeksInside == \A f \in Files, t \in Targets : Intact(f) => t <= Total(f)

\* The inductive invariant: outside its loop the reader of an intact file is
\* where reads leave it, inside the loop of a seek where the seek has it.
Linked == IF pc = "seek" THEN Seeking(file, rp, index, left, goal)
          ELSE Reading(file, rp, index + done, left)

Kept == /\ Typing
        /\ pc = "idle" => left = 0
        /\ pc # "read_into" => done = 0
        /\ Intact(file) => Linked

\* A record given a value it has is the record it was.
Records(S) ==
    [readers : S, chunk_size : S, chunk_count : S, current_chunk : S, number_chunks : S,
     tabled_chunks : S, chunk_totals : S, chunk_starts : S, point_start : S, tell : S,
     eof : S, failed : S, measured : S, origin : S, decoded : S, warning : S, point : S,
     ok : S]

LEMMA RecordsKeep ==
    ASSUME NEW S, NEW r \in Records(S)
    PROVE  r = [r EXCEPT !.ok = r.ok, !.tell = r.tell]
BY DEF Records

LEMMA OpenedIsRecord ==
    ASSUME NEW f
    PROVE  \E S : Opened(f) \in Records(S)
<1> DEFINE o == Opened(f)
           S == {o[k] : k \in Fields}
<1>1. DOMAIN o = Fields
  BY DEF Opened, Fields
<1>2. \A k \in Fields : o[k] \in S
  OBVIOUS
<1> HIDE DEF S
<1> QED BY <1>2 DEF Opened, Records, Fields

LEMMA OpenedReading ==
    ASSUME FarFromLimits, NEW f \in Files, Intact(f)
    PROVE  Reading(f, Opened(f), 0, 0)
<1> DEFINE o == Opened(f)
<1>1. /\ o.ok = TRUE /\ o.tell = f.base /\ ~o.failed /\ ~o.eof /\ o.current_chunk = 0
      /\ o.chunk_starts = NULL
      /\ ~Compressed(f) => o.readers = "raw" /\ o.point_start = f.base
  BY DEF Opened
<1>2. f.base \in Nat /\ f.end \in Nat /\ f.base < f.end
  BY FileFacts
<1>3. DOMAIN o = Fields
  BY DEF Opened, Fields
<1>4. U32_MAX \in Nat /\ GROWTH \in Nat /\ Total(f) \in Nat /\ Total(f) + GROWTH + 1 < U32_MAX
  BY Constants, NoMoreChunksThanPoints DEF FarFromLimits, Modest
<1> HIDE DEF o
<1>5. CASE ~Compressed(f)
  <2>1. Raw(f, o, 0)
    BY <1>1, <1>2, <1>5 DEF Raw
  <2> QED BY <1>5, <2>1 DEF Reading, o
<1>6. CASE Compressed(f)
  <2>2. o = [o EXCEPT !.ok = o.ok]
    BY OpenedIsRecord, RecordsKeep DEF o
  <2>3. Fresh(f, o)
    <3>1. o.ok \in BOOLEAN
      BY <1>1
    <3> QED BY <2>2, <3>1 DEF Fresh, o
  <2>4. 0 + GROWTH + 1 < U32_MAX
    BY <1>4
  <2> QED BY <1>6, <2>3, <2>4 DEF Reading, o
<1> QED BY <1>5, <1>6

\* Within the bounds there is room for a call.
LEMMA RoomForCalls ==
    ASSUME FarFromLimits, NEW f \in Files, NEW s, Typed(f, s), NEW p, NEW n \in Counts \cup {1},
           Reading(f, s, p, 0), s.point_start = 0 \/ s.chunk_count <= MaxCount,
           s.current_chunk <= MaxChunks
    PROVE  Reading(f, s, p, n)
<1>1. /\ U32_MAX \in Nat /\ GROWTH \in Nat /\ n \in Nat /\ MaxCount \in Nat /\ MaxChunks \in Nat
      /\ MaxCount + n < U32_MAX /\ MaxChunks + n + GROWTH + 1 < U32_MAX
  BY Constants DEF FarFromLimits
<1>2. s.chunk_count \in Nat /\ s.current_chunk \in Nat
  BY <1>1 DEF Typed, Counters, Arrays, Starts
<1>3. n + GROWTH + 1 < U32_MAX /\ s.current_chunk + n + GROWTH + 1 < U32_MAX
  BY <1>1, <1>2
<1>4. s.chunk_count <= MaxCount => s.chunk_count + n < U32_MAX
  BY <1>1, <1>2
<1>5. Tables(f, s) => s.chunk_count + n < U32_MAX
  BY <1>4 DEF Tables
<1> QED BY <1>3, <1>5 DEF Reading

\* A point read in a loop or by itself, with room for l.
LEMMA NextPoint ==
    ASSUME FarFromLimits, Typing, Intact(file), NEW p \in Nat, NEW l \in Nat \ {0},
           Reading(file, rp, p, l), reader_next
    PROVE  /\ ~rp'.failed
           /\ \/ rp'.ok /\ Reading(file, rp', p + 1, l - 1) /\ (p < Total(file) => rp'.point = p)
              \/ ~rp'.ok /\ Reading(file, rp', p, 0) /\ p >= Total(file)
<1>1. PICK gap \in Gaps, lucky \in BOOLEAN : rp' = laz_readpoint_read(file, rp, gap, lucky)
  BY DEF reader_next
<1>2. file \in Files /\ Typed(file, rp) /\ Modest(file) /\ gap \in Nat
  BY Constants DEF Typing, FarFromLimits
<1> QED BY <1>1, <1>2, ReadingStep

LEMMA NextPassed ==
    ASSUME FarFromLimits, Typing, Intact(file), left > 0, reader_next,
           Seeking(file, rp, index, left, goal)
    PROVE  rp'.ok /\ Seeking(file, rp', index, left - 1, goal)
<1>1. PICK gap \in Gaps, lucky \in BOOLEAN : rp' = laz_readpoint_read(file, rp, gap, lucky)
  BY DEF reader_next
<1>2. /\ file \in Files /\ Typed(file, rp) /\ Modest(file) /\ gap \in Nat
      /\ left \in Nat \ {0} /\ index \in Nat /\ goal \in Nat
  BY Constants DEF Typing, FarFromLimits
<1> QED BY <1>1, <1>2, SeekingStep

\* A seek called for from between two calls.
LEMMA SeekPlanned ==
    ASSUME FarFromLimits, Kept, Intact(file), NEW t \in Targets, t <= Total(file), Reader_seek(t)
    PROVE  IF file.seekable THEN rp'.ok /\ Seeking(file, rp', index, left', goal')
           ELSE ~rp'.ok /\ Reading(file, rp', index, 0)
<1> DEFINE plan == laz_readpoint_seek(file, rp, index, t)
<1>1. /\ file \in Files /\ Typed(file, rp) /\ Modest(file) /\ t \in Nat /\ t <= Total(file)
      /\ index \in Nat
  BY Constants DEF Kept, Typing, FarFromLimits
<1>2. pc = "idle" /\ (rp.point_start = 0 \/ rp.chunk_count <= MaxCount)
  BY DEF Reader_seek, Bounded
<1>3. Reading(file, rp, index, 0)
  <2>1. Reading(file, rp, index + 0, 0)
    BY <1>2 DEF Kept, Linked
  <2>2. index + 0 = index
    BY <1>1
  <2> QED BY <2>1, <2>2
<1>4. rp.point_start = 0 \/ rp.chunk_count + Total(file) < U32_MAX
  <2>1. /\ MaxCount \in Nat /\ U32_MAX \in Nat /\ Total(file) \in Nat
        /\ MaxCount + Total(file) < U32_MAX
    BY <1>1, Constants, NoMoreChunksThanPoints DEF FarFromLimits
  <2>2. rp.chunk_count \in Nat
    BY <1>1, <2>1 DEF Typed, Counters
  <2> HIDE DEF plan
  <2> QED BY <1>2, <2>1, <2>2
<1>5. IF file.seekable
      THEN plan.state.ok /\ Seeking(file, plan.state, index, plan.delta, t)
      ELSE ~plan.state.ok /\ Reading(file, plan.state, index, 0)
  BY <1>1, <1>3, <1>4, SeekingStart
<1>6. rp' = plan.state /\ (rp'.ok => left' = plan.delta /\ goal' = t)
  BY DEF Reader_seek
<1> HIDE DEF plan
<1> QED BY <1>5, <1>6

\* The loop over, the reader is where reads up to there would have left it.
LEMMA SeekEnds ==
    ASSUME NEW f \in Files, NEW s, Typed(f, s), NEW i, NEW g \in Nat, Seeking(f, s, i, 0, g)
    PROVE  ~s.failed /\ Reading(f, s, g, 0)
<1>1. Total(f) \in Nat /\ g - 0 = g
  BY NoMoreChunksThanPoints
<1>2. CASE ~Compressed(f) /\ Raw(f, s, g)
  BY <1>2 DEF Reading, Raw
<1>3. CASE /\ Compressed(f) /\ Tables(f, s) /\ Where(f, s) /\ s.chunk_count + 0 < U32_MAX
           /\ g < Total(f) => Stands(f, s, g)
  BY <1>3 DEF Reading, Tables
<1> QED BY <1>1, <1>2, <1>3 DEF Seeking

\* A seek to a point of an intact file, or behind its last, leaves it where the
\* binding takes it to be.
LEMMA SeekKept ==
    ASSUME FarFromLimits, Kept, NEW t \in Targets, Intact(file) => t <= Total(file), Reader_seek(t)
    PROVE  Kept'
<1>1. Typing'
  BY TypingInduction DEF Kept, Next
<1>2. /\ index \in Nat /\ left \in Nat /\ goal \in Nat /\ done \in Nat /\ file \in Files
      /\ Typed(file, rp) /\ Typing /\ pc \in {"idle", "seek", "read_into"}
      /\ (pc = "idle" => left = 0) /\ (pc # "read_into" => done = 0)
  BY DEF Kept, Typing
<1>3. /\ pc = "idle" /\ done' = done /\ index' = index /\ file' = file
      /\ IF rp'.ok THEN pc' = "seek" ELSE pc' = pc /\ left' = left
  BY DEF Reader_seek
<1>4. ASSUME Intact(file) PROVE Linked'
  <2>1. IF file.seekable THEN rp'.ok /\ Seeking(file, rp', index, left', goal')
        ELSE ~rp'.ok /\ Reading(file, rp', index, 0)
    BY <1>4, SeekPlanned
  <2>2. index + 0 = index /\ done' = 0
    BY <1>2, <1>3
  <2> QED BY <1>2, <1>3, <2>1, <2>2 DEF Linked
<1> QED BY <1>1, <1>2, <1>3, <1>4 DEF Kept

\* So does whatever else the reader of an intact file is asked for.
LEMMA OthersKept ==
    ASSUME FarFromLimits, Kept,
           [\/ Reader_read
            \/ PassOver
            \/ SeekDone
            \/ \E n \in Counts : Reader_read_into(n)
            \/ ReadIntoStep
            \/ ReadIntoDone]_vars
    PROVE  Kept'
<1>1. Typing'
  BY TypingInduction DEF Kept, Next
<1>2. /\ index \in Nat /\ left \in Nat /\ goal \in Nat /\ done \in Nat /\ file \in Files
      /\ Typed(file, rp) /\ Typing /\ pc \in {"idle", "seek", "read_into"}
      /\ (pc = "idle" => left = 0) /\ (pc # "read_into" => done = 0)
  BY DEF Kept, Typing
<1>3. Bounded => (rp.point_start = 0 \/ rp.chunk_count <= MaxCount) /\ rp.current_chunk <= MaxChunks
  BY DEF Bounded
<1>4. file' = file
  BY DEF vars, Reader_read, PassOver, SeekDone, Reader_read_into,
         ReadIntoStep, ReadIntoDone
<1>5. CASE Reader_read
  <2>1. pc = "idle" /\ Bounded /\ reader_next /\ pc' = pc /\ left' = left /\ done' = done
    BY <1>5 DEF Reader_read
  <2>2. ASSUME Intact(file) PROVE Linked'
    <3>1. Reading(file, rp, index, 0)
      BY <1>2, <2>1, <2>2 DEF Kept, Linked
    <3>2. Reading(file, rp, index, 1)
      BY <1>2, <1>3, <2>1, <3>1, RoomForCalls
    <3>3. /\ ~rp'.failed
          /\ \/ rp'.ok /\ Reading(file, rp', index + 1, 1 - 1)
             \/ ~rp'.ok /\ Reading(file, rp', index, 0)
      BY <1>2, <2>1, <2>2, <3>2, NextPoint
    <3>4. index' = IF rp'.ok THEN index + 1 ELSE index
      BY <1>5, <3>3 DEF Reader_read, Worked
    <3>5. 1 - 1 = 0 /\ index' + 0 = index' /\ left' = 0 /\ done' = 0 /\ pc' # "seek"
      BY <1>2, <2>1, <3>4
    <3>6. Reading(file, rp', index', 0)
      BY <3>3, <3>4, <3>5
    <3> QED BY <1>4, <3>5, <3>6 DEF Linked
  <2> QED BY <1>1, <1>2, <1>4, <2>1, <2>2 DEF Kept
<1>6. CASE PassOver
  <2>1. /\ pc = "seek" /\ left > 0 /\ reader_next /\ done' = done /\ index' = index
        /\ IF rp'.ok THEN left' = left - 1 /\ pc' = pc /\ goal' = goal
           ELSE pc' = "idle" /\ left' = 0
    BY <1>6 DEF PassOver
  <2>2. ASSUME Intact(file) PROVE Linked'
    <3>1. Seeking(file, rp, index, left, goal)
      BY <2>1, <2>2 DEF Kept, Linked
    <3>2. rp'.ok /\ Seeking(file, rp', index, left - 1, goal)
      BY <1>2, <2>1, <2>2, <3>1, NextPassed
    <3> QED BY <1>4, <2>1, <3>2 DEF Linked
  <2> QED BY <1>1, <1>2, <1>4, <2>1, <2>2 DEF Kept
<1>7. CASE SeekDone
  <2>1. /\ pc = "seek" /\ left = 0 /\ pc' = "idle" /\ done' = done /\ left' = left
        /\ rp' = rp /\ index' = IF rp.failed THEN index ELSE goal
    BY <1>7 DEF SeekDone
  <2>2. ASSUME Intact(file) PROVE Linked'
    <3>1. Seeking(file, rp, index, 0, goal)
      BY <2>1, <2>2 DEF Kept, Linked
    <3>2. ~rp.failed /\ Reading(file, rp, goal, 0)
      BY <1>2, <3>1, SeekEnds
    <3>3. index' + done' = goal /\ left' = 0
      BY <1>2, <2>1, <3>2
    <3> QED BY <1>4, <2>1, <3>2, <3>3 DEF Linked
  <2> QED BY <1>1, <1>2, <1>4, <2>1, <2>2 DEF Kept
<1>8. ASSUME NEW n \in Counts, Reader_read_into(n) PROVE Kept'
  <2>1. /\ pc = "idle" /\ Bounded /\ pc' = "read_into" /\ left' = n
        /\ done' = done /\ rp' = rp /\ index' = index
    BY <1>8 DEF Reader_read_into
  <2>2. ASSUME Intact(file) PROVE Linked'
    <3>1. Reading(file, rp, index + done, 0)
      BY <1>2, <2>1, <2>2 DEF Kept, Linked
    <3>2. Reading(file, rp, index + done, n)
      BY <1>2, <1>3, <2>1, <3>1, RoomForCalls
    <3> QED BY <1>4, <2>1, <3>2 DEF Linked
  <2> QED BY <1>1, <1>2, <1>4, <2>1, <2>2 DEF Kept
<1>9. CASE ReadIntoStep
  <2>1. /\ pc = "read_into" /\ left > 0 /\ reader_next
        /\ IF Worked(rp')
           THEN done' = done + 1 /\ left' = left - 1 /\ index' = index /\ pc' = pc
           ELSE index' = index + done /\ pc' = "idle" /\ done' = 0 /\ left' = 0
    BY <1>9 DEF ReadIntoStep
  <2>2. ASSUME Intact(file) PROVE Linked'
    <3>1. Reading(file, rp, index + done, left)
      BY <2>1, <2>2 DEF Kept, Linked
    <3>2. index + done \in Nat /\ left \in Nat \ {0}
      BY <1>2, <2>1
    <3>3. /\ ~rp'.failed
          /\ \/ rp'.ok /\ Reading(file, rp', index + done + 1, left - 1)
             \/ ~rp'.ok /\ Reading(file, rp', index + done, 0)
      BY <1>2, <2>1, <2>2, <3>1, <3>2, NextPoint
    <3>4. CASE rp'.ok
      <4>1. done' = done + 1 /\ left' = left - 1 /\ index' = index /\ pc' = pc
        BY <2>1, <3>3, <3>4 DEF Worked
      <4>2. index' + done' = index + done + 1
        BY <1>2, <4>1
      <4> QED BY <1>4, <2>1, <3>3, <3>4, <4>1, <4>2 DEF Linked
    <3>5. CASE ~rp'.ok
      <4>1. index' = index + done /\ pc' = "idle" /\ done' = 0 /\ left' = 0
        BY <2>1, <3>5 DEF Worked
      <4>2. index' + done' = index + done
        BY <1>2, <4>1
      <4> QED BY <1>4, <3>3, <3>5, <4>1, <4>2 DEF Linked
    <3> QED BY <3>4, <3>5
  <2> QED BY <1>1, <1>2, <1>4, <2>1, <2>2 DEF Kept
<1>10. CASE ReadIntoDone
  <2>1. /\ pc = "read_into" /\ left = 0 /\ index' = index + done /\ pc' = "idle" /\ done' = 0
        /\ rp' = rp /\ left' = left
    BY <1>10 DEF ReadIntoDone
  <2>2. ASSUME Intact(file) PROVE Linked'
    <3>1. Reading(file, rp, index + done, 0)
      BY <2>1, <2>2 DEF Kept, Linked
    <3>2. index' + done' = index + done /\ left' = 0
      BY <1>2, <2>1
    <3> QED BY <1>4, <2>1, <3>1, <3>2 DEF Linked
  <2> QED BY <1>1, <1>2, <1>4, <2>1, <2>2 DEF Kept
<1>11. CASE UNCHANGED vars
  BY <1>1, <1>11 DEF Kept, Linked, vars
<1> QED BY <1>5, <1>6, <1>7, <1>8, <1>9, <1>10, <1>11

\* Whatever is asked of it.
LEMMA NextKept ==
    ASSUME FarFromLimits, SeeksInside, Kept, [Next]_vars
    PROVE  Kept'
<1>1. ASSUME NEW t \in Targets, Reader_seek(t) PROVE Kept'
  <2>1. file \in Files
    BY DEF Kept, Typing
  <2>2. Intact(file) => t <= Total(file)
    BY <2>1 DEF SeeksInside
  <2> QED BY <1>1, <2>2, SeekKept
<1> QED BY <1>1, OthersKept DEF Next

LEMMA InitKept ==
    ASSUME FarFromLimits
    PROVE  Init => Kept
<1> SUFFICES ASSUME Init PROVE Kept
  OBVIOUS
<1>1. /\ file \in Files /\ rp = Opened(file) /\ index = 0 /\ left = 0 /\ goal = 0
      /\ done = 0 /\ pc = "idle"
  BY DEF Init
<1>2. Typing
  BY <1>1, OpenedTyped DEF Typing
<1>3. Intact(file) => Linked
  BY <1>1, OpenedReading DEF Linked
<1> QED BY <1>1, <1>2, <1>3 DEF Kept

\* A reader that stands in front of a point is in step.
LEMMA StandsInStep ==
    ASSUME NEW f \in Files, NEW s, Typed(f, s), Compressed(f), Tables(f, s), NEW p, Stands(f, s, p)
    PROVE  /\ ~s.eof /\ ~s.failed /\ s.current_chunk \in DOMAIN f.firsts
           /\ p = f.firsts[s.current_chunk] + (IF s.readers = "NULL" THEN 0 ELSE s.decoded)
<1> DEFINE n == Len(f.counts)
<1>1. /\ n \in Nat \ {0} /\ f.firsts \in [0 .. n -> Nat] /\ Total(f) = f.firsts[n]
  BY FilesHaveShape DEF Shape, Total
<1>2. ~s.failed
  BY DEF Tables
<1>3. CASE At(f, s) /\ p = f.firsts[s.current_chunk] + DecodedOf(s)
  <2>1. s.current_chunk \in 0 .. n - 1 /\ ~s.eof
    BY <1>3 DEF At, Inside
  <2> HIDE DEF n
  <2>2. s.current_chunk \in 0 .. n
    BY <1>1, <2>1
  <2> QED BY <1>1, <1>2, <1>3, <2>1, <2>2 DEF DecodedOf
<1>4. CASE p = Total(f) /\ s.current_chunk = n /\ s.readers = "NULL" /\ ~s.eof
  <2> HIDE DEF n
  <2>1. n \in 0 .. n /\ f.firsts[n] + 0 = f.firsts[n]
    BY <1>1
  <2> QED BY <1>1, <1>2, <1>4, <2>1
<1> QED BY <1>3, <1>4 DEF Stands

LEMMA RawInStep ==
    ASSUME NEW f \in Files, ~Compressed(f), Intact(f), NEW s, NEW p \in Nat, Raw(f, s, p)
    PROVE  /\ ~s.failed /\ s.current_chunk \in DOMAIN f.firsts /\ p = s.tell - f.base
           /\ p < Total(f) => ~s.eof
<1>1. Len(f.counts) \in Nat /\ f.firsts \in [0 .. Len(f.counts) -> Nat]
  BY FilesHaveShape DEF Shape
<1>2. 0 \in DOMAIN f.firsts
  BY <1>1
<1>3. /\ Total(f) \in Nat /\ f.base \in Nat /\ f.end \in Nat
      /\ f.base + Total(f) <= f.end
  BY RawFile
<1>4. /\ s.tell = f.base + p /\ (s.eof => s.tell = f.end) /\ ~s.failed /\ s.current_chunk = 0
  BY DEF Raw
<1>5. p = s.tell - f.base /\ (p < Total(f) => s.tell # f.end)
  BY <1>3, <1>4
<1> QED BY <1>2, <1>4, <1>5

LEMMA KeptInStep == Kept => StaysInStep
<1> SUFFICES ASSUME Kept, Intact(file), index + done < Total(file) PROVE InStep
  BY DEF StaysInStep
<1>1. /\ index \in Nat /\ left \in Nat /\ goal \in Nat /\ done \in Nat /\ file \in Files
      /\ Typed(file, rp) /\ (pc # "read_into" => done = 0)
      /\ Linked /\ Total(file) \in Nat /\ U32_MAX \in Nat
  BY Constants, NoMoreChunksThanPoints DEF Kept, Typing
<1>2. CASE pc = "seek"
  <2>1. Seeking(file, rp, index, left, goal) /\ index < Total(file)
    BY <1>1, <1>2 DEF Linked
  <2>2. CASE ~Compressed(file) /\ Raw(file, rp, goal) /\ left = 0 /\ ~rp.eof
    <3>1. /\ ~rp.failed /\ rp.current_chunk \in DOMAIN file.firsts
          /\ goal = rp.tell - file.base
      BY <1>1, <2>2, RawInStep
    <3>2. goal - left = goal
      BY <1>1, <2>2
    <3> QED BY <1>2, <2>2, <3>1, <3>2 DEF InStep, Position
  <2>3. CASE Compressed(file) /\ Tables(file, rp) /\ Stands(file, rp, goal - left)
    <3>1. /\ ~rp.eof /\ ~rp.failed /\ rp.current_chunk \in DOMAIN file.firsts
          /\ goal - left = file.firsts[rp.current_chunk]
                           + (IF rp.readers = "NULL" THEN 0 ELSE rp.decoded)
      BY <1>1, <2>3, StandsInStep
    <3> QED BY <1>2, <2>3, <3>1 DEF InStep, Position
  <2> QED BY <2>1, <2>2, <2>3 DEF Seeking
<1>3. CASE pc # "seek"
  <2>1. Reading(file, rp, index + done, left) /\ index + done \in Nat
    BY <1>1, <1>3 DEF Linked
  <2>2. CASE ~Compressed(file) /\ Raw(file, rp, index + done)
    BY <1>1, <1>3, <2>1, <2>2, RawInStep DEF InStep, Position
  <2>3. CASE Compressed(file) /\ Fresh(file, rp) /\ index + done = 0
    <3>1. /\ ~rp.eof /\ ~rp.failed /\ rp.current_chunk = 0 /\ rp.readers = "NULL"
      BY <1>1, <2>3, FreshFields
    <3>2. file.firsts[0] = 0 /\ 0 \in DOMAIN file.firsts
      <4>1. /\ Len(file.counts) \in Nat /\ file.firsts \in [0 .. Len(file.counts) -> Nat]
            /\ file.firsts[0] = 0
        BY <1>1, FilesHaveShape DEF Shape
      <4> QED BY <4>1
    <3> QED BY <1>3, <2>3, <3>1, <3>2 DEF InStep, Position
  <2>4. CASE Compressed(file) /\ Tables(file, rp) /\ Stands(file, rp, index + done)
    <3>1. /\ ~rp.eof /\ ~rp.failed /\ rp.current_chunk \in DOMAIN file.firsts
          /\ index + done = file.firsts[rp.current_chunk]
                           + (IF rp.readers = "NULL" THEN 0 ELSE rp.decoded)
      BY <1>1, <2>4, StandsInStep
    <3> QED BY <1>3, <2>4, <3>1 DEF InStep, Position
  <2> QED BY <2>1, <2>2, <2>3, <2>4 DEF Reading
<1> QED BY <1>2, <1>3

LEMMA KeptBoundaries == Kept => StartsAreBoundaries
<1> SUFFICES ASSUME Kept, Intact(file), NEW i \in DOMAIN rp.chunk_starts \cap Chunks(file)
             PROVE  rp.chunk_starts[i] = file.starts[i]
  BY DEF StartsAreBoundaries
<1>1. file \in Files /\ Linked
  BY DEF Kept, Typing
<1>2. rp.chunk_starts # NULL
  BY DEF NULL
<1>3. Tables(file, rp)
  <2>1. ~Raw(file, rp, goal) /\ ~Raw(file, rp, index + done)
    BY <1>2 DEF Raw
  <2>2. Compressed(file) => ~Fresh(file, rp)
    BY <1>1, <1>2, FreshFields
  <2> QED BY <1>1, <2>1, <2>2 DEF Linked, Reading, Seeking
<1> QED BY <1>1, <1>3 DEF Tables, StartsRight, Chunks

\* A point an intact file has is got, and a point it has is sought.
LEMMA KeptReaches ==
    ASSUME FarFromLimits, Kept, Intact(file)
    PROVE  /\ Reader_read /\ index < Total(file) => rp'.ok
           /\ ReadIntoStep /\ index + done < Total(file) => rp'.ok
           /\ PassOver => rp'.ok
           /\ file.seekable => \A t \in Targets : t <= Total(file) /\ Reader_seek(t) => rp'.ok
<1>1. /\ index \in Nat /\ left \in Nat /\ goal \in Nat /\ done \in Nat /\ file \in Files
      /\ Typed(file, rp) /\ Typing /\ Linked
      /\ (pc = "idle" => left = 0) /\ (pc # "read_into" => done = 0)
  BY DEF Kept, Typing
<1> Total(file) \in Nat
  BY <1>1, NoMoreChunksThanPoints
<1>2. ASSUME Reader_read, index < Total(file) PROVE rp'.ok
  <2>1. pc = "idle" /\ Bounded /\ reader_next
    BY <1>2 DEF Reader_read
  <2>2. Reading(file, rp, index, 0)
    BY <1>1, <2>1 DEF Linked
  <2>3. Reading(file, rp, index, 1)
    BY <1>1, <2>1, <2>2, RoomForCalls DEF Bounded
  <2> QED BY <1>1, <1>2, <2>1, <2>3, NextPoint
<1>3. ASSUME ReadIntoStep, index + done < Total(file) PROVE rp'.ok
  <2>1. pc = "read_into" /\ left > 0 /\ reader_next
    BY <1>3 DEF ReadIntoStep
  <2>2. Reading(file, rp, index + done, left) /\ index + done \in Nat /\ left \in Nat \ {0}
    BY <1>1, <2>1 DEF Linked
  <2> QED BY <1>1, <1>3, <2>1, <2>2, NextPoint
<1>4. ASSUME PassOver PROVE rp'.ok
  <2>1. pc = "seek" /\ left > 0 /\ reader_next
    BY <1>4 DEF PassOver
  <2>2. Seeking(file, rp, index, left, goal)
    BY <1>1, <2>1 DEF Linked
  <2> QED BY <1>1, <2>1, <2>2, NextPassed
<1>5. ASSUME file.seekable, NEW t \in Targets, t <= Total(file), Reader_seek(t) PROVE rp'.ok
  BY <1>5, SeekPlanned
<1> QED BY <1>2, <1>3, <1>4, <1>5

\* A step of the binding is a step of the cursor, or none.
LEMMA NextIsSourceStep ==
    ASSUME FarFromLimits, SeeksInside, \A f \in Files : Intact(f), Kept, [Next]_vars
    PROVE  [Source!Next]_<<Total(file), index + done, out>>
<1> DEFINE total == Total(file)
           next == index + done
           Stutter == next' = next /\ out' = out
           Deliver == next < total /\ out' = Handed(next, next) /\ next' = next + 1
           Beyond == /\ next >= total
                     /\ \E p \in {GARBAGE} \cup 0 .. total : out' = Handed(next, p)
                     /\ next' = next + 1
           Seek == next' \in Nat /\ out' = Nothing
           Fail == out' = Failure /\ next' = next
<1>1. /\ index \in Nat /\ left \in Nat /\ goal \in Nat /\ done \in Nat /\ file \in Files
      /\ Typed(file, rp) /\ Typing /\ Linked /\ Intact(file)
      /\ (pc = "idle" => left = 0) /\ (pc # "read_into" => done = 0)
  BY DEF Kept, Typing
<1>2. total \in Nat /\ next \in Nat
  BY <1>1, NoMoreChunksThanPoints
<1>3. file' = file
  BY DEF Next, vars, Reader_read, Reader_seek, PassOver, SeekDone, Reader_read_into,
         ReadIntoStep, ReadIntoDone
<1>4. ASSUME NEW l \in Nat \ {0}, Reading(file, rp, next, l), reader_next, Worked(rp'),
             out' = Handed(next, rp'.point), next' = next + 1
      PROVE  Deliver \/ Beyond
  <2>1. next < total => rp'.point = next
    BY <1>1, <1>2, <1>4, NextPoint DEF Worked
  <2>2. rp'.point \in PointsOf(file)
    BY <1>1, <1>4, NextPointTyped DEF Typed, Bytes
  <2>3. rp'.point \in {GARBAGE} \cup 0 .. total
    <3> DEFINE point == rp'.point
    <3>1. point \in {GARBAGE} \cup 0 .. total - 1
      BY <2>2 DEF PointsOf
    <3> HIDE DEF total, point
    <3>2. point \in {GARBAGE} \cup 0 .. total
      BY <1>2, <3>1
    <3> QED BY <3>2 DEF point
  <2>4. next < total \/ next >= total
    BY <1>2
  <2> QED BY <1>4, <2>1, <2>3, <2>4
<1> HIDE DEF Deliver, Beyond
<1>5. ASSUME Reader_read PROVE Deliver \/ Beyond \/ Fail
  <2>1. /\ pc = "idle" /\ Bounded /\ reader_next /\ done' = done
        /\ IF Worked(rp') THEN out' = Handed(index, rp'.point) /\ index' = index + 1
           ELSE out' = Failure /\ index' = index
    BY <1>5 DEF Reader_read
  <2>2. next = index
    BY <1>1, <2>1
  <2>3. CASE Worked(rp')
    <3>1. Reading(file, rp, next, 0)
      BY <1>1, <2>1 DEF Linked
    <3>2. Reading(file, rp, next, 1)
      BY <1>1, <2>1, <3>1, RoomForCalls DEF Bounded
    <3>3. out' = Handed(next, rp'.point) /\ next' = next + 1
      BY <1>1, <2>1, <2>2, <2>3
    <3>4. 1 \in Nat \ {0}
      OBVIOUS
    <3> HIDE DEF next
    <3> QED BY <1>4, <2>1, <2>3, <3>2, <3>3, <3>4
  <2>4. CASE ~Worked(rp')
    BY <2>1, <2>4
  <2> QED BY <2>3, <2>4
<1>6. ASSUME NEW t \in Targets, Reader_seek(t) PROVE Stutter \/ Fail
  BY <1>6 DEF Reader_seek
<1>7. ASSUME PassOver PROVE Stutter \/ Fail
  BY <1>7 DEF PassOver
<1>8. ASSUME SeekDone PROVE Seek \/ Fail
  <2>1. /\ done' = done /\ done = 0
        /\ IF rp.failed THEN out' = Failure /\ index' = index
           ELSE out' = Nothing /\ index' = goal
    BY <1>1, <1>8 DEF SeekDone
  <2>2. rp.failed => next' = next
    BY <2>1
  <2>3. ~rp.failed => next' \in Nat
    BY <1>1, <2>1
  <2> QED BY <2>1, <2>2, <2>3
<1>9. ASSUME NEW n \in Counts, Reader_read_into(n) PROVE Stutter
  BY <1>9 DEF Reader_read_into
<1>10. ASSUME ReadIntoStep PROVE Deliver \/ Beyond \/ Fail
  <2>1. /\ pc = "read_into" /\ left > 0 /\ reader_next
        /\ IF Worked(rp')
           THEN out' = Handed(index + done, rp'.point) /\ done' = done + 1 /\ index' = index
           ELSE out' = Failure /\ index' = index + done /\ done' = 0
    BY <1>10 DEF ReadIntoStep
  <2>2. CASE Worked(rp')
    <3>1. Reading(file, rp, next, left)
      BY <1>1, <2>1 DEF Linked
    <3>2. left \in Nat \ {0}
      BY <1>1, <2>1
    <3>3. out' = Handed(next, rp'.point) /\ next' = next + 1
      BY <1>1, <2>1, <2>2
    <3> HIDE DEF next
    <3> QED BY <1>4, <2>1, <2>2, <3>1, <3>2, <3>3
  <2>3. CASE ~Worked(rp')
    <3>1. next' = next
      BY <1>1, <2>1, <2>3
    <3> QED BY <2>1, <2>3, <3>1
  <2> QED BY <2>2, <2>3
<1>11. ASSUME ReadIntoDone PROVE Stutter
  <2>1. next' = next
    BY <1>1, <1>11 DEF ReadIntoDone
  <2> QED BY <1>11, <2>1 DEF ReadIntoDone
<1>12. ASSUME UNCHANGED vars PROVE Stutter
  BY <1>12 DEF vars
<1>13. Stutter \/ Deliver \/ Beyond \/ Seek \/ Fail
  <2> HIDE DEF Stutter, Seek, Fail
  <2> QED BY <1>5, <1>6, <1>7, <1>8, <1>9, <1>10, <1>11, <1>12 DEF Next
<1>14. total' = total
  BY <1>3
<1>15. /\ Deliver => Source!Deliver
       /\ Beyond => Source!DeliverBeyond
       /\ Seek => Source!Seek
       /\ Fail => Source!Fail
  <2> HIDE DEF next, total
  <2>1. Deliver => Source!Deliver
    BY <1>14 DEF Deliver, Source!Deliver, Source!Handed, Handed, next, total
  <2>2. Beyond => Source!DeliverBeyond
    BY <1>14 DEF Beyond, Source!DeliverBeyond, Source!Handed, Handed, Source!GARBAGE, GARBAGE,
                 next, total
  <2>3. Seek => Source!Seek
    BY <1>14 DEF Source!Seek, Source!Nothing, Source!GARBAGE, Nothing, GARBAGE, next, total
  <2>4. Fail => Source!Fail
    BY <1>14 DEF Source!Fail, Source!Failure, Source!GARBAGE, Failure, GARBAGE, next, total
  <2> QED BY <2>1, <2>2, <2>3, <2>4
<1> QED BY <1>13, <1>14, <1>15 DEF Source!Next

\* What was handed out of an intact file is what its index names.
Hands == out.kind = "point" =>
           out.index \in Nat /\ (out.index < Total(file) => out.point = out.index)

LEMMA NextHands ==
    ASSUME FarFromLimits, Kept, Intact(file), Hands, [Next]_vars
    PROVE  Hands'
<1>1. /\ index \in Nat /\ left \in Nat /\ done \in Nat /\ file \in Files
      /\ Typed(file, rp) /\ Typing /\ Linked
      /\ (pc = "idle" => left = 0) /\ (pc # "read_into" => done = 0)
  BY DEF Kept, Typing
<1>2. file' = file
  BY DEF Next, vars, Reader_read, Reader_seek, PassOver, SeekDone, Reader_read_into,
         ReadIntoStep, ReadIntoDone
<1>3. ASSUME out' \in {out, Nothing, Failure} PROVE Hands'
  BY <1>2, <1>3 DEF Hands, Nothing, Failure
<1>4. ASSUME NEW p \in Nat, NEW l \in Nat \ {0}, Reading(file, rp, p, l), reader_next,
             Worked(rp'), out' = Handed(p, rp'.point)
      PROVE  Hands'
  <2>1. p < Total(file) => rp'.point = p
    BY <1>1, <1>4, NextPoint DEF Worked
  <2>2. out'.index = p /\ out'.point = rp'.point
    BY <1>4 DEF Handed
  <2> QED BY <1>2, <1>4, <2>1, <2>2 DEF Hands
<1>5. CASE Reader_read
  <2>1. /\ pc = "idle" /\ Bounded /\ reader_next
        /\ IF Worked(rp') THEN out' = Handed(index, rp'.point) ELSE out' = Failure
    BY <1>5 DEF Reader_read
  <2>2. Reading(file, rp, index, 0)
    <3>1. index + done = index /\ left = 0 /\ Reading(file, rp, index + done, left)
      BY <1>1, <2>1 DEF Linked
    <3> QED BY <3>1
  <2>3. Reading(file, rp, index, 1) /\ 1 \in Nat \ {0}
    BY <1>1, <2>1, <2>2, RoomForCalls DEF Bounded
  <2> QED BY <1>1, <1>3, <1>4, <2>1, <2>3
<1>6. CASE ReadIntoStep
  <2>1. /\ pc = "read_into" /\ left > 0 /\ reader_next
        /\ IF Worked(rp') THEN out' = Handed(index + done, rp'.point) ELSE out' = Failure
    BY <1>6 DEF ReadIntoStep
  <2>2. Reading(file, rp, index + done, left) /\ index + done \in Nat /\ left \in Nat \ {0}
    BY <1>1, <2>1 DEF Linked
  <2> QED BY <1>3, <1>4, <2>1, <2>2
<1>7. CASE \/ \E t \in Targets : Reader_seek(t)
           \/ PassOver
           \/ SeekDone
           \/ \E n \in Counts : Reader_read_into(n)
           \/ ReadIntoDone
           \/ UNCHANGED vars
  <2>1. out' \in {out, Nothing, Failure}
    BY <1>7 DEF Reader_seek, PassOver, SeekDone, Reader_read_into, ReadIntoDone, vars
  <2> QED BY <1>3, <2>1
<1> QED BY <1>5, <1>6, <1>7 DEF Next

-----------------------------------------------------------------------------
(* What is right about the reader. *)

\* Every start in the table of an intact file's reader is where that chunk
\* begins, whatever was read, sought, adopted, rebuilt and grown before
\* (read_chunk_table, decode_chunk_table, recover_chunk_table, open_next_chunk,
\* laz_readpoint_seek).
THEOREM TabledStartsAreBoundaries ==
    ASSUME FarFromLimits, SeeksInside
    PROVE  Spec => []StartsAreBoundaries
<1>1. Kept /\ [Next]_vars => Kept'
  BY NextKept
<1> QED BY <1>1, InitKept, KeptBoundaries, PTL DEF Spec

\* Short of the end of an intact file the core stands where the binding's index
\* says, between the calls and inside the loops of seek() and read_into(), with
\* neither a failure of the stream nor the end of it in sight (Reader_read,
\* Reader_seek, Reader_read_into, laz_readpoint_read, laz_readpoint_seek).
THEOREM ReaderStaysInStep ==
    ASSUME FarFromLimits, SeeksInside
    PROVE  Spec => []StaysInStep
<1>1. Kept /\ [Next]_vars => Kept'
  BY NextKept
<1> QED BY <1>1, InitKept, KeptInStep, PTL DEF Spec

\* A point handed out of an intact file is the one its index names, and no
\* garbage: the decoder of every chunk was started where that chunk begins, and
\* chunk_count tells when it is through (Reader_read, Reader_read_into,
\* laz_readpoint_read, open_next_chunk).
THEOREM IntactFilesHandOutTheirIndex ==
    ASSUME FarFromLimits, SeeksInside
    PROVE  Spec => [](Intact(file) => HandsOutItsIndex)
<1> DEFINE Inv == Kept /\ (Intact(file) => Hands)
<1>1. Init => Inv
  <2>1. Init => Hands
    BY DEF Init, Hands, Nothing
  <2> QED BY <2>1, InitKept
<1>2. Inv /\ [Next]_vars => Inv'
  <2> SUFFICES ASSUME Inv, [Next]_vars PROVE Inv'
    OBVIOUS
  <2>1. Kept'
    BY NextKept
  <2>2. file' = file
    BY DEF Next, vars, Reader_read, Reader_seek, PassOver, SeekDone, Reader_read_into,
           ReadIntoStep, ReadIntoDone
  <2>3. Intact(file)' => Intact(file)
    BY <2>2 DEF Intact, DataEnd, TableIsTrue, Chunked, Adaptive, ChunksStart, Sums
  <2> QED BY <2>1, <2>3, NextHands
<1>3. Inv => (Intact(file) => HandsOutItsIndex)
  BY DEF Hands, HandsOutItsIndex
<1> HIDE DEF Inv
<1> QED BY <1>1, <1>2, <1>3, PTL DEF Spec

\* No read of a point an intact file has fails, no point passed over on the way
\* to one, and no seek to one on a stream that can seek (the verification of
\* open_next_chunk, laz_readpoint_read's check of the table, jump_to_chunk).
THEOREM ReaderReachesPoints ==
    ASSUME FarFromLimits, SeeksInside
    PROVE  Spec => PointsAreReachable
<1>1. Kept /\ [Next]_vars => Kept'
  BY NextKept
<1>2. Kept /\ [Next]_vars
        => [Intact(file) /\ InStep =>
              /\ Reader_read /\ index < Total(file) => rp'.ok
              /\ ReadIntoStep /\ index + done < Total(file) => rp'.ok
              /\ PassOver /\ goal < Total(file) => rp'.ok
              /\ file.seekable => \A t \in Targets : Reader_seek(t) => rp'.ok]_vars
  <2>1. Kept /\ Intact(file) => \A t \in Targets : t <= Total(file)
    BY DEF SeeksInside, Kept, Typing
  <2> QED BY <2>1, KeptReaches
<1> QED BY <1>1, <1>2, InitKept, PTL DEF Spec, PointsAreReachable

\* Of intact files the reader hands out point after point, each the one its index
\* names, moves by a seek that worked and by nothing that failed: it implements
\* the cursor of PointSource, with what read_into() has handed out counted in.
THEOREM ReaderIsAPointSource ==
    ASSUME FarFromLimits, SeeksInside, \A f \in Files : Intact(f)
    PROVE  Spec => ImplementsPointSource
<1>1. Kept /\ [Next]_vars => Kept'
  BY NextKept
<1>2. Init => Source!Init
  <2> SUFFICES ASSUME Init PROVE Source!Init
    OBVIOUS
  <2>1. file \in Files /\ index = 0 /\ done = 0 /\ out = Nothing
    BY DEF Init
  <2>2. Total(file) \in Nat /\ index + done = 0
    BY <2>1, NoMoreChunksThanPoints
  <2> QED BY <2>1, <2>2 DEF Source!Init, Source!Nothing, Source!GARBAGE, Nothing, GARBAGE
<1>3. Kept /\ [Next]_vars => [Source!Next]_<<Total(file), index + done, out>>
  BY NextIsSourceStep
<1> QED BY <1>1, <1>2, <1>3, InitKept, PTL
        DEF Spec, ImplementsPointSource, Source!Spec, Source!psvars
=============================================================================
