----------------------------- MODULE ItemCoding -----------------------------
(***************************************************************************)
(* What the coders of items share: laz_item.h, and the arithmetic coder as *)
(* far as an item coder can tell.                                          *)
(*                                                                         *)
(* An item coder sees a coder c that takes a symbol with a model, or gives *)
(* one back.  In between lies a tape of entries [model, warm, sym]: a      *)
(* decoder gets a symbol back when it asks with a model of the same name   *)
(* and the same history, and is out of step for good otherwise.  Of a      *)
(* model's history it is kept whether it was used since it was last        *)
(* initialised: both sides see the same symbols, so two models differ only *)
(* where one side has initialised them and the other has not.              *)
(***************************************************************************)
EXTENDS IntCompressor, Sequences, SequencesExt

CONSTANTS SHORT_BITS, BYTE_BITS,   \* the widths of a U16 and a U8
          TOP_18, TOP_19, TOP_20,  \* the caps on a context that counts bits
          Plenty                   \* memory that never runs out

LONG_BITS == 2 * INT_BITS          \* of a U64 and an I64
BYTES     == 2^BYTE_BITS

-----------------------------------------------------------------------------
\* A value worked out once, for what is worked out from it.
With(v, F(_)) == F(v)

-----------------------------------------------------------------------------
(* Bits and halves of numbers. *)

Bit(b) == IF b THEN 1 ELSE 0
HasBit(n, bit) == (n \div bit) % 2 = 1

\* A set of what changed of a point, as a number: a bit for each, the highest first.
Flags(order, changed) == FoldLeft(LAMBDA n, f : 2 * n + Bit(f \in changed), 0, order)

\* A difference of 64 bits that 32 say as well; the upper half of a time taken
\* for an unsigned number, as an I32.
Fits32(diff64) == diff64 = Signed(diff64, INT_BITS)
HighWord(time) == Signed(Unsigned(time, LONG_BITS) \div 2^INT_BITS, INT_BITS)

\* I32_QUANTIZE of a ratio, halves away from zero.  The code divides in F32,
\* which may round differently; the reader is told the result.
Quantized(n, d) ==
    LET Abs(a)     == IF a < 0 THEN -a ELSE a
        Near(a, b) == (2 * a + b) \div (2 * b)
    IN  (IF (n < 0) = (d < 0) THEN 1 ELSE -1) * Near(Abs(n), Abs(d))

-----------------------------------------------------------------------------
(* Models and the tape. *)

laz_symbol_model_setup(name, count, symbols) ==
    [name |-> name, contexts |-> count, symbols |-> symbols]

\* A coder of either direction.  `val` is what a decoder got last, `k` the
\* interval its last corrector was in; `fits` is a history.
Coder(memory) == [tape |-> <<>>, warm |-> {}, created |-> {}, memory |-> memory,
                  alloc_failed |-> FALSE, in_step |-> TRUE, fits |-> TRUE,
                  val |-> 0, k |-> 0]

\* Models are initialised anew; of a bank, those that were created.
Reinitialised(c, names) == [c EXCEPT !.warm = {m \in c.warm : m[1] \notin names}]

Stopped(c) == c.alloc_failed \/ ~c.in_step

Put(e, model, sym, fits) ==
    IF Stopped(e) THEN e
    ELSE [e EXCEPT !.tape = Append(@, [model |-> model, warm |-> model \in e.warm,
                                       sym |-> sym]),
                   !.warm = @ \cup {model},
                   !.fits = @ /\ fits]

Take(d, model) ==
    IF Stopped(d) THEN [d EXCEPT !.val = 0]
    ELSE IF d.tape # <<>> /\ Head(d.tape).model = model
            /\ Head(d.tape).warm = (model \in d.warm)
    THEN [d EXCEPT !.tape = Tail(@), !.warm = @ \cup {model}, !.val = Head(d.tape).sym]
    ELSE [d EXCEPT !.in_step = FALSE, !.val = 0]

laz_encode_symbol(e, m, i, sym) ==
    Put(e, <<m.name, i>>, sym, i \in 0 .. m.contexts - 1 /\ sym \in 0 .. m.symbols - 1)
laz_decode_symbol(d, m, i) == Take(d, <<m.name, i>>)

\* Raw bits have no model, so nothing to be warm.
laz_write_bits(e, bits, sym) ==
    [Put(e, <<"raw", bits>>, sym, sym \in 0 .. 2^bits - 1) EXCEPT !.warm = e.warm]
laz_read_bits(d, bits) == [Take(d, <<"raw", bits>>) EXCEPT !.warm = d.warm]

laz_write_int64(e, n) ==
    laz_write_bits(laz_write_bits(e, INT_BITS, Unsigned(n, INT_BITS)),
                   INT_BITS, Unsigned(n, LONG_BITS) \div 2^INT_BITS)
laz_read_int64(d) ==
    With(laz_read_bits(d, INT_BITS), LAMBDA lower :
    With(laz_read_bits(lower, INT_BITS), LAMBDA upper :
        [upper EXCEPT !.val = @ * 2^INT_BITS + lower.val]))

-----------------------------------------------------------------------------
(* The integer compressor over the coder. *)

\* write_corrector: how far off, through the context's model; then where, `u`,
\* through that interval's, the low bits of a wide one raw.
write_corrector(e, ic, k, u) ==
    LET k1      == k - BITS_HIGH
        symbols == IF k = 0 THEN 2 ELSE 2^Min({k, BITS_HIGH})
        High(v) == Put(e, <<ic.name, "corrector", k>>, v,
                       k <= ic.corr_bits /\ v \in 0 .. symbols - 1)
    IN  CASE k = INT_BITS -> e
          [] k # INT_BITS /\ k1 <= 0 -> High(u)
          [] OTHER -> laz_write_bits(High(u \div 2^k1), k1, u % 2^k1)

laz_ic_compress(e, ic, i, pred, real) ==
    With(Corrector(ic, pred, real), LAMBDA c :
    With(Magnitude(c), LAMBDA k :
        [write_corrector(Put(e, <<ic.name, "bits", i>>, k,
                             i \in 0 .. ic.contexts - 1 /\ k \in 0 .. ic.corr_bits),
                         ic, k, Place(c, k))
            EXCEPT !.k = k]))

\* read_corrector: the corrector of magnitude k, as the val of the decoder.
read_corrector(d, ic, k) ==
    LET k1   == k - BITS_HIGH
        high == Take(d, <<ic.name, "corrector", k>>)
    IN  CASE k = INT_BITS -> [d EXCEPT !.val = ic.corr_min]
          [] k # INT_BITS /\ k1 <= 0 -> [high EXCEPT !.val = Placed(@, k)]
          [] OTHER -> With(high, LAMBDA h :
                          [laz_read_bits(h, k1) EXCEPT !.val = Placed(h.val * 2^k1 + @, k)])

laz_ic_decompress(d, ic, i, pred) ==
    With(Take(d, <<ic.name, "bits", i>>), LAMBDA size :
        [read_corrector(size, ic, size.val)
            EXCEPT !.val = Corrected(ic, pred, @), !.k = size.val])

-----------------------------------------------------------------------------
(* Banks of models made on demand. *)

laz_bank_get(c, m, i) ==
    IF Stopped(c) \/ <<m.name, i>> \in c.created THEN c
    ELSE IF c.memory = 0 THEN [c EXCEPT !.alloc_failed = TRUE]
    ELSE [c EXCEPT !.created = @ \cup {<<m.name, i>>},
                   !.memory = IF @ = Plenty THEN @ ELSE @ - 1]

-----------------------------------------------------------------------------
(* Predictors. *)

\* An item read, field by field: the decoder c and the item so far.
Decoded(s, field, c) == [c |-> c, item |-> [s.item EXCEPT ![field] = c.val]]

\* A mutant: a difference is folded at one end only.
U8_FOLD_above(n) == IF n > BYTES - 1 THEN n - BYTES ELSE n

\* A byte's difference, brought back into a byte; a prediction kept in one.
U8_FOLD(n)  == IF n < 0 THEN n + BYTES ELSE IF n > BYTES - 1 THEN n - BYTES ELSE n
U8_CLAMP(n) == IF n <= 0 THEN 0 ELSE IF n >= BYTES - 1 THEN BYTES - 1 ELSE n

ZeroBit0(n) == n - (n % 2)

laz_median3(d) ==
    IF d[1] < d[2]
    THEN IF d[2] < d[3] THEN d[2] ELSE IF d[1] < d[3] THEN d[3] ELSE d[1]
    ELSE IF d[1] < d[3] THEN d[1] ELSE IF d[2] < d[3] THEN d[3] ELSE d[2]

\* The streaming median of five: on its high side a new value goes in from
\* above and the lowest of the upper ones is given up, and the other way round.
laz_median5_init == [values |-> <<0, 0, 0, 0, 0>>, high |-> TRUE]
laz_median5_get(m) == m.values[3]
laz_median5_add(m, v) ==
    LET a == m.values
    IN  IF m.high
        THEN [high   |-> v < a[3],
              values |-> IF v < a[1] THEN <<v, a[1], a[2], a[3], a[4]>>
                         ELSE IF v < a[2] THEN <<a[1], v, a[2], a[3], a[4]>>
                         ELSE IF v < a[3] THEN <<a[1], a[2], v, a[3], a[4]>>
                         ELSE IF v < a[4] THEN <<a[1], a[2], a[3], v, a[4]>>
                         ELSE <<a[1], a[2], a[3], a[4], v>>]
        ELSE [high   |-> ~(a[3] < v),
              values |-> IF a[5] < v THEN <<a[2], a[3], a[4], a[5], v>>
                         ELSE IF a[4] < v THEN <<a[2], a[3], a[4], v, a[5]>>
                         ELSE IF a[3] < v THEN <<a[2], a[3], v, a[4], a[5]>>
                         ELSE IF a[2] < v THEN <<a[2], v, a[3], a[4], a[5]>>
                         ELSE <<v, a[2], a[3], a[4], a[5]>>]

\* Which of 16 and of 8 predictors a return has: by n, the number of returns
\* of its pulse, and r, which of them it is.  Defined in laz_readitem_v2.c.
laz_number_return_map(n, r) ==
    <<<<15, 14, 13, 12, 11, 10,  9,  8>>,
      <<14,  0,  1,  3,  6, 10, 10,  9>>,
      <<13,  1,  2,  4,  7, 11, 11, 10>>,
      <<12,  3,  4,  5,  8, 12, 12, 11>>,
      <<11,  6,  7,  8,  9, 13, 13, 12>>,
      <<10, 10, 11, 12, 13, 14, 14, 13>>,
      << 9, 10, 11, 12, 13, 14, 15, 14>>,
      << 8,  9, 10, 11, 12, 13, 14, 15>>>>[n + 1][r + 1]
laz_number_return_level(n, r) == IF n < r THEN r - n ELSE n - r

\* The parts of a POINT10's bit_byte.
ReturnNumber(b)    == b % 8
NumberOfReturns(b) == (b \div 8) % 8
ScanDirFlag(b)     == (b \div 64) % 2

\* Times are four sequences; which other than the last a time is near to, as
\* its distance from the last, or 0.
laz_gps_find_other_sequence(last_gpstime, last, time) ==
    LET Near(i) == LET diff64 == Signed(time - last_gpstime[(last + i) % 4], LONG_BITS)
                   IN  diff64 = Signed(diff64, INT_BITS)
    IN  IF \E i \in 1 .. 3 : Near(i)
        THEN CHOOSE i \in 1 .. 3 : Near(i) /\ \A j \in 1 .. i - 1 : ~Near(j)
        ELSE 0
=============================================================================
