--------------------------- MODULE IntCompressor ---------------------------
(***************************************************************************)
(* The arithmetic of laz_intcompressor.c: a number is coded as what its    *)
(* prediction is off by, folded into the range of its width, and that as   *)
(* the size k of the interval it lies in and its place there.              *)
(*                                                                         *)
(* Widths are parameters; the widest, INT_BITS, stands for 32 and is the   *)
(* one whose range the code writes as 0.                                   *)
(***************************************************************************)
EXTENDS Integers

CONSTANTS INT_BITS,   \* the width of an I32 and a U32
          BITS_HIGH   \* how many bits of a corrector go through a model

ASSUME WidthAssumption == /\ INT_BITS \in Nat /\ INT_BITS > 1
                          /\ BITS_HIGH \in Nat \ {0}

\* The value an integer of so many bits has, signed or not.
Signed(n, bits) == ((n + 2^(bits - 1)) % 2^bits) - 2^(bits - 1)
Unsigned(n, bits) == n % 2^bits

\* C's division, which truncates.
Quotient(n, d) == IF n < 0 THEN -((-n) \div d) ELSE n \div d

-----------------------------------------------------------------------------
\* A compressor of numbers of a width: the range of its correctors, 0 for the
\* whole of an I32, and the bits the widest of them has.
ic_setup(name, bits, contexts) ==
    [name |-> name, contexts |-> contexts, corr_bits |-> bits,
     corr_range |-> IF bits = INT_BITS THEN 0 ELSE 2^bits,
     corr_min   |-> -(2^(bits - 1)),
     corr_max   |-> 2^(bits - 1) - 1]

\* laz_ic_compress as far as write_corrector.
Corrector(ic, pred, real) ==
    LET corr == Signed(real - pred, INT_BITS)
    IN  IF corr < ic.corr_min THEN corr + ic.corr_range
        ELSE IF corr > ic.corr_max THEN corr - ic.corr_range
        ELSE corr

\* laz_ic_decompress after read_corrector.  A range of 0 changes nothing.
Corrected(ic, pred, corr) ==
    LET real == Signed(pred + corr, INT_BITS)
    IN  IF real < 0 THEN real + ic.corr_range
        ELSE IF real >= ic.corr_range THEN real - ic.corr_range
        ELSE real

\* The tightest [-(2^k - 1), 2^k] that holds c; all of INT_BITS is c = corr_min.
Magnitude(c) ==
    LET c1 == IF c <= 0 THEN -c ELSE c - 1
    IN  CHOOSE k \in 0 .. INT_BITS : /\ c1 < 2^k
                                     /\ k = 0 \/ c1 >= 2^(k - 1)

\* write_corrector's translation of c into [0, 2^k - 1], and read_corrector's
\* back, for 0 < k < INT_BITS.  With k = 0 c is 0 or 1 and codes as it is.
Place(c, k)  == IF k = 0 THEN c ELSE IF c < 0 THEN c + (2^k - 1) ELSE c - 1

Placed(u, k) ==
    IF k = 0 THEN u ELSE IF u >= 2^(k - 1) THEN u + 1 ELSE u - (2^k - 1)
=============================================================================
