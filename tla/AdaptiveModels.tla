--------------------------- MODULE AdaptiveModels ---------------------------
(***************************************************************************)
(* The probabilities the arithmetic coder of laz_arithmetic.c codes with:  *)
(* a LazBitModel of two symbols and a LazSymbolModel of more.  Each counts *)
(* what it coded and, every so often, takes the counts for probabilities.  *)
(*                                                                         *)
(* The coder's registers and everything measured by them are narrower here *)
(* than there; the constants name what is 32, 15, 13 and so on in the code.*)
(***************************************************************************)
EXTENDS Integers, Sequences, SequencesExt

CONSTANTS REGISTER_BITS,     \* of a U32
          DM_LENGTH_SHIFT,   \* the bits of a symbol's probability
          BM_LENGTH_SHIFT,   \* and of a bit's
          MOST_CYCLE,        \* 64: the longest a bit model goes without update
          CYCLE_SHIFT,       \* 3: what makes the longest of a symbol model
          SMALL,             \* 16: alphabets this large have no decoder table
          TABLE_BITS,        \* 3: the least bits a table is looked up by
          TABLE_RATIO        \* 2: symbols to an entry, as a shift

DM_MAX_COUNT == 2^DM_LENGTH_SHIFT
BM_MAX_COUNT == 2^BM_LENGTH_SHIFT

\* The first halving in a model of n symbols must bring its total back, or the
\* probabilities would not have the bits to tell all symbols apart.
MostSymbols(n) == (DM_MAX_COUNT + (n + 6) * 2^CYCLE_SHIFT + n) \div 2 <= DM_MAX_COUNT

ASSUME ModelAssumption ==
    /\ {DM_LENGTH_SHIFT, BM_LENGTH_SHIFT} \subseteq 1 .. REGISTER_BITS - 1
    /\ MostSymbols(2)

Halved(count) == (count + 1) \div 2
Lesser(a, b)  == IF a < b THEN a ELSE b

\* What a total is divided into, so that products with it stay in a register.
Scale(total) == 2^(REGISTER_BITS - 1) \div total

-----------------------------------------------------------------------------
(* Bits *)

laz_bit_model_init ==
    [bit_0_count |-> 1, bit_count |-> 2, bit_0_prob |-> 2^(BM_LENGTH_SHIFT - 1),
     update_cycle |-> 4, bits_until_update |-> 4]

\* A bit that was never 1 keeps a probability.
laz_bit_model_update(m) ==
    LET grown == m.bit_count + m.update_cycle
        full  == grown > BM_MAX_COUNT
        zeros == IF full THEN Halved(m.bit_0_count) ELSE m.bit_0_count
        count == IF ~full THEN grown
                 ELSE IF zeros = Halved(grown) THEN Halved(grown) + 1 ELSE Halved(grown)
        cycle == Lesser((5 * m.update_cycle) \div 4, MOST_CYCLE)
    IN  [bit_0_count |-> zeros, bit_count |-> count,
         bit_0_prob  |-> (zeros * Scale(count)) \div 2^(REGISTER_BITS - 1 - BM_LENGTH_SHIFT),
         update_cycle |-> cycle, bits_until_update |-> cycle]

\* What coding a bit does to its model.
CountedBit(m, sym) ==
    LET next == [m EXCEPT !.bit_0_count = @ + (1 - sym), !.bits_until_update = @ - 1]
    IN  IF next.bits_until_update = 0 THEN laz_bit_model_update(next) ELSE next

-----------------------------------------------------------------------------
(* Symbols *)

\* A model that was set up and never initialised; symbols are 0 .. n - 1.
laz_symbol_model_setup(n, compress) ==
    [num_symbols |-> n, compress |-> compress, distribution |-> <<>>,
     symbol_count |-> <<>>, decoder_table |-> <<>>, fresh |-> <<>>,
     initialised |-> FALSE, total_count |-> 0, update_cycle |-> 0,
     symbols_until_update |-> 0]

\* A model of many symbols has, for decoding, a table of as many entries as that
\* many bits tell apart, and two more.
HasTable(m)     == ~m.compress /\ m.num_symbols > SMALL
TableBits(n)    == CHOOSE b \in TABLE_BITS .. DM_LENGTH_SHIFT :
                       /\ n <= 2^(b + TABLE_RATIO)
                       /\ b = TABLE_BITS \/ n > 2^(b - 1 + TABLE_RATIO)
table_shift(m)  == DM_LENGTH_SHIFT - TableBits(m.num_symbols)
table_size(m)   == 2^TableBits(m.num_symbols)

\* A mutant: one entry short, without the one behind a value of 2^15.
DecoderTable_short(m, distribution) ==
    LET n == m.num_symbols
        Starts(k, t) == distribution[k] \div 2^table_shift(m) >= t
    IN  [t \in 0 .. table_size(m) |->
            IF t = 0 THEN 0
            ELSE IF \E k \in 0 .. n - 1 : Starts(k, t)
            THEN (CHOOSE k \in 0 .. n - 1 :
                      Starts(k, t) /\ \A j \in 0 .. k - 1 : ~Starts(j, t)) - 1
            ELSE n - 1]

\* An entry is the last symbol that starts below what its bits say.
DecoderTable(m, distribution) ==
    LET n == m.num_symbols
        Starts(k, t) == distribution[k] \div 2^table_shift(m) >= t
    IN  [t \in 0 .. table_size(m) + 1 |->
            IF t = 0 THEN 0
            ELSE IF \E k \in 0 .. n - 1 : Starts(k, t)
            THEN (CHOOSE k \in 0 .. n - 1 :
                      Starts(k, t) /\ \A j \in 0 .. k - 1 : ~Starts(j, t)) - 1
            ELSE n - 1]

\* A mutant: counts are halved downwards, so a rare symbol may come to nothing.
laz_symbol_model_update_down(m) ==
    LET n     == m.num_symbols
        grown == m.total_count + m.update_cycle
        count == [k \in 0 .. n - 1 |-> IF grown > DM_MAX_COUNT THEN m.symbol_count[k] \div 2
                                       ELSE m.symbol_count[k]]
        below[k \in 0 .. n] == IF k = 0 THEN 0 ELSE below[k - 1] + count[k - 1]
        total == IF grown > DM_MAX_COUNT THEN below[n] ELSE grown
        distribution == [k \in 0 .. n - 1 |->
            (Scale(total) * below[k]) \div 2^(REGISTER_BITS - 1 - DM_LENGTH_SHIFT)]
        cycle == Lesser((5 * m.update_cycle) \div 4, (n + 6) * 2^CYCLE_SHIFT)
    IN  [m EXCEPT !.symbol_count = count, !.total_count = total,
                  !.distribution = distribution,
                  !.decoder_table = IF HasTable(m) THEN DecoderTable(m, distribution) ELSE <<>>,
                  !.update_cycle = cycle, !.symbols_until_update = cycle]

\* The counts become a distribution.  The total is not added up from them, but
\* follows from how many symbols were coded since the last time.
laz_symbol_model_update(m) ==
    LET n     == m.num_symbols
        grown == m.total_count + m.update_cycle
        full  == grown > DM_MAX_COUNT
        count == IF full THEN [k \in 0 .. n - 1 |-> Halved(m.symbol_count[k])]
                 ELSE m.symbol_count
        below[k \in 0 .. n] == IF k = 0 THEN 0 ELSE below[k - 1] + count[k - 1]
        total == IF full THEN below[n] ELSE grown
        distribution == [k \in 0 .. n - 1 |->
            (Scale(total) * below[k]) \div 2^(REGISTER_BITS - 1 - DM_LENGTH_SHIFT)]
        cycle == Lesser((5 * m.update_cycle) \div 4, (n + 6) * 2^CYCLE_SHIFT)
    IN  [m EXCEPT !.symbol_count = count, !.total_count = total,
                  !.distribution = distribution,
                  !.decoder_table = IF HasTable(m) THEN DecoderTable(m, distribution) ELSE <<>>,
                  !.update_cycle = cycle, !.symbols_until_update = cycle]

Image(m) == [distribution |-> m.distribution, symbol_count |-> m.symbol_count,
             decoder_table |-> m.decoder_table]

\* With one count to a symbol.  From the second time on what comes of it is
\* kept, if there is memory for that, and copied the next time.
laz_symbol_model_init(m, memory) ==
    LET ones    == [m EXCEPT !.total_count = 0, !.update_cycle = m.num_symbols,
                             !.symbol_count = [k \in 0 .. m.num_symbols - 1 |-> 1]]
        derived == laz_symbol_model_update(ones)
        made    == IF m.fresh # <<>>
                   THEN [m EXCEPT !.distribution  = m.fresh.distribution,
                                  !.symbol_count  = m.fresh.symbol_count,
                                  !.decoder_table = m.fresh.decoder_table,
                                  !.total_count   = m.num_symbols]
                   ELSE [derived EXCEPT !.initialised = TRUE,
                                        !.fresh = IF m.initialised /\ memory
                                                  THEN Image(derived) ELSE @]
        cycle   == (m.num_symbols + 6) \div 2
    IN  [made EXCEPT !.update_cycle = cycle, !.symbols_until_update = cycle]

\* What coding a symbol does to its model, and increment_symbol_count.
CountedSymbol(m, sym) ==
    LET next == [m EXCEPT !.symbol_count[sym] = @ + 1, !.symbols_until_update = @ - 1]
    IN  IF next.symbols_until_update = 0 THEN laz_symbol_model_update(next) ELSE next
=============================================================================
