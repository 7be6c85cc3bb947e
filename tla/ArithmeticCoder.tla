--------------------------- MODULE ArithmeticCoder --------------------------
(***************************************************************************)
(* The arithmetic coder of laz_arithmetic.c: a LazEncoder writes a stream  *)
(* of bits and symbols as one long number, and a LazDecoder that is asked  *)
(* for the same reads them back from it.                                   *)
(*                                                                         *)
(* The encoder has an interval, [base, base + length), and with each       *)
(* symbol goes on with the part of it that is the symbol's.  Bytes that    *)
(* are settled but for a carry wait in a ring of two halves, and a half is *)
(* handed to the stream when the other has been filled.                    *)
(*                                                                         *)
(* A behaviour is a caller's: a stream that is encoded, call by call, and  *)
(* done with, and then decoded.  The models may have been used before.     *)
(***************************************************************************)
EXTENDS AdaptiveModels

CONSTANTS BYTE_BITS,        \* of a U8, four to a register
          AC_BUFFER_SIZE,   \* half of the ring
          RAW_BITS,         \* 19: the most raw bits that go at once
          RAW_LOW,          \* 16: how many of more go first
          Pasts,            \* what the models and the encoder were used for before
          Calls,            \* how the encoder is called
          MaxCalls          \* how often

VARIABLES e, d,        \* the encoder and the decoder
          models,      \* of each, its bit model and its symbol model
          bytes,       \* the file
          calls,       \* what was encoded, in order
          answers,     \* what was decoded
          state        \* "encoding", "done" or "decoding"

vars == <<e, d, models, bytes, calls, answers, state>>

ASSUME CoderAssumption == /\ REGISTER_BITS = 4 * BYTE_BITS
                          /\ RAW_LOW < RAW_BITS /\ AC_BUFFER_SIZE > 0

BYTES         == 2^BYTE_BITS
WRAP          == 2^REGISTER_BITS
AC_MAX_LENGTH == WRAP - 1
AC_MIN_LENGTH == 2^(REGISTER_BITS - BYTE_BITS)
RING          == 2 * AC_BUFFER_SIZE

-----------------------------------------------------------------------------
(* The encoder.  What it hands to the stream is in `handed`.  Two histories   *)
(* go with it: `number`, what it has written so far if no digit were ever cut *)
(* off, and `late`, whether a carry was for a byte that was gone.             *)

\* The ring is as it comes from malloc or from the last stream.
laz_encoder_init(left) ==
    [base |-> 0, length |-> AC_MAX_LENGTH, ring |-> [i \in 0 .. RING - 1 |-> left],
     outbyte |-> 0, endbyte |-> RING, handed |-> <<>>, number |-> 0, late |-> FALSE]

HalfFrom(x, at) == [i \in 1 .. AC_BUFFER_SIZE |-> x.ring[at + i - 1]]

\* A mutant: the half that was just filled goes out, with a carry yet to come.
manage_outbuffer_eager(x) ==
    LET out  == IF x.outbyte = RING THEN 0 ELSE x.outbyte
        full == (out + AC_BUFFER_SIZE) % RING
    IN  [x EXCEPT !.outbyte = out, !.endbyte = out + AC_BUFFER_SIZE,
                  !.handed = @ \o HalfFrom(x, full)]

\* The half in front of the cursor is the older one.
manage_outbuffer(x) ==
    LET out == IF x.outbyte = RING THEN 0 ELSE x.outbyte
    IN  [x EXCEPT !.outbyte = out, !.endbyte = out + AC_BUFFER_SIZE,
                  !.handed = @ \o HalfFrom(x, out)]

\* How many bytes wait in the ring.
Waiting(x) == x.outbyte + RING - x.endbyte

\* One to the last byte, back through those that are full.  If all are, the
\* last is when it is got to again, and empty by then.
propagate_carry(x) ==
    LET Back(i) == (x.outbyte - 1 - i) % RING
        full    == {i \in 0 .. RING - 1 : \A j \in 0 .. i : x.ring[Back(j)] = BYTES - 1}
        run     == IF full = {} THEN 0 ELSE 1 + CHOOSE i \in full : \A j \in full : j <= i
        emptied == [i \in 0 .. RING - 1 |->
                       IF \E j \in full : Back(j) = i THEN 0 ELSE x.ring[i]]
    IN  [x EXCEPT !.ring = [emptied EXCEPT ![Back(run)] = @ + 1],
                  !.late = @ \/ run >= Waiting(x)]

RECURSIVE renorm_enc_interval(_)
renorm_enc_interval(x) ==
    LET put  == [x EXCEPT !.ring[x.outbyte] = x.base \div AC_MIN_LENGTH,
                          !.outbyte = @ + 1]
        room == IF put.outbyte = x.endbyte THEN manage_outbuffer(put) ELSE put
        next == [room EXCEPT !.base = (x.base * BYTES) % WRAP,
                             !.length = (x.length * BYTES) % WRAP,
                             !.number = @ * BYTES]
    IN  IF next.length < AC_MIN_LENGTH THEN renorm_enc_interval(next) ELSE next

\* On to the part of the interval that starts at `from` and is `length` long.
Narrowed(x, from, length) ==
    LET base  == (x.base + from) % WRAP
        moved == [x EXCEPT !.base = base, !.length = length, !.number = @ + from]
        sound == IF x.base > base THEN propagate_carry(moved) ELSE moved
    IN  IF length < AC_MIN_LENGTH THEN renorm_enc_interval(sound) ELSE sound

laz_encode_bit(x, m, sym) ==
    LET zero == m.bit_0_prob * (x.length \div 2^BM_LENGTH_SHIFT)
    IN  IF sym = 0 THEN Narrowed(x, 0, zero) ELSE Narrowed(x, zero, x.length - zero)

\* The last symbol has what is left of the interval, too.
laz_encode_symbol(x, m, sym) ==
    LET unit == x.length \div 2^DM_LENGTH_SHIFT
        from == m.distribution[sym] * unit
    IN  IF sym = m.num_symbols - 1 THEN Narrowed(x, from, x.length - from)
        ELSE Narrowed(x, from, m.distribution[sym + 1] * unit - from)

RECURSIVE laz_write_bits(_, _, _)
laz_write_bits(x, n, sym) ==
    IF n > RAW_BITS
    THEN laz_write_bits(laz_write_bits(x, RAW_LOW, sym % 2^RAW_LOW), n - RAW_LOW,
                        sym \div 2^RAW_LOW)
    ELSE LET unit == x.length \div 2^n IN Narrowed(x, sym * unit, unit)

Zeros(n) == [i \in 1 .. n |-> 0]

\* A mutant: always as many zeros as one more byte calls for.
laz_encoder_done_short(x) ==
    LET wide  == x.length > 2 * AC_MIN_LENGTH
        last  == Narrowed(x, IF wide THEN AC_MIN_LENGTH ELSE AC_MIN_LENGTH \div 2,
                          IF wide THEN AC_MIN_LENGTH \div 2
                          ELSE AC_MIN_LENGTH \div 2^(BYTE_BITS + 1))
        older == IF last.endbyte # RING THEN HalfFrom(last, AC_BUFFER_SIZE) ELSE <<>>
    IN  [last EXCEPT !.handed = @ \o older
                        \o [i \in 1 .. last.outbyte |-> last.ring[i - 1]] \o Zeros(2)]

\* A number in the interval that ends in zeros, and those as far as a decoder
\* reads when it gets to the end.
laz_encoder_done(x) ==
    LET wide  == x.length > 2 * AC_MIN_LENGTH
        last  == Narrowed(x, IF wide THEN AC_MIN_LENGTH ELSE AC_MIN_LENGTH \div 2,
                          IF wide THEN AC_MIN_LENGTH \div 2
                          ELSE AC_MIN_LENGTH \div 2^(BYTE_BITS + 1))
        older == IF last.endbyte # RING THEN HalfFrom(last, AC_BUFFER_SIZE) ELSE <<>>
    IN  [last EXCEPT !.handed = @ \o older
                        \o [i \in 1 .. last.outbyte |-> last.ring[i - 1]]
                        \o Zeros(IF wide THEN 3 ELSE 2)]

-----------------------------------------------------------------------------
(* The decoder: `value` is where in the interval the number is, `at` how far *)
(* the file has been read.  An answer is in `sym`.                           *)

ByteAt(at) == IF at <= Len(bytes) THEN bytes[at] ELSE 0

laz_decoder_setup == [value |-> 0, length |-> AC_MAX_LENGTH, at |-> 0, sym |-> 0]

laz_decoder_init ==
    [laz_decoder_setup EXCEPT
        !.value = BYTES * (BYTES * (BYTES * ByteAt(1) + ByteAt(2)) + ByteAt(3)) + ByteAt(4),
        !.at = 4]

RECURSIVE renorm_dec_interval(_)
renorm_dec_interval(x) ==
    LET next == [x EXCEPT !.value = ((@ * BYTES) % WRAP) + ByteAt(x.at + 1),
                          !.length = (@ * BYTES) % WRAP, !.at = @ + 1]
    IN  IF next.length < AC_MIN_LENGTH THEN renorm_dec_interval(next) ELSE next

Found(x, sym, from, length) ==
    LET next == [x EXCEPT !.value = (x.value - from) % WRAP, !.length = length, !.sym = sym]
    IN  IF length < AC_MIN_LENGTH THEN renorm_dec_interval(next) ELSE next

laz_decode_bit(x, m) ==
    LET zero == m.bit_0_prob * (x.length \div 2^BM_LENGTH_SHIFT)
    IN  IF x.value >= zero THEN Found(x, 1, zero, x.length - zero) ELSE Found(x, 0, 0, zero)

\* Bisection of the symbols from `sym` up to before `n`.
RECURSIVE Bisected(_, _, _, _)
Bisected(m, dv, sym, n) ==
    LET k == (sym + n) \div 2
    IN  IF n <= sym + 1 THEN sym
        ELSE IF m.distribution[k] > dv THEN Bisected(m, dv, sym, k)
        ELSE Bisected(m, dv, k, n)

\* The symbol of a value: by the table, or among all.
Looked(m, dv) ==
    LET t == dv \div 2^table_shift(m)
    IN  IF HasTable(m) THEN Bisected(m, dv, m.decoder_table[t], m.decoder_table[t + 1] + 1)
        ELSE Bisected(m, dv, 0, m.num_symbols)

\* Without a table the products are compared, not the quotient; for whole
\* numbers that is the same.
laz_decode_symbol(x, m) ==
    LET unit == x.length \div 2^DM_LENGTH_SHIFT
        sym  == Looked(m, x.value \div unit)
        from == m.distribution[sym] * unit
        to   == IF sym = m.num_symbols - 1 THEN x.length ELSE m.distribution[sym + 1] * unit
    IN  Found(x, sym, from, to - from)

RECURSIVE laz_read_bits(_, _)
laz_read_bits(x, n) ==
    IF n > RAW_BITS
    THEN LET low  == laz_read_bits(x, RAW_LOW)
             high == laz_read_bits(low, n - RAW_LOW)
         IN  [high EXCEPT !.sym = @ * 2^RAW_LOW + low.sym]
    ELSE LET unit == x.length \div 2^n
             sym  == x.value \div unit
         IN  Found(x, sym, sym * unit, unit)
-----------------------------------------------------------------------------
(* The callers. *)

\* A symbol model after so many initialisations, with `counted` coded in between
\* and after the last.
RECURSIVE Used(_, _, _, _)
Used(m, times, memory, counted) ==
    IF times = 0 THEN m
    ELSE Used(FoldLeft(CountedSymbol, laz_symbol_model_init(m, memory), counted),
              times - 1, memory, counted)

\* A side has initialised its models some number of times, the encoder's others
\* than the decoder's: what they have in common is what they coded since.
Models(past, compress) ==
    [bit |-> FoldLeft(CountedBit, laz_bit_model_init, past.coded_bits),
     symbol |-> Used(laz_symbol_model_setup(past.num_symbols, compress),
                     IF compress THEN past.encoder_uses ELSE past.decoder_uses,
                     past.memory, past.coded)]

Init == /\ \E past \in Pasts : /\ models = [encoder |-> Models(past, TRUE),
                                            decoder |-> Models(past, FALSE)]
                                /\ e = laz_encoder_init(past.left)
        /\ d = laz_decoder_setup
        /\ bytes = <<>> /\ calls = <<>> /\ answers = <<>>
        /\ state = "encoding"

\* encoder_ready: the encoder is started and not done.  An argument that is out
\* of range is refused before that.
Encodes(call) == /\ state = "encoding" /\ Len(calls) < MaxCalls
                 /\ call \in Calls /\ calls' = Append(calls, call)
                 /\ UNCHANGED <<d, bytes, answers, state>>

Encoder_encode_bit ==
    \E call \in Calls :
        /\ call.op = "bit" /\ Encodes(call)
        /\ e' = laz_encode_bit(e, models.encoder.bit, call.sym)
        /\ models' = [models EXCEPT !.encoder.bit = CountedBit(@, call.sym)]

Encoder_encode_symbol ==
    \E call \in Calls :
        /\ call.op = "symbol" /\ call.sym < models.encoder.symbol.num_symbols
        /\ Encodes(call)
        /\ e' = laz_encode_symbol(e, models.encoder.symbol, call.sym)
        /\ models' = [models EXCEPT !.encoder.symbol = CountedSymbol(@, call.sym)]

Encoder_write_bits ==
    \E call \in Calls :
        /\ call.op = "bits" /\ Encodes(call)
        /\ e' = laz_write_bits(e, call.bits, call.sym)
        /\ UNCHANGED models

Encoder_done == /\ state = "encoding"
                /\ e' = laz_encoder_done(e)
                /\ bytes' = e'.handed /\ state' = "done"
                /\ UNCHANGED <<d, models, calls, answers>>

Decoder_start == /\ state = "done"
                 /\ d' = laz_decoder_init /\ state' = "decoding"
                 /\ UNCHANGED <<e, models, bytes, calls, answers>>

\* The decoder is asked for what was encoded.
Decodes(op) == /\ state = "decoding" /\ Len(answers) < Len(calls)
               /\ calls[Len(answers) + 1].op = op
               /\ answers' = Append(answers, d'.sym)
               /\ UNCHANGED <<e, bytes, calls, state>>

Decoder_decode_bit ==
    /\ state = "decoding" /\ d' = laz_decode_bit(d, models.decoder.bit)
    /\ Decodes("bit")
    /\ models' = [models EXCEPT !.decoder.bit = CountedBit(@, d'.sym)]

Decoder_decode_symbol ==
    /\ state = "decoding" /\ d' = laz_decode_symbol(d, models.decoder.symbol)
    /\ Decodes("symbol")
    /\ models' = [models EXCEPT !.decoder.symbol = CountedSymbol(@, d'.sym)]

Decoder_read_bits ==
    /\ state = "decoding" /\ Len(answers) < Len(calls)
    /\ d' = laz_read_bits(d, calls[Len(answers) + 1].bits)
    /\ Decodes("bits")
    /\ UNCHANGED models

Next == \/ Encoder_encode_bit \/ Encoder_encode_symbol \/ Encoder_write_bits
        \/ Encoder_done \/ Decoder_start
        \/ Decoder_decode_bit \/ Decoder_decode_symbol \/ Decoder_read_bits

Spec == Init /\ [][Next]_vars

-----------------------------------------------------------------------------
(* What is right about it. *)

\* The decoder gives back what was encoded, whatever was coded how, and has read
\* the whole of the stream and nothing after it by then ("to stay in sync with
\* the decoder", laz_encoder_done): in a file the next chunk begins there.
DecodesWhatWasEncoded ==
    state = "decoding" /\ ~e.late =>
        /\ \A i \in DOMAIN answers : answers[i] = calls[i].sym
        /\ Len(answers) = Len(calls) => d.at = Len(bytes)

\* The bytes handed over, those in the ring and those still in `base` are what
\* has been written: no carry is lost and no half goes out too soon, twice or
\* in the other's place (manage_outbuffer, propagate_carry).
Digits(seq) == FoldLeft(LAMBDA a, b : a * BYTES + b, 0, seq)
InTheRing ==
    (IF e.endbyte # RING THEN HalfFrom(e, AC_BUFFER_SIZE) ELSE <<>>)
    \o [i \in 1 .. e.outbyte |-> e.ring[i - 1]]
RingIsTheNumber ==
    state = "encoding" /\ ~e.late =>
        Digits(e.handed \o InTheRing) * WRAP + e.base = e.number

\* However far the counts have gone and been halved, every bit and every symbol
\* keeps a part of the interval, so that the parts are never the whole and never
\* nothing ("bit-exact by necessity", laz_arithmetic.h).
SideModels == {models.encoder, models.decoder}
ModelsStayDistributions ==
    \A side \in SideModels :
        LET m == side.symbol
        IN  /\ side.bit.bit_0_prob \in 1 .. 2^BM_LENGTH_SHIFT - 1
            /\ m.distribution[0] = 0
            /\ \A k \in 0 .. m.num_symbols - 2 : m.distribution[k] < m.distribution[k + 1]
            /\ m.distribution[m.num_symbols - 1] < 2^DM_LENGTH_SHIFT

\* A value below the length leads to entries of the decoder's table between which
\* its symbol is, the values included that lie in what the division of the length
\* leaves over: they are the last symbol's, and the entry after the one for 2^15
\* is read for them (laz_decode_symbol).
Quotients == {(length - 1) \div (length \div 2^DM_LENGTH_SHIFT) :
                 length \in AC_MIN_LENGTH .. AC_MAX_LENGTH}
TableBracketsEveryValue ==
    LET m == models.decoder.symbol
        t(dv) == dv \div 2^table_shift(m)
    IN  HasTable(m) =>
            \A dv \in 0 .. 2^DM_LENGTH_SHIFT - 1 \cup Quotients :
                /\ t(dv) + 1 \in DOMAIN m.decoder_table
                /\ m.distribution[m.decoder_table[t(dv)]] <= dv
                /\ \/ m.decoder_table[t(dv) + 1] = m.num_symbols - 1
                   \/ dv < m.distribution[m.decoder_table[t(dv) + 1] + 1]

\* "The interval width guarantees a non-0xFF byte long before then"
\* (propagate_carry): no carry is for a byte that has left the ring.
CarriesStayInTheRing == ~e.late
=============================================================================
