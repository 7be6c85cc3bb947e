------------------------------ MODULE MCCoder -------------------------------
(***************************************************************************)
(* A coder with registers of eight bits for TLC.                           *)
(***************************************************************************)
EXTENDS ArithmeticCoder

Past(n, encoder_uses, decoder_uses, memory, coded, coded_bits, left) ==
    [num_symbols |-> n, encoder_uses |-> encoder_uses, decoder_uses |-> decoder_uses,
     memory |-> memory, coded |-> coded, coded_bits |-> coded_bits, left |-> left]

\* What takes the models to a skew distribution and past their limits.
Run(sym, n)    == [i \in 1 .. n |-> sym]
Alternating(n) == [i \in 1 .. n |-> i % 2]

AllPasts ==
    {Past(2, 1, 1, TRUE, <<>>, <<>>, 0),
     Past(3, 1, 2, TRUE, Run(1, 13), Run(0, 30), 3),
     Past(3, 3, 2, FALSE, Alternating(9), Run(1, 30), 3),
     Past(5, 1, 3, TRUE, <<>>, Run(1, 9), 3),
     Past(5, 2, 3, TRUE, Run(0, 14), Run(0, 8), 0),
     Past(5, 3, 1, TRUE, Run(4, 13), Alternating(24), 3)}

AllCalls ==
    {[op |-> "bit", bits |-> 1, sym |-> sym] : sym \in 0 .. 1}
    \cup {[op |-> "symbol", bits |-> 1, sym |-> sym] : sym \in {0, 1, 4}}
    \cup {[op |-> "bits", bits |-> 3, sym |-> sym] : sym \in {0, 4, 7}}
    \cup {[op |-> "bits", bits |-> 4, sym |-> 13]}
=============================================================================
