----------------------------- MODULE ByteSource -----------------------------
(***************************************************************************)
(* What an input stream promises the decoder above it: a file with a read  *)
(* position, no buffer in sight.  Bytes come out in order from where the   *)
(* position is; off the end they are zeros, and eof is set.  Once the file *)
(* object has failed nothing more is promised.                             *)
(***************************************************************************)
EXTENDS Integers, Sequences

VARIABLES content,  \* the bytes of the file, which do not change
          pos,      \* the read position, counted from 0
          eof,      \* whether a read ran past the end
          failed,   \* whether the file object has refused something
          answer    \* what the last call handed out

bsvars == <<content, pos, eof, failed, answer>>

\* n bytes from position p on, zeros behind the end.
Bytes(p, n) == [i \in 1 .. n |-> IF p + i <= Len(content) THEN content[p + i] ELSE 0]

Larger(m, n) == IF m > n THEN m ELSE n

Init == /\ pos \in Nat
        /\ ~eof /\ ~failed
        /\ answer = <<>>

Get == /\ ~failed
       /\ answer' = Bytes(pos, Len(answer'))
       /\ LET end == pos + Len(answer')
          IN  IF end <= Len(content) THEN pos' = end /\ eof' = eof
              ELSE pos' = Larger(pos, Len(content)) /\ eof'
       /\ UNCHANGED <<content, failed>>

Seek == /\ ~failed
        /\ pos' \in Nat /\ ~eof'
        /\ answer' = <<>>
        /\ UNCHANGED <<content, failed>>

\* How much is left, or -1.  Asking may forget that the end was run past.
Measure == /\ ~failed
           /\ answer' \in {<<-1>>, <<Larger(0, Len(content) - pos)>>}
           /\ eof' => eof
           /\ UNCHANGED <<content, pos, failed>>

\* The file object raises, or has raised.
Break == failed' /\ UNCHANGED content

Next == Get \/ Seek \/ Measure \/ Break

Spec == Init /\ [][Next]_bsvars
=============================================================================
