------------------------------ MODULE ByteFile ------------------------------
(***************************************************************************)
(* What an output stream promises the writer above it: a file with a write *)
(* position, no buffer in sight.  Bytes put land at the position, over     *)
(* whatever was there, and move it on; a seek moves it and nothing else.   *)
(* Once the file object has failed nothing more is promised.               *)
(***************************************************************************)
EXTENDS Overlays

CONSTANT Byte

VARIABLES content,  \* the bytes of the file, as the one who puts them knows it
          pos,      \* the write position, counted from 0
          failed    \* whether the file object has refused something

bfvars == <<content, pos, failed>>

Init == /\ content \in Seq(Byte)
        /\ pos \in 0 .. Len(content)
        /\ failed = FALSE

\* Some bytes are put: whatever stands between the two positions afterwards.
Put == /\ ~failed
       /\ pos' \in pos + 1 .. Len(content')
       /\ content' = Overlay(content, pos, SubSeq(content', pos + 1, pos'))
       /\ UNCHANGED failed

Seek == /\ ~failed
        /\ pos' \in 0 .. Len(content)
        /\ UNCHANGED <<content, failed>>

\* The file object raises, or has raised.
Break == failed'

Next == Put \/ Seek \/ Break

Spec == Init /\ [][Next]_bfvars
=============================================================================
