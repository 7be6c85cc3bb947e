------------------------------- MODULE MCTrip -------------------------------
(***************************************************************************)
(* Containers for TLC to write and read back.                              *)
(***************************************************************************)
EXTENDS RoundTrip

Header == <<<<"header">>>>

Layout(compressor, size, seekable) ==
    [compressor |-> compressor, chunk_size |-> size, seekable |-> seekable]

AllLayouts ==
    {Layout(k, size, seekable) :
        k \in {"chunked", "layered"}, size \in {0, 2}, seekable \in BOOLEAN}
    \cup {Layout(k, 0, TRUE) : k \in {"none", "pointwise"}}

CutLayouts == {l \in AllLayouts : l.seekable} \cup {Layout("chunked", 2, FALSE)}

\* What is not there of a table reads as chunks that do not move forward or are
\* somewhere else, and what is none as a position before the file, past it or in
\* it.
Zeros   == {0}
Garbled == {-1, 0, 1}

\* In a finished file a reader seeks; in another it starts over.
BackAndForth(state_) == IF state_ = "done" THEN {0, 3} ELSE {0}
Everywhere(state_)   == {3}
=============================================================================
