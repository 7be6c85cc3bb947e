------------------------------ MODULE MCWriter ------------------------------
(***************************************************************************)
(* Containers for TLC to run a ChunkWriter with.                           *)
(***************************************************************************)
EXTENDS ChunkWriter

Layout(compressor, size, seekable) ==
    [compressor |-> compressor, chunk_size |-> size, seekable |-> seekable]

\* Every container, fixed chunks of two points and adaptive ones, onto files
\* that can be gone back in and onto pipes.
AllLayouts ==
    {Layout(k, size, seekable) :
        k \in {"chunked", "layered"}, size \in {0, 2}, seekable \in BOOLEAN}
    \cup {Layout(k, 0, TRUE) : k \in {"none", "pointwise"}}

\* The header is one unit, and is all there is in front of the points.
HeaderOnly == <<<<"header">>>>

FixedLayouts == {Layout("chunked", 2, TRUE)}

=============================================================================
