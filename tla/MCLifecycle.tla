---------------------------- MODULE MCLifecycle ----------------------------
(***************************************************************************)
(* Files for TLC to write, close and append to.                            *)
(***************************************************************************)
EXTENDS WriterLifecycle

Layout(compressor, las, owned) ==
    [compressor |-> compressor, chunk_size |-> IF compressor = "chunked" THEN 2 ELSE 0,
     seekable |-> TRUE, las |-> las, owned |-> owned]

\* Each version of a file in a container that can hold it, the writer's own
\* and lent.
AllLayouts ==
    {Layout("chunked", "legacy14", owned) : owned \in BOOLEAN}
    \cup {Layout("layered", "extended14", FALSE), Layout("chunked", "disguised", TRUE),
          Layout("none", "disguised", FALSE), Layout("pointwise", "legacy12", FALSE)}

=============================================================================
