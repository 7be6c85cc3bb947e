------------------------------ MODULE MCStream ------------------------------
(***************************************************************************)
(* A file for TLC to stream.                                               *)
(***************************************************************************)
EXTENDS FileStream

\* None of them is 0, so that what is read off the end shows.
FiveBytes == <<11, 12, 13, 14, 15>>
=============================================================================
