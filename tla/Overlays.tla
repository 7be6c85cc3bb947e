------------------------------ MODULE Overlays ------------------------------
(***************************************************************************)
(* Writing over a sequence: what a write at a position makes of a file.    *)
(***************************************************************************)
EXTENDS Integers, Sequences

Longer(m, n) == IF m > n THEN m ELSE n

\* d with the bytes b in it from position at on, counted from 0.
Overlay(d, at, b) ==
    [i \in 1 .. Longer(Len(d), at + Len(b)) |->
        IF i > at /\ i <= at + Len(b) THEN b[i - at] ELSE d[i]]
=============================================================================
