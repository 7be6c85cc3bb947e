---------------------------- MODULE PointSource ----------------------------
(***************************************************************************)
(* What a PointReader promises to whoever reads a file of points through   *)
(* it, with no chunk, table, decoder or stream in sight: a cursor over the *)
(* points 0 .. total - 1, and a last answer.                               *)
(*                                                                         *)
(* The reader hands points out in order, moves only when asked to, and an  *)
(* operation that fails leaves the cursor where the points handed out so   *)
(* far have put it.  Past the last point nothing is promised about what    *)
(* comes back: the count of points is the header's business.               *)
(***************************************************************************)
EXTENDS Integers

VARIABLES total,  \* how many points the file holds
          next,   \* the index of the next point to hand out
          out     \* the last answer: a point with its index, an error, or nothing

psvars == <<total, next, out>>

GARBAGE == -1     \* a point that was never written

Nothing == [kind |-> "nothing", index |-> 0, point |-> GARBAGE]
Failure == [kind |-> "error",   index |-> 0, point |-> GARBAGE]
Handed(i, p) == [kind |-> "point", index |-> i, point |-> p]

Init == /\ total \in Nat
        /\ next = 0
        /\ out = Nothing

\* The next point, which is the one its index names.
Deliver == /\ next < total
           /\ out' = Handed(next, next)
           /\ next' = next + 1
           /\ UNCHANGED total

\* Off the end: anything may be decoded out of whatever follows the points.
DeliverBeyond == /\ next >= total
                 /\ \E p \in {GARBAGE} \cup 0 .. total : out' = Handed(next, p)
                 /\ next' = next + 1
                 /\ UNCHANGED total

\* Wherever the caller asked to go.
Seek == /\ next' \in Nat
        /\ out' = Nothing
        /\ UNCHANGED total

Fail == /\ out' = Failure
        /\ UNCHANGED <<total, next>>

Next == Deliver \/ DeliverBeyond \/ Seek \/ Fail

Spec == Init /\ [][Next]_psvars
=============================================================================
