----------------------------- MODULE MCSequence -----------------------------
(* Sequence with row-number constraints that begin, step, end and stop      *)
(* between rows.                                                           *)
EXTENDS Sequence

Limit(start, stride, stop) == [start |-> start, stride |-> stride, stop |-> stop]

MCLimits == {NoLimit, Limit(1, 1, 1), Limit(0, 2, 3), Limit(0, 0, 1)}
=============================================================================
