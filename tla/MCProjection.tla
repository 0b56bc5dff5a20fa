---------------------------- MODULE MCProjection ----------------------------
(* A dataset for TLC: a Structure with an Array of Structures, a Grid and a *)
(* Sequence.                                                               *)
EXTENDS Projection, TLC

CONSTANTS s, a, t, g, ga, m1, m2, q, r

MCInside == {<<a, s>>, <<t, a>>, <<t, s>>, <<ga, g>>, <<m1, g>>, <<m2, g>>, <<r, q>>}
MCShape == (a :> <<3>>) @@ (ga :> <<2, 3>>) @@ (m1 :> <<2>>) @@ (m2 :> <<3>>)
MCGridArray == (g :> ga)
MCMaps == (g :> <<m1, m2>>)

(* [0], [0:2:1], [1:0], [1:3:1] and [0:*].                                 *)
Index(start, stride, stop) == [start |-> start, stride |-> stride, stop |-> stop]
MCIndices ==
    {Index(0, 1, 0), Index(0, 2, 1), Index(1, 1, 0), Index(1, 3, 1), Index(0, 1, Star)}
=============================================================================
