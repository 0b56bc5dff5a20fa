------------------------------ MODULE Projection ------------------------------
(***************************************************************************)
(* The projection of a constraint expression: what its clauses do to the   *)
(* flags (send_p) and the dimensions of a dataset's variables, one clause  *)
(* after the other (ce_expr.yy, DDS::mark, Array::add_constraint).         *)
(* Names are complete, a clause has brackets in one place, and functions   *)
(* are left out.                                                           *)
(***************************************************************************)
EXTENDS Integers, Sequences, FiniteSets

CONSTANTS
    Vars,               \* the variables of the dataset
    Inside,             \* pairs: the first is somewhere in the second
    Arrays, Grids, Sequences,
    Shape,              \* the sizes of an Array's dimensions
    GridArray, Maps,    \* the Array and the sequence of Maps of a Grid
    Indices,            \* what clauses have in brackets
    MaxNames            \* bound: variables named

Star == -1

ASSUME ProjectionAssumption ==
    /\ Inside \subseteq Vars \X Vars
    /\ \A u, v, w \in Vars : <<u, v>> \in Inside /\ <<v, w>> \in Inside => <<u, w>> \in Inside
    /\ Arrays \subseteq Vars /\ Grids \subseteq Vars /\ Sequences \subseteq Vars
    /\ Arrays \cap Grids = {} /\ Sequences \cap (Arrays \cup Grids) = {}
    /\ Shape \in [Arrays -> Seq(Nat \ {0})]
    /\ Indices \subseteq [start : Nat, stride : Nat, stop : Nat \cup {Star}]
(* What Grid::check_semantics asks for.                                    *)
ASSUME GridAssumption ==
    /\ GridArray \in [Grids -> Arrays] /\ Maps \in [Grids -> Seq(Arrays)]
    /\ \A g \in Grids :
           /\ Len(Maps[g]) = Len(Shape[GridArray[g]]) /\ Len(Maps[g]) > 0
           /\ {u \in Vars : <<u, g>> \in Inside} = {GridArray[g]} \cup {Maps[g][d] : d \in DOMAIN Maps[g]}
           /\ \A d \in DOMAIN Maps[g] :
                  /\ Maps[g][d] # GridArray[g] /\ Shape[Maps[g][d]] = <<Shape[GridArray[g]][d]>>
                  /\ \A e \in DOMAIN Maps[g] : Maps[g][e] = Maps[g][d] => e = d
    /\ \A u, v \in Grids, w \in Vars : <<w, u>> \in Inside /\ <<w, v>> \in Inside => u = v

VARIABLES
    send_p,             \* the variables marked
    dims,               \* start, stop, stride and c_size of each dimension
    rows,               \* the row numbers set for a Sequence
    asked,              \* the variables that clauses have named
    at                  \* "parsing", "all" or "failed"

vars == <<send_p, dims, rows, asked, at>>

Within(v) == {u \in Vars : <<u, v>> \in Inside}
Around(v) == {u \in Vars : <<v, u>> \in Inside}
MapsOf(g) == {Maps[g][d] : d \in DOMAIN Maps[g]}

Unconstrained(size) == [start |-> 0, stop |-> size - 1, stride |-> 1, c_size |-> size]
reset_constraint(a) == [d \in DOMAIN Shape[a] |-> Unconstrained(Shape[a][d])]
EveryRow == [start |-> Star, stride |-> 1, stop |-> Star]

Init ==
    /\ send_p = {} /\ asked = {} /\ at = "parsing"
    /\ dims = [a \in Arrays |-> reset_constraint(a)]
    /\ rows = [q \in Sequences |-> EveryRow]

-----------------------------------------------------------------------------
(* DDS::mark: the variable with all that is in it, and what it is in.      *)

MarkBelow(marked, v) == marked \cup {v} \cup Within(v)
mark(marked, v) == marked \cup {v} \cup Within(v) \cup Around(v)

(* Array::add_constraint, for one dimension.  Division truncates.          *)
Quotient(x, y) == IF x >= 0 THEN x \div y ELSE -((-x) \div y)
Stop(size, i) == IF i.stop = Star THEN size - 1 ELSE i.stop
CountInclusive(start, stop, stride) == Quotient(stop - start + 1, stride)
Count(start, stop, stride) == Quotient(stop - start, stride) + 1

Fits(size, i) ==
    /\ i.start < size /\ Stop(size, i) < size
    /\ i.stride <= size /\ i.stride > 0

add_constraint(size, i) ==
    [start |-> i.start, stop |-> Stop(size, i), stride |-> i.stride,
     c_size |-> Count(i.start, Stop(size, i), i.stride)]

(* The test of process_array_indices for an Array that is marked already.  *)
DiffersInEnds(dim, i) == dim.start # i.start \/ (dim.stop # i.stop /\ i.stop # Star)
Differs(dim, i) == DiffersInEnds(dim, i) \/ dim.stride # i.stride

Accepts(a, index) ==
    /\ Len(index) = Len(Shape[a])
    /\ \A d \in DOMAIN Shape[a] :
           /\ a \in send_p => ~Differs(dims[a][d], index[d])
           /\ Fits(Shape[a][d], index[d])

Hyperslab(a, index) == [d \in DOMAIN Shape[a] |-> add_constraint(Shape[a][d], index[d])]

(* The Maps of a Grid forget what they had and follow the Array.           *)
KeepMaps(g, index) == [dims EXCEPT ![GridArray[g]] = Hyperslab(GridArray[g], index)]
GridDims(g, index) ==
    [a \in Arrays |->
        IF a = GridArray[g] THEN Hyperslab(a, index)
        ELSE IF a \in MapsOf(g) THEN <<add_constraint(Shape[a][1], index[CHOOSE d \in DOMAIN Maps[g] : Maps[g][d] = a])>>
        ELSE dims[a]]

-----------------------------------------------------------------------------
(* Clauses.                                                                *)

Accept(name, marked) ==
    /\ send_p' = marked
    /\ asked' = asked \cup {name} /\ Cardinality(asked') <= MaxNames
    /\ UNCHANGED at

(* An Error ends the parse and the request: what was changed before it     *)
(* nobody reads.                                                           *)
Throw ==
    /\ at' = "failed"
    /\ UNCHANGED <<send_p, dims, rows, asked>>

Name(v) ==
    /\ at = "parsing"
    /\ Accept(v, mark(send_p, v))
    /\ UNCHANGED <<dims, rows>>

no_such_ident == at = "parsing" /\ Throw

(* a[..], or a[..].field: the Array is constrained, the last name marked.  *)
process_array_indices(a, index, name) ==
    /\ at = "parsing"
    /\ \/ /\ Accepts(a, index)
          /\ dims' = [dims EXCEPT ![a] = Hyperslab(a, index)]
          /\ Accept(name, mark(send_p, name))
          /\ UNCHANGED rows
       \/ ~Accepts(a, index) /\ Throw

(* All Maps are suppressed, those with an index marked, then the whole     *)
(* Grid: a field after the brackets adds nothing.                          *)
process_grid_indices(g, index) ==
    /\ at = "parsing"
    /\ \/ /\ Accepts(GridArray[g], index)
          /\ dims' = GridDims(g, index)
          /\ Accept(g, mark((send_p \ MapsOf(g)) \cup {Maps[g][d] : d \in DOMAIN index}, g))
          /\ UNCHANGED rows
       \/ ~Accepts(GridArray[g], index) /\ Throw

(* q[..], or q.field[..]: the row numbers are those of the last clause.    *)
process_sequence_indices(q, i, name) ==
    /\ at = "parsing"
    /\ \/ /\ i.stop >= i.start
          /\ rows' = [rows EXCEPT ![q] = i]
          /\ Accept(name, mark(send_p, name))
          /\ UNCHANGED dims
       \/ i.stop < i.start /\ Throw

(* Nothing but a selection, or nothing at all: everything is sent.         *)
mark_all ==
    /\ at = "parsing" /\ asked = {}
    /\ asked' = {v \in Vars : Around(v) = {}} /\ send_p' = UNION {MarkBelow({}, v) : v \in asked'}
    /\ at' = "all"
    /\ UNCHANGED <<dims, rows>>

IndexOf(a) == [DOMAIN Shape[a] -> Indices]
Leaves == Vars \ (Arrays \cup Grids \cup Sequences)
(* parent_is_sequence: the closest Sequence around a variable.             *)
parent_is_sequence(q, v) == q \in Around(v) /\ \A p \in Sequences \cap Around(v) : p = q \/ p \in Around(q)

Next ==
    \/ \E v \in Vars : Name(v)
    \/ \E a \in Arrays : \E index \in IndexOf(a), name \in {a} \cup Within(a) :
           process_array_indices(a, index, name)
    \/ \E g \in Grids : \E index \in IndexOf(GridArray[g]) : process_grid_indices(g, index)
    \/ \E q \in Sequences, i \in Indices :
           \E name \in {q} \cup {v \in Leaves : parent_is_sequence(q, v)} :
               process_sequence_indices(q, i, name)
    \/ mark_all \/ no_such_ident

Spec == Init /\ [][Next]_vars

-----------------------------------------------------------------------------
(* Properties.                                                             *)

Dim == [start : Nat, stop : Int, stride : Nat \ {0}, c_size : Int]
Row == [start : Int, stride : Nat, stop : Int]

(* Every variable has its type.                                            *)
TypeOK ==
    /\ send_p \subseteq Vars /\ asked \subseteq Vars
    /\ dims = [a \in Arrays |-> dims[a]]
    /\ \A a \in Arrays : dims[a] \in [DOMAIN Shape[a] -> Dim]
    /\ rows \in [Sequences -> Row]
    /\ at \in {"parsing", "all", "failed"}

(* What DDS::print_constrained and serialize send is what was named, with  *)
(* all that is in it and what it is in, and nothing else: also when a      *)
(* Grid's indices have suppressed the Maps other clauses asked for.        *)
OnlyWhatWasNamed ==
    \A u \in Vars :
        u \in send_p <=> \E v \in asked : u = v \/ <<u, v>> \in Inside \/ <<v, u>> \in Inside

(* A dimension's count is the number of its steps from start to stop, and  *)
(* they are in the Array.  (The code accepts a stop before the start.)     *)
CountsItsSteps(size, dim) ==
    /\ dim.stop < size
    /\ dim.start <= dim.stop =>
           /\ dim.c_size >= 1
           /\ dim.start + (dim.c_size - 1) * dim.stride <= dim.stop
           /\ dim.start + dim.c_size * dim.stride > dim.stop
CountsAreExact == \A a \in Arrays : \A d \in DOMAIN Shape[a] : CountsItsSteps(Shape[a][d], dims[a][d])

(* Grid::projection_yields_grid.                                           *)
OneComponent(g) == \E v \in Vars : Within(g) \cap send_p = {v}
projection_yields_grid(g) ==
    /\ GridArray[g] \in send_p /\ ~OneComponent(g)
    /\ \A d \in DOMAIN Maps[g] :
           LET m == Maps[g][d] IN
           /\ dims[GridArray[g]][d].c_size # 0 /\ m \in send_p
           /\ dims[m][1].start = dims[GridArray[g]][d].start
           /\ dims[m][1].stop = dims[GridArray[g]][d].stop
           /\ dims[m][1].stride = dims[GridArray[g]][d].stride

(* A Grid whose parts no clause names alone is sent as a Grid, Maps in     *)
(* step with the Array, however often and in whichever order it is named.  *)
GridStaysGrid ==
    \A g \in Grids \cap send_p :
        asked \cap Within(g) = {} /\ (\A d \in DOMAIN Maps[g] : dims[GridArray[g]][d].c_size # 0) =>
            projection_yields_grid(g)

(* "an array will appear more than once in a CE ... However, in this case  *)
(* the two hyperslabs must be equal": once an Array is marked its          *)
(* hyperslab stays, but for a star, which takes it to the end, and for the *)
(* Maps of a Grid, which follow its Array.                                 *)
OnlyToTheEnd(a) ==
    \A d \in DOMAIN Shape[a] :
        /\ dims'[a][d].start = dims[a][d].start /\ dims'[a][d].stride = dims[a][d].stride
        /\ dims'[a][d].stop = dims[a][d].stop \/ dims'[a][d].stop = Shape[a][d] - 1
FollowsArray(a) == \E g \in Grids : \E d \in DOMAIN Maps[g] : Maps[g][d] = a /\ dims'[a][1] = dims'[GridArray[g]][d]
HyperslabsStay == [][\A a \in Arrays \cap send_p : OnlyToTheEnd(a) \/ FollowsArray(a)]_vars
=============================================================================
