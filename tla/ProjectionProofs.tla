-------------------------- MODULE ProjectionProofs --------------------------
(***************************************************************************)
(* Proofs about Projection, for any dataset and any clauses.               *)
(***************************************************************************)
EXTENDS Projection, TLAPS

(* The Maps of a Grid that no clause has taken apart are constrained as    *)
(* its Array is.                                                           *)
MapsInStep ==
    \A g \in Grids :
        asked \cap Within(g) = {} =>
            \A d \in DOMAIN Maps[g] : dims[Maps[g][d]][1] = dims[GridArray[g]][d]

(* The marks, as mark makes them.                                          *)
Named(names) == UNION {mark({}, v) : v \in names}
MarkedIsNamed == send_p = Named(asked)

IInv == TypeOK /\ MarkedIsNamed /\ CountsAreExact /\ MapsInStep

-----------------------------------------------------------------------------
(* One dimension.                                                          *)

LEMMA Division ==
    ASSUME NEW x \in Nat, NEW y \in Nat \ {0}
    PROVE  x \div y \in Nat /\ (x \div y) * y <= x /\ x < (x \div y + 1) * y
OBVIOUS

(* The count that add_constraint computes, for any size and any index that *)
(* fits, is exact.                                                         *)
LEMMA CountIsExact ==
    ASSUME NEW size \in Nat \ {0}, NEW i \in Indices, Fits(size, i)
    PROVE  add_constraint(size, i) \in Dim /\ CountsItsSteps(size, add_constraint(size, i))
<1>. DEFINE stop == Stop(size, i)
            x == stop - i.start
<1>1. i.start \in Nat /\ i.stride \in Nat \ {0} /\ stop \in Nat /\ stop < size
  BY ProjectionAssumption DEF Fits, Stop, Star
<1>2. Quotient(x, i.stride) \in Int
  BY <1>1, Division DEF Quotient
<1>3. add_constraint(size, i) \in Dim
  BY <1>1, <1>2 DEF add_constraint, Count, Dim
<1>4. CASE i.start <= stop
  <2>. DEFINE n == x \div i.stride
  <2>0. x \in Nat
    BY <1>1, <1>4
  <2>1. x \in Nat /\ n \in Nat /\ n * i.stride <= x /\ x < (n + 1) * i.stride
    <3>. HIDE DEF x
    <3>. QED  BY <1>1, <2>0, Division
  <2>2. add_constraint(size, i).c_size = n + 1 /\ add_constraint(size, i).start = i.start
        /\ add_constraint(size, i).stop = stop /\ add_constraint(size, i).stride = i.stride
    BY <2>1 DEF add_constraint, Count, Quotient
  <2>. HIDE DEF n, x, stop
  <2>3. (n + 1) - 1 = n
    BY <2>1
  <2>4. x = stop - i.start
    BY DEF x
  <2>5. i.start + n * i.stride <= stop /\ i.start + (n + 1) * i.stride > stop
    <3>. DEFINE low == n * i.stride
                high == (n + 1) * i.stride
    <3>1. low \in Int /\ high \in Int
      BY <1>1, <2>1
    <3>. HIDE DEF low, high
    <3>2. low <= x /\ x < high => i.start + low <= stop /\ i.start + high > stop
      BY <1>1, <2>4, <3>1
    <3>. QED  BY <2>1, <3>2 DEF low, high
  <2>. QED  BY <1>1, <1>3, <2>1, <2>2, <2>3, <2>5 DEF CountsItsSteps
<1>5. CASE ~(i.start <= stop)
  BY <1>1, <1>3, <1>5 DEF CountsItsSteps, add_constraint
<1>. QED  BY <1>4, <1>5

LEMMA UnconstrainedIsExact ==
    ASSUME NEW size \in Nat \ {0}
    PROVE  Unconstrained(size) \in Dim /\ CountsItsSteps(size, Unconstrained(size))
  BY DEF Unconstrained, Dim, CountsItsSteps

-----------------------------------------------------------------------------
(* The dataset.                                                            *)

LEMMA Shapes ==
    ASSUME NEW a \in Arrays, NEW d \in DOMAIN Shape[a]
    PROVE  Shape[a][d] \in Nat \ {0}
  BY ProjectionAssumption

LEMMA GridShapes ==
    ASSUME NEW g \in Grids, NEW d \in DOMAIN Maps[g]
    PROVE  /\ GridArray[g] \in Arrays /\ Maps[g][d] \in Arrays
           /\ DOMAIN Maps[g] = DOMAIN Shape[GridArray[g]]
           /\ DOMAIN Shape[Maps[g][d]] = {1}
           /\ Shape[Maps[g][d]][1] = Shape[GridArray[g]][d]
           /\ Maps[g][d] # GridArray[g] /\ Maps[g][d] \in Within(g) /\ GridArray[g] \in Within(g)
<1>. USE ProjectionAssumption, GridAssumption
<1>1. GridArray[g] \in Arrays /\ Maps[g] \in Seq(Arrays)
  OBVIOUS
<1>2. Maps[g][d] \in Arrays
  BY <1>1
<1>3. Shape[GridArray[g]] \in Seq(Nat \ {0}) /\ Len(Maps[g]) = Len(Shape[GridArray[g]])
  BY <1>1
<1>4. DOMAIN Maps[g] = DOMAIN Shape[GridArray[g]]
  BY <1>1, <1>3
<1>5. Shape[Maps[g][d]] = <<Shape[GridArray[g]][d]>> /\ Maps[g][d] # GridArray[g]
  OBVIOUS
<1>6. Maps[g][d] \in Within(g) /\ GridArray[g] \in Within(g)
  BY DEF Within
<1>. QED  BY <1>1, <1>2, <1>4, <1>5, <1>6

(* An index for each dimension, where Accepts has counted them.            *)
LEMMA NewHyperslab ==
    ASSUME NEW a \in Arrays, NEW index \in IndexOf(a), Accepts(a, index)
    PROVE  /\ Hyperslab(a, index) \in [DOMAIN Shape[a] -> Dim]
           /\ \A d \in DOMAIN Shape[a] : CountsItsSteps(Shape[a][d], Hyperslab(a, index)[d])
<1>1. ASSUME NEW d \in DOMAIN Shape[a]
      PROVE  /\ add_constraint(Shape[a][d], index[d]) \in Dim
             /\ CountsItsSteps(Shape[a][d], add_constraint(Shape[a][d], index[d]))
  BY Shapes, CountIsExact DEF Accepts, IndexOf
<1>. QED  BY <1>1 DEF Hyperslab

(* What a clause with brackets for a Grid leaves its Maps with.            *)
LEMMA MapFollows ==
    ASSUME NEW g \in Grids, NEW index \in IndexOf(GridArray[g]), NEW d \in DOMAIN Maps[g]
    PROVE  /\ GridDims(g, index)[Maps[g][d]] = <<add_constraint(Shape[Maps[g][d]][1], index[d])>>
           /\ GridDims(g, index)[Maps[g][d]][1] = Hyperslab(GridArray[g], index)[d]
<1>1. (CHOOSE e \in DOMAIN Maps[g] : Maps[g][e] = Maps[g][d]) = d
  BY GridAssumption
<1>2. Maps[g][d] \in Arrays /\ Maps[g][d] # GridArray[g] /\ Maps[g][d] \in MapsOf(g)
  BY GridShapes DEF MapsOf
<1>3. GridDims(g, index)[Maps[g][d]] = <<add_constraint(Shape[Maps[g][d]][1], index[d])>>
  BY <1>1, <1>2 DEF GridDims
<1>. QED  BY <1>3, GridShapes DEF Hyperslab

LEMMA NewGridDims ==
    ASSUME IInv, NEW g \in Grids, NEW index \in IndexOf(GridArray[g]), Accepts(GridArray[g], index),
           NEW a \in Arrays
    PROVE  /\ GridDims(g, index)[a] \in [DOMAIN Shape[a] -> Dim]
           /\ \A d \in DOMAIN Shape[a] : CountsItsSteps(Shape[a][d], GridDims(g, index)[a][d])
           /\ a \notin Within(g) => GridDims(g, index)[a] = dims[a]
           /\ a = GridArray[g] => GridDims(g, index)[a] = Hyperslab(a, index)
<1>. DEFINE ga == GridArray[g]
<1>0. ga \in Arrays
  BY GridAssumption
<1>1. CASE a = ga
  <2>1. GridDims(g, index)[a] = Hyperslab(a, index)
    BY <1>1 DEF GridDims
  <2>2. ga \in Within(g)
    BY GridAssumption, ProjectionAssumption DEF Within
  <2>. QED  BY <1>0, <1>1, <2>1, <2>2, NewHyperslab
<1>2. ASSUME NEW d \in DOMAIN Maps[g], a = Maps[g][d]
      PROVE  /\ GridDims(g, index)[a] \in [DOMAIN Shape[a] -> Dim]
             /\ \A e \in DOMAIN Shape[a] : CountsItsSteps(Shape[a][e], GridDims(g, index)[a][e])
             /\ a \in Within(g) /\ a # ga
  <2>. DEFINE c == add_constraint(Shape[a][1], index[d])
  <2>1. GridDims(g, index)[a] = <<c>>
    BY <1>2, MapFollows
  <2>2. /\ DOMAIN Shape[a] = {1} /\ Shape[a][1] = Shape[ga][d] /\ d \in DOMAIN Shape[ga]
        /\ a \in Within(g) /\ a # ga
    BY <1>2, GridShapes
  <2>3. c \in Dim /\ CountsItsSteps(Shape[a][1], c)
    BY <1>0, <2>2, Shapes, CountIsExact DEF Accepts, IndexOf
  <2>. HIDE DEF c
  <2>4. <<c>> \in [{1} -> Dim] /\ <<c>>[1] = c
    BY <2>3
  <2>. QED  BY <2>1, <2>2, <2>3, <2>4
<1>3. CASE a # ga /\ a \notin MapsOf(g)
  <2>1. GridDims(g, index)[a] = dims[a]
    BY <1>3 DEF GridDims
  <2>. QED  BY <1>3, <2>1 DEF IInv, TypeOK, CountsAreExact
<1>. QED  BY <1>1, <1>2, <1>3 DEF MapsOf

-----------------------------------------------------------------------------
(* The marks.                                                              *)

LEMMA MarkAdds ==
    ASSUME NEW marked, NEW v
    PROVE  mark(marked, v) = marked \cup mark({}, v)
  BY DEF mark

LEMMA MarkNamed ==
    ASSUME NEW names, NEW v
    PROVE  mark(Named(names), v) = Named(names \cup {v})
  BY MarkAdds DEF Named

LEMMA NamedIsVars ==
    ASSUME NEW names \in SUBSET Vars PROVE Named(names) \subseteq Vars
  BY DEF Named, mark, Within, Around

LEMMA NamedAndMarked ==
    ASSUME send_p \subseteq Vars, asked \subseteq Vars
    PROVE  OnlyWhatWasNamed <=> send_p = Named(asked)
<1>1. \A u \in Vars : u \in Named(asked) <=>
          \E v \in asked : u = v \/ <<u, v>> \in Inside \/ <<v, u>> \in Inside
  BY DEF Named, mark, Within, Around
<1>. QED  BY <1>1, NamedIsVars DEF OnlyWhatWasNamed

(* The Maps that are suppressed are marked again with their Grid.          *)
LEMMA MarkGrid ==
    ASSUME NEW marked, NEW g \in Grids, NEW others, others \subseteq MapsOf(g)
    PROVE  mark((marked \ MapsOf(g)) \cup others, g) = mark(marked, g)
<1>1. MapsOf(g) \subseteq Within(g)
  BY GridShapes DEF MapsOf
<1>. QED  BY <1>1 DEF mark

(* A Grid is marked as a whole unless something in it was named.           *)
LEMMA GridIsWhole ==
    ASSUME IInv, NEW g \in Grids, g \in send_p, asked \cap Within(g) = {}
    PROVE  Within(g) \subseteq send_p
<1>1. PICK v \in asked : g \in mark({}, v)
  BY DEF IInv, MarkedIsNamed, Named
<1>2. v \in Vars
  BY DEF IInv, TypeOK
<1>3. g = v \/ g \in Within(v)
  BY <1>1, <1>2 DEF mark, Within, Around
<1>4. Within(g) \subseteq mark({}, v)
  BY <1>2, <1>3, ProjectionAssumption DEF mark, Within
<1>. QED  BY <1>4 DEF IInv, MarkedIsNamed, Named

-----------------------------------------------------------------------------
(* The invariant.                                                          *)

LEMMA InitIInv == Init => IInv
<1>. SUFFICES ASSUME Init PROVE IInv
  OBVIOUS
<1>1. ASSUME NEW a \in Arrays
      PROVE  /\ dims[a] \in [DOMAIN Shape[a] -> Dim]
             /\ \A d \in DOMAIN Shape[a] : CountsItsSteps(Shape[a][d], dims[a][d])
  BY Shapes, UnconstrainedIsExact DEF Init, reset_constraint
<1>2. rows \in [Sequences -> Row]
  BY DEF Init, Row, EveryRow, Star
<1>3. TypeOK /\ CountsAreExact
  BY <1>1, <1>2 DEF Init, TypeOK, CountsAreExact
<1>4. MapsInStep
  <2>. SUFFICES ASSUME NEW g \in Grids, NEW d \in DOMAIN Maps[g]
                PROVE  dims[Maps[g][d]][1] = dims[GridArray[g]][d]
    BY DEF MapsInStep
  <2>. DEFINE ga == GridArray[g]
              m == Maps[g][d]
  <2>1. /\ ga \in Arrays /\ m \in Arrays /\ d \in DOMAIN Shape[ga]
        /\ 1 \in DOMAIN Shape[m] /\ Shape[m][1] = Shape[ga][d]
    BY GridShapes
  <2>. HIDE DEF ga, m
  <2>2. dims[m][1] = Unconstrained(Shape[m][1]) /\ dims[ga][d] = Unconstrained(Shape[ga][d])
    BY <2>1 DEF Init, reset_constraint
  <2>. QED  BY <2>1, <2>2 DEF ga, m
<1>5. MarkedIsNamed
  BY DEF Init, MarkedIsNamed, Named
<1>. QED  BY <1>3, <1>4, <1>5 DEF IInv

(* A clause that changes no dimension.                                     *)
LEMMA SameDims ==
    ASSUME IInv, UNCHANGED dims, send_p' = Named(asked'), asked' \subseteq Vars, asked \subseteq asked',
           rows' \in [Sequences -> Row], at' \in {"parsing", "all", "failed"}
    PROVE  IInv'
<1>1. TypeOK'
  BY NamedIsVars DEF IInv, TypeOK
<1>2. CountsAreExact'
  BY DEF IInv, CountsAreExact
<1>3. MapsInStep'
  BY DEF IInv, MapsInStep
<1>. QED  BY <1>1, <1>2, <1>3 DEF IInv, MarkedIsNamed, Named

LEMMA AcceptNames ==
    ASSUME IInv, NEW v \in Vars, Accept(v, mark(send_p, v))
    PROVE  send_p' = Named(asked') /\ asked' \subseteq Vars /\ asked \subseteq asked' /\ at' = at
  BY MarkNamed DEF IInv, TypeOK, MarkedIsNamed, Named, Accept

LEMMA ArrayKeeps ==
    ASSUME IInv, NEW a \in Arrays, NEW index \in IndexOf(a), NEW name \in {a} \cup Within(a),
           Accepts(a, index), dims' = [dims EXCEPT ![a] = Hyperslab(a, index)],
           Accept(name, mark(send_p, name)), UNCHANGED rows
    PROVE  IInv'
<1>1. name \in Vars
  BY ProjectionAssumption DEF Within
<1>2. send_p' = Named(asked') /\ asked' \subseteq Vars /\ asked' = asked \cup {name} /\ at' = at
  BY <1>1, AcceptNames DEF Accept
<1>3. /\ dims' = [x \in Arrays |-> dims'[x]] /\ dims'[a] = Hyperslab(a, index)
      /\ \A x \in Arrays : x # a => dims'[x] = dims[x]
  BY DEF IInv, TypeOK
<1>4. TypeOK'
  BY <1>2, <1>3, NewHyperslab, NamedIsVars DEF IInv, TypeOK
<1>5. CountsAreExact'
  BY <1>3, NewHyperslab DEF IInv, CountsAreExact
<1>6. MapsInStep'
  <2>. SUFFICES ASSUME NEW g \in Grids, asked' \cap Within(g) = {}, NEW d \in DOMAIN Maps[g]
                PROVE  dims'[Maps[g][d]][1] = dims'[GridArray[g]][d]
    BY DEF MapsInStep
  <2>1. a \notin Within(g)
    BY <1>1, <1>2, ProjectionAssumption DEF Within
  <2>2. dims[Maps[g][d]][1] = dims[GridArray[g]][d]
    BY <1>2 DEF IInv, MapsInStep
  <2>. QED  BY <1>3, <2>1, <2>2, GridShapes
<1>. QED  BY <1>2, <1>4, <1>5, <1>6 DEF IInv, MarkedIsNamed, Named

LEMMA GridKeeps ==
    ASSUME IInv, NEW g \in Grids, NEW index \in IndexOf(GridArray[g]), Accepts(GridArray[g], index),
           dims' = GridDims(g, index),
           Accept(g, mark((send_p \ MapsOf(g)) \cup {Maps[g][d] : d \in DOMAIN index}, g)),
           UNCHANGED rows
    PROVE  IInv'
<1>1. DOMAIN index = DOMAIN Maps[g]
  BY GridShapes, GridAssumption, ProjectionAssumption DEF IndexOf
<1>2. Accept(g, mark(send_p, g))
  <2>1. {Maps[g][d] : d \in DOMAIN index} \subseteq MapsOf(g)
    BY <1>1 DEF MapsOf
  <2>. QED  BY <2>1, MarkGrid
<1>3. send_p' = Named(asked') /\ asked' \subseteq Vars /\ asked' = asked \cup {g} /\ at' = at
  BY <1>2, AcceptNames, ProjectionAssumption DEF Accept
<1>4. dims' = [x \in Arrays |-> dims'[x]]
  BY DEF GridDims
<1>5. TypeOK'
  BY <1>3, <1>4, NewGridDims, NamedIsVars DEF IInv, TypeOK
<1>6. CountsAreExact'
  BY NewGridDims DEF CountsAreExact
<1>7. MapsInStep'
  <2>. SUFFICES ASSUME NEW h \in Grids, asked' \cap Within(h) = {}, NEW d \in DOMAIN Maps[h]
                PROVE  dims'[Maps[h][d]][1] = dims'[GridArray[h]][d]
    BY DEF MapsInStep
  <2>1. CASE h = g
    BY <2>1, MapFollows, NewGridDims, GridShapes
  <2>2. CASE h # g
    <3>1. Maps[h][d] \notin Within(g) /\ GridArray[h] \notin Within(g)
      BY <2>2, GridShapes, GridAssumption DEF Within
    <3>2. dims[Maps[h][d]][1] = dims[GridArray[h]][d]
      BY <1>3 DEF IInv, MapsInStep
    <3>. QED  BY <3>1, <3>2, NewGridDims, GridShapes
  <2>. QED  BY <2>1, <2>2
<1>. QED  BY <1>3, <1>5, <1>6, <1>7 DEF IInv, MarkedIsNamed, Named

LEMMA AllIsNamed == IInv /\ mark_all => IInv'
<1>. SUFFICES ASSUME IInv, mark_all PROVE IInv'
  OBVIOUS
<1>1. \A v \in asked' : MarkBelow({}, v) = mark({}, v)
  BY DEF mark_all, MarkBelow, mark
<1>2. send_p' = Named(asked')
  BY <1>1 DEF mark_all, Named
<1>. QED  BY <1>2, SameDims DEF mark_all, IInv, TypeOK

LEMMA ThrowKeeps == IInv /\ (Throw \/ UNCHANGED vars) => IInv'
<1>1. IInv => send_p = Named(asked)
  BY DEF IInv, MarkedIsNamed, Named
<1>. QED  BY <1>1, SameDims DEF Throw, vars, IInv, TypeOK

LEMMA NextIInv == IInv /\ [Next]_vars => IInv'
<1>. SUFFICES ASSUME IInv, [Next]_vars PROVE IInv'
  OBVIOUS
<1>1. ASSUME NEW v \in Vars, Name(v) PROVE IInv'
  BY <1>1, AcceptNames, SameDims DEF Name, IInv, TypeOK
<1>2. ASSUME NEW a \in Arrays, NEW index \in IndexOf(a), NEW name \in {a} \cup Within(a),
             process_array_indices(a, index, name)
      PROVE  IInv'
  BY <1>2, ArrayKeeps, ThrowKeeps DEF process_array_indices
<1>3. ASSUME NEW g \in Grids, NEW index \in IndexOf(GridArray[g]), process_grid_indices(g, index)
      PROVE  IInv'
  BY <1>3, GridKeeps, ThrowKeeps DEF process_grid_indices
<1>4. ASSUME NEW q \in Sequences, NEW i \in Indices, NEW name \in Vars, process_sequence_indices(q, i, name)
      PROVE  IInv'
  <2>1. CASE Throw
    BY <2>1, ThrowKeeps
  <2>2. CASE rows' = [rows EXCEPT ![q] = i] /\ Accept(name, mark(send_p, name)) /\ UNCHANGED dims
    <3>1. i \in Row
      BY ProjectionAssumption DEF Row, Star
    <3>2. rows' \in [Sequences -> Row]
      BY <2>2, <3>1 DEF IInv, TypeOK
    <3>. QED  BY <2>2, <3>2, AcceptNames, SameDims DEF IInv, TypeOK
  <2>. QED  BY <1>4, <2>1, <2>2 DEF process_sequence_indices
<1>5. CASE mark_all \/ no_such_ident \/ UNCHANGED vars
  BY <1>5, AllIsNamed, ThrowKeeps DEF no_such_ident
<1>6. \A q \in Sequences : {q} \cup {v \in Leaves : parent_is_sequence(q, v)} \subseteq Vars
  BY ProjectionAssumption DEF Leaves
<1>. QED  BY <1>1, <1>2, <1>3, <1>4, <1>5, <1>6 DEF Next

-----------------------------------------------------------------------------
(* Theorems.                                                               *)

THEOREM SpecIInv == Spec => []IInv
  BY InitIInv, NextIInv, PTL DEF Spec

(* What is marked is what was named, for any dataset.                      *)
THEOREM SpecOnlyWhatWasNamed == Spec => []OnlyWhatWasNamed
<1>1. IInv => OnlyWhatWasNamed
  BY NamedAndMarked DEF IInv, TypeOK, MarkedIsNamed
<1>. QED  BY <1>1, SpecIInv, PTL

(* For every size, start, stride and stop, c_size counts the steps.        *)
THEOREM SpecCountsAreExact == Spec => []CountsAreExact
<1>1. IInv => CountsAreExact
  BY DEF IInv
<1>. QED  BY <1>1, SpecIInv, PTL

(* For every Grid, clauses about it as a whole leave a Grid to be sent.    *)
THEOREM SpecGridStaysGrid == Spec => []GridStaysGrid
<1>1. IInv => GridStaysGrid
  <2>. SUFFICES ASSUME IInv, NEW g \in Grids, g \in send_p, asked \cap Within(g) = {},
                       \A d \in DOMAIN Maps[g] : dims[GridArray[g]][d].c_size # 0
                PROVE  projection_yields_grid(g)
    BY DEF GridStaysGrid
  <2>1. Within(g) \subseteq send_p
    BY GridIsWhole
  <2>2. 1 \in DOMAIN Maps[g]
    BY GridAssumption
  <2>3. ~OneComponent(g) /\ GridArray[g] \in send_p
    BY <2>1, <2>2, GridShapes DEF OneComponent
  <2>4. ASSUME NEW d \in DOMAIN Maps[g]
        PROVE  Maps[g][d] \in send_p /\ dims[Maps[g][d]][1] = dims[GridArray[g]][d]
    BY <2>1, GridShapes DEF IInv, MapsInStep
  <2>. QED  BY <2>3, <2>4 DEF projection_yields_grid
<1>. QED  BY <1>1, SpecIInv, PTL

(* What brackets may change in an Array that is marked: a stop, by a star. *)
LEMMA AcceptedIsTheSame ==
    ASSUME IInv, NEW a \in Arrays, NEW index \in IndexOf(a), a \in send_p, Accepts(a, index),
           dims'[a] = Hyperslab(a, index)
    PROVE  OnlyToTheEnd(a)
<1>. SUFFICES ASSUME NEW d \in DOMAIN Shape[a]
              PROVE  /\ dims'[a][d].start = dims[a][d].start /\ dims'[a][d].stride = dims[a][d].stride
                     /\ dims'[a][d].stop = dims[a][d].stop \/ dims'[a][d].stop = Shape[a][d] - 1
  BY DEF OnlyToTheEnd
<1>1. ~Differs(dims[a][d], index[d])
  BY DEF Accepts
<1>2. dims'[a][d] = add_constraint(Shape[a][d], index[d])
  BY DEF Hyperslab
<1>. QED  BY <1>1, <1>2 DEF Differs, DiffersInEnds, add_constraint, Stop

(* No clause gives an Array that is marked another hyperslab, except a     *)
(* star, and a Grid its Maps.                                              *)
LEMMA StepKeepsHyperslabs ==
    ASSUME IInv, [Next]_vars, NEW a \in Arrays, a \in send_p
    PROVE  OnlyToTheEnd(a) \/ FollowsArray(a)
<1>1. CASE dims'[a] = dims[a]
  BY <1>1 DEF OnlyToTheEnd
<1>2. ASSUME NEW b \in Arrays, NEW index \in IndexOf(b), NEW name, process_array_indices(b, index, name)
      PROVE  OnlyToTheEnd(a) \/ FollowsArray(a)
  <2>1. CASE Accepts(b, index) /\ dims' = [dims EXCEPT ![b] = Hyperslab(b, index)] /\ a = b
    <3>1. dims'[a] = Hyperslab(a, index)
      BY <2>1 DEF IInv, TypeOK
    <3>. QED  BY <2>1, <3>1, AcceptedIsTheSame
  <2>2. CASE dims' = [dims EXCEPT ![b] = Hyperslab(b, index)] /\ a # b
    BY <1>1, <2>2 DEF IInv, TypeOK
  <2>3. CASE UNCHANGED dims
    BY <1>1, <2>3
  <2>. QED  BY <1>2, <2>1, <2>2, <2>3 DEF process_array_indices, Throw
<1>3. ASSUME NEW g \in Grids, NEW index \in IndexOf(GridArray[g]), process_grid_indices(g, index)
      PROVE  OnlyToTheEnd(a) \/ FollowsArray(a)
  <2>. DEFINE ga == GridArray[g]
  <2>1. CASE UNCHANGED dims
    BY <1>1, <2>1
  <2>2. CASE Accepts(ga, index) /\ dims' = GridDims(g, index)
    <3>1. CASE a = ga
      BY <2>2, <3>1, NewGridDims, AcceptedIsTheSame
    <3>2. ASSUME NEW d \in DOMAIN Maps[g], a = Maps[g][d] PROVE FollowsArray(a)
      <4>1. dims'[a][1] = Hyperslab(ga, index)[d]
        BY <2>2, <3>2, MapFollows
      <4>2. ga \in Arrays
        BY GridAssumption
      <4>3. dims'[ga] = Hyperslab(ga, index)
        BY <2>2, <4>2, NewGridDims
      <4>. QED  BY <3>2, <4>1, <4>3 DEF FollowsArray
    <3>3. CASE a # ga /\ a \notin MapsOf(g)
      BY <1>1, <2>2, <3>3 DEF GridDims
    <3>. QED  BY <3>1, <3>2, <3>3 DEF MapsOf
  <2>. QED  BY <1>3, <2>1, <2>2 DEF process_grid_indices, Throw
<1>4. CASE UNCHANGED dims
  BY <1>1, <1>4
<1>5. \A v, i, name : Name(v) \/ process_sequence_indices(v, i, name) \/ mark_all \/ no_such_ident
                          \/ UNCHANGED vars => UNCHANGED dims
  BY DEF Name, process_sequence_indices, mark_all, no_such_ident, Throw, vars
<1>. QED  BY <1>2, <1>3, <1>4, <1>5 DEF Next

(* Clauses about one Array agree on its hyperslab, for any dataset.        *)
THEOREM SpecHyperslabsStay == Spec => HyperslabsStay
<1>1. IInv /\ [Next]_vars => [\A a \in Arrays \cap send_p : OnlyToTheEnd(a) \/ FollowsArray(a)]_vars
  BY StepKeepsHyperslabs
<1>. QED  BY <1>1, SpecIInv, PTL DEF Spec, HyperslabsStay
=============================================================================
