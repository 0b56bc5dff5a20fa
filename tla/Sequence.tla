------------------------------ MODULE Sequence ------------------------------
(***************************************************************************)
(* Nested Sequences on their way from a server's data to a client          *)
(* (Sequence).  The rows of a Sequence hold the rows of the Sequence inside *)
(* it, and so on to the leaf; a selection is evaluated for the rows of the *)
(* leaf, a row of any other level goes out when the first row below it that *)
(* is selected has been found.  Any level may also be limited to certain   *)
(* row numbers.                                                            *)
(*                                                                         *)
(* A behaviour is one call of serialize, with the client that deserializes *)
(* what it writes, or one of intern_data, which puts the values into the   *)
(* same objects without a client.                                          *)
(*                                                                         *)
(* The data are a table: each line is a row of the leaf, and `starts' is   *)
(* the outermost level that has a new row there.  read() belongs to the    *)
(* server that uses the library; it is modelled by what the library says   *)
(* of it and by the one in tests/TestSequence.                             *)
(***************************************************************************)
EXTENDS Integers, Sequences, FiniteSets, SequencesExt

CONSTANTS
    MaxDepth,           \* bound: Sequences inside one another
    MaxRows,            \* bound: lines of the table
    Limits              \* row-number constraints

NoLimit == [start |-> -1, stride |-> 1, stop |-> -1]

ASSUME SequenceAssumption ==
    /\ MaxDepth \in Nat \ {0} /\ MaxRows \in Nat
    /\ Limits \subseteq [start : Nat, stride : Nat, stop : Nat] \cup {NoLimit}
    /\ \A l \in Limits : l.start <= l.stop

VARIABLES
    depth,              \* levels in the projection; the last one is the leaf
    table,              \* the data
    limit,              \* of each level
    mode,               \* "serialize" or "intern"
    resets,             \* does read() reset the row numbers of the levels inside?
    row,                \* the line read() has got to, 0 before the first
    level,              \* the Sequence whose method runs
    at,                 \* where it is
    first,              \* the leaf has not used a row yet
    i,                  \* of each level: the number of the row it wants
    d_row_number,       \* of each level: the number of the row it has
    d_read_p,           \* of each level: there is a row that has not been used
    d_unsent_data,      \* of each level: its row has not been sent
    d_wrote_soi,        \* of each level: a row has been sent, but not the end
    orig_stack_size,    \* of each level
    values,             \* the Sequences being filled, by the row they are in
    received            \* the rows put into them

request == <<depth, table, limit, mode, resets>>
marks == <<d_row_number, d_read_p, d_unsent_data>>
vars == <<request, row, level, at, first, i, marks, d_wrote_soi, orig_stack_size, values, received>>

Levels == 1 .. MaxDepth
Top == <<0, 0>>                 \* what the outermost Sequence is in
Nowhere == <<-1, 0>>            \* nothing is being filled

Tables(d) ==
    {<<>>} \cup UNION {{t \in [1 .. n -> [starts : 1 .. d, selected : BOOLEAN]] : t[1].starts = 1} :
                         n \in 1 .. MaxRows}

Init ==
    /\ depth \in Levels
    /\ table \in Tables(depth)
    /\ limit \in {l \in [Levels -> Limits] : \A L \in Levels : L > depth => l[L] = NoLimit}
    /\ mode \in {"serialize", "intern"}
    /\ resets \in BOOLEAN
    /\ row = 0 /\ level = 1 /\ at = "call" /\ first = TRUE
    /\ i = [L \in Levels |-> 0]
    /\ d_row_number = [L \in Levels |-> -1]
    /\ d_read_p = [L \in Levels |-> FALSE]
    /\ d_unsent_data = [L \in Levels |-> FALSE]
    /\ d_wrote_soi = [L \in Levels |-> FALSE]
    /\ orig_stack_size = [L \in Levels |-> 0]
    /\ values = <<Top>> /\ received = <<>>

Leaf == level = depth

-----------------------------------------------------------------------------
(* The data.                                                               *)

Smallest(S) == CHOOSE k \in S : \A m \in S : k <= m
Largest(S) == CHOOSE k \in S : \A m \in S : m <= k

(* A row of a level is named by the level and by its first line.           *)
RowAt(L, k) == <<L, IF L = 0 THEN 0 ELSE Largest({m \in 1 .. k : table[m].starts <= L})>>

Following(L) == {k \in DOMAIN table : k > row /\ table[k].starts <= L}

(* No more rows of this level in the row around it.                        *)
EndOfFile(L) == \A k \in Following(L) : k = Smallest(Following(L)) => table[k].starts < L

Below(f, value) == [L \in Levels |-> IF L >= level THEN value ELSE f[L]]

-----------------------------------------------------------------------------
(* serialize_leaf, serialize_parent_part_one and the same of intern_data.  *)

Call ==
    /\ at = "call"
    /\ i' = [i EXCEPT ![level] = IF limit[level].start # -1 THEN limit[level].start ELSE 0]
    /\ orig_stack_size' = [orig_stack_size EXCEPT ![level] = Len(values)]
    /\ d_wrote_soi' = [d_wrote_soi EXCEPT ![level] = ~Leaf /\ @]
    /\ first' = TRUE
    /\ at' = "read"
    /\ UNCHANGED <<request, row, level, marks, values, received>>

is_end_of_rows(n, stop) == stop # -1 /\ n > stop

(* read_row: forward to row number i.                                      *)
BackUp ==
    /\ at = "read" /\ i[level] < d_row_number[level]
    /\ at' = "thrown"
    /\ UNCHANGED <<request, row, level, first, i, marks, d_wrote_soi, orig_stack_size, values, received>>

(* Only a stride of 0 asks for the same row again.                         *)
SameRow ==
    /\ at = "read" /\ i[level] = d_row_number[level]
    /\ at' = "end"
    /\ UNCHANGED <<request, row, level, first, i, marks, d_wrote_soi, orig_stack_size, values, received>>

(* The row in hand counts if the selection, which only the leaf evaluates, *)
(* is true of it.  One that is used up, or does not count, makes way.      *)
Counts(line) == Leaf => table[line].selected

Advance(line, number) ==
    LET counted == number + (IF Counts(line) THEN 1 ELSE 0)
        found == counted = i[level]
    IN  /\ d_row_number' = [L \in Levels |->
                              IF L = level THEN counted
                              ELSE IF L > level /\ resets /\ ~d_read_p[level] THEN -1
                              ELSE d_row_number[L]]
        /\ d_read_p' = Below(d_read_p, found)
        /\ at' = IF found THEN "row" ELSE "read"

RowInHand ==
    /\ at = "read" /\ i[level] > d_row_number[level] /\ d_read_p[level]
    /\ Advance(row, d_row_number[level])
    /\ UNCHANGED <<request, row, level, first, i, d_unsent_data, d_wrote_soi, orig_stack_size, values, received>>

(* read(): the next row, and with it the first one of each level inside.   *)
NextRow ==
    /\ at = "read" /\ i[level] > d_row_number[level] /\ ~d_read_p[level] /\ ~EndOfFile(level)
    /\ row' = Smallest(Following(level))
    /\ d_unsent_data' = Below(d_unsent_data, TRUE)
    /\ Advance(row', d_row_number[level])
    /\ UNCHANGED <<request, level, first, i, d_wrote_soi, orig_stack_size, values, received>>

(* read() at the end resets the row number and the data that are unsent.   *)
NoMoreRows ==
    /\ at = "read" /\ i[level] > d_row_number[level] /\ ~d_read_p[level] /\ EndOfFile(level)
    /\ d_row_number' = [d_row_number EXCEPT ![level] = -1]
    /\ d_unsent_data' = [d_unsent_data EXCEPT ![level] = FALSE]
    /\ d_read_p' = Below(d_read_p, TRUE)
    /\ at' = "end"
    /\ UNCHANGED <<request, row, level, first, i, d_wrote_soi, orig_stack_size, values, received>>

InRange == at = "row" /\ ~is_end_of_rows(i[level], limit[level].stop)

(* A parent goes into the Sequence inside it.                              *)
ParentRow ==
    /\ InRange /\ ~Leaf
    /\ i' = [i EXCEPT ![level] = @ + limit[level].stride]
    /\ level' = level + 1 /\ at' = "call"
    /\ UNCHANGED <<request, row, first, marks, d_wrote_soi, orig_stack_size, values, received>>

Return ==
    /\ at = "returned"
    /\ d_read_p' = Below(d_read_p, FALSE)
    /\ at' = "read"
    /\ UNCHANGED <<request, row, level, first, i, d_row_number, d_unsent_data, d_wrote_soi,
                   orig_stack_size, values, received>>

-----------------------------------------------------------------------------
(* Rows on their way.                                                      *)

(* part_two: the rows around the first row of the leaf, outermost first,   *)
(* and then the row of the leaf.                                           *)
Nth(S, k) == CHOOSE n \in S : Cardinality({m \in S : m <= n}) = k

Parents ==
    LET unsent == {L \in 1 .. depth - 1 : d_unsent_data[L]}
    IN  [k \in 1 .. Cardinality(unsent) |-> Nth(unsent, k)]

Sent == IF first THEN Append(Parents, depth) ELSE <<depth>>
Rows == [k \in DOMAIN Sent |-> RowAt(Sent[k], row)]

(* How many of them hold a Sequence that is filled next: deserialize reads *)
(* of a row what its variables are, and so the Sequence in it;             *)
(* intern_data_parent_part_two makes a new one for each parent.            *)
Held == IF mode = "serialize" THEN Smallest({Len(Rows), depth - Len(values)}) ELSE Len(Rows) - 1

Innermost(stack) == IF stack = <<>> THEN Nowhere ELSE Last(stack)

(* The Sequences being filled when k of the rows have been put.            *)
Stack(k) == values \o SubSeq(Rows, 1, Smallest({k, Held}))
Put(k) == [in |-> Innermost(Stack(k - 1)), row |-> Rows[k]]

LeafRow ==
    /\ InRange /\ Leaf
    /\ received' = received \o [k \in DOMAIN Rows |-> Put(k)]
    /\ values' = Stack(Len(Rows))
    /\ d_wrote_soi' = [L \in Levels |->
                         d_wrote_soi[L] \/ (mode = "serialize" /\ L \in ToSet(Sent))]
    /\ d_unsent_data' = [L \in Levels |-> d_unsent_data[L] /\ ~(first /\ L < depth)]
    /\ d_read_p' = Below(d_read_p, FALSE)
    /\ i' = [i EXCEPT ![level] = @ + limit[level].stride]
    /\ first' = FALSE
    /\ at' = "read"
    /\ UNCHANGED <<request, row, level, d_row_number, orig_stack_size>>

(* The end of a Sequence is written for the outermost and for those that a *)
(* row has been sent of.                                                   *)
AlwaysEnds == TRUE
Ends == level = 1 \/ d_wrote_soi[level]

(* Sequences that got rows were pushed on the stack of intern_data.        *)
AlwaysPops == values # <<>>
Pops == IF Leaf THEN ~first ELSE Len(values) > orig_stack_size[level]

NumberKept == d_row_number[level]
NumberAfter == IF Leaf THEN d_row_number[level] ELSE -1     \* reset_row_number

Leave ==
    /\ at = "end" \/ (at = "row" /\ ~InRange)
    /\ values' = IF (IF mode = "serialize" THEN Ends ELSE Pops) THEN Front(values) ELSE values
    /\ d_wrote_soi' = [d_wrote_soi EXCEPT ![level] = Leaf /\ @]
    /\ d_row_number' = [d_row_number EXCEPT ![level] = NumberAfter]
    /\ level' = IF level = 1 THEN 1 ELSE level - 1
    /\ at' = IF level = 1 THEN "done" ELSE "returned"
    /\ UNCHANGED <<request, row, first, i, d_read_p, d_unsent_data, orig_stack_size, received>>

Next ==
    \/ Call \/ BackUp \/ SameRow \/ RowInHand \/ NextRow \/ NoMoreRows
    \/ ParentRow \/ Return \/ LeafRow \/ Leave

Spec == Init /\ [][Next]_vars

-----------------------------------------------------------------------------
(* Properties.                                                             *)

(* Every variable has its type; a Sequence that is being filled is inside  *)
(* the one below it on the stack.                                          *)
TypeOK ==
    /\ row \in 0 .. Len(table) /\ level \in 1 .. depth
    /\ at \in {"call", "read", "row", "end", "returned", "done", "thrown"}
    /\ i \in [Levels -> Nat]
    /\ d_row_number \in [Levels -> -1 .. MaxRows - 1]
    /\ d_read_p \in [Levels -> BOOLEAN] /\ d_unsent_data \in [Levels -> BOOLEAN]
    /\ d_wrote_soi \in [Levels -> BOOLEAN]
    /\ \A k \in DOMAIN values : values[k][1] = k - 1
    /\ Len(values) <= depth

(* What a constraint selects: of the leaf's rows those the selection is    *)
(* true of, and at every level those the limit leaves, by their numbers in *)
(* the row around them.  A row is counted at the line it begins at.        *)
Counted(L, k) ==
    {m \in 1 .. k : /\ RowAt(L - 1, m) = RowAt(L - 1, k)
                    /\ table[m].starts <= L /\ (L = depth => table[m].selected)}

Number(L, k) == Cardinality(Counted(L, k)) - 1

Limited(l, n) ==
    \/ l = NoLimit \/ n = l.start
    \/ l.stride > 0 /\ n >= l.start /\ n <= l.stop /\ (n - l.start) % l.stride = 0

Selected(k) == table[k].selected /\ \A L \in 1 .. depth : Limited(limit[L], Number(L, k))

(* The rows that selected lines are in, each in the row around it.         *)
Placed(L, k) == [in |-> RowAt(L - 1, k), row |-> RowAt(L, k)]

SelectedRows == {Placed(L, k) : L \in 1 .. depth, k \in {m \in DOMAIN table : Selected(m)}}

(* Rows by the lines they begin at, the outer one first where two begin    *)
(* together.                                                               *)
Before(a, b) == a[2] < b[2] \/ (a[2] = b[2] /\ a[1] < b[1])

InOrder(s) == \A j, k \in DOMAIN s : j < k => Before(s[j].row, s[k].row)

(* A leaf that stops at its row again for a stride of 0, and whose row     *)
(* numbers nobody resets, takes the first row of what follows for that one. *)
StopsShort == ~resets /\ depth > 1 /\ limit[depth].stride = 0

(* Selected rows have been put, in order and none twice, and none before   *)
(* the last one is left out; in the end, none at all.                      *)
Filled ==
    /\ InOrder(received)
    /\ ToSet(received) \subseteq SelectedRows
    /\ \A r \in SelectedRows, k \in DOMAIN received :
           Before(r.row, received[k].row) => r \in ToSet(received)
    /\ at = "done" /\ ~StopsShort => SelectedRows \subseteq ToSet(received)

(* The client gets the rows that the constraint selects, each in the       *)
(* Sequence that is in its parent's row, in order and nothing else, though *)
(* rows are held back and the markers between them are all it has to go by.*)
ClientGetsSelection ==
    mode = "serialize" => Filled /\ (at = "done" => values = <<>>)

(* intern_data "simulates having a server call the serialize() method and  *)
(* a client call the deserialize() method": the same rows end up in the    *)
(* same Sequences.                                                         *)
InternGetsSelection == mode = "intern" => Filled

(* The error "Trying to back up inside a sequence!" needs a server that    *)
(* relies on reading to the end of inner Sequences, and a limit that keeps *)
(* the leaf from its end; the parents reset their row numbers themselves.  *)
BacksUpOnlyInLimitedLeaf ==
    at = "thrown" => ~resets /\ level = depth /\ depth > 1 /\ limit[depth] # NoLimit
=============================================================================
