--------------------------- MODULE SequenceProofs ---------------------------
(***************************************************************************)
(* Proofs about Sequence, for Sequences nested to any depth, any table of  *)
(* any number of rows and any limits.                                      *)
(***************************************************************************)
EXTENDS Sequence, FiniteSetTheorems, SequenceTheorems, WellFoundedInduction, TLAPS

Line == [starts : 1 .. depth, selected : BOOLEAN]

RequestOK ==
    /\ depth \in Levels
    /\ table \in Seq(Line) /\ Len(table) <= MaxRows
    /\ table # <<>> => table[1].starts = 1
    /\ limit \in [Levels -> Limits]
    /\ mode \in {"serialize", "intern"} /\ resets \in BOOLEAN

StateOK ==
    /\ row \in 0 .. Len(table) /\ level \in 1 .. depth
    /\ at \in {"call", "read", "row", "end", "returned", "done", "thrown"}
    /\ first \in BOOLEAN
    /\ i \in [Levels -> Nat] /\ d_row_number \in [Levels -> Int]
    /\ d_read_p \in [Levels -> BOOLEAN] /\ d_unsent_data \in [Levels -> BOOLEAN]
    /\ d_wrote_soi \in [Levels -> BOOLEAN] /\ orig_stack_size \in [Levels -> Nat]

-----------------------------------------------------------------------------
(* Row numbers.                                                            *)

(* A row of this level and of the levels inside it has been read, and none *)
(* of it has been used.                                                    *)
InHand == at = "row" \/ (at \in {"call", "read"} /\ d_read_p[level])

(* No level has counted more rows than have been read.                     *)
NumbersBelowRow ==
    /\ \A L \in Levels : d_row_number[L] \in -1 .. row - 1
    /\ InHand => \A L \in Levels : L > level => d_row_number[L] <= row - 2
    /\ InHand /\ at # "row" => d_row_number[level] <= row - 2

(* Levels that begin to count anew for every row around them.              *)
Restarts(L) == L < depth \/ resets \/ depth = 1 \/ limit[depth] = NoLimit

NumbersRestart ==
    /\ \A L \in Levels : level < L /\ L < depth => d_row_number[L] = -1
    /\ at = "call" /\ Restarts(level) => d_row_number[level] = -1
    /\ InHand /\ resets /\ level < depth => d_row_number[depth] = -1
    /\ at = "read" /\ Restarts(level) => d_row_number[level] <= i[level]
    /\ \A L \in Levels : L < level \/ (L = level /\ at = "returned") => d_row_number[L] <= i[L]
    /\ at = "row" => d_row_number[level] = i[level]
    /\ at = "thrown" => ~Restarts(level)

(* A leaf without a limit reads to the end.                                *)
ReadsToTheEnd ==
    limit[depth] = NoLimit =>
        /\ level < depth => d_row_number[depth] = -1
        /\ Leaf /\ at = "read" => d_row_number[depth] = i[depth] - 1
        /\ Leaf /\ at = "end" => d_row_number[depth] = -1

-----------------------------------------------------------------------------
(* Which Sequences are being filled.                                       *)

(* They are those in the rows around the present one, from the outermost.  *)
Places ==
    /\ \E n \in 0 .. level : values = [k \in 1 .. n |-> RowAt(k - 1, row)]
    /\ at # "done" => Len(values) >= 1
    /\ at = "done" => level = 1 /\ (mode = "serialize" => Len(values) = 0)
    /\ at = "call" /\ level > 1 => Len(values) < level
    /\ at = "returned" => level < depth
    /\ Leaf /\ depth > 1 /\ at \in {"read", "row", "end"} => (first <=> Len(values) < depth)

(* A row around the present one is sent if the Sequence in it is being     *)
(* filled.                                                                 *)
SentIsFilled ==
    /\ \A L \in Levels : L < level => (d_unsent_data[L] <=> Len(values) <= L)
    /\ InHand => \A L \in Levels : L >= level => d_unsent_data[L]

(* What tells whether a Sequence is being filled when its method ends.     *)
EndsAreKnown ==
    /\ mode = "serialize" =>
        /\ \A L \in 2 .. level :
               L < depth \/ at # "call" => (d_wrote_soi[L] <=> L <= Len(values))
        /\ \A L \in Levels : level < L /\ L < depth => ~d_wrote_soi[L]
    /\ mode = "intern" =>
        \A L \in 2 .. level :
            L < level \/ at # "call" =>
                orig_stack_size[L] < L /\ (Len(values) < L => Len(values) <= orig_stack_size[L])

-----------------------------------------------------------------------------
(* What has been put into them.                                            *)

(* A row that has been put somewhere is of a line that has been read and   *)
(* that the selection is true of, and is in its parent's row.              *)
IsPlaced(r) ==
    \E L \in 1 .. depth, line \in 1 .. row :
        table[line].selected /\ r = [in |-> RowAt(L - 1, line), row |-> RowAt(L, line)]

(* The present row of a level is after all that have been put.             *)
IsNew(L) == \A k \in DOMAIN received : received[k].row[2] < RowAt(L, row)[2]

History ==
    /\ received \in Seq([in : Int \X Int, row : Int \X Int])
    /\ \A k \in DOMAIN received : IsPlaced(received[k]) /\ received[k].row[2] <= row
    /\ InOrder(received)
    /\ \A L \in 1 .. depth : (L < level /\ d_unsent_data[L]) \/ (L >= level /\ InHand) => IsNew(L)
    /\ at = "row" /\ Leaf => table[row].selected

IInv ==
    /\ RequestOK /\ StateOK
    /\ NumbersBelowRow /\ NumbersRestart /\ ReadsToTheEnd
    /\ Places /\ SentIsFilled /\ EndsAreKnown
    /\ History

-----------------------------------------------------------------------------
(* Sets of numbers.                                                        *)

(* A set of naturals that is not empty has a smallest element.             *)
LEMMA SmallestIs ==
    ASSUME NEW S \in SUBSET Nat, S # {}
    PROVE  Smallest(S) \in S /\ \A m \in S : Smallest(S) <= m
<1>. DEFINE Less == {ss \in Nat \X Nat : ss[1] < ss[2]}
<1>1. IsWellFoundedOn(Less, Nat)
  BY NatLessThanWellFounded DEF OpToRel
<1>2. PICK x \in S : \A y \in S : <<y, x>> \notin Less
  BY <1>1, WFMin
<1>3. \A y \in S : x <= y
  <2>. TAKE y \in S
  <2>1. x \in Nat /\ y \in Nat
    OBVIOUS
  <2>2. y < x => <<y, x>> \in Less
    BY <2>1
  <2>. QED  BY <1>2, <2>1, <2>2
<1>4. \E k \in S : \A m \in S : k <= m
  BY <1>3
<1>. QED  BY <1>4 DEF Smallest

(* One that is bounded has a largest, which is the only one.               *)
LEMMA LargestIs ==
    ASSUME NEW S \in SUBSET Nat, S # {}, NEW n \in Nat, \A m \in S : m <= n
    PROVE  Largest(S) \in S /\ \A m \in S : m <= Largest(S)
<1>. DEFINE T == {n - m : m \in S}
<1>1. T \in SUBSET Nat /\ T # {}
  <2>1. \A m \in S : n - m \in Nat
    OBVIOUS
  <2>. QED  BY <2>1
<1>2. PICK x \in S : n - x = Smallest(T)
  BY <1>1, SmallestIs
<1>3. \A m \in S : m <= x
  <2>. TAKE m \in S
  <2>1. Smallest(T) <= n - m
    BY <1>1, SmallestIs
  <2>2. m \in Nat /\ x \in Nat
    OBVIOUS
  <2>. HIDE DEF T
  <2>. QED  BY <1>2, <2>1, <2>2
<1>4. \E k \in S : \A m \in S : m <= k
  BY <1>3
<1>. QED  BY <1>4 DEF Largest

(* The k-th of the numbers from a to b.                                    *)
LEMMA NthOfInterval ==
    ASSUME NEW a \in Nat, NEW b \in Nat, NEW k \in 1 .. b - a + 1
    PROVE  Nth(a .. b, k) = a + k - 1
<1>1. ASSUME NEW n \in a .. b
      PROVE  Cardinality({m \in a .. b : m <= n}) = n - a + 1
  <2>1. {m \in a .. b : m <= n} = a .. n
    OBVIOUS
  <2>2. Cardinality(a .. n) = n - a + 1
    BY FS_Interval
  <2>. QED  BY <2>1, <2>2
<1>2. a + k - 1 \in a .. b
  OBVIOUS
<1>3. \A n \in a .. b : Cardinality({m \in a .. b : m <= n}) = k <=> n = a + k - 1
  BY <1>1
<1>. QED  BY <1>2, <1>3 DEF Nth

-----------------------------------------------------------------------------
(* The data.                                                               *)

LEMMA DepthIs ==
    ASSUME RequestOK
    PROVE  depth \in 1 .. MaxDepth /\ MaxDepth \in Nat \ {0} /\ MaxRows \in Nat
BY SequenceAssumption DEF RequestOK, Levels

LEMMA LineIs ==
    ASSUME RequestOK, NEW k \in 1 .. Len(table)
    PROVE  table[k].starts \in 1 .. depth /\ table[k].selected \in BOOLEAN
<1>1. table[k] \in Line
  BY DEF RequestOK
<1>. QED  BY <1>1 DEF Line

(* The lines up to k at which a row of level L begins.                     *)
Begin(L, k) == {m \in 1 .. k : table[m].starts <= L}

LEMMA BeginIs ==
    ASSUME RequestOK, NEW L \in 1 .. depth, NEW k \in 1 .. Len(table)
    PROVE  RowAt(L, k) = <<L, Largest(Begin(L, k))>>
           /\ Largest(Begin(L, k)) \in Begin(L, k) /\ \A m \in Begin(L, k) : m <= Largest(Begin(L, k))
<1>1. table # <<>> /\ Len(table) \in Nat /\ depth \in Nat
  BY DepthIs DEF RequestOK
<1>2. 1 \in Begin(L, k)
  BY <1>1, LineIs DEF RequestOK, Begin
<1>3. Begin(L, k) \in SUBSET Nat /\ \A m \in Begin(L, k) : m <= k
  BY <1>1 DEF Begin
<1>4. Largest(Begin(L, k)) \in Begin(L, k) /\ \A m \in Begin(L, k) : m <= Largest(Begin(L, k))
  <2>1. k \in Nat /\ Begin(L, k) # {}
    BY <1>1, <1>2
  <2>. QED  BY ONLY <1>3, <2>1, LargestIs
<1>5. RowAt(L, k) = <<L, Largest(Begin(L, k))>>
  BY DEF RowAt, Begin
<1>. QED  BY <1>4, <1>5

(* The row of a level at a line begins at it or before.                    *)
LEMMA RowAtIs ==
    ASSUME RequestOK, NEW L \in 1 .. depth, NEW k \in 1 .. Len(table)
    PROVE  RowAt(L, k) \in Int \X Int /\ RowAt(L, k)[1] = L /\ RowAt(L, k)[2] \in 1 .. k
<1>1. RowAt(L, k) = <<L, Largest(Begin(L, k))>> /\ Largest(Begin(L, k)) \in Begin(L, k)
  BY BeginIs
<1>2. Largest(Begin(L, k)) \in 1 .. k /\ L \in Int /\ k \in Int
  BY <1>1, DepthIs DEF Begin
<1>. QED  BY <1>1, <1>2

LEMMA TopIs == \A k : RowAt(0, k) = Top
BY DEF RowAt, Top

(* The row around another begins with it or before.                        *)
LEMMA OuterRowBegins ==
    ASSUME RequestOK, NEW k \in 1 .. Len(table), NEW L \in 1 .. depth, NEW M \in L .. depth
    PROVE  RowAt(L, k)[2] <= RowAt(M, k)[2]
<1>1. depth \in Nat /\ M \in 1 .. depth /\ Len(table) \in Nat
  BY DepthIs DEF RequestOK
<1>2. RowAt(L, k)[2] = Largest(Begin(L, k)) /\ Largest(Begin(L, k)) \in Begin(L, k)
  BY BeginIs
<1>3. RowAt(M, k)[2] = Largest(Begin(M, k)) /\ \A m \in Begin(M, k) : m <= Largest(Begin(M, k))
  BY <1>1, BeginIs
<1>4. ASSUME NEW m \in Begin(L, k)
      PROVE  m \in Begin(M, k)
  BY <1>1, LineIs DEF Begin
<1>. QED  BY <1>2, <1>3, <1>4

(* A row that begins at a line is the row there of its level and of those  *)
(* inside.                                                                 *)
LEMMA RowBeginsHere ==
    ASSUME RequestOK, NEW k \in 1 .. Len(table), NEW L \in table[k].starts .. depth
    PROVE  RowAt(L, k)[2] = k
<1>1. depth \in Nat /\ L \in 1 .. depth /\ Len(table) \in Nat /\ table[k].starts \in 1 .. depth
  BY DepthIs, LineIs DEF RequestOK
<1>2. k \in Begin(L, k) /\ \A m \in Begin(L, k) : m <= k
  BY <1>1 DEF Begin
<1>3. RowAt(L, k)[2] = Largest(Begin(L, k)) /\ Largest(Begin(L, k)) \in Begin(L, k)
      /\ \A m \in Begin(L, k) : m <= Largest(Begin(L, k))
  BY <1>1, BeginIs
<1>4. Largest(Begin(L, k)) \in 1 .. k
  BY <1>3 DEF Begin
<1>. QED  BY <1>2, <1>3, <1>4

(* The line that read() goes to.                                           *)
LEMMA NextLine ==
    ASSUME RequestOK, StateOK, NEW L \in 1 .. depth, ~EndOfFile(L)
    PROVE  /\ Smallest(Following(L)) \in row + 1 .. Len(table)
           /\ table[Smallest(Following(L))].starts = L
           /\ \A m \in row + 1 .. Smallest(Following(L)) - 1 : table[m].starts > L
<1>. DEFINE next == Smallest(Following(L))
<1>1. Len(table) \in Nat /\ row \in Nat /\ depth \in Nat /\ DOMAIN table = 1 .. Len(table)
  BY DepthIs DEF RequestOK, StateOK
<1>2. PICK k \in Following(L) : k = next /\ ~(table[k].starts < L)
  BY DEF EndOfFile
<1>3. Following(L) \in SUBSET Nat /\ Following(L) # {}
  BY <1>1, <1>2 DEF Following
<1>4. \A m \in Following(L) : next <= m
  BY <1>3, SmallestIs
<1>. HIDE DEF next
<1>5. next \in row + 1 .. Len(table) /\ table[next].starts <= L
  BY <1>1, <1>2 DEF Following
<1>6. table[next].starts = L
  BY <1>1, <1>2, <1>5, LineIs
<1>7. ASSUME NEW m \in row + 1 .. next - 1
      PROVE  table[m].starts > L
  <2>1. m \in 1 .. Len(table) /\ m > row /\ m < next
    BY <1>1, <1>5
  <2>2. m \notin Following(L)
    BY <1>4, <1>5, <2>1
  <2>3. ~(table[m].starts <= L)
    BY <1>1, <2>1, <2>2 DEF Following
  <2>. QED  BY <1>1, <2>1, <2>3, LineIs
<1>. QED  BY <1>5, <1>6, <1>7 DEF next

(* Where no row of level L begins, the row of the level stays.             *)
LEMMA RowStays ==
    ASSUME RequestOK, NEW L \in 0 .. depth, NEW j \in Nat, NEW k \in Nat, j <= k,
           \A m \in j + 1 .. k : table[m].starts > L /\ table[m].starts \in Int
    PROVE  RowAt(L, k) = RowAt(L, j)
<1>1. L \in Int
  BY DepthIs
<1>2. \A m \in 1 .. k : table[m].starts <= L => m \in 1 .. j
  BY <1>1
<1>3. {m \in 1 .. k : table[m].starts <= L} = {m \in 1 .. j : table[m].starts <= L}
  BY <1>2
<1>. QED  BY <1>3 DEF RowAt

-----------------------------------------------------------------------------
(* What a step leaves alone.                                               *)

LEMMA RequestStays ==
    ASSUME RequestOK, UNCHANGED request
    PROVE  /\ RequestOK'
           /\ depth' = depth /\ table' = table /\ limit' = limit /\ mode' = mode /\ resets' = resets
           /\ \A L, k : RowAt(L, k)' = RowAt(L, k)
           /\ \A L : Restarts(L)' = Restarts(L)
BY DEF RequestOK, request, Line, RowAt, Restarts

(* Steps that neither read nor put rows.                                   *)
LEMMA HistoryStays ==
    ASSUME RequestOK, History, UNCHANGED <<request, row, received>>,
           \A L \in 1 .. depth :
               (L < level' /\ d_unsent_data'[L]) \/ (L >= level' /\ InHand') => IsNew(L),
           at' = "row" /\ level' = depth => table[row].selected
    PROVE  History'
<1>1. /\ depth' = depth /\ table' = table /\ row' = row /\ received' = received
      /\ \A L, k : RowAt(L, k)' = RowAt(L, k)
  BY RequestStays
<1>2. \A r : IsPlaced(r)' <=> IsPlaced(r)
  BY <1>1 DEF IsPlaced
<1>3. \A L : IsNew(L)' <=> IsNew(L)
  BY <1>1 DEF IsNew
<1>. QED  BY <1>1, <1>2, <1>3 DEF History, Leaf, InOrder

(* What is known of a level.                                               *)
LEMMA LevelIs ==
    ASSUME RequestOK, StateOK
    PROVE  level \in Levels /\ level \in 1 .. depth /\ level \in Nat /\ depth \in Levels /\ Levels \in SUBSET Nat
           /\ Levels = 1 .. MaxDepth /\ MaxDepth \in Nat
           /\ limit[level] \in Limits /\ limit[depth] \in Limits
<1>1. depth \in 1 .. MaxDepth /\ MaxDepth \in Nat
  BY DepthIs
<1>2. level \in Levels /\ depth \in Levels
  BY <1>1 DEF StateOK, Levels
<1>3. limit[level] \in Limits /\ limit[depth] \in Limits
  BY <1>2 DEF RequestOK
<1>4. Levels = 1 .. MaxDepth /\ level \in 1 .. depth
  BY DEF Levels, StateOK
<1>. QED  BY <1>1, <1>2, <1>3, <1>4

(* The limits of a row number.                                             *)
LEMMA LimitIs ==
    ASSUME NEW l \in Limits
    PROVE  l.start \in Int /\ l.stop \in Int /\ l.stride \in Nat
           /\ (l.start # -1 => l.start \in Nat)
           /\ NoLimit.start = -1 /\ NoLimit.stop = -1 /\ NoLimit.stride = 1
BY SequenceAssumption DEF NoLimit

(* How many Sequences are being filled.                                    *)
LEMMA FillingIs ==
    ASSUME RequestOK, StateOK, Places
    PROVE  \E n \in 0 .. level :
               Len(values) = n /\ DOMAIN values = 1 .. n /\ values = [k \in 1 .. n |-> RowAt(k - 1, row)]
               /\ (values = <<>> <=> n = 0)
<1>1. PICK n \in 0 .. level : values = [k \in 1 .. n |-> RowAt(k - 1, row)]
  BY DEF Places
<1>2. n \in Nat
  BY LevelIs
<1>. QED  BY <1>1, <1>2

LEMMA PlacesStay ==
    ASSUME RequestOK, StateOK, Places, UNCHANGED <<request, row, values>>, level' \in Nat,
           Len(values) <= level',
           at' # "done" => Len(values) >= 1,
           at' = "done" => level' = 1 /\ (mode = "serialize" => Len(values) = 0),
           at' = "call" /\ level' > 1 => Len(values) < level',
           at' = "returned" => level' < depth,
           level' = depth /\ depth > 1 /\ at' \in {"read", "row", "end"} => (first' <=> Len(values) < depth)
    PROVE  Places'
<1>1. PICK n \in 0 .. level : Len(values) = n /\ values = [k \in 1 .. n |-> RowAt(k - 1, row)]
  BY FillingIs
<1>2. depth' = depth /\ mode' = mode /\ row' = row /\ values' = values /\ \A L, k : RowAt(L, k)' = RowAt(L, k)
  BY RequestStays
<1>3. n \in 0 .. level' /\ values' = [k \in 1 .. n |-> RowAt(k - 1, row)]'
  BY <1>1, <1>2, LevelIs
<1>. QED  BY <1>2, <1>3 DEF Places, Leaf

-----------------------------------------------------------------------------
(* The steps.                                                              *)

LEMMA CallKeepsIInv ==
    ASSUME IInv, Call
    PROVE  IInv'
<1>. USE DEF IInv
<1>1. level \in Levels /\ level \in 1 .. depth /\ level \in Nat /\ depth \in Levels /\ Levels = 1 .. MaxDepth /\ MaxDepth \in Nat
      /\ limit[level] \in Limits /\ limit[depth] \in Limits
  BY LevelIs
<1>2. /\ at = "call" /\ at' = "read" /\ first' = TRUE
      /\ i' = [i EXCEPT ![level] = IF limit[level].start # -1 THEN limit[level].start ELSE 0]
      /\ orig_stack_size' = [orig_stack_size EXCEPT ![level] = Len(values)]
      /\ d_wrote_soi' = [d_wrote_soi EXCEPT ![level] = ~Leaf /\ @]
      /\ UNCHANGED <<request, row, level, marks, values, received>>
  BY DEF Call
<1>3. /\ depth' = depth /\ table' = table /\ limit' = limit /\ mode' = mode /\ resets' = resets
      /\ \A L : Restarts(L)' = Restarts(L)
      /\ row' = row /\ level' = level /\ d_row_number' = d_row_number /\ d_read_p' = d_read_p
      /\ d_unsent_data' = d_unsent_data /\ values' = values /\ received' = received
  BY <1>2, RequestStays DEF marks
<1>4. PICK n \in 0 .. level : Len(values) = n
  BY FillingIs
<1>5. i'[level] \in Nat
  BY <1>1, <1>2, LimitIs DEF StateOK
<1>6. InHand' <=> InHand
  BY <1>2, <1>3 DEF InHand
<1>7. RequestOK'
  BY <1>2, RequestStays
<1>8. StateOK'
  <2>1. i \in [Levels -> Nat] /\ orig_stack_size \in [Levels -> Nat] /\ n \in Nat
    BY <1>1 DEF StateOK
  <2>2. i' = [i EXCEPT ![level] = i'[level]] /\ orig_stack_size' = [orig_stack_size EXCEPT ![level] = n]
    BY <1>1, <1>2, <1>4, <2>1
  <2>3. i' \in [Levels -> Nat] /\ orig_stack_size' \in [Levels -> Nat]
    BY ONLY <1>1, <1>5, <2>1, <2>2
  <2>4. d_wrote_soi' \in [Levels -> BOOLEAN]
    BY <1>2 DEF StateOK
  <2>. QED  BY <1>2, <1>3, <2>3, <2>4 DEF StateOK
<1>9. NumbersBelowRow'
  BY <1>2, <1>3, <1>6 DEF NumbersBelowRow
<1>10. NumbersRestart'
  <2>1. i \in [Levels -> Nat] /\ d_row_number \in [Levels -> Int]
    BY DEF StateOK
  <2>2. \A L \in Levels : L # level => i'[L] = i[L]
    BY <1>2, <2>1
  <2>3. Restarts(level) => d_row_number[level] <= i'[level]
    BY <1>2, <1>5 DEF NumbersRestart
  <2>4. \A L \in Levels : L < level => d_row_number[L] <= i'[L]
    <3>1. \A L \in Levels : L < level => L # level
      BY <1>1
    <3>. QED  BY <2>2, <3>1 DEF NumbersRestart
  <2>. QED  BY <1>2, <1>3, <1>6, <2>3, <2>4 DEF NumbersRestart
<1>11. ReadsToTheEnd'
  BY <1>1, <1>2, <1>3, LimitIs DEF ReadsToTheEnd, NumbersRestart, Restarts, StateOK, Leaf
<1>12. Places'
  BY <1>1, <1>2, <1>3, <1>4, PlacesStay DEF Places
<1>13. SentIsFilled'
  BY <1>2, <1>3, <1>6 DEF SentIsFilled
<1>14. EndsAreKnown'
  <2>1. level > 1 => n < level
    BY <1>2, <1>4 DEF Places
  <2>2. \A L \in Levels : /\ orig_stack_size'[L] = IF L = level THEN n ELSE orig_stack_size[L]
                          /\ d_wrote_soi'[L] <=> d_wrote_soi[L] /\ (L = level => level # depth)
    BY <1>2, <1>4 DEF StateOK, Leaf
  <2>3. \A L \in 2 .. level : L \in Levels
    BY <1>1
  <2>. QED  BY <1>1, <1>2, <1>3, <1>4, <2>1, <2>2, <2>3 DEF EndsAreKnown
<1>15. History'
  BY <1>2, <1>3, <1>6, HistoryStays DEF History
<1>. QED  BY <1>7, <1>8, <1>9, <1>10, <1>11, <1>12, <1>13, <1>14, <1>15

LEMMA BackUpKeepsIInv ==
    ASSUME IInv, BackUp
    PROVE  IInv'
<1>. USE DEF IInv
<1>1. /\ at = "read" /\ i[level] < d_row_number[level] /\ at' = "thrown"
      /\ UNCHANGED <<request, row, level, first, i, marks, d_wrote_soi, orig_stack_size, values, received>>
  BY DEF BackUp
<1>2. /\ depth' = depth /\ table' = table /\ limit' = limit /\ mode' = mode /\ resets' = resets
      /\ \A L : Restarts(L)' = Restarts(L)
      /\ row' = row /\ level' = level /\ first' = first /\ i' = i
      /\ d_row_number' = d_row_number /\ d_read_p' = d_read_p /\ d_unsent_data' = d_unsent_data
      /\ d_wrote_soi' = d_wrote_soi /\ orig_stack_size' = orig_stack_size
      /\ values' = values /\ received' = received
  BY <1>1, RequestStays DEF marks
<1>3. ~InHand'
  BY <1>1 DEF InHand
<1>4. PICK n \in 0 .. level : Len(values) = n
  BY FillingIs
<1>5. level \in Levels /\ level \in Nat
  BY LevelIs
<1>6. RequestOK'
  BY <1>1, RequestStays
<1>7. StateOK'
  BY <1>1, <1>2 DEF StateOK
<1>8. NumbersBelowRow'
  BY <1>2, <1>3 DEF NumbersBelowRow
<1>9. NumbersRestart'
  <2>1. i[level] \in Int /\ d_row_number[level] \in Int
    BY <1>5 DEF StateOK
  <2>2. ~Restarts(level)
    BY <1>1, <2>1 DEF NumbersRestart
  <2>. QED  BY <1>1, <1>2, <1>3, <2>2 DEF NumbersRestart
<1>10. ReadsToTheEnd'
  BY <1>1, <1>2 DEF ReadsToTheEnd, Leaf
<1>11. Places'
  BY <1>1, <1>2, <1>4, <1>5, PlacesStay DEF Places
<1>12. SentIsFilled'
  BY <1>2, <1>3 DEF SentIsFilled
<1>13. EndsAreKnown'
  BY <1>1, <1>2 DEF EndsAreKnown
<1>14. History'
  BY <1>1, <1>2, <1>3, HistoryStays DEF History
<1>. QED  BY <1>6, <1>7, <1>8, <1>9, <1>10, <1>11, <1>12, <1>13, <1>14

LEMMA SameRowKeepsIInv ==
    ASSUME IInv, SameRow
    PROVE  IInv'
<1>. USE DEF IInv
<1>1. /\ at = "read" /\ i[level] = d_row_number[level] /\ at' = "end"
      /\ UNCHANGED <<request, row, level, first, i, marks, d_wrote_soi, orig_stack_size, values, received>>
  BY DEF SameRow
<1>2. /\ depth' = depth /\ table' = table /\ limit' = limit /\ mode' = mode /\ resets' = resets
      /\ \A L : Restarts(L)' = Restarts(L)
      /\ row' = row /\ level' = level /\ first' = first /\ i' = i
      /\ d_row_number' = d_row_number /\ d_read_p' = d_read_p /\ d_unsent_data' = d_unsent_data
      /\ d_wrote_soi' = d_wrote_soi /\ orig_stack_size' = orig_stack_size
      /\ values' = values /\ received' = received
  BY <1>1, RequestStays DEF marks
<1>3. ~InHand'
  BY <1>1 DEF InHand
<1>4. PICK n \in 0 .. level : Len(values) = n
  BY FillingIs
<1>5. level \in Levels /\ level \in Nat
  BY LevelIs
<1>6. RequestOK'
  BY <1>1, RequestStays
<1>7. StateOK'
  BY <1>1, <1>2 DEF StateOK
<1>8. NumbersBelowRow'
  BY <1>2, <1>3 DEF NumbersBelowRow
<1>9. NumbersRestart'
  BY <1>1, <1>2, <1>3 DEF NumbersRestart
<1>10. ReadsToTheEnd'
  <2>1. i[level] \in Int
    BY <1>5 DEF StateOK
  <2>2. limit[depth] = NoLimit => level # depth
    BY <1>1, <2>1 DEF ReadsToTheEnd, Leaf
  <2>. QED  BY <1>1, <1>2, <2>2 DEF ReadsToTheEnd, Leaf
<1>11. Places'
  BY <1>1, <1>2, <1>4, <1>5, PlacesStay DEF Places, Leaf
<1>12. SentIsFilled'
  BY <1>2, <1>3 DEF SentIsFilled
<1>13. EndsAreKnown'
  BY <1>1, <1>2 DEF EndsAreKnown
<1>14. History'
  BY <1>1, <1>2, <1>3, HistoryStays DEF History
<1>. QED  BY <1>6, <1>7, <1>8, <1>9, <1>10, <1>11, <1>12, <1>13, <1>14

LEMMA NoMoreRowsKeepsIInv ==
    ASSUME IInv, NoMoreRows
    PROVE  IInv'
<1>. USE DEF IInv
<1>1. /\ at = "read" /\ at' = "end"
      /\ d_row_number' = [d_row_number EXCEPT ![level] = -1]
      /\ d_unsent_data' = [d_unsent_data EXCEPT ![level] = FALSE]
      /\ d_read_p' = Below(d_read_p, TRUE)
      /\ UNCHANGED <<request, row, level, first, i, d_wrote_soi, orig_stack_size, values, received>>
  BY DEF NoMoreRows
<1>2. /\ depth' = depth /\ table' = table /\ limit' = limit /\ mode' = mode /\ resets' = resets
      /\ \A L : Restarts(L)' = Restarts(L)
      /\ row' = row /\ level' = level /\ first' = first /\ i' = i
      /\ d_wrote_soi' = d_wrote_soi /\ orig_stack_size' = orig_stack_size
      /\ values' = values /\ received' = received
  BY <1>1, RequestStays
<1>3. ~InHand'
  BY <1>1 DEF InHand
<1>4. PICK n \in 0 .. level : Len(values) = n
  BY FillingIs
<1>5. level \in Levels /\ level \in Nat /\ depth \in Levels /\ Levels \in SUBSET Nat /\ level \in 1 .. depth
  BY LevelIs
<1>6. /\ d_row_number' \in [Levels -> Int] /\ d_unsent_data' \in [Levels -> BOOLEAN]
      /\ d_row_number'[level] = -1 /\ \A L \in Levels : L # level => d_row_number'[L] = d_row_number[L]
      /\ \A L \in Levels : L < level => d_unsent_data'[L] = d_unsent_data[L]
  <2>1. d_row_number \in [Levels -> Int] /\ d_unsent_data \in [Levels -> BOOLEAN] /\ -1 \in Int
    BY DEF StateOK
  <2>2. d_row_number' = [d_row_number EXCEPT ![level] = -1] /\ d_unsent_data' = [d_unsent_data EXCEPT ![level] = FALSE]
    BY <1>1
  <2>3. \A L \in Levels : L < level => L # level
    BY <1>5
  <2>. QED  BY ONLY <1>5, <2>1, <2>2, <2>3
<1>7. RequestOK'
  BY <1>1, RequestStays
<1>8. StateOK'
  <2>2. d_read_p' \in [Levels -> BOOLEAN]
    BY <1>1 DEF StateOK, Below
  <2>. QED  BY <1>1, <1>2, <1>6, <2>2 DEF StateOK
<1>9. NumbersBelowRow'
  <2>1. row \in Nat
    BY DEF StateOK, RequestOK
  <2>2. \A L \in Levels : d_row_number'[L] = -1 \/ d_row_number'[L] = d_row_number[L]
    BY <1>6
  <2>. QED  BY <1>2, <1>3, <2>1, <2>2 DEF NumbersBelowRow
<1>10. NumbersRestart'
  <2>1. \A L \in Levels : level < L /\ L < depth => d_row_number'[L] = -1
    BY <1>6 DEF NumbersRestart
  <2>2. \A L \in Levels : L < level => d_row_number'[L] <= i[L]
    <3>1. \A L \in Levels : L < level => L # level
      BY <1>5
    <3>. QED  BY <1>6, <3>1 DEF NumbersRestart
  <2>. QED  BY <1>1, <1>2, <1>3, <2>1, <2>2 DEF NumbersRestart
<1>11. ReadsToTheEnd'
  BY <1>1, <1>2, <1>5, <1>6 DEF ReadsToTheEnd, Leaf
<1>12. Places'
  BY <1>1, <1>2, <1>4, <1>5, PlacesStay DEF Places, Leaf
<1>13. SentIsFilled'
  BY <1>2, <1>3, <1>5, <1>6 DEF SentIsFilled
<1>14. EndsAreKnown'
  BY <1>1, <1>2 DEF EndsAreKnown
<1>15. History'
  <2>1. \A L \in 1 .. depth : L < level => d_unsent_data'[L] = d_unsent_data[L]
    BY <1>6, DepthIs DEF Levels
  <2>. QED  BY <1>1, <1>2, <1>3, <2>1, HistoryStays DEF History
<1>. QED  BY <1>7, <1>8, <1>9, <1>10, <1>11, <1>12, <1>13, <1>14, <1>15

LEMMA ReturnKeepsIInv ==
    ASSUME IInv, Return
    PROVE  IInv'
<1>. USE DEF IInv
<1>1. /\ at = "returned" /\ at' = "read" /\ d_read_p' = Below(d_read_p, FALSE)
      /\ UNCHANGED <<request, row, level, first, i, d_row_number, d_unsent_data, d_wrote_soi,
                     orig_stack_size, values, received>>
  BY DEF Return
<1>2. /\ depth' = depth /\ table' = table /\ limit' = limit /\ mode' = mode /\ resets' = resets
      /\ \A L : Restarts(L)' = Restarts(L)
      /\ row' = row /\ level' = level /\ first' = first /\ i' = i
      /\ d_row_number' = d_row_number /\ d_unsent_data' = d_unsent_data
      /\ d_wrote_soi' = d_wrote_soi /\ orig_stack_size' = orig_stack_size
      /\ values' = values /\ received' = received
  BY <1>1, RequestStays
<1>3. level \in Levels /\ level \in Nat /\ level < depth
  BY <1>1, LevelIs DEF Places
<1>4. ~InHand'
  BY <1>1, <1>2, <1>3 DEF InHand, Below
<1>5. PICK n \in 0 .. level : Len(values) = n
  BY FillingIs
<1>6. RequestOK'
  BY <1>1, RequestStays
<1>7. StateOK'
  <2>1. d_read_p' \in [Levels -> BOOLEAN]
    BY <1>1 DEF StateOK, Below
  <2>. QED  BY <1>1, <1>2, <2>1 DEF StateOK
<1>8. NumbersBelowRow'
  BY <1>2, <1>4 DEF NumbersBelowRow
<1>9. NumbersRestart'
  BY <1>1, <1>2, <1>3, <1>4 DEF NumbersRestart
<1>10. ReadsToTheEnd'
  BY <1>1, <1>2, <1>3 DEF ReadsToTheEnd, Leaf
<1>11. Places'
  BY <1>1, <1>2, <1>3, <1>5, PlacesStay DEF Places
<1>12. SentIsFilled'
  BY <1>2, <1>4 DEF SentIsFilled
<1>13. EndsAreKnown'
  BY <1>1, <1>2 DEF EndsAreKnown
<1>14. History'
  BY <1>1, <1>2, <1>3, <1>4, HistoryStays DEF History
<1>. QED  BY <1>6, <1>7, <1>8, <1>9, <1>10, <1>11, <1>12, <1>13, <1>14

LEMMA ParentRowKeepsIInv ==
    ASSUME IInv, ParentRow
    PROVE  IInv'
<1>. USE DEF IInv
<1>1. /\ at = "row" /\ at' = "call" /\ level # depth /\ level' = level + 1
      /\ i' = [i EXCEPT ![level] = i[level] + limit[level].stride]
      /\ UNCHANGED <<request, row, first, marks, d_wrote_soi, orig_stack_size, values, received>>
  BY DEF ParentRow, InRange, Leaf
<1>2. /\ depth' = depth /\ table' = table /\ limit' = limit /\ mode' = mode /\ resets' = resets
      /\ \A L : Restarts(L)' = Restarts(L)
      /\ row' = row /\ first' = first
      /\ d_row_number' = d_row_number /\ d_read_p' = d_read_p /\ d_unsent_data' = d_unsent_data
      /\ d_wrote_soi' = d_wrote_soi /\ orig_stack_size' = orig_stack_size
      /\ values' = values /\ received' = received
  BY <1>1, RequestStays DEF marks
<1>3. level \in Levels /\ level \in Nat /\ depth \in Levels /\ level < depth /\ Levels = 1 .. MaxDepth
      /\ MaxDepth \in Nat /\ limit[level] \in Limits
  BY <1>1, LevelIs
<1>4. InHand
  BY <1>1 DEF InHand
<1>5. PICK n \in 0 .. level : Len(values) = n
  BY FillingIs
<1>6. level + 1 \in Levels /\ level + 1 \in 1 .. depth /\ depth \in Nat
  BY <1>3
<1>7. RequestOK'
  BY <1>1, RequestStays
<1>8. \A L \in Levels : i'[L] \in Nat /\ i'[L] >= i[L] /\ d_row_number[L] \in Int
  <2>1. PICK stride \in Nat : stride = limit[level].stride
    BY <1>3, LimitIs
  <2>2. i \in [Levels -> Nat] /\ d_row_number \in [Levels -> Int] /\ i' = [i EXCEPT ![level] = i[level] + stride]
    BY <1>1, <2>1 DEF StateOK
  <2>3. \A L \in Levels : i'[L] = IF L = level THEN i[L] + stride ELSE i[L]
    BY ONLY <1>3, <2>2
  <2>. QED  BY ONLY <1>3, <2>1, <2>2, <2>3
<1>9. StateOK'
  <2>1. i' \in [Levels -> Nat]
    BY <1>1, <1>8 DEF StateOK
  <2>. QED  BY <1>1, <1>2, <1>6, <2>1 DEF StateOK
<1>10. NumbersBelowRow'
  <2>1. \A L \in Levels : L > level => d_row_number[L] <= row - 2
    BY <1>4 DEF NumbersBelowRow
  <2>. QED  BY <1>1, <1>2, <1>3, <1>6, <2>1 DEF NumbersBelowRow
<1>11. NumbersRestart'
  <2>1. \A L \in Levels : L > level /\ L < depth => d_row_number[L] = -1
    BY DEF NumbersRestart
  <2>2. resets => d_row_number[depth] = -1
    BY <1>3, <1>4 DEF NumbersRestart
  <2>3. limit[depth] = NoLimit => d_row_number[depth] = -1
    BY <1>3 DEF ReadsToTheEnd
  <2>4. Restarts(level + 1) => d_row_number[level + 1] = -1
    BY <1>3, <1>6, <2>1, <2>2, <2>3 DEF Restarts
  <2>5. \A L \in Levels : L < level + 1 => d_row_number[L] <= i'[L]
    <3>. TAKE L \in Levels
    <3>1. L < level + 1 => d_row_number[L] <= i[L]
      <4>1. L < level + 1 => L < level \/ L = level
        BY <1>3
      <4>. QED  BY <1>1, <1>8, <4>1 DEF NumbersRestart, StateOK
    <3>. QED  BY <1>8, <3>1 DEF StateOK
  <2>. QED  BY <1>1, <1>2, <1>3, <2>1, <2>2, <2>4, <2>5 DEF NumbersRestart
<1>12. ReadsToTheEnd'
  BY <1>1, <1>2, <1>3 DEF ReadsToTheEnd, Leaf
<1>13. Places'
  BY <1>1, <1>2, <1>3, <1>5, PlacesStay DEF Places
<1>14. SentIsFilled'
  <2>1. \A L \in Levels : L >= level => d_unsent_data[L]
    BY <1>4 DEF SentIsFilled
  <2>2. \A L \in Levels : L < level + 1 => (d_unsent_data[L] <=> n <= L)
    <3>. TAKE L \in Levels
    <3>1. L < level + 1 => L < level \/ L = level
      BY <1>3
    <3>. QED  BY <1>3, <1>5, <2>1, <3>1 DEF SentIsFilled
  <2>. QED  BY <1>1, <1>2, <1>3, <1>5, <2>1, <2>2 DEF SentIsFilled
<1>15. EndsAreKnown'
  <2>1. level + 1 < depth => ~(level + 1 <= n)
    BY <1>3, <1>5
  <2>2. \A L \in 2 .. level + 1 : L \in 2 .. level \/ L = level + 1
    BY <1>3
  <2>. QED  BY <1>1, <1>2, <1>3, <1>5, <1>6, <2>1, <2>2 DEF EndsAreKnown
<1>16. History'
  <2>1. \A L \in 1 .. depth : L >= level => IsNew(L)
    BY <1>4 DEF History
  <2>2. \A L \in 1 .. depth : L < level + 1 => L < level \/ L = level
    BY <1>3
  <2>3. \A L \in 1 .. depth : L >= level + 1 => L >= level
    BY <1>3
  <2>. QED  BY <1>1, <1>2, <2>1, <2>2, <2>3, HistoryStays DEF History
<1>. QED  BY <1>7, <1>9, <1>10, <1>11, <1>12, <1>13, <1>14, <1>15, <1>16

(* A Sequence that was filled is left, and no other.                       *)
LEMMA WhatLeaveEnds ==
    ASSUME IInv, Leave
    PROVE  \E n \in 1 .. level, m \in 0 .. level :
               /\ Len(values) = n /\ Len(values') = m
               /\ values' = [k \in 1 .. m |-> RowAt(k - 1, row)]
               /\ level > 1 => m = IF n = level THEN level - 1 ELSE n
               /\ level = 1 /\ mode = "serialize" => m = 0
<1>. USE DEF IInv
<1>1. level \in Levels /\ level \in Nat /\ depth \in Levels /\ level \in 1 .. depth /\ depth \in Nat
  BY LevelIs
<1>2. at \in {"row", "end"} /\ mode \in {"serialize", "intern"}
      /\ values' = IF (IF mode = "serialize" THEN Ends ELSE Pops) THEN Front(values) ELSE values
  BY DEF Leave, RequestOK
<1>3. PICK n \in 0 .. level : Len(values) = n /\ values = [k \in 1 .. n |-> RowAt(k - 1, row)]
  BY FillingIs
<1>4. n \in 1 .. level
  BY <1>1, <1>2, <1>3 DEF Places
<1>5. level > 1 => ((IF mode = "serialize" THEN Ends ELSE Pops) <=> n = level)
  <2>. SUFFICES ASSUME level > 1
                PROVE  (IF mode = "serialize" THEN Ends ELSE Pops) <=> n = level
    OBVIOUS
  <2>1. level \in 2 .. level
    BY <1>1
  <2>2. CASE mode = "serialize"
    <3>1. d_wrote_soi[level] <=> level <= n
      BY <1>2, <1>3, <2>1, <2>2 DEF EndsAreKnown
    <3>. QED  BY <1>1, <1>4, <2>2, <3>1 DEF Ends
  <2>3. CASE mode = "intern"
    <3>1. orig_stack_size[level] < level /\ (n < level => n <= orig_stack_size[level])
      BY <1>2, <1>3, <2>1, <2>3 DEF EndsAreKnown
    <3>2. orig_stack_size[level] \in Nat
      BY <1>1 DEF StateOK
    <3>3. n > orig_stack_size[level] <=> n = level
      BY <1>1, <1>4, <3>1, <3>2
    <3>4. level = depth => (first <=> n < depth)
      BY <1>1, <1>2, <1>3 DEF Places, Leaf
    <3>5. level = depth => (~first <=> n = level)
      BY <1>1, <1>4, <3>4
    <3>. QED  BY <1>3, <2>3, <3>3, <3>5 DEF Pops, Leaf
  <2>. QED  BY <1>2, <2>2, <2>3
<1>6. Front(values) = [k \in 1 .. n - 1 |-> RowAt(k - 1, row)]
  BY <1>1, <1>3, <1>4 DEF Front
<1>7. level = 1 /\ mode = "serialize" => values' = Front(values)
  BY <1>2 DEF Ends
<1>8. n - 1 \in 0 .. level
  BY <1>1, <1>4
<1>9. Len([k \in 1 .. n - 1 |-> RowAt(k - 1, row)]) = n - 1
  BY <1>1, <1>4
<1>. DEFINE m == IF (IF mode = "serialize" THEN Ends ELSE Pops) THEN n - 1 ELSE n
<1>10. m \in 0 .. level /\ Len(values') = m /\ values' = [k \in 1 .. m |-> RowAt(k - 1, row)]
  BY <1>2, <1>3, <1>6, <1>8, <1>9
<1>11. level > 1 => m = IF n = level THEN level - 1 ELSE n
  BY <1>5
<1>12. level = 1 /\ mode = "serialize" => m = 0
  BY <1>1, <1>4 DEF Ends
<1>. HIDE DEF m
<1>. QED  BY <1>3, <1>4, <1>10, <1>11, <1>12

LEMMA LeaveKeepsIInv ==
    ASSUME IInv, Leave
    PROVE  IInv'
<1>. USE DEF IInv
<1>1. /\ at = "end" \/ (at = "row" /\ ~InRange)
      /\ d_wrote_soi' = [d_wrote_soi EXCEPT ![level] = Leaf /\ @]
      /\ d_row_number' = [d_row_number EXCEPT ![level] = NumberAfter]
      /\ level' = IF level = 1 THEN 1 ELSE level - 1
      /\ at' = IF level = 1 THEN "done" ELSE "returned"
      /\ UNCHANGED <<request, row, first, i, d_read_p, d_unsent_data, orig_stack_size, received>>
  BY DEF Leave
<1>2. /\ depth' = depth /\ table' = table /\ limit' = limit /\ mode' = mode /\ resets' = resets
      /\ \A L : Restarts(L)' = Restarts(L)
      /\ row' = row /\ first' = first /\ i' = i
      /\ d_read_p' = d_read_p /\ d_unsent_data' = d_unsent_data
      /\ orig_stack_size' = orig_stack_size /\ received' = received
  BY <1>1, RequestStays
<1>3. level \in Levels /\ level \in Nat /\ depth \in Levels /\ level \in 1 .. depth /\ depth \in Nat
      /\ Levels \in SUBSET Nat /\ limit[depth] \in Limits
  BY LevelIs
<1>4. ~InHand'
  BY <1>1 DEF InHand
<1>5. PICK n \in 1 .. level, m \in 0 .. level :
               /\ Len(values) = n /\ Len(values') = m
               /\ values' = [k \in 1 .. m |-> RowAt(k - 1, row)]
               /\ level > 1 => m = IF n = level THEN level - 1 ELSE n
               /\ level = 1 /\ mode = "serialize" => m = 0
  BY WhatLeaveEnds
<1>6. /\ d_row_number' \in [Levels -> Int] /\ d_wrote_soi' \in [Levels -> BOOLEAN]
      /\ d_row_number'[level] = NumberAfter /\ \A L \in Levels : L # level => d_row_number'[L] = d_row_number[L]
      /\ \A L \in Levels : L # level => (d_wrote_soi'[L] <=> d_wrote_soi[L])
      /\ level # depth => ~d_wrote_soi'[level]
  <2>1. NumberAfter \in Int
    BY <1>3 DEF NumberAfter, StateOK
  <2>2. d_row_number \in [Levels -> Int] /\ d_wrote_soi \in [Levels -> BOOLEAN]
    BY DEF StateOK
  <2>3. d_row_number' = [d_row_number EXCEPT ![level] = NumberAfter]
        /\ d_wrote_soi' = [d_wrote_soi EXCEPT ![level] = Leaf /\ @]
    BY <1>1
  <2>4. d_row_number' \in [Levels -> Int]
      /\ d_row_number'[level] = NumberAfter /\ \A L \in Levels : L # level => d_row_number'[L] = d_row_number[L]
    BY ONLY <1>3, <2>1, <2>2, <2>3
  <2>5. /\ d_wrote_soi' \in [Levels -> BOOLEAN]
        /\ \A L \in Levels : L # level => (d_wrote_soi'[L] <=> d_wrote_soi[L])
        /\ level # depth => ~d_wrote_soi'[level]
    BY <1>3, <2>2, <2>3 DEF Leaf
  <2>. QED  BY <2>4, <2>5
<1>7. level' \in 1 .. depth /\ level' \in Nat /\ level' <= level /\ (level > 1 => level' = level - 1)
  BY <1>1, <1>3
<1>8. NumberAfter = IF level = depth THEN d_row_number[level] ELSE -1
  BY DEF NumberAfter, Leaf
<1>9. RequestOK'
  BY <1>1, RequestStays
<1>10. StateOK'
  BY <1>1, <1>2, <1>6, <1>7 DEF StateOK
<1>11. NumbersBelowRow'
  <2>1. row \in Nat
    BY DEF StateOK, RequestOK
  <2>2. \A L \in Levels : d_row_number'[L] = -1 \/ d_row_number'[L] = d_row_number[L]
    BY <1>6, <1>8
  <2>. QED  BY <1>2, <1>4, <2>1, <2>2 DEF NumbersBelowRow
<1>12. NumbersRestart'
  <2>1. ASSUME NEW L \in Levels, level' < L, L < depth
        PROVE  d_row_number'[L] = -1
    <3>1. CASE L = level
      <4>1. level # depth
        BY <1>3, <2>1, <3>1
      <4>. QED  BY <1>6, <1>8, <3>1, <4>1
    <3>2. CASE L # level
      <4>1. level < L
        <5>1. L \in Nat /\ level' >= level - 1
          BY <1>1, <1>3
        <5>. QED  BY <1>3, <1>7, <2>1, <3>2, <5>1
      <4>. QED  BY <1>6, <2>1, <3>2, <4>1 DEF NumbersRestart
    <3>. QED  BY <3>1, <3>2
  <2>2. ASSUME NEW L \in Levels, L < level' \/ (L = level' /\ at' = "returned")
        PROVE  d_row_number'[L] <= i[L]
    <3>1. L < level /\ L # level
      BY <1>1, <1>3, <2>2
    <3>. QED  BY <1>6, <3>1 DEF NumbersRestart
  <2>3. at' \in {"done", "returned"}
    BY <1>1
  <2>. QED  BY <1>2, <1>4, <2>1, <2>2, <2>3 DEF NumbersRestart
<1>13. ReadsToTheEnd'
  <2>1. ASSUME limit[depth] = NoLimit, level' < depth
        PROVE  d_row_number'[depth] = -1
    <3>1. CASE level = depth
      <4>1. at = "end"
        BY <1>1, <1>3, <2>1, <3>1, LimitIs DEF InRange, is_end_of_rows
      <4>2. d_row_number[depth] = -1
        BY <2>1, <3>1, <4>1 DEF ReadsToTheEnd, Leaf
      <4>. QED  BY <1>6, <1>8, <3>1, <4>2
    <3>2. CASE level # depth
      <4>1. level < depth /\ d_row_number'[depth] = d_row_number[depth]
        BY <1>3, <1>6, <3>2
      <4>. QED  BY <2>1, <4>1 DEF ReadsToTheEnd
    <3>. QED  BY <3>1, <3>2
  <2>. QED  BY <1>1, <1>2, <2>1 DEF ReadsToTheEnd, Leaf
<1>14. Places'
  <2>1. m \in 0 .. level' /\ (level > 1 => m >= 1)
    BY <1>1, <1>3, <1>5, <1>7
  <2>2. values' = [k \in 1 .. m |-> RowAt(k - 1, row)]'
    BY <1>1, <1>2, <1>5, RequestStays
  <2>3. level > 1 => level' < depth
    BY <1>3, <1>7
  <2>4. (level = 1 /\ at' = "done" /\ level' = 1) \/ (level > 1 /\ at' = "returned")
    BY <1>1, <1>3
  <2>5. mode' = mode /\ depth' = depth
    BY <1>2
  <2>. QED  BY <1>5, <2>1, <2>2, <2>3, <2>4, <2>5 DEF Places
<1>15. SentIsFilled'
  <2>1. ASSUME NEW L \in Levels, L < level'
        PROVE  d_unsent_data[L] <=> m <= L
    <3>0. L >= 1 /\ L \in Nat
      BY <1>3, LevelIs
    <3>1. level > 1 /\ L < level /\ L < level - 1 /\ L \in Nat
      BY <1>1, <1>3, <2>1, <3>0
    <3>2. d_unsent_data[L] <=> n <= L
      BY <1>5, <3>1 DEF SentIsFilled
    <3>. QED  BY <1>3, <1>5, <3>1, <3>2
  <2>. QED  BY <1>2, <1>4, <1>5, <2>1 DEF SentIsFilled
<1>16. EndsAreKnown'
  <2>1. ASSUME NEW L \in 2 .. level'
        PROVE  /\ L \in 2 .. level /\ L < level /\ L \in Levels /\ L # level
               /\ L <= m <=> L <= n
               /\ m < L => n < L /\ m = n
    <3>1. level > 1 /\ L <= level - 1 /\ L \in Nat /\ L >= 2
      BY <1>1, <1>3, <2>1
    <3>2. L \in Levels
      BY <1>3, <3>1, LevelIs
    <3>. QED  BY <1>3, <1>5, <3>1, <3>2
  <2>2. ASSUME mode = "serialize", NEW L \in 2 .. level'
        PROVE  d_wrote_soi'[L] <=> L <= m
    <3>1. d_wrote_soi'[L] <=> d_wrote_soi[L]
      BY <1>6, <2>1
    <3>2. L < depth
      BY <1>3, <2>1
    <3>3. d_wrote_soi[L] <=> L <= Len(values)
      BY <2>1, <2>2, <3>2 DEF EndsAreKnown
    <3>. QED  BY <1>5, <2>1, <3>1, <3>3
  <2>3. ASSUME mode = "serialize", NEW L \in Levels, level' < L, L < depth
        PROVE  ~d_wrote_soi'[L]
    <3>1. L = level \/ level < L
      BY <1>1, <1>3, <2>3
    <3>. QED  BY <1>3, <1>6, <2>3, <3>1 DEF EndsAreKnown
  <2>4. ASSUME mode = "intern", NEW L \in 2 .. level'
        PROVE  orig_stack_size[L] < L /\ (m < L => m <= orig_stack_size[L])
    BY <1>5, <2>1, <2>4 DEF EndsAreKnown
  <2>. QED  BY <1>2, <1>5, <2>2, <2>3, <2>4 DEF EndsAreKnown
<1>17. History'
  <2>1. \A L \in 1 .. depth : L < level' => L < level
    BY <1>3, <1>7
  <2>2. at' # "row"
    BY <1>1
  <2>. QED  BY <1>1, <1>2, <1>4, <2>1, <2>2, HistoryStays DEF History
<1>. QED  BY <1>9, <1>10, <1>11, <1>12, <1>13, <1>14, <1>15, <1>16, <1>17

(* What moving on from a row, or to the next one, makes of the numbers.    *)
LEMMA AdvanceIs ==
    ASSUME RequestOK, StateOK, NEW line \in 1 .. Len(table), NEW number \in Int, number = d_row_number[level],
           number < i[level], Advance(line, number)
    PROVE  \E counted \in {number, number + 1} :
               /\ counted <= i[level]
               /\ counted = i[level] /\ Leaf => table[line].selected
               /\ d_row_number' \in [Levels -> Int]
               /\ d_row_number'[level] = counted
               /\ \A L \in Levels : L # level =>
                      d_row_number'[L] = IF L > level /\ resets /\ ~d_read_p[level] THEN -1 ELSE d_row_number[L]
               /\ d_read_p' \in [Levels -> BOOLEAN]
               /\ d_read_p'[level] <=> counted = i[level]
               /\ at' = IF counted = i[level] THEN "row" ELSE "read"
<1>. DEFINE counted == number + (IF Counts(line) THEN 1 ELSE 0)
<1>1. level \in Levels /\ level \in Nat /\ Levels \in SUBSET Nat
  BY LevelIs
<1>2. i[level] \in Int /\ d_row_number \in [Levels -> Int] /\ d_read_p \in [Levels -> BOOLEAN]
  BY <1>1 DEF StateOK
<1>3. counted \in {number, number + 1} /\ counted \in Int /\ (counted # number => Counts(line))
  OBVIOUS
<1>4. /\ d_row_number' = [L \in Levels |->
                              IF L = level THEN counted
                              ELSE IF L > level /\ resets /\ ~d_read_p[level] THEN -1
                              ELSE d_row_number[L]]
      /\ d_read_p' = Below(d_read_p, counted = i[level])
      /\ at' = IF counted = i[level] THEN "row" ELSE "read"
  BY DEF Advance
<1>. HIDE DEF counted
<1>5. counted <= i[level] /\ (counted = i[level] => Counts(line))
  BY <1>2, <1>3
<1>6. d_row_number' \in [Levels -> Int] /\ d_row_number'[level] = counted
  BY <1>1, <1>2, <1>3, <1>4
<1>7. \A L \in Levels : L # level =>
          d_row_number'[L] = IF L > level /\ resets /\ ~d_read_p[level] THEN -1 ELSE d_row_number[L]
  BY <1>4
<1>8. d_read_p' \in [Levels -> BOOLEAN] /\ (d_read_p'[level] <=> counted = i[level])
  <2>1. d_read_p' = [L \in Levels |-> IF L >= level THEN counted = i[level] ELSE d_read_p[L]]
    BY <1>4 DEF Below
  <2>2. \A L \in Levels : d_read_p'[L] = IF L >= level THEN counted = i[level] ELSE d_read_p[L]
    BY <2>1
  <2>3. d_read_p'[level] = (counted = i[level])
    BY <1>1, <2>2
  <2>4. \A L \in Levels : (IF L >= level THEN counted = i[level] ELSE d_read_p[L]) \in BOOLEAN
    <3>. TAKE L \in Levels
    <3>1. d_read_p[L] \in BOOLEAN
      BY <1>2
    <3>2. CASE L >= level
      BY <3>2
    <3>3. CASE ~(L >= level)
      BY <3>1, <3>3
    <3>. QED  BY <3>2, <3>3
  <2>. QED  BY <2>1, <2>3, <2>4
<1>. QED  BY <1>3, <1>4, <1>5, <1>6, <1>7, <1>8 DEF Counts

(* Both steps that move on keep the numbers right.                         *)
LEMMA AdvanceKeepsNumbers ==
    ASSUME IInv, NEW line \in 1 .. Len(table), NEW number \in Int, number = d_row_number[level],
           at = "read", number < i[level], Advance(line, number), row' = line,
           (d_read_p[level] /\ row = line) \/ (~d_read_p[level] /\ row < line),
           UNCHANGED <<request, level, first, i, d_wrote_soi, orig_stack_size, values, received>>,
           d_unsent_data' \in [Levels -> BOOLEAN]
    PROVE  RequestOK' /\ StateOK' /\ NumbersBelowRow' /\ NumbersRestart' /\ ReadsToTheEnd'
           /\ (at' = "row" /\ Leaf => table[line].selected)
           /\ at' \in {"row", "read"} /\ (InHand' => at' = "row")
<1>. USE DEF IInv
<1>1. PICK counted \in {number, number + 1} :
               /\ counted <= i[level]
               /\ counted = i[level] /\ Leaf => table[line].selected
               /\ d_row_number' \in [Levels -> Int]
               /\ d_row_number'[level] = counted
               /\ \A L \in Levels : L # level =>
                      d_row_number'[L] = IF L > level /\ resets /\ ~d_read_p[level] THEN -1 ELSE d_row_number[L]
               /\ d_read_p' \in [Levels -> BOOLEAN]
               /\ d_read_p'[level] <=> counted = i[level]
               /\ at' = IF counted = i[level] THEN "row" ELSE "read"
  BY AdvanceIs
<1>2. /\ depth' = depth /\ table' = table /\ limit' = limit /\ mode' = mode /\ resets' = resets
      /\ \A L : Restarts(L)' = Restarts(L)
      /\ level' = level /\ first' = first /\ i' = i /\ orig_stack_size' = orig_stack_size
      /\ d_wrote_soi' = d_wrote_soi /\ values' = values /\ received' = received
  BY RequestStays
<1>3. level \in Levels /\ level \in Nat /\ Levels \in SUBSET Nat /\ depth \in Levels /\ level <= depth
      /\ limit[depth] \in Limits
  BY LevelIs DEF StateOK
<1>4. row \in Nat /\ line \in Nat /\ line \in 1 .. Len(table) /\ Len(table) \in Nat /\ i[level] \in Int
  BY <1>3 DEF RequestOK, StateOK
<1>5. RequestOK'
  BY RequestStays
<1>6. StateOK'
  BY <1>1, <1>2, <1>4 DEF StateOK
<1>7. at' \in {"row", "read"} /\ (InHand' <=> at' = "row") /\ (at' = "row" <=> counted = i[level])
  BY <1>1, <1>2 DEF InHand
<1>8. d_read_p[level] => InHand
  BY DEF InHand
<1>9. \A L \in Levels : d_row_number[L] \in Int /\ d_row_number[L] >= -1 /\ d_row_number[L] <= row - 1
  BY <1>4 DEF NumbersBelowRow
<1>10. NumbersBelowRow'
  <2>1. counted >= -1 /\ counted <= line - 1
    <3>1. number >= -1 /\ number <= line - 2
      BY <1>3, <1>4, <1>8, <1>9 DEF NumbersBelowRow
    <3>. QED  BY <1>4, <3>1
  <2>2. ASSUME NEW L \in Levels, L # level
        PROVE  d_row_number'[L] \in -1 .. line - 1 /\ (L > level => d_row_number'[L] <= line - 2)
    <3>1. L > level /\ d_read_p[level] => d_row_number[L] <= row - 2
      BY <1>8 DEF NumbersBelowRow
    <3>2. d_row_number'[L] = -1 \/ d_row_number'[L] = d_row_number[L]
      BY <1>1, <2>2
    <3>. QED  BY <1>4, <1>9, <3>1, <3>2
  <2>3. ASSUME NEW L \in Levels, L > level
        PROVE  d_row_number'[L] <= line - 2
    BY <1>3, <2>2, <2>3
  <2>4. ASSUME NEW L \in Levels
        PROVE  d_row_number'[L] \in -1 .. line - 1
    <3>1. CASE L = level
      BY <1>1, <1>4, <2>1, <3>1
    <3>2. CASE L # level
      BY <2>2, <3>2
    <3>. QED  BY <3>1, <3>2
  <2>. QED  BY <1>2, <1>7, <2>3, <2>4 DEF NumbersBelowRow
<1>11. NumbersRestart'
  <2>1. ASSUME NEW L \in Levels, level < L, L < depth
        PROVE  d_row_number'[L] = -1
    <3>1. L # level /\ d_row_number[L] = -1
      BY <1>3, <2>1 DEF NumbersRestart
    <3>. QED  BY <1>1, <3>1
  <2>2. ASSUME resets, level < depth
        PROVE  d_row_number'[depth] = -1
    <3>1. depth > level /\ depth # level
      BY <1>3, <2>2
    <3>2. d_read_p[level] => d_row_number[depth] = -1
      BY <1>8, <2>2 DEF NumbersRestart
    <3>. QED  BY <1>1, <1>3, <2>2, <3>1, <3>2
  <2>3. ASSUME NEW L \in Levels, L < level
        PROVE  d_row_number'[L] <= i[L]
    <3>1. L # level /\ ~(L > level) /\ d_row_number[L] <= i[L]
      BY <1>3, <2>3 DEF NumbersRestart
    <3>. QED  BY <1>1, <3>1
  <2>4. at' # "call" /\ at' # "thrown" /\ at' # "returned"
    BY <1>7
  <2>. QED  BY <1>1, <1>2, <1>7, <2>1, <2>2, <2>3, <2>4 DEF NumbersRestart
<1>12. ReadsToTheEnd'
  <2>1. ASSUME limit[depth] = NoLimit, level < depth
        PROVE  d_row_number'[depth] = -1
    <3>1. depth # level /\ d_row_number[depth] = -1
      BY <1>3, <2>1 DEF ReadsToTheEnd
    <3>. QED  BY <1>1, <1>3, <3>1
  <2>2. ASSUME limit[depth] = NoLimit, level = depth, at' = "read"
        PROVE  d_row_number'[depth] = i[depth] - 1
    <3>1. number = i[level] - 1
      BY <2>2 DEF ReadsToTheEnd, Leaf
    <3>2. counted # i[level]
      BY <1>7, <2>2
    <3>. QED  BY <1>1, <1>4, <2>2, <3>1, <3>2
  <2>. QED  BY <1>2, <1>7, <2>1, <2>2 DEF ReadsToTheEnd, Leaf
<1>. QED  BY <1>1, <1>5, <1>6, <1>7, <1>10, <1>11, <1>12

LEMMA RowInHandKeepsIInv ==
    ASSUME IInv, RowInHand
    PROVE  IInv'
<1>. USE DEF IInv
<1>1. /\ at = "read" /\ i[level] > d_row_number[level] /\ d_read_p[level]
      /\ Advance(row, d_row_number[level])
      /\ UNCHANGED <<request, row, level, first, i, d_unsent_data, d_wrote_soi, orig_stack_size, values, received>>
  BY DEF RowInHand
<1>2. level \in Levels /\ level \in Nat
  BY LevelIs
<1>3. InHand
  BY <1>1 DEF InHand
<1>4. PICK line \in Int, number \in Int : line = row /\ number = d_row_number[level]
  BY <1>2 DEF StateOK, RequestOK
<1>5. line \in 1 .. Len(table)
  <2>1. number >= -1 /\ number <= line - 2
    BY <1>1, <1>2, <1>3, <1>4 DEF NumbersBelowRow
  <2>. QED  BY <1>4, <2>1 DEF StateOK, RequestOK
<1>6. /\ RequestOK' /\ StateOK' /\ NumbersBelowRow' /\ NumbersRestart' /\ ReadsToTheEnd'
      /\ at' = "row" /\ Leaf => table[line].selected
      /\ at' \in {"row", "read"} /\ (InHand' => at' = "row")
  <2>1. number < i[level]
    BY <1>1, <1>2, <1>4 DEF StateOK
  <2>2. d_unsent_data' \in [Levels -> BOOLEAN]
    BY <1>1 DEF StateOK
  <2>3. Advance(line, number) /\ row' = line
    BY <1>1, <1>4
  <2>. QED  BY <1>1, <1>4, <1>5, <2>1, <2>2, <2>3, AdvanceKeepsNumbers
<1>7. /\ depth' = depth /\ mode' = mode /\ level' = level /\ first' = first /\ d_unsent_data' = d_unsent_data
      /\ d_wrote_soi' = d_wrote_soi /\ orig_stack_size' = orig_stack_size /\ values' = values
  BY <1>1, RequestStays
<1>8. PICK n \in 0 .. level : Len(values) = n
  BY FillingIs
<1>9. Places'
  BY <1>1, <1>2, <1>6, <1>7, <1>8, PlacesStay DEF Places, Leaf
<1>10. SentIsFilled'
  BY <1>3, <1>7 DEF SentIsFilled
<1>11. EndsAreKnown'
  BY <1>1, <1>6, <1>7 DEF EndsAreKnown
<1>12. History'
  BY <1>1, <1>3, <1>4, <1>6, <1>7, HistoryStays DEF History, Leaf
<1>. QED  BY <1>6, <1>9, <1>10, <1>11, <1>12

LEMMA NextRowKeepsIInv ==
    ASSUME IInv, NextRow
    PROVE  IInv'
<1>. USE DEF IInv
<1>1. /\ at = "read" /\ i[level] > d_row_number[level] /\ ~d_read_p[level] /\ ~EndOfFile(level)
      /\ row' = Smallest(Following(level))
      /\ d_unsent_data' = Below(d_unsent_data, TRUE)
      /\ Advance(row', d_row_number[level])
      /\ UNCHANGED <<request, level, first, i, d_wrote_soi, orig_stack_size, values, received>>
  BY DEF NextRow
<1>2. level \in Levels /\ level \in Nat /\ depth \in Levels /\ level \in 1 .. depth /\ depth \in Nat
      /\ Levels = 1 .. MaxDepth /\ MaxDepth \in Nat
  BY LevelIs
<1>3. PICK line \in 1 .. Len(table) :
          /\ line = Smallest(Following(level)) /\ line > row /\ table[line].starts = level
          /\ \A m \in row + 1 .. line - 1 : table[m].starts > level
  <2>1. row \in Nat /\ Len(table) \in Nat
    BY DEF StateOK, RequestOK
  <2>2. /\ Smallest(Following(level)) \in row + 1 .. Len(table)
        /\ table[Smallest(Following(level))].starts = level
        /\ \A m \in row + 1 .. Smallest(Following(level)) - 1 : table[m].starts > level
    BY <1>1, <1>2, NextLine
  <2>3. Smallest(Following(level)) \in 1 .. Len(table) /\ Smallest(Following(level)) > row
    BY <2>1, <2>2
  <2>. QED  BY <2>2, <2>3
<1>4. row' = line /\ line \in Nat /\ row \in Nat /\ Len(table) \in Nat
  BY <1>1, <1>3 DEF StateOK, RequestOK
<1>5. PICK number \in Int : number = d_row_number[level]
  BY <1>2 DEF StateOK
<1>6. d_unsent_data' \in [Levels -> BOOLEAN]
      /\ \A L \in Levels : d_unsent_data'[L] = IF L >= level THEN TRUE ELSE d_unsent_data[L]
  <2>1. d_unsent_data' = [L \in Levels |-> IF L >= level THEN TRUE ELSE d_unsent_data[L]]
    BY <1>1 DEF Below
  <2>. QED  BY <2>1 DEF StateOK
<1>7. /\ RequestOK' /\ StateOK' /\ NumbersBelowRow' /\ NumbersRestart' /\ ReadsToTheEnd'
      /\ at' = "row" /\ Leaf => table[line].selected
      /\ at' \in {"row", "read"} /\ (InHand' => at' = "row")
  <2>1. number < i[level]
    BY <1>1, <1>2, <1>5 DEF StateOK
  <2>2. Advance(line, number) /\ row < line
    BY <1>1, <1>3, <1>4, <1>5
  <2>. QED  BY <1>1, <1>4, <1>5, <1>6, <2>1, <2>2, AdvanceKeepsNumbers
<1>8. /\ depth' = depth /\ mode' = mode /\ level' = level /\ first' = first /\ table' = table
      /\ d_wrote_soi' = d_wrote_soi /\ orig_stack_size' = orig_stack_size /\ values' = values
      /\ received' = received /\ \A L, k : RowAt(L, k)' = RowAt(L, k)
  BY <1>1, RequestStays
<1>9. ASSUME NEW L \in 0 .. depth, L < level
      PROVE  RowAt(L, line) = RowAt(L, row)
  <2>1. ASSUME NEW m \in row + 1 .. line
        PROVE  table[m].starts > L /\ table[m].starts \in Int
    <3>1. m \in 1 .. Len(table) /\ (m = line \/ m \in row + 1 .. line - 1)
      BY <1>3, <1>4
    <3>2. table[m].starts >= level /\ table[m].starts \in Int
      BY <1>2, <1>3, <3>1, LineIs
    <3>. QED  BY <1>2, <1>9, <3>2
  <2>. QED  BY <1>3, <1>4, <2>1, RowStays
<1>10. ASSUME NEW L \in 1 .. depth, L >= level
       PROVE  RowAt(L, line)[2] = line
  <2>1. L \in table[line].starts .. depth
    BY <1>2, <1>3, <1>10
  <2>. QED  BY <2>1, RowBeginsHere
<1>11. PICK n \in 0 .. level : Len(values) = n /\ values = [k \in 1 .. n |-> RowAt(k - 1, row)]
  BY FillingIs
<1>12. Places'
  <2>1. \A k \in 1 .. n : RowAt(k - 1, line) = RowAt(k - 1, row)
    <3>1. \A k \in 1 .. n : k - 1 \in 0 .. depth /\ k - 1 < level
      BY <1>2
    <3>. QED  BY <1>9, <3>1
  <2>2. values = [k \in 1 .. n |-> RowAt(k - 1, line)]
    BY <1>11, <2>1
  <2>3. values' = [k \in 1 .. n |-> RowAt(k - 1, row)]'
    BY <1>4, <1>8, <2>2
  <2>4. Len(values) >= 1 /\ (Leaf /\ depth > 1 => (first <=> Len(values) < depth))
    BY <1>1 DEF Places
  <2>5. at' \notin {"done", "call", "returned"}
    BY <1>7
  <2>. QED  BY <1>8, <1>11, <2>3, <2>4, <2>5 DEF Places, Leaf
<1>13. SentIsFilled'
  <2>1. \A L \in Levels : L < level => ~(L >= level)
    BY <1>2
  <2>. QED  BY <1>6, <1>8, <2>1 DEF SentIsFilled
<1>14. EndsAreKnown'
  BY <1>1, <1>7, <1>8 DEF EndsAreKnown
<1>15. History'
  <2>1. ASSUME NEW k \in DOMAIN received
        PROVE  received[k].row[2] \in Int /\ received[k].row[2] <= row
    <3>1. received \in Seq([in : Int \X Int, row : Int \X Int]) /\ received[k].row[2] <= row
      BY DEF History
    <3>2. DOMAIN received = 1 .. Len(received)
      BY <3>1
    <3>3. received[k] \in [in : Int \X Int, row : Int \X Int]
      BY <3>1, <3>2, ElementOfSeq
    <3>. QED  BY <3>1, <3>3
  <2>2. ASSUME NEW L \in 1 .. depth, (L < level /\ d_unsent_data'[L]) \/ L >= level
        PROVE  \A k \in DOMAIN received : received[k].row[2] < RowAt(L, line)[2]
    <3>1. CASE L >= level
      BY <1>3, <1>4, <1>10, <2>1, <3>1
    <3>2. CASE ~(L >= level)
      <4>1. L \in Levels /\ L < level /\ L \in 0 .. depth
        BY <1>2, <3>2
      <4>2. IsNew(L)
        BY <1>6, <2>2, <3>2, <4>1 DEF History
      <4>. QED  BY <1>9, <4>1, <4>2 DEF IsNew
    <3>. QED  BY <3>1, <3>2
  <2>3. ASSUME NEW L \in 1 .. depth, (L < level' /\ d_unsent_data'[L]) \/ (L >= level' /\ InHand')
        PROVE  IsNew(L)'
    BY <1>4, <1>8, <2>2, <2>3 DEF IsNew
  <2>4. ASSUME NEW r, IsPlaced(r)
        PROVE  IsPlaced(r)'
    <3>1. \A k \in 1 .. row : k \in 1 .. line
      BY <1>3, <1>4
    <3>. QED  BY <1>4, <1>8, <2>4, <3>1 DEF IsPlaced
  <2>5. \A k \in DOMAIN received : received[k].row[2] <= line
    BY <1>3, <1>4, <2>1
  <2>6. (\A k \in DOMAIN received : IsPlaced(received[k]) /\ received[k].row[2] <= row)'
    <3>1. PICK got : got = received
      OBVIOUS
    <3>2. \A k \in DOMAIN got : IsPlaced(got[k])' /\ got[k].row[2] <= line
      BY <2>4, <2>5, <3>1 DEF History
    <3>. QED  BY <1>4, <1>8, <3>1, <3>2
  <2>7. at' = "row" /\ level' = depth' => table'[row'].selected
    BY <1>4, <1>7, <1>8 DEF Leaf
  <2>8. received' \in Seq([in : Int \X Int, row : Int \X Int]) /\ InOrder(received')
    BY <1>8 DEF History
  <2>. QED  BY <1>8, <2>3, <2>6, <2>7, <2>8 DEF History, Leaf, InOrder
<1>. QED  BY <1>7, <1>12, <1>13, <1>14, <1>15

-----------------------------------------------------------------------------
(* A row of the leaf, and the rows around it that go out first.            *)

LEMMA SmallerIs ==
    ASSUME NEW a \in Nat, NEW b \in Nat
    PROVE  Smallest({a, b}) = IF a <= b THEN a ELSE b
<1>1. {a, b} \in SUBSET Nat /\ {a, b} # {}
  OBVIOUS
<1>2. Smallest({a, b}) \in {a, b} /\ \A m \in {a, b} : Smallest({a, b}) <= m
  BY <1>1, SmallestIs
<1>. QED  BY <1>2

(* The levels sent are those from the innermost that is being filled to    *)
(* the leaf.                                                               *)
LEMMA SentIs ==
    ASSUME IInv, at = "row", Leaf, NEW n \in 1 .. depth, Len(values) = n
    PROVE  Sent = [k \in 1 .. depth - n + 1 |-> n + k - 1] /\ (~first => n = depth)
           /\ \A L \in Levels : L < depth /\ n <= L => d_unsent_data[L] /\ first
<1>. USE DEF IInv
<1>1. depth \in Nat /\ depth >= 1 /\ level = depth /\ Levels = 1 .. MaxDepth /\ MaxDepth \in Nat /\ depth <= MaxDepth
      /\ n \in Nat
  BY DepthIs, LevelIs DEF Leaf
<1>2. depth > 1 => (first <=> n < depth)
  BY DEF Places
<1>3. \A L \in 1 .. depth - 1 : d_unsent_data[L] <=> n <= L
  BY <1>1 DEF SentIsFilled
<1>4. CASE first
  <2>. DEFINE unsent == {L \in 1 .. depth - 1 : d_unsent_data[L]}
  <2>1. unsent = n .. depth - 1
    BY <1>1, <1>3
  <2>2. Parents = [k \in 1 .. Cardinality(unsent) |-> Nth(unsent, k)]
    BY DEF Parents
  <2>. HIDE DEF unsent
  <2>3. PICK b \in Nat : b = depth - 1
    BY <1>1
  <2>. DEFINE interval == n .. b
  <2>4. unsent = interval
    BY <2>1, <2>3
  <2>5. Cardinality(interval) = depth - n /\ b - n + 1 = depth - n
    BY <1>1, <2>3, FS_Interval
  <2>6. \A k \in 1 .. b - n + 1 : Nth(interval, k) = n + k - 1
    BY <1>1, <2>3, NthOfInterval
  <2>. HIDE DEF interval
  <2>7. Parents = [k \in 1 .. depth - n |-> n + k - 1]
    BY <2>2, <2>4, <2>5, <2>6
  <2>8. Append([k \in 1 .. depth - n |-> n + k - 1], depth) = [k \in 1 .. depth - n + 1 |-> n + k - 1]
    BY <1>1
  <2>9. Sent = [k \in 1 .. depth - n + 1 |-> n + k - 1]
    BY <1>4, <2>7, <2>8 DEF Sent
  <2>. QED  BY <1>1, <1>3, <1>4, <2>9
<1>5. CASE ~first
  <2>1. n = depth
    BY <1>1, <1>2, <1>5
  <2>2. <<depth>> = [k \in 1 .. depth - n + 1 |-> n + k - 1]
    BY <1>1, <2>1
  <2>. QED  BY <1>1, <1>5, <2>1, <2>2 DEF Sent
<1>. QED  BY <1>4, <1>5

LEMMA PutIs ==
    ASSUME IInv, at = "row", Leaf, NEW n \in 1 .. depth, Len(values) = n
    PROVE  /\ Rows = [k \in 1 .. depth - n + 1 |-> RowAt(n + k - 1, row)]
           /\ Len(Rows) = depth - n + 1
           /\ Stack(Len(Rows)) = [k \in 1 .. depth |-> RowAt(k - 1, row)]
           /\ \A k \in 1 .. depth - n + 1 :
                  Put(k) = [in |-> RowAt(n + k - 2, row), row |-> RowAt(n + k - 1, row)]
<1>. USE DEF IInv
<1>1. depth \in Nat /\ depth >= 1 /\ n \in Nat /\ n >= 1 /\ n <= depth
  BY DepthIs
<1>2. Sent = [k \in 1 .. depth - n + 1 |-> n + k - 1]
  BY SentIs
<1>3. Rows = [k \in 1 .. depth - n + 1 |-> RowAt(n + k - 1, row)]
  BY <1>2 DEF Rows
<1>4. Len(Rows) = depth - n + 1
  BY <1>1, <1>3
<1>5. Held = depth - n
  <2>1. Smallest({depth - n + 1, depth - n}) = depth - n
    BY <1>1, SmallerIs
  <2>. QED  BY <1>1, <1>4, <2>1 DEF Held
<1>6. values = [k \in 1 .. n |-> RowAt(k - 1, row)]
  BY FillingIs
<1>7. ASSUME NEW k \in 0 .. depth - n + 1, NEW h \in 0 .. depth - n, h = IF k <= depth - n THEN k ELSE depth - n
      PROVE  Stack(k) = [j \in 1 .. n + h |-> RowAt(j - 1, row)]
  <2>1. Smallest({k, Held}) = h
    BY <1>1, <1>5, <1>7, SmallerIs
  <2>. DEFINE e(j) == RowAt(j, row)
  <2>. HIDE DEF e
  <2>2. SubSeq([j \in 1 .. depth - n + 1 |-> e(n + j - 1)], 1, h) = [j \in 1 .. h |-> e(n + j - 1)]
    BY <1>1
  <2>3. [j \in 1 .. n |-> e(j - 1)] \o [j \in 1 .. h |-> e(n + j - 1)] = [j \in 1 .. n + h |-> e(j - 1)]
    BY <1>1
  <2>. QED  BY <1>3, <1>6, <2>1, <2>2, <2>3 DEF Stack, e
<1>8. Stack(Len(Rows)) = [k \in 1 .. depth |-> RowAt(k - 1, row)]
  <2>1. PICK k \in 0 .. depth - n + 1, h \in 0 .. depth - n : k = depth - n + 1 /\ h = depth - n
    BY <1>1
  <2>2. Stack(k) = [j \in 1 .. n + h |-> RowAt(j - 1, row)]
    <3>1. h = IF k <= depth - n THEN k ELSE depth - n
      BY <1>1, <2>1
    <3>. QED  BY <1>7, <3>1
  <2>3. n + h = depth /\ Len(Rows) = k
    BY <1>1, <1>4, <2>1
  <2>. QED  BY <2>2, <2>3
<1>9. ASSUME NEW k \in 1 .. depth - n + 1
      PROVE  Put(k) = [in |-> RowAt(n + k - 2, row), row |-> RowAt(n + k - 1, row)]
  <2>1. PICK h \in 0 .. depth - n : h = k - 1
    BY <1>1
  <2>2. Stack(k - 1) = [j \in 1 .. n + k - 1 |-> RowAt(j - 1, row)]
    <3>1. h \in 0 .. depth - n + 1 /\ h <= depth - n /\ n + h = n + k - 1
      BY <1>1, <2>1
    <3>2. Stack(h) = [j \in 1 .. n + h |-> RowAt(j - 1, row)]
      BY <1>7, <3>1
    <3>. QED  BY <2>1, <3>1, <3>2
  <2>3. Last([j \in 1 .. n + k - 1 |-> RowAt(j - 1, row)]) = RowAt(n + k - 2, row)
        /\ [j \in 1 .. n + k - 1 |-> RowAt(j - 1, row)] # <<>>
    <3>. DEFINE e(j) == RowAt(j, row)
                s == [j \in 1 .. n + k - 1 |-> e(j - 1)]
    <3>. HIDE DEF e
    <3>1. Len(s) = n + k - 1 /\ n + k - 1 >= 1
      BY <1>1
    <3>2. Last(s) = e((n + k - 1) - 1) /\ s # <<>>
      BY <1>1, <3>1 DEF Last
    <3>3. (n + k - 1) - 1 = n + k - 2
      BY <1>1
    <3>. QED  BY <3>2, <3>3 DEF e
  <2>4. Innermost(Stack(k - 1)) = RowAt(n + k - 2, row)
    BY <2>2, <2>3 DEF Innermost
  <2>. QED  BY <1>3, <2>4 DEF Put
<1>. QED  BY <1>3, <1>4, <1>8, <1>9

(* Rows that follow all the others, in the order of the levels, leave the  *)
(* whole in order.                                                         *)
LEMMA OrderGrows ==
    ASSUME NEW S, NEW s \in Seq(S), NEW t \in Seq(S), InOrder(s), InOrder(t),
           \A j \in DOMAIN s, k \in DOMAIN t : Before(s[j].row, t[k].row)
    PROVE  InOrder(s \o t)
<1>1. Len(s) \in Nat /\ Len(t) \in Nat /\ DOMAIN s = 1 .. Len(s) /\ DOMAIN t = 1 .. Len(t)
  OBVIOUS
<1>2. /\ DOMAIN (s \o t) = 1 .. Len(s) + Len(t)
      /\ \A k \in 1 .. Len(s) + Len(t) : (s \o t)[k] = IF k <= Len(s) THEN s[k] ELSE t[k - Len(s)]
  OBVIOUS
<1>3. ASSUME NEW j \in 1 .. Len(s) + Len(t), NEW k \in 1 .. Len(s) + Len(t), j < k
      PROVE  Before((s \o t)[j].row, (s \o t)[k].row)
  <2>1. CASE k <= Len(s)
    <3>1. j \in DOMAIN s /\ k \in DOMAIN s /\ (s \o t)[j] = s[j] /\ (s \o t)[k] = s[k]
      BY <1>1, <1>2, <1>3, <2>1
    <3>. QED  BY <1>3, <3>1 DEF InOrder
  <2>2. CASE j <= Len(s) /\ ~(k <= Len(s))
    <3>1. j \in DOMAIN s /\ k - Len(s) \in DOMAIN t /\ (s \o t)[j] = s[j] /\ (s \o t)[k] = t[k - Len(s)]
      BY <1>1, <1>2, <2>2
    <3>. QED  BY <3>1
  <2>3. CASE ~(j <= Len(s))
    <3>1. j - Len(s) \in DOMAIN t /\ k - Len(s) \in DOMAIN t /\ j - Len(s) < k - Len(s)
          /\ (s \o t)[j] = t[j - Len(s)] /\ (s \o t)[k] = t[k - Len(s)]
      BY <1>1, <1>2, <1>3, <2>3
    <3>. QED  BY <3>1 DEF InOrder
  <2>. QED  BY <2>1, <2>2, <2>3
<1>. QED  BY <1>2, <1>3 DEF InOrder

(* The rows that a row of the leaf brings with it follow those put before. *)
LEMMA LeafRowKeepsHistory ==
    ASSUME IInv, LeafRow, ~InHand', level' = depth, UNCHANGED <<request, row>>, at' # "row",
           \A L \in Levels : d_unsent_data'[L] <=> d_unsent_data[L] /\ ~(first /\ L < depth)
    PROVE  History'
<1>. USE DEF IInv
<1>1. at = "row" /\ Leaf /\ level = depth /\ received' = received \o [k \in DOMAIN Rows |-> Put(k)]
  BY DEF LeafRow, InRange, Leaf
<1>2. depth \in Nat /\ depth >= 1 /\ Levels = 1 .. MaxDepth /\ MaxDepth \in Nat /\ depth <= MaxDepth /\ InHand
      /\ \A L \in 1 .. depth : L \in Levels
  BY <1>1, DepthIs, LevelIs DEF InHand
<1>3. PICK n \in 1 .. depth : Len(values) = n
  <2>1. PICK n \in 0 .. level : Len(values) = n
    BY FillingIs
  <2>2. n >= 1
    BY <1>1, <2>1 DEF Places
  <2>. QED  BY <1>1, <1>2, <2>1, <2>2
<1>4. PICK line \in 1 .. Len(table) : line = row /\ table[line].selected
  <2>1. d_row_number[level] >= 0 /\ d_row_number[level] <= row - 1
    <3>1. level \in Levels /\ d_row_number[level] = i[level] /\ i[level] \in Nat
      BY <1>1, LevelIs DEF NumbersRestart, StateOK
    <3>. QED  BY <3>1 DEF NumbersBelowRow, StateOK, RequestOK
  <2>2. row \in 1 .. Len(table)
    BY <2>1, LevelIs DEF StateOK, RequestOK
  <2>. QED  BY <1>1, <2>2 DEF History
<1>. DEFINE c == depth - n + 1
            new == [k \in 1 .. c |-> [in |-> RowAt(n + k - 2, line), row |-> RowAt(n + k - 1, line)]]
            Pair == [in : Int \X Int, row : Int \X Int]
<1>5. received' = received \o new
  <2>1. DOMAIN Rows = 1 .. c /\ \A k \in 1 .. c : Put(k) = [in |-> RowAt(n + k - 2, row), row |-> RowAt(n + k - 1, row)]
    BY <1>1, <1>3, PutIs
  <2>2. [k \in DOMAIN Rows |-> Put(k)] = new
    BY <1>4, <2>1
  <2>. QED  BY <1>1, <2>2
<1>6. /\ depth' = depth /\ table' = table /\ row' = row
      /\ \A L, k : RowAt(L, k)' = RowAt(L, k)
  BY RequestStays
<1>7. ASSUME NEW k \in 1 .. c
      PROVE  /\ n + k - 1 \in n .. depth /\ n + k - 1 \in 1 .. depth
             /\ new[k] = [in |-> RowAt(n + k - 2, line), row |-> RowAt(n + k - 1, line)]
             /\ new[k] \in Pair /\ IsPlaced(new[k]) /\ new[k].row[1] = n + k - 1 /\ new[k].row[2] <= line
             /\ new[k].row = RowAt(n + k - 1, line)
  <2>1. n + k - 1 \in n .. depth /\ n + k - 1 \in 1 .. depth
    BY <1>2
  <2>2. PICK L \in 1 .. depth : L = n + k - 1 /\ L - 1 = n + k - 2
    BY <1>2, <2>1
  <2>3. new[k] = [in |-> RowAt(L - 1, line), row |-> RowAt(L, line)]
    BY <2>2
  <2>. HIDE DEF new
  <2>4. RowAt(L, line) \in Int \X Int /\ RowAt(L, line)[1] = L /\ RowAt(L, line)[2] \in 1 .. line
    BY RowAtIs
  <2>5. RowAt(L - 1, line) \in Int \X Int
    <3>1. CASE L = 1
      BY <3>1, TopIs DEF Top
    <3>2. CASE L # 1
      <4>1. L - 1 \in 1 .. depth
        BY <1>2, <3>2
      <4>. QED  BY <4>1, RowAtIs
    <3>. QED  BY <3>1, <3>2
  <2>6. IsPlaced(new[k])
    <3>1. line \in 1 .. row
      BY <1>4 DEF StateOK, RequestOK
    <3>. QED  BY <1>4, <2>3, <3>1 DEF IsPlaced
  <2>. QED  BY <2>1, <2>2, <2>3, <2>4, <2>5, <2>6
<1>8. /\ new \in Seq(Pair) /\ Len(new) = c /\ DOMAIN new = 1 .. c /\ received \in Seq(Pair)
      /\ DOMAIN received = 1 .. Len(received) /\ Len(received) \in Nat /\ c \in Nat
  <2>1. \A k \in 1 .. c : new[k] \in Pair
    BY <1>7
  <2>2. c \in Nat /\ new = [k \in 1 .. c |-> new[k]]
    BY <1>2
  <2>3. received \in Seq(Pair)
    BY DEF History
  <2>. HIDE DEF new, c, Pair
  <2>. QED  BY <2>1, <2>2, <2>3
<1>9. ASSUME NEW j \in DOMAIN received
      PROVE  received[j] \in Pair /\ IsPlaced(received[j]) /\ received[j].row[2] \in Int /\ received[j].row[2] <= line
  <2>1. received[j] \in Pair
    BY <1>8, ElementOfSeq
  <2>. QED  BY <1>4, <2>1 DEF History
<1>10. ASSUME NEW j \in DOMAIN received, NEW k \in 1 .. c
       PROVE  Before(received[j].row, new[k].row)
  <2>1. PICK L \in n .. depth : L = n + k - 1 /\ L \in 1 .. depth
    BY <1>7
  <2>2. L < level => d_unsent_data[L]
    BY <1>1, <1>2, <1>3, <2>1, SentIs
  <2>3. (L < level /\ d_unsent_data[L]) \/ (L >= level /\ InHand)
    BY <1>1, <1>2, <2>1, <2>2
  <2>4. \A M \in 1 .. depth : (M < level /\ d_unsent_data[M]) \/ (M >= level /\ InHand) => IsNew(M)
    BY DEF History
  <2>5. L \in 1 .. depth
    BY <2>1
  <2>6. IsNew(L)
    BY <2>3, <2>4, <2>5
  <2>. QED  BY <1>4, <1>7, <2>1, <2>6 DEF IsNew, Before
<1>11. InOrder(new)
  <2>1. ASSUME NEW j \in 1 .. c, NEW k \in 1 .. c, j < k
        PROVE  Before(new[j].row, new[k].row)
    <3>1. PICK L \in 1 .. depth, M \in 1 .. depth : L = n + j - 1 /\ M = n + k - 1 /\ L < M
      BY <1>2, <1>7, <2>1
    <3>2. M \in L .. depth
      BY <1>2, <3>1
    <3>3. RowAt(L, line)[2] <= RowAt(M, line)[2] /\ RowAt(L, line)[2] \in Int /\ RowAt(M, line)[2] \in Int
      BY <3>2, OuterRowBegins, RowAtIs
    <3>4. new[j].row = RowAt(L, line) /\ new[k].row = RowAt(M, line) /\ new[j].row[1] = L /\ new[k].row[1] = M
      BY <1>7, <3>1
    <3>5. L < M
      BY <3>1
    <3>. HIDE DEF new
    <3>. QED  BY <3>3, <3>4, <3>5 DEF Before
  <2>. QED  BY <1>8, <2>1 DEF InOrder
<1>. HIDE DEF new, c, Pair
<1>12. InOrder(received \o new)
  <2>1. InOrder(received)
    BY DEF History
  <2>. QED  BY <1>8, <1>10, <1>11, <2>1, OrderGrows
<1>13. ASSUME NEW k \in DOMAIN (received \o new)
       PROVE  IsPlaced((received \o new)[k]) /\ (received \o new)[k].row[2] <= line
  <2>1. /\ k \in 1 .. Len(received) + c
        /\ (received \o new)[k] = IF k <= Len(received) THEN received[k] ELSE new[k - Len(received)]
    BY <1>8
  <2>2. CASE k <= Len(received)
    BY <1>8, <1>9, <2>1, <2>2
  <2>3. CASE ~(k <= Len(received))
    <3>1. k - Len(received) \in 1 .. c
      BY <1>8, <2>1, <2>3
    <3>. QED  BY <1>7, <2>1, <2>3, <3>1
  <2>. QED  BY <2>2, <2>3
<1>14. received \o new \in Seq([in : Int \X Int, row : Int \X Int])
  BY <1>8 DEF Pair
<1>15. \A L \in 1 .. depth : ~((L < level' /\ d_unsent_data'[L]) \/ (L >= level' /\ InHand'))
  <2>1. ASSUME NEW L \in 1 .. depth, L < depth, d_unsent_data[L]
        PROVE  first
    <3>1. n <= L
      BY <1>1, <1>2, <1>3, <2>1 DEF SentIsFilled
    <3>2. ~first => n = depth
      BY <1>1, <1>3, SentIs
    <3>. QED  BY <1>2, <2>1, <3>1, <3>2
  <2>. QED  BY <1>2, <2>1
<1>16. \A r : IsPlaced(r)' <=> IsPlaced(r)
  BY <1>6 DEF IsPlaced
<1>17. PICK got : got = received \o new
  OBVIOUS
<1>18. received' = got /\ InOrder(got) /\ got \in Seq([in : Int \X Int, row : Int \X Int])
       /\ \A k \in DOMAIN got : IsPlaced(got[k])' /\ got[k].row[2] <= line
  BY <1>5, <1>12, <1>13, <1>14, <1>16, <1>17
<1>. QED  BY <1>4, <1>6, <1>15, <1>18 DEF History, InOrder, Leaf

LEMMA LeafRowKeepsIInv ==
    ASSUME IInv, LeafRow
    PROVE  IInv'
<1>. USE DEF IInv
<1>1. /\ at = "row" /\ Leaf /\ level = depth /\ at' = "read" /\ first' = FALSE
      /\ ~is_end_of_rows(i[level], limit[level].stop)
      /\ values' = Stack(Len(Rows))
      /\ d_wrote_soi' = [L \in Levels |->
                           d_wrote_soi[L] \/ (mode = "serialize" /\ L \in ToSet(Sent))]
      /\ d_unsent_data' = [L \in Levels |-> d_unsent_data[L] /\ ~(first /\ L < depth)]
      /\ d_read_p' = Below(d_read_p, FALSE)
      /\ i' = [i EXCEPT ![level] = i[level] + limit[level].stride]
      /\ UNCHANGED <<request, row, level, d_row_number, orig_stack_size>>
  BY DEF LeafRow, InRange, Leaf
<1>2. /\ depth' = depth /\ table' = table /\ limit' = limit /\ mode' = mode /\ resets' = resets
      /\ \A L : Restarts(L)' = Restarts(L)
      /\ row' = row /\ level' = level /\ d_row_number' = d_row_number /\ orig_stack_size' = orig_stack_size
      /\ \A L, k : RowAt(L, k)' = RowAt(L, k)
  BY <1>1, RequestStays
<1>3. level \in Levels /\ level \in Nat /\ depth \in Levels /\ level \in 1 .. depth /\ depth \in Nat
      /\ Levels = 1 .. MaxDepth /\ MaxDepth \in Nat /\ limit[level] \in Limits /\ limit[depth] \in Limits
  BY LevelIs
<1>4. PICK n \in 1 .. depth : Len(values) = n
  <2>1. PICK n \in 0 .. level : Len(values) = n
    BY FillingIs
  <2>2. n >= 1
    BY <1>1, <2>1 DEF Places
  <2>. QED  BY <1>1, <1>3, <2>1, <2>2
<1>5. values' = [k \in 1 .. depth |-> RowAt(k - 1, row)] /\ Len(values') = depth
  BY <1>1, <1>3, <1>4, PutIs
<1>6. ~d_read_p'[level] /\ d_read_p' \in [Levels -> BOOLEAN]
  <2>1. d_read_p' = [L \in Levels |-> IF L >= level THEN FALSE ELSE d_read_p[L]]
    BY <1>1 DEF Below
  <2>2. d_read_p \in [Levels -> BOOLEAN]
    BY DEF StateOK
  <2>3. d_read_p'[level] = FALSE
    BY <1>3, <2>1
  <2>. QED  BY <2>1, <2>2, <2>3
<1>7. ~InHand'
  BY <1>1, <1>2, <1>6 DEF InHand
<1>8. d_unsent_data' \in [Levels -> BOOLEAN]
      /\ \A L \in Levels : d_unsent_data'[L] <=> d_unsent_data[L] /\ ~(first /\ L < depth)
  BY <1>1 DEF StateOK
<1>9. d_wrote_soi' \in [Levels -> BOOLEAN]
      /\ \A L \in Levels : d_wrote_soi'[L] <=> d_wrote_soi[L] \/ (mode = "serialize" /\ L \in ToSet(Sent))
  BY <1>1 DEF StateOK
<1>10. \A L \in n .. depth : L \in ToSet(Sent)
  <2>1. Sent = [k \in 1 .. depth - n + 1 |-> n + k - 1]
    BY <1>1, <1>4, SentIs
  <2>2. ASSUME NEW L \in n .. depth
        PROVE  L \in ToSet(Sent)
    <3>1. L - n + 1 \in DOMAIN Sent /\ Sent[L - n + 1] = L
      BY <1>3, <2>1
    <3>. QED  BY <3>1 DEF ToSet
  <2>. QED  BY <2>2
<1>11. i' \in [Levels -> Nat] /\ i'[level] = i[level] + limit[level].stride /\ i'[level] >= i[level]
       /\ i[level] \in Nat /\ \A L \in Levels : L # level => i'[L] = i[L]
  <2>1. PICK stride \in Nat : stride = limit[level].stride
    BY <1>3, LimitIs
  <2>2. i \in [Levels -> Nat] /\ i' = [i EXCEPT ![level] = i[level] + stride]
    BY <1>1, <2>1 DEF StateOK
  <2>3. i[level] \in Nat /\ i[level] + stride \in Nat /\ i[level] + stride >= i[level]
    BY <1>3, <2>2
  <2>. QED  BY ONLY <1>3, <2>1, <2>2, <2>3
<1>12. RequestOK'
  BY <1>1, RequestStays
<1>13. StateOK'
  BY <1>1, <1>2, <1>6, <1>8, <1>9, <1>11 DEF StateOK
<1>14. NumbersBelowRow'
  BY <1>2, <1>7 DEF NumbersBelowRow
<1>15. NumbersRestart'
  <2>1. d_row_number[level] <= i'[level]
    BY <1>1, <1>11 DEF NumbersRestart
  <2>2. ASSUME NEW L \in Levels, L < level
        PROVE  d_row_number[L] <= i'[L]
    <3>1. L # level
      BY <1>3, <2>2
    <3>. QED  BY <1>11, <2>2, <3>1 DEF NumbersRestart
  <2>. QED  BY <1>1, <1>2, <1>7, <2>1, <2>2 DEF NumbersRestart
<1>16. ReadsToTheEnd'
  <2>1. limit[depth] = NoLimit => d_row_number[depth] = i'[depth] - 1
    BY <1>1, <1>3, <1>11, LimitIs DEF NumbersRestart
  <2>. QED  BY <1>1, <1>2, <1>3, <2>1 DEF ReadsToTheEnd, Leaf
<1>17. Places'
  <2>1. values' = [k \in 1 .. depth |-> RowAt(k - 1, row)]'
    BY <1>2, <1>5
  <2>2. depth \in 0 .. level'
    BY <1>1, <1>2, <1>3
  <2>. QED  BY <1>1, <1>2, <1>3, <1>5, <2>1, <2>2 DEF Places, Leaf
<1>18. SentIsFilled'
  <2>1. ASSUME NEW L \in Levels, L < level
        PROVE  ~d_unsent_data'[L] /\ ~(depth <= L)
    <3>1. d_unsent_data[L] <=> n <= L
      BY <1>4, <2>1 DEF SentIsFilled
    <3>2. ~first => n = depth
      BY <1>1, <1>4, SentIs
    <3>. QED  BY <1>1, <1>3, <1>8, <2>1, <3>1, <3>2
  <2>. QED  BY <1>2, <1>5, <1>7, <2>1 DEF SentIsFilled
<1>19. EndsAreKnown'
  <2>1. ASSUME NEW L \in 2 .. level, mode = "serialize"
        PROVE  d_wrote_soi'[L] /\ L <= depth
    <3>1. L \in Levels /\ L <= depth
      BY <1>1, <1>3
    <3>2. L < n => d_wrote_soi[L]
      BY <1>1, <1>4, <2>1 DEF EndsAreKnown
    <3>3. ~(L < n) => L \in n .. depth
      BY <1>3, <3>1
    <3>. QED  BY <1>9, <1>10, <2>1, <3>1, <3>2, <3>3
  <2>2. \A L \in Levels : ~(level < L /\ L < depth)
    BY <1>1, <1>3
  <2>3. ASSUME NEW L \in 2 .. level, mode = "intern"
        PROVE  orig_stack_size[L] < L /\ ~(depth < L)
    BY <1>1, <1>3, <2>3 DEF EndsAreKnown
  <2>. QED  BY <1>1, <1>2, <1>5, <2>1, <2>2, <2>3 DEF EndsAreKnown
<1>20. History'
  BY <1>1, <1>2, <1>7, <1>8, LeafRowKeepsHistory
<1>. QED  BY <1>12, <1>13, <1>14, <1>15, <1>16, <1>17, <1>18, <1>19, <1>20

-----------------------------------------------------------------------------
(* The invariant and what follows from it.                                 *)

LEMMA InitIsIInv ==
    ASSUME Init
    PROVE  IInv
<1>. USE DEF IInv, Init
<1>1. RequestOK
  <2>1. table \in Seq(Line) /\ Len(table) <= MaxRows /\ (table # <<>> => table[1].starts = 1)
    <3>1. CASE table = <<>>
      BY <3>1, SequenceAssumption
    <3>2. CASE table # <<>>
      <4>1. PICK n \in 1 .. MaxRows : table \in [1 .. n -> Line] /\ table[1].starts = 1
        BY <3>2 DEF Tables, Line
      <4>2. n \in Nat /\ n <= MaxRows
        BY SequenceAssumption
      <4>. QED  BY <4>1, <4>2
    <3>. QED  BY <3>1, <3>2
  <2>. QED  BY <2>1 DEF RequestOK
<1>2. depth \in 1 .. MaxDepth /\ MaxDepth \in Nat /\ Levels = 1 .. MaxDepth /\ Len(table) \in Nat
  BY <1>1, DepthIs DEF Levels, RequestOK
<1>3. StateOK
  BY <1>2 DEF StateOK
<1>4. NumbersBelowRow /\ NumbersRestart /\ ReadsToTheEnd
  <2>1. ~InHand /\ row = 0 /\ \A L \in Levels : d_row_number[L] = -1
    BY <1>2 DEF InHand
  <2>. QED  BY <1>2, <2>1 DEF NumbersBelowRow, NumbersRestart, ReadsToTheEnd, Leaf
<1>5. Places
  <2>1. values = [k \in 1 .. 1 |-> RowAt(k - 1, row)] /\ 1 \in 0 .. level /\ Len(values) = 1
    BY TopIs
  <2>. QED  BY <2>1 DEF Places
<1>6. SentIsFilled /\ EndsAreKnown
  <2>1. \A L \in Levels : ~(L < level)
    BY <1>2
  <2>2. ~InHand /\ ~\E L \in 2 .. level : TRUE
    BY <1>2 DEF InHand
  <2>. QED  BY <2>1, <2>2 DEF SentIsFilled, EndsAreKnown
<1>7. History
  <2>1. ~InHand /\ DOMAIN received = {} /\ received \in Seq([in : Int \X Int, row : Int \X Int])
    BY <1>2 DEF InHand
  <2>2. \A L \in 1 .. depth : IsNew(L)
    BY <2>1 DEF IsNew
  <2>. QED  BY <2>1, <2>2 DEF History, InOrder
<1>. QED  BY <1>1, <1>3, <1>4, <1>5, <1>6, <1>7

LEMMA NextKeepsIInv ==
    ASSUME IInv, [Next]_vars
    PROVE  IInv'
<1>1. CASE Next
  BY <1>1, CallKeepsIInv, BackUpKeepsIInv, SameRowKeepsIInv, RowInHandKeepsIInv, NextRowKeepsIInv,
     NoMoreRowsKeepsIInv, ParentRowKeepsIInv, ReturnKeepsIInv, LeafRowKeepsIInv, LeaveKeepsIInv DEF Next
<1>2. CASE UNCHANGED vars
  <2>1. RequestOK' /\ \A L, k : RowAt(L, k)' = RowAt(L, k)
    BY <1>2, RequestStays DEF vars, IInv
  <2>2. InHand' <=> InHand
    BY <1>2 DEF vars, marks, InHand
  <2>3. StateOK' /\ NumbersBelowRow' /\ NumbersRestart' /\ ReadsToTheEnd'
    BY <1>2, <2>2, RequestStays DEF IInv, vars, marks, request, StateOK, NumbersBelowRow, NumbersRestart,
       ReadsToTheEnd, Leaf, Restarts
  <2>4. SentIsFilled' /\ EndsAreKnown'
    BY <1>2, <2>2 DEF IInv, vars, marks, request, SentIsFilled, EndsAreKnown
  <2>5. Places'
    BY <1>2 DEF IInv, vars, marks, request, Places, Leaf, RowAt
  <2>6. History'
    BY <1>2, <2>2, HistoryStays DEF IInv, vars, marks, request, History, Leaf
  <2>. QED  BY <2>1, <2>3, <2>4, <2>5, <2>6 DEF IInv
<1>. QED  BY <1>1, <1>2

LEMMA SpecIInv == Spec => []IInv
BY InitIsIInv, NextKeepsIInv, PTL DEF Spec

(* The types are right, and a Sequence that is being filled is in the row  *)
(* of the one below it on the stack: the start and end markers, and the    *)
(* pushes and pops of the three methods of intern_data, are in balance.    *)
THEOREM SpecTypeOK == Spec => []TypeOK
<1>1. ASSUME IInv
      PROVE  TypeOK
  <2>. USE DEF IInv
  <2>1. level \in 1 .. depth /\ depth \in Levels /\ MaxRows \in Nat /\ row \in 0 .. Len(table)
        /\ Len(table) <= MaxRows /\ Len(table) \in Nat /\ depth \in Nat
    BY <1>1, LevelIs, DepthIs DEF StateOK, RequestOK
  <2>2. d_row_number \in [Levels -> -1 .. MaxRows - 1]
    <3>1. \A L \in Levels : d_row_number[L] \in -1 .. MaxRows - 1
      BY <1>1, <2>1 DEF NumbersBelowRow
    <3>. QED  BY <1>1, <3>1 DEF StateOK
  <2>3. PICK n \in 0 .. level : DOMAIN values = 1 .. n /\ Len(values) = n
                                /\ values = [k \in 1 .. n |-> RowAt(k - 1, row)]
    BY <1>1, FillingIs
  <2>4. \A k \in DOMAIN values : values[k][1] = k - 1
    BY <2>3 DEF RowAt
  <2>5. Len(values) <= depth
    BY <2>1, <2>3
  <2>. QED  BY <1>1, <2>2, <2>4, <2>5 DEF TypeOK, StateOK
<1>. QED  BY <1>1, SpecIInv, PTL

(* "Trying to back up inside a sequence!" is not thrown but in a leaf that *)
(* its limit keeps from the end of its rows, and only if read() leaves the *)
(* row numbers of inner Sequences alone.                                   *)
THEOREM SpecBacksUpOnlyInLimitedLeaf == Spec => []BacksUpOnlyInLimitedLeaf
<1>1. ASSUME IInv
      PROVE  BacksUpOnlyInLimitedLeaf
  <2>1. at = "thrown" => ~Restarts(level)
    BY <1>1 DEF IInv, NumbersRestart
  <2>2. level \in 1 .. depth /\ depth \in Nat /\ depth >= 1
    BY <1>1, DepthIs DEF IInv, StateOK
  <2>. QED  BY <2>1, <2>2 DEF Restarts, BacksUpOnlyInLimitedLeaf
<1>. QED  BY <1>1, SpecIInv, PTL

(* Whatever is put into a Sequence is a row of a line that the selection   *)
(* is true of, and the Sequence is the one in the row around it: the       *)
(* markers, which do not say of which level they are, and the stack of     *)
(* intern_data lead every row to its place.                                *)
EveryRowIsInItsParent == \A k \in DOMAIN received : IsPlaced(received[k])

THEOREM RowsReachTheirParents == Spec => []EveryRowIsInItsParent
<1>1. IInv => EveryRowIsInItsParent
  BY DEF IInv, History, EveryRowIsInItsParent
<1>. QED  BY <1>1, SpecIInv, PTL

(* Rows are put in the order of the data, an outer row before those inside *)
(* it, and none twice, though an outer row is held back until one inside   *)
(* is found and its d_unsent_data is set again with each read().           *)
THEOREM RowsComeInOrder == Spec => []InOrder(received)
<1>1. IInv => InOrder(received)
  BY DEF IInv, History
<1>. QED  BY <1>1, SpecIInv, PTL

(* When serialize returns, the client has left every Sequence.             *)
ClientIsDone == at = "done" /\ mode = "serialize" => values = <<>>

THEOREM EveryStartIsEnded == Spec => []ClientIsDone
<1>1. ASSUME IInv
      PROVE  ClientIsDone
  BY <1>1, FillingIs DEF IInv, Places, ClientIsDone
<1>. QED  BY <1>1, SpecIInv, PTL

-----------------------------------------------------------------------------
(* Which lines are selected.                                               *)

(* The leaf begins a call, or will, with the row number that its limit     *)
(* left it with: it does not put rows any more.                            *)
Doomed ==
    /\ ~resets /\ depth > 1 /\ d_row_number[depth] # -1
    /\ level < depth \/ at = "end" \/ (at # "row" /\ d_read_p[depth])

FallsShort == StopsShort /\ Doomed

DoomedLeaf ==
    Doomed =>
        /\ limit[depth] # NoLimit /\ d_row_number[depth] >= limit[depth].start
        /\ limit[depth].stride > 0 => d_row_number[depth] > limit[depth].start
        /\ Leaf /\ at = "read" => i[depth] = limit[depth].start

(* A row that is in hand when a method is called is the first of its level *)
(* there.                                                                  *)
FirstInHand ==
    /\ level > 1 => row >= 1
    /\ at = "row" \/ (at = "call" /\ level > 1) => \A L \in Levels : L >= level => d_read_p[L]
    /\ at = "call" /\ level = 1 => row = 0 /\ ~d_read_p[1]
    /\ at = "row" => table[row].starts <= level
    /\ InHand /\ at # "row" => /\ row >= 1 /\ table[row].starts < level
                               /\ ~(Leaf /\ Doomed) => d_row_number[level] = -1

(* Levels whose method is under way.                                       *)
Active(L) == L < level \/ (L = level /\ at \in {"read", "row", "returned"})

OnTarget(l, n) ==
    \/ l = NoLimit
    \/ l.stride = 0 /\ n = l.start
    \/ l.stride > 0 /\ n >= l.start /\ (n - l.start) % l.stride = 0

(* Each level wants the next row that its limit leaves.                    *)
Targets ==
    \A L \in 1 .. depth : Active(L) =>
        /\ OnTarget(limit[L], i[L])
        /\ \A n \in Nat : d_row_number[L] < n /\ n < i[L] => ~Limited(limit[L], n)
        /\ d_row_number[L] = i[L] /\ (L < level \/ at # "row") => limit[L].stride = 0

(* Row numbers are those of the rows around the present line.              *)
NumbersCount ==
    /\ \A L \in 1 .. depth : L < level => /\ d_row_number[L] = Number(L, row)
                                          /\ Limited(limit[L], d_row_number[L])
    /\ \/ at \in {"row", "returned"} \/ (at \in {"call", "read"} /\ ~d_read_p[level])
       => d_row_number[level] = Number(level, row)

(* The rows around the present line whose Sequences are being filled have  *)
(* been put.                                                               *)
FilledWerePut == \A L \in 1 .. Len(values) - 1 : Placed(L, row) \in ToSet(received)

HasBeenPut(m) == \A L \in 1 .. depth : Placed(L, m) \in ToSet(received)

(* No selected line has been passed over.                                  *)
PassedWerePut ==
    ~FallsShort /\ at # "thrown" =>
        \A m \in 1 .. row : Selected(m) /\ (m = row => ~InHand) => HasBeenPut(m)

(* No selected line is left in the present row of level L.                 *)
IsThrough(L) == \A m \in row + 1 .. Len(table) : RowAt(L, m) = RowAt(L, row) => ~Selected(m)

SkippedAreNotSelected ==
    ~FallsShort =>
        /\ row >= 1 /\ (at = "returned" \/ (at = "read" /\ ~d_read_p[level])) => IsThrough(level)
        /\ at = "end" => IsThrough(level - 1)
        /\ at = "done" => IsThrough(0)

PutWereSelected ==
    /\ ToSet(received) \subseteq SelectedRows
    /\ \A r \in SelectedRows, k \in DOMAIN received :
           Before(r.row, received[k].row) => r \in ToSet(received)

SInv ==
    /\ DoomedLeaf /\ FirstInHand /\ Targets /\ NumbersCount
    /\ FilledWerePut /\ PassedWerePut /\ SkippedAreNotSelected /\ PutWereSelected

-----------------------------------------------------------------------------
(* Which rows two lines are both in.                                       *)

(* No row of the level begins between two lines that are in the same one.  *)
LEMMA NoRowBetween ==
    ASSUME RequestOK, NEW L \in 0 .. depth, NEW j \in 1 .. Len(table), NEW k \in 1 .. Len(table),
           RowAt(L, k) = RowAt(L, j), NEW m \in j + 1 .. k
    PROVE  table[m].starts > L
<1>1. depth \in Nat /\ Len(table) \in Nat
  BY DepthIs DEF RequestOK
<1>2. m \in 1 .. Len(table) /\ table[m].starts \in 1 .. depth
  <2>1. m \in 1 .. Len(table)
    BY <1>1
  <2>. QED  BY <2>1, LineIs
<1>3. CASE L = 0
  BY <1>1, <1>2, <1>3
<1>4. CASE L # 0
  <2>1. L \in 1 .. depth
    BY <1>1, <1>4
  <2>2. RowAt(L, j)[2] \in 1 .. j
    BY <2>1, RowAtIs
  <2>3. RowAt(L, k)[2] = Largest(Begin(L, k)) /\ \A p \in Begin(L, k) : p <= Largest(Begin(L, k))
    BY <2>1, BeginIs
  <2>4. m \notin Begin(L, k)
    BY <1>1, <2>2, <2>3
  <2>. QED  BY <1>1, <1>2, <2>1, <2>4 DEF Begin
<1>. QED  BY <1>3, <1>4

(* Between two lines in the same row, every line is in it, and in the same *)
(* rows around it.                                                         *)
LEMMA SameRowBetween ==
    ASSUME RequestOK, NEW L \in 0 .. depth, NEW M \in 0 .. L,
           NEW j \in 1 .. Len(table), NEW k \in 1 .. Len(table), RowAt(L, k) = RowAt(L, j),
           NEW m \in j .. k
    PROVE  RowAt(M, m) = RowAt(M, j)
<1>1. depth \in Nat /\ Len(table) \in Nat /\ M \in 0 .. depth /\ m \in Nat /\ j \in Nat /\ j <= m /\ m <= k
  BY DepthIs DEF RequestOK
<1>2. ASSUME NEW p \in j + 1 .. m
      PROVE  table[p].starts > M /\ table[p].starts \in Int
  <2>1. p \in j + 1 .. k /\ p \in 1 .. Len(table)
    BY <1>1
  <2>2. table[p].starts > L /\ table[p].starts \in 1 .. depth
    BY <2>1, NoRowBetween, LineIs
  <2>. QED  BY <1>1, <2>2
<1>. QED  BY <1>1, <1>2, RowStays

(* A row that begins at a line or before is the one of that line.          *)
LEMMA RowOfEarlierLine ==
    ASSUME RequestOK, NEW L \in 1 .. depth, NEW j \in 1 .. Len(table), NEW k \in j .. Len(table),
           RowAt(L, k)[2] <= j
    PROVE  RowAt(L, k) = RowAt(L, j)
<1>1. depth \in Nat /\ Len(table) \in Nat /\ j \in Nat /\ k \in Nat /\ j <= k /\ k \in 1 .. Len(table) /\ L \in 0 .. depth
  BY DepthIs DEF RequestOK
<1>2. RowAt(L, k)[2] = Largest(Begin(L, k)) /\ \A p \in Begin(L, k) : p <= Largest(Begin(L, k))
  BY <1>1, BeginIs
<1>3. Largest(Begin(L, k)) \in Nat
  <2>1. RowAt(L, k)[2] \in 1 .. k
    BY <1>1, RowAtIs
  <2>. QED  BY <1>2, <2>1
<1>4. ASSUME NEW p \in j + 1 .. k
      PROVE  table[p].starts > L /\ table[p].starts \in Int
  <2>1. p \in 1 .. k /\ p \in 1 .. Len(table)
    BY <1>1
  <2>2. p \notin Begin(L, k)
    BY <1>1, <1>2, <1>3
  <2>3. table[p].starts \in 1 .. depth
    BY <2>1, LineIs
  <2>. QED  BY <1>1, <2>1, <2>2, <2>3 DEF Begin
<1>. QED  BY <1>1, <1>4, RowStays

(* Every line is a row of the leaf.                                        *)
LEMMA LeafRowIsLine ==
    ASSUME RequestOK, NEW k \in 1 .. Len(table)
    PROVE  RowAt(depth, k)[2] = k /\ table[k].starts <= depth
<1>1. depth \in table[k].starts .. depth /\ table[k].starts <= depth
  BY LineIs, DepthIs
<1>. QED  BY <1>1, RowBeginsHere

-----------------------------------------------------------------------------
(* Numbers of rows.                                                        *)

LEMMA CountedIs ==
    ASSUME NEW L, NEW k \in Nat
    PROVE  /\ IsFiniteSet(Counted(L, k)) /\ Cardinality(Counted(L, k)) \in Nat
           /\ Number(L, k) \in Int /\ Number(L, k) >= -1
<1>1. IsFiniteSet(1 .. k)
  BY FS_Interval
<1>2. Counted(L, k) \subseteq 1 .. k
  BY DEF Counted
<1>3. IsFiniteSet(Counted(L, k))
  BY <1>1, <1>2, FS_Subset
<1>4. Cardinality(Counted(L, k)) \in Nat
  BY <1>3, FS_CardinalityType
<1>. QED  BY <1>3, <1>4 DEF Number

(* While no row of the level begins, its number stays.                     *)
LEMMA NumberStays ==
    ASSUME RequestOK, NEW L \in 1 .. depth, NEW j \in 1 .. Len(table), NEW k \in 1 .. Len(table), j <= k,
           RowAt(L, k) = RowAt(L, j)
    PROVE  Number(L, k) = Number(L, j)
<1>1. depth \in Nat /\ Len(table) \in Nat /\ L \in 0 .. depth /\ L - 1 \in 0 .. L /\ k \in j .. k
      /\ L \in Nat /\ j \in Nat /\ k \in Nat
  BY DepthIs DEF RequestOK
<1>2. RowAt(L - 1, k) = RowAt(L - 1, j)
  BY <1>1, SameRowBetween
<1>3. \A m \in j + 1 .. k : table[m].starts > L /\ table[m].starts \in Int
  <2>. TAKE m \in j + 1 .. k
  <2>1. m \in 1 .. Len(table)
    BY <1>1
  <2>2. table[m].starts \in 1 .. depth
    BY <2>1, LineIs
  <2>. QED  BY <1>1, <2>2, NoRowBetween
<1>4. Counted(L, k) = Counted(L, j)
  <2>1. \A m \in 1 .. k : table[m].starts <= L => m \in 1 .. j
    BY <1>1, <1>3
  <2>2. \A m \in 1 .. j : m \in 1 .. k
    BY <1>1
  <2>. QED  BY <1>2, <2>1, <2>2 DEF Counted
<1>. QED  BY <1>4 DEF Number

(* Is the row that begins at a line counted?                               *)
IsCounted(L, k) == L = depth => table[k].selected

(* The next row in the same row around it has the next number.             *)
LEMMA NumberGoesOn ==
    ASSUME RequestOK, NEW L \in 1 .. depth, NEW j \in Nat, NEW k \in j + 1 .. Len(table),
           RowAt(L - 1, k) = RowAt(L - 1, j), table[k].starts <= L,
           \A m \in j + 1 .. k - 1 : table[m].starts > L
    PROVE  Number(L, k) = Number(L, j) + (IF IsCounted(L, k) THEN 1 ELSE 0)
<1>1. depth \in Nat /\ Len(table) \in Nat /\ L \in Nat /\ k \in Nat /\ j < k
  BY DepthIs DEF RequestOK
<1>2. \A m \in 1 .. k : table[m].starts <= L => m \in 1 .. j \/ m = k
  <2>. SUFFICES ASSUME NEW m \in 1 .. k, table[m].starts <= L, m \notin 1 .. j, m # k
                PROVE  FALSE
    OBVIOUS
  <2>1. m \in j + 1 .. k - 1 /\ m \in 1 .. Len(table)
    BY <1>1
  <2>2. table[m].starts \in 1 .. depth
    BY <2>1, LineIs
  <2>. QED  BY <1>1, <2>1, <2>2
<1>3. \A m \in 1 .. j : m \in 1 .. k /\ m # k
  BY <1>1
<1>4. k \in 1 .. k
  BY <1>1
<1>5. Counted(L, k) = Counted(L, j) \cup (IF IsCounted(L, k) THEN {k} ELSE {})
  BY <1>2, <1>3, <1>4 DEF Counted, IsCounted
<1>6. k \notin Counted(L, j)
  BY <1>3 DEF Counted
<1>7. IsFiniteSet(Counted(L, j)) /\ Cardinality(Counted(L, j)) \in Nat
  BY CountedIs
<1>8. Cardinality(Counted(L, j) \cup {k}) = Cardinality(Counted(L, j)) + 1
  BY <1>6, <1>7, FS_AddElement
<1>9. CASE IsCounted(L, k)
  BY <1>5, <1>7, <1>8, <1>9 DEF Number
<1>10. CASE ~IsCounted(L, k)
  BY <1>5, <1>7, <1>10 DEF Number
<1>. QED  BY <1>9, <1>10

(* The first row has the number 0.                                         *)
LEMMA NumberBegins ==
    ASSUME RequestOK, NEW L \in 2 .. depth, NEW k \in 1 .. Len(table), table[k].starts < L
    PROVE  Number(L, k) = IF IsCounted(L, k) THEN 0 ELSE -1
<1>1. depth \in Nat /\ Len(table) \in Nat /\ L \in Nat /\ k \in Nat /\ table[k].starts \in 1 .. depth
  BY DepthIs, LineIs DEF RequestOK
<1>2. RowAt(L - 1, k)[2] = k
  <2>1. L - 1 \in table[k].starts .. depth
    BY <1>1
  <2>. QED  BY <2>1, RowBeginsHere
<1>3. ASSUME NEW m \in 1 .. k, m # k
      PROVE  RowAt(L - 1, m) # RowAt(L - 1, k)
  <2>1. m \in 1 .. Len(table) /\ L - 1 \in 1 .. depth /\ m < k
    BY <1>1, <1>3
  <2>2. RowAt(L - 1, m)[2] \in 1 .. m
    BY <2>1, RowAtIs
  <2>. QED  BY <1>1, <1>2, <2>1, <2>2
<1>4. k \in 1 .. k /\ table[k].starts <= L
  BY <1>1
<1>5. Counted(L, k) = IF IsCounted(L, k) THEN {k} ELSE {}
  BY <1>3, <1>4 DEF Counted, IsCounted
<1>6. Cardinality({k}) = 1 /\ Cardinality({}) = 0
  BY FS_Singleton, FS_EmptySet
<1>. QED  BY <1>5, <1>6 DEF Number

(* Numbers do not fall in the row around, and rise where a row is counted. *)
LEMMA NumberGrows ==
    ASSUME RequestOK, NEW L \in 1 .. depth, NEW j \in 1 .. Len(table), NEW k \in 1 .. Len(table), j <= k,
           RowAt(L - 1, k) = RowAt(L - 1, j)
    PROVE  /\ Number(L, k) >= Number(L, j)
           /\ RowAt(L, k) # RowAt(L, j) /\ table[k].selected => Number(L, k) > Number(L, j)
<1>1. depth \in Nat /\ Len(table) \in Nat /\ L \in Nat /\ j \in Nat /\ k \in Nat /\ L \in 0 .. depth
      /\ L - 1 \in 0 .. depth
  BY DepthIs DEF RequestOK
<1>2. Counted(L, j) \subseteq Counted(L, k)
  <2>1. \A m \in 1 .. j : m \in 1 .. k
    BY <1>1
  <2>. QED  BY <2>1 DEF Counted
<1>3. /\ IsFiniteSet(Counted(L, k)) /\ Cardinality(Counted(L, k)) \in Nat
      /\ IsFiniteSet(Counted(L, j)) /\ Cardinality(Counted(L, j)) \in Nat
  BY <1>1, CountedIs
<1>4. Cardinality(Counted(L, j)) <= Cardinality(Counted(L, k))
  BY <1>2, <1>3, FS_Subset
<1>5. ASSUME RowAt(L, k) # RowAt(L, j), table[k].selected
      PROVE  Number(L, k) > Number(L, j)
  <2>1. PICK p \in j + 1 .. k : table[p].starts <= L /\ (L = depth => p = k)
    <3>1. CASE L = depth
      <4>1. j # k
        BY <1>5
      <4>2. k \in j + 1 .. k
        BY <1>1, <4>1
      <4>. QED  BY <3>1, <4>2, LeafRowIsLine
    <3>2. CASE L # depth
      <4>1. ~\A m \in j + 1 .. k : table[m].starts > L /\ table[m].starts \in Int
        BY <1>1, <1>5, RowStays
      <4>2. PICK m \in j + 1 .. k : ~(table[m].starts > L /\ table[m].starts \in Int)
        BY <4>1
      <4>3. m \in 1 .. Len(table)
        BY <1>1
      <4>4. table[m].starts \in 1 .. depth
        BY <4>3, LineIs
      <4>. QED  BY <1>1, <3>2, <4>2, <4>4
    <3>. QED  BY <3>1, <3>2
  <2>2. RowAt(L - 1, p) = RowAt(L - 1, j)
    <3>1. p \in j .. k /\ L - 1 \in 0 .. L - 1
      BY <1>1
    <3>. QED  BY <1>1, <3>1, SameRowBetween
  <2>3. p \in Counted(L, k) /\ p \notin Counted(L, j)
    <3>1. p \in 1 .. k /\ p \notin 1 .. j
      BY <1>1
    <3>. QED  BY <1>5, <2>1, <2>2, <3>1 DEF Counted
  <2>4. Counted(L, j) \cup {p} \subseteq Counted(L, k)
    BY <1>2, <2>3
  <2>5. Cardinality(Counted(L, j) \cup {p}) = Cardinality(Counted(L, j)) + 1
    BY <1>3, <2>3, FS_AddElement
  <2>6. Cardinality(Counted(L, j) \cup {p}) <= Cardinality(Counted(L, k))
    BY <1>3, <2>4, FS_Subset
  <2>. QED  BY <1>3, <2>5, <2>6 DEF Number
<1>. QED  BY <1>3, <1>4, <1>5 DEF Number

-----------------------------------------------------------------------------
(* The rows that a limit leaves.                                           *)

LEMMA QuotientIs ==
    ASSUME NEW s \in Nat \ {0}, NEW a \in Nat
    PROVE  \E q \in Nat, r \in 0 .. s - 1 : a = s * q + r /\ r = a % s
<1>1. a = s * (a \div s) + (a % s) /\ a % s \in 0 .. s - 1 /\ a \div s \in Int
  OBVIOUS
<1>2. a \div s >= 0
  OBVIOUS
<1>3. PICK q \in Int, r \in Int : q = a \div s /\ r = a % s
  BY <1>1
<1>. QED  BY <1>1, <1>2, <1>3

LEMMA RemainderIs ==
    ASSUME NEW s \in Nat \ {0}, NEW q \in Int, NEW r \in 0 .. s - 1, s * q + r \in Nat
    PROVE  (s * q + r) % s = r
<1>1. PICK p \in Int, t \in 0 .. s - 1, a \in Nat : a = s * p + t /\ t = a % s /\ a = s * q + r
  <2>1. PICK a \in Nat : a = s * q + r
    OBVIOUS
  <2>. QED  BY <2>1, QuotientIs
<1>2. s * (p - q) = s * p - s * q
  OBVIOUS
<1>3. PICK d \in Int, m \in Int, n \in Int, e \in Int : d = p - q /\ m = s * d /\ n = s * p /\ e = s * q
  OBVIOUS
<1>4. (d >= 1 => m >= s) /\ (d <= -1 => m <= -s) /\ (d = 0 => m = 0)
  BY <1>3
<1>5. m = n - e /\ a = n + t /\ a = e + r
  BY <1>1, <1>2, <1>3
<1>6. d = 0 /\ m = 0
  BY ONLY <1>4, <1>5, d \in Int, m \in Int, n \in Int, e \in Int, a \in Nat,
          t \in 0 .. s - 1, r \in 0 .. s - 1, s \in Nat \ {0}
<1>. QED  BY <1>1, <1>5, <1>6

LEMMA StridesAre ==
    ASSUME NEW s \in Nat \ {0}, NEW a \in Nat, a % s = 0
    PROVE  (a + s) % s = 0 /\ \A b \in 1 .. s - 1 : (a + b) % s # 0
<1>1. PICK q \in Nat : a = s * q
  <2>1. PICK q \in Nat, r \in 0 .. s - 1 : a = s * q + r /\ r = a % s
    BY QuotientIs
  <2>2. r = 0 /\ s * q + 0 = s * q
    BY <2>1
  <2>3. a = s * q
    BY ONLY <2>1, <2>2
  <2>. QED  BY ONLY <2>3, q \in Nat
<1>2. s * (q + 1) = s * q + s /\ q + 1 \in Int
  OBVIOUS
<1>3. (s * (q + 1) + 0) % s = 0
  <2>1. 0 \in 0 .. s - 1 /\ s * (q + 1) + 0 \in Nat
    OBVIOUS
  <2>. QED  BY <1>2, <2>1, RemainderIs
<1>4. s * (q + 1) + 0 = a + s
  BY <1>1, <1>2
<1>5. ASSUME NEW b \in 1 .. s - 1
      PROVE  (a + b) % s # 0
  <2>1. b \in 0 .. s - 1 /\ s * q + b \in Nat /\ b # 0 /\ q \in Int
    BY <1>1
  <2>2. (s * q + b) % s = b
    BY <2>1, RemainderIs
  <2>. QED  BY <1>1, <2>1, <2>2
<1>. QED  BY <1>3, <1>4, <1>5

(* From a row that the limit leaves, the stride leads to the next one.     *)
LEMMA NextTarget ==
    ASSUME NEW l \in Limits, NEW n \in Nat, OnTarget(l, n)
    PROVE  OnTarget(l, n + l.stride) /\ \A m \in Nat : n < m /\ m < n + l.stride => ~Limited(l, m)
<1>1. l.start \in Int /\ l.stride \in Nat /\ NoLimit.stride = 1 /\ (l # NoLimit => l.start \in Nat)
  BY LimitIs, SequenceAssumption
<1>2. CASE l = NoLimit
  <2>1. \A m \in Nat : ~(n < m /\ m < n + 1)
    OBVIOUS
  <2>. QED  BY <1>1, <1>2, <2>1 DEF OnTarget
<1>3. CASE l # NoLimit /\ l.stride = 0
  <2>1. \A m \in Nat : ~(n < m /\ m < n + 0)
    OBVIOUS
  <2>. QED  BY <1>1, <1>3, <2>1 DEF OnTarget
<1>4. CASE l # NoLimit /\ l.stride # 0
  <2>1. PICK s \in Nat \ {0}, b \in Nat : s = l.stride /\ b = l.start
    BY <1>1, <1>4
  <2>2. n >= b /\ (n - b) % s = 0
    BY <1>4, <2>1 DEF OnTarget
  <2>3. PICK a \in Nat : a = n - b
    BY <2>2
  <2>4. (a + s) % s = 0 /\ \A c \in 1 .. s - 1 : (a + c) % s # 0
    BY <2>2, <2>3, StridesAre
  <2>5. OnTarget(l, n + s)
    <3>1. n + s - b = a + s /\ n + s >= b
      BY <2>2, <2>3
    <3>. QED  BY <2>1, <2>4, <3>1 DEF OnTarget
  <2>6. ASSUME NEW m \in Nat, n < m, m < n + s
        PROVE  ~Limited(l, m)
    <3>1. PICK c \in 1 .. s - 1 : m - b = a + c
      <4>1. m - n \in 1 .. s - 1 /\ m - b = a + (m - n)
        BY <2>3, <2>6
      <4>. QED  BY <4>1
    <3>2. m # b
      BY <2>2, <2>6
    <3>. QED  BY <1>4, <2>1, <2>4, <3>1, <3>2 DEF Limited
  <2>. QED  BY <2>1, <2>5, <2>6
<1>. QED  BY <1>2, <1>3, <1>4

(* A row that the stride leads to, and that the limit does not end before, *)
(* is one that it leaves.                                                  *)
LEMMA TargetIsLimited ==
    ASSUME NEW l \in Limits, NEW n \in Nat, OnTarget(l, n), ~is_end_of_rows(n, l.stop)
    PROVE  Limited(l, n)
<1>1. l.start \in Int /\ l.stop \in Int /\ l.stride \in Nat /\ (l # NoLimit => l.start \in Nat /\ l.stop \in Nat)
  BY LimitIs, SequenceAssumption
<1>. QED  BY <1>1 DEF OnTarget, Limited, is_end_of_rows

(* No row after the end of a limit is left.                                *)
LEMMA NoneAfterEnd ==
    ASSUME NEW l \in Limits, NEW n \in Nat, is_end_of_rows(n, l.stop)
    PROVE  l # NoLimit /\ n > l.start /\ \A m \in Nat : m >= n => ~Limited(l, m)
<1>1. l.start \in Int /\ l.stop \in Int /\ NoLimit.stop = -1
      /\ (l # NoLimit => l.start \in Nat /\ l.stop \in Nat /\ l.start <= l.stop)
  BY LimitIs, SequenceAssumption
<1>. QED  BY <1>1 DEF Limited, is_end_of_rows

-----------------------------------------------------------------------------
(* Steps that put nothing keep what has been put.                          *)

LEMMA SelectionStays ==
    ASSUME RequestOK, UNCHANGED request
    PROVE  /\ \A L, k : Number(L, k)' = Number(L, k) /\ Placed(L, k)' = Placed(L, k)
           /\ \A k : Selected(k)' <=> Selected(k)
           /\ SelectedRows' = SelectedRows
           /\ StopsShort' <=> StopsShort
<1>1. /\ depth' = depth /\ table' = table /\ limit' = limit /\ resets' = resets
      /\ \A L, k : RowAt(L, k)' = RowAt(L, k)
  BY RequestStays
<1>2. \A L, k : Counted(L, k)' = Counted(L, k)
  BY <1>1 DEF Counted
<1>3. \A L, k : Number(L, k)' = Number(L, k) /\ Placed(L, k)' = Placed(L, k)
  BY <1>1, <1>2 DEF Number, Placed
<1>4. \A k : Selected(k)' <=> Selected(k)
  BY <1>1, <1>3 DEF Selected
<1>5. SelectedRows' = SelectedRows
  BY <1>1, <1>3, <1>4 DEF SelectedRows
<1>. QED  BY <1>1, <1>3, <1>4, <1>5 DEF StopsShort

LEMMA ThroughStays ==
    ASSUME RequestOK, UNCHANGED <<request, row>>
    PROVE  \A L : IsThrough(L)' <=> IsThrough(L)
BY RequestStays, SelectionStays DEF IsThrough

LEMMA PutStays ==
    ASSUME RequestOK, StateOK, Places, FilledWerePut, PassedWerePut, PutWereSelected,
           UNCHANGED <<request, row, received>>, Len(values') \in Int, Len(values') <= Len(values),
           ~FallsShort' /\ at' # "thrown" =>
               ~FallsShort /\ at # "thrown" /\ (InHand /\ ~InHand' /\ row \in Nat \ {0} => ~Selected(row))
    PROVE  FilledWerePut' /\ PassedWerePut' /\ PutWereSelected'
<1>1. /\ depth' = depth /\ table' = table /\ row' = row /\ received' = received
      /\ \A L, k : RowAt(L, k)' = RowAt(L, k)
      /\ \A L, k : Placed(L, k)' = Placed(L, k)
      /\ \A k : Selected(k)' <=> Selected(k)
      /\ SelectedRows' = SelectedRows
  BY RequestStays, SelectionStays
<1>2. PICK n \in 0 .. level : Len(values) = n
  BY FillingIs
<1>3. \A m : HasBeenPut(m)' <=> HasBeenPut(m)
  BY <1>1 DEF HasBeenPut
<1>4. FilledWerePut'
  <2>1. \A L \in 1 .. Len(values') - 1 : L \in 1 .. Len(values) - 1
    BY <1>2, LevelIs
  <2>. QED  BY <1>1, <2>1 DEF FilledWerePut
<1>5. PassedWerePut'
  <2>. SUFFICES ASSUME ~FallsShort', at' # "thrown", NEW m \in 1 .. row, Selected(m), m = row => ~InHand'
                PROVE  HasBeenPut(m)
    BY <1>1, <1>3 DEF PassedWerePut
  <2>1. m = row => row \in Nat \ {0}
    OBVIOUS
  <2>. QED  BY <2>1 DEF PassedWerePut
<1>6. PutWereSelected'
  BY <1>1 DEF PutWereSelected
<1>. QED  BY <1>4, <1>5, <1>6

-----------------------------------------------------------------------------
(* A leaf that has stopped for good.                                       *)

LEMMA DoomedStays ==
    ASSUME IInv, SInv, Next, Doomed
    PROVE  Doomed' /\ (FallsShort => FallsShort')
<1>. USE DEF IInv, SInv
<1>1. ~resets /\ depth > 1 /\ d_row_number[depth] # -1
      /\ (level < depth \/ at = "end" \/ (at # "row" /\ d_read_p[depth]))
  BY DEF Doomed
<1>2. UNCHANGED request
  BY DEF Next, Call, BackUp, SameRow, RowInHand, NextRow, NoMoreRows, ParentRow, Return, LeafRow, Leave
<1>3. depth' = depth /\ resets' = resets /\ (StopsShort' <=> StopsShort)
  BY <1>2, RequestStays, SelectionStays
<1>. SUFFICES Doomed'
  BY <1>3 DEF FallsShort
<1>4. /\ level \in Levels /\ level \in Nat /\ depth \in Levels /\ level \in 1 .. depth /\ depth \in Nat
      /\ limit[depth] \in Limits
  BY LevelIs
<1>5. d_row_number \in [Levels -> Int] /\ d_read_p \in [Levels -> BOOLEAN]
  BY DEF StateOK
<1>6. ASSUME UNCHANGED <<level, d_row_number, d_read_p>>, at' # "row", at # "end"
      PROVE  Doomed'
  BY <1>1, <1>3, <1>6 DEF Doomed
<1>7. CASE Call
  BY <1>6, <1>7 DEF Call, marks
<1>8. CASE BackUp
  BY <1>6, <1>8 DEF BackUp, marks
<1>9. CASE SameRow
  BY <1>6, <1>9 DEF SameRow, marks
<1>10. ASSUME NEW line, Advance(line, d_row_number[level]), at = "read", d_row_number[level] < i[level], UNCHANGED level
       PROVE  Doomed'
  <2>1. level # depth
    <3>1. SUFFICES ASSUME level = depth
                   PROVE  FALSE
      OBVIOUS
    <3>2. i[depth] = limit[depth].start /\ d_row_number[depth] >= limit[depth].start
      BY <1>10, <3>1 DEF DoomedLeaf, Leaf
    <3>. QED  BY <1>4, <1>5, <1>10, <3>1, <3>2, LimitIs
  <2>2. d_row_number'[depth] = d_row_number[depth]
    BY <1>1, <1>4, <1>10, <2>1 DEF Advance
  <2>. QED  BY <1>1, <1>3, <1>4, <1>10, <2>1, <2>2 DEF Doomed
<1>11. CASE RowInHand
  <2>1. i[level] \in Int /\ d_row_number[level] \in Int
    BY <1>4 DEF StateOK
  <2>. QED  BY <1>10, <1>11, <2>1 DEF RowInHand
<1>12. CASE NextRow
  <2>1. i[level] \in Int /\ d_row_number[level] \in Int
    BY <1>4 DEF StateOK
  <2>. QED  BY <1>10, <1>12, <2>1 DEF NextRow
<1>13. CASE NoMoreRows
  <2>1. level # depth
    BY <1>1, <1>4, <1>13 DEF NoMoreRows
  <2>2. d_row_number'[depth] = d_row_number[depth] /\ level' = level
    BY <1>4, <1>5, <1>13, <2>1 DEF NoMoreRows
  <2>. QED  BY <1>1, <1>3, <1>4, <2>1, <2>2 DEF Doomed
<1>14. CASE ParentRow
  <2>1. at = "row" /\ at' = "call" /\ level # depth /\ UNCHANGED marks
    BY <1>14 DEF ParentRow, InRange, Leaf
  <2>2. d_read_p[depth]
    BY <1>4, <2>1 DEF FirstInHand
  <2>. QED  BY <1>1, <1>3, <2>1, <2>2 DEF Doomed, marks
<1>15. CASE Return
  <2>1. level < depth /\ UNCHANGED <<level, d_row_number>>
    BY <1>15 DEF Return, Places
  <2>. QED  BY <1>1, <1>3, <2>1 DEF Doomed
<1>16. CASE LeafRow
  BY <1>1, <1>4, <1>16 DEF LeafRow, InRange, Leaf
<1>17. CASE Leave
  <2>1. d_row_number' = [d_row_number EXCEPT ![level] = NumberAfter] /\ level' = IF level = 1 THEN 1 ELSE level - 1
    BY <1>17 DEF Leave
  <2>2. d_row_number'[depth] = d_row_number[depth]
    <3>1. level = depth => NumberAfter = d_row_number[depth]
      BY DEF NumberAfter, Leaf
    <3>. QED  BY <1>4, <1>5, <2>1, <3>1
  <2>3. level' < depth
    BY <1>1, <1>4, <2>1
  <2>. QED  BY <1>1, <1>3, <2>2, <2>3 DEF Doomed
<1>. QED  BY <1>7, <1>8, <1>9, <1>11, <1>12, <1>13, <1>14, <1>15, <1>16, <1>17 DEF Next

-----------------------------------------------------------------------------
(* The steps keep the second invariant.                                    *)

LEMMA CallKeepsSInv ==
    ASSUME IInv, SInv, Call
    PROVE  SInv'
<1>. USE DEF IInv, SInv
<1>1. /\ at = "call" /\ at' = "read"
      /\ i' = [i EXCEPT ![level] = IF limit[level].start # -1 THEN limit[level].start ELSE 0]
      /\ UNCHANGED <<request, row, level, marks, values, received>>
  BY DEF Call
<1>2. /\ level \in Levels /\ level \in Nat /\ depth \in Levels /\ level \in 1 .. depth /\ depth \in Nat
      /\ limit[level] \in Limits /\ limit[depth] \in Limits
  BY LevelIs
<1>3. /\ depth' = depth /\ table' = table /\ limit' = limit /\ resets' = resets
      /\ row' = row /\ level' = level /\ values' = values
      /\ d_row_number' = d_row_number /\ d_read_p' = d_read_p
      /\ \A L, k : Number(L, k)' = Number(L, k)
      /\ \A L : IsThrough(L)' <=> IsThrough(L)
  BY <1>1, RequestStays, SelectionStays, ThroughStays DEF marks
<1>4. PICK start \in Nat : /\ start = IF limit[level].start # -1 THEN limit[level].start ELSE 0
                           /\ limit[level] # NoLimit => start = limit[level].start
                           /\ i' = [i EXCEPT ![level] = start]
  <2>1. limit[level] # NoLimit => limit[level].start \in Nat
    BY <1>2, SequenceAssumption
  <2>2. limit[level].start # -1 => limit[level].start \in Nat
    BY <1>2, LimitIs
  <2>3. PICK start : start = IF limit[level].start # -1 THEN limit[level].start ELSE 0
    OBVIOUS
  <2>4. start \in Nat /\ (limit[level] # NoLimit => start = limit[level].start)
    BY <2>1, <2>2, <2>3
  <2>. QED  BY <1>1, <2>3, <2>4
<1>5. i'[level] = start /\ \A L \in Levels : L # level => i'[L] = i[L]
  <2>1. i \in [Levels -> Nat]
    BY DEF StateOK
  <2>. QED  BY ONLY <1>2, <1>4, <2>1
<1>6. (InHand' <=> InHand) /\ (Doomed' <=> Doomed)
  BY <1>1, <1>3 DEF InHand, Doomed
<1>7. (level > 1 /\ row >= 1 /\ \A L \in Levels : L >= level => d_read_p[L]) \/ (level = 1 /\ row = 0 /\ ~d_read_p[1])
  <2>1. level = 1 => row = 0 /\ ~d_read_p[1]
    BY <1>1 DEF FirstInHand
  <2>2. level > 1 => row >= 1 /\ \A L \in Levels : L >= level => d_read_p[L]
    BY <1>1 DEF FirstInHand
  <2>3. level = 1 \/ level > 1
    BY <1>2
  <2>. QED  BY <2>1, <2>2, <2>3
<1>8. DoomedLeaf'
  <2>1. Doomed /\ Leaf => i'[depth] = limit[depth].start
    BY <1>4, <1>5 DEF DoomedLeaf, Leaf
  <2>. QED  BY <1>3, <1>6, <2>1 DEF DoomedLeaf, Leaf
<1>9. FirstInHand'
  BY <1>1, <1>3, <1>6 DEF FirstInHand, Leaf
<1>10. Targets'
  <2>1. OnTarget(limit[level], start)
    <3>1. (start - start) = 0 /\ \A s \in Nat \ {0} : 0 % s = 0
      OBVIOUS
    <3>2. limit[level].stride \in Nat
      BY <1>2, LimitIs
    <3>. QED  BY <1>4, <3>1, <3>2 DEF OnTarget
  <2>2. \A n \in Nat : n < start => ~Limited(limit[level], n)
    <3>1. limit[level].start \in Int /\ NoLimit.start = -1
      BY <1>2, LimitIs
    <3>. QED  BY <1>4, <3>1 DEF Limited
  <2>3. d_row_number[level] = start => limit[level].stride = 0
    <3>1. CASE Restarts(level)
      <4>1. d_row_number[level] = -1
        BY <1>1, <3>1 DEF NumbersRestart
      <4>. QED  BY <4>1
    <3>2. CASE ~Restarts(level)
      <4>1. level = depth /\ depth > 1 /\ ~resets
        BY <1>2, <3>2 DEF Restarts
      <4>2. d_row_number[level] = start => Doomed
        BY <1>1, <1>2, <1>7, <4>1 DEF Doomed
      <4>3. limit[level].stride \in Nat /\ limit[level].start \in Int
        BY <1>2, LimitIs
      <4>. QED  BY <1>4, <4>1, <4>2, <4>3 DEF DoomedLeaf
    <3>. QED  BY <3>1, <3>2
  <2>4. ASSUME NEW L \in 1 .. depth, L < level
        PROVE  L \in Levels /\ L # level /\ i'[L] = i[L] /\ Active(L)
    BY <1>2, <1>5, <2>4, DepthIs DEF Active, Levels
  <2>5. ASSUME NEW L \in 1 .. depth, Active(L)'
        PROVE  /\ OnTarget(limit[L], i'[L])
               /\ \A n \in Nat : d_row_number[L] < n /\ n < i'[L] => ~Limited(limit[L], n)
               /\ d_row_number[L] = i'[L] => limit[L].stride = 0
    <3>1. CASE L = level
      BY <1>5, <2>1, <2>2, <2>3, <3>1
    <3>2. CASE L # level
      <4>1. L < level
        BY <1>3, <2>5, <3>2 DEF Active
      <4>. QED  BY <2>4, <4>1 DEF Targets
    <3>. QED  BY <3>1, <3>2
  <2>. QED  BY <1>3, <2>5 DEF Targets
<1>11. NumbersCount'
  BY <1>1, <1>3 DEF NumbersCount
<1>12. FilledWerePut' /\ PassedWerePut' /\ PutWereSelected'
  <2>1. Len(values') \in Int /\ Len(values') <= Len(values)
    BY <1>2, <1>3, FillingIs
  <2>2. FallsShort' <=> FallsShort
    BY <1>1, <1>6, SelectionStays DEF FallsShort
  <2>. QED  BY <1>1, <1>6, <2>1, <2>2, PutStays
<1>13. SkippedAreNotSelected'
  BY <1>1, <1>2, <1>3, <1>7 DEF SkippedAreNotSelected
<1>. QED  BY <1>8, <1>9, <1>10, <1>11, <1>12, <1>13

LEMMA BackUpKeepsSInv ==
    ASSUME IInv, SInv, BackUp
    PROVE  SInv'
<1>. USE DEF IInv, SInv
<1>1. /\ at = "read" /\ at' = "thrown"
      /\ UNCHANGED <<request, row, level, first, i, marks, d_wrote_soi, orig_stack_size, values, received>>
  BY DEF BackUp
<1>2. /\ level \in Levels /\ level \in Nat /\ level \in 1 .. depth /\ depth \in Nat
  BY LevelIs
<1>3. /\ depth' = depth /\ table' = table /\ limit' = limit /\ resets' = resets
      /\ row' = row /\ level' = level /\ values' = values /\ i' = i
      /\ d_row_number' = d_row_number /\ d_read_p' = d_read_p
      /\ \A L, k : Number(L, k)' = Number(L, k)
  BY <1>1, RequestStays, SelectionStays DEF marks
<1>4. ~InHand' /\ (Doomed' <=> Doomed)
  BY <1>1, <1>3 DEF InHand, Doomed
<1>5. DoomedLeaf'
  BY <1>1, <1>3, <1>4 DEF DoomedLeaf, Leaf
<1>6. FirstInHand'
  BY <1>1, <1>3, <1>4 DEF FirstInHand
<1>7. Targets'
  <2>1. \A L \in 1 .. depth : Active(L)' => L < level /\ Active(L)
    BY <1>1, <1>3 DEF Active
  <2>. QED  BY <1>1, <1>3, <2>1 DEF Targets
<1>8. NumbersCount'
  BY <1>1, <1>3 DEF NumbersCount
<1>9. FilledWerePut' /\ PassedWerePut' /\ PutWereSelected'
  <2>1. Len(values') \in Int /\ Len(values') <= Len(values)
    BY <1>2, <1>3, FillingIs
  <2>. QED  BY <1>1, <2>1, PutStays
<1>10. SkippedAreNotSelected'
  BY <1>1 DEF SkippedAreNotSelected
<1>. QED  BY <1>5, <1>6, <1>7, <1>8, <1>9, <1>10

LEMMA SameRowKeepsSInv ==
    ASSUME IInv, SInv, SameRow
    PROVE  SInv'
<1>. USE DEF IInv, SInv
<1>1. /\ at = "read" /\ i[level] = d_row_number[level] /\ at' = "end"
      /\ UNCHANGED <<request, row, level, first, i, marks, d_wrote_soi, orig_stack_size, values, received>>
  BY DEF SameRow
<1>2. /\ level \in Levels /\ level \in Nat /\ level \in 1 .. depth /\ depth \in Nat
      /\ limit[level] \in Limits /\ row \in Nat /\ Len(table) \in Nat /\ i[level] \in Nat
  BY LevelIs DEF StateOK, RequestOK
<1>3. /\ depth' = depth /\ table' = table /\ limit' = limit /\ resets' = resets
      /\ row' = row /\ level' = level /\ values' = values /\ i' = i
      /\ d_row_number' = d_row_number /\ d_read_p' = d_read_p
      /\ \A L, k : Number(L, k)' = Number(L, k)
      /\ \A L : IsThrough(L)' <=> IsThrough(L)
      /\ (StopsShort' <=> StopsShort)
  BY <1>1, RequestStays, SelectionStays, ThroughStays DEF marks
<1>4. ~InHand' /\ (FallsShort => FallsShort')
  BY <1>1, DoomedStays DEF InHand, Next, FallsShort
<1>5. limit[level].stride = 0 /\ limit[level] # NoLimit /\ d_row_number[level] = limit[level].start
  <2>1. limit[level].stride = 0 /\ OnTarget(limit[level], i[level])
    <3>1. Active(level)
      BY <1>1 DEF Active
    <3>. QED  BY <1>1, <1>2, <3>1 DEF Targets
  <2>2. NoLimit.stride = 1
    BY <1>2, LimitIs
  <2>. QED  BY <1>1, <2>1, <2>2 DEF OnTarget
<1>6. DoomedLeaf'
  <2>1. CASE level = depth
    <3>1. d_row_number[depth] \in Nat
      BY <1>1, <1>2, <2>1
    <3>. QED  BY <1>1, <1>3, <1>5, <2>1, <3>1 DEF DoomedLeaf
  <2>2. CASE level # depth
    <3>1. Doomed' => Doomed
      BY <1>2, <1>3, <2>2 DEF Doomed
    <3>. QED  BY <1>1, <1>3, <3>1 DEF DoomedLeaf
  <2>. QED  BY <2>1, <2>2
<1>7. FirstInHand'
  BY <1>1, <1>3, <1>4 DEF FirstInHand
<1>8. Targets'
  <2>1. \A L \in 1 .. depth : Active(L)' => L < level /\ Active(L)
    BY <1>1, <1>3 DEF Active
  <2>. QED  BY <1>1, <1>3, <2>1 DEF Targets
<1>9. NumbersCount'
  BY <1>1, <1>3 DEF NumbersCount
<1>10. ~FallsShort' => ~FallsShort /\ ~d_read_p[level]
  <2>. SUFFICES ASSUME ~FallsShort', d_read_p[level]
                PROVE  FALSE
    BY <1>4
  <2>1. InHand
    BY <1>1 DEF InHand
  <2>2. Leaf /\ Doomed
    BY <1>1, <1>2, <2>1 DEF FirstInHand
  <2>3. StopsShort /\ Doomed'
    BY <1>1, <1>5, <2>2, DoomedStays DEF StopsShort, Doomed, Leaf, Next
  <2>. QED  BY <1>3, <2>3 DEF FallsShort
<1>11. FilledWerePut' /\ PassedWerePut' /\ PutWereSelected'
  <2>1. Len(values') \in Int /\ Len(values') <= Len(values)
    BY <1>2, <1>3, FillingIs
  <2>2. ~d_read_p[level] => ~InHand
    BY <1>1 DEF InHand
  <2>. QED  BY <1>1, <1>10, <2>1, <2>2, PutStays
<1>12. SkippedAreNotSelected'
  <2>. SUFFICES ASSUME ~FallsShort', NEW m \in row + 1 .. Len(table), RowAt(level - 1, m) = RowAt(level - 1, row),
                       Selected(m)
                PROVE  FALSE
    <3>1. ~FallsShort' => IsThrough(level - 1)
      BY DEF IsThrough
    <3>. QED  BY <1>1, <1>3, <3>1 DEF SkippedAreNotSelected
  <2>1. row \in 1 .. Len(table) /\ m \in 1 .. Len(table) /\ row <= m
    <3>1. d_row_number[level] <= row - 1
      BY <1>2 DEF NumbersBelowRow
    <3>. QED  BY <1>1, <1>2, <3>1
  <2>2. IsThrough(level) /\ d_row_number[level] = Number(level, row)
    BY <1>1, <1>2, <1>10, <2>1 DEF SkippedAreNotSelected, NumbersCount
  <2>3. RowAt(level, m) # RowAt(level, row) /\ table[m].selected /\ Limited(limit[level], Number(level, m))
    BY <1>2, <2>2 DEF IsThrough, Selected
  <2>4. Number(level, m) > Number(level, row)
    BY <1>2, <2>1, <2>3, NumberGrows
  <2>5. Number(level, m) # limit[level].start
    BY <1>1, <1>2, <1>5, <2>2, <2>4
  <2>. QED  BY <1>5, <2>3, <2>5 DEF Limited
<1>. QED  BY <1>6, <1>7, <1>8, <1>9, <1>11, <1>12

(* Where read() finds no more rows, a row around begins before the next.   *)
LEMMA EndOfFileIs ==
    ASSUME RequestOK, StateOK, NEW L \in 1 .. depth, EndOfFile(L),
           NEW m \in row + 1 .. Len(table), table[m].starts <= L
    PROVE  \E p \in row + 1 .. m : table[p].starts < L
<1>1. Len(table) \in Nat /\ row \in Nat /\ depth \in Nat /\ DOMAIN table = 1 .. Len(table)
  BY DepthIs DEF RequestOK, StateOK
<1>2. Following(L) \in SUBSET Nat /\ m \in Following(L)
  BY <1>1 DEF Following
<1>3. PICK p \in Following(L) : p = Smallest(Following(L)) /\ p <= m
  BY <1>2, SmallestIs
<1>4. table[p].starts < L /\ p \in row + 1 .. m
  BY <1>1, <1>2, <1>3 DEF EndOfFile, Following
<1>. QED  BY <1>4

LEMMA NoMoreRowsKeepsSInv ==
    ASSUME IInv, SInv, NoMoreRows
    PROVE  SInv'
<1>. USE DEF IInv, SInv
<1>1. /\ at = "read" /\ at' = "end" /\ ~d_read_p[level] /\ EndOfFile(level)
      /\ d_row_number' = [d_row_number EXCEPT ![level] = -1]
      /\ UNCHANGED <<request, row, level, first, i, d_wrote_soi, orig_stack_size, values, received>>
  BY DEF NoMoreRows
<1>2. /\ level \in Levels /\ level \in Nat /\ level \in 1 .. depth /\ depth \in Nat /\ depth \in Levels
      /\ row \in 0 .. Len(table) /\ Len(table) \in Nat /\ Levels = 1 .. MaxDepth /\ MaxDepth \in Nat
  BY LevelIs DEF StateOK, RequestOK
<1>3. /\ depth' = depth /\ table' = table /\ limit' = limit /\ resets' = resets
      /\ row' = row /\ level' = level /\ values' = values /\ i' = i
      /\ \A L, k : Number(L, k)' = Number(L, k)
      /\ \A L : IsThrough(L)' <=> IsThrough(L)
  BY <1>1, RequestStays, SelectionStays, ThroughStays
<1>4. d_row_number'[level] = -1 /\ \A L \in Levels : L # level => d_row_number'[L] = d_row_number[L]
  <2>1. d_row_number \in [Levels -> Int] /\ -1 \in Int
    BY DEF StateOK
  <2>. QED  BY ONLY <1>1, <1>2, <2>1
<1>5. ~InHand' /\ ~InHand /\ (FallsShort => FallsShort')
  BY <1>1, DoomedStays DEF InHand, Next, FallsShort
<1>6. DoomedLeaf'
  <2>1. Doomed' => level # depth
    BY <1>3, <1>4 DEF Doomed
  <2>2. Doomed' => Doomed /\ d_row_number'[depth] = d_row_number[depth]
    BY <1>2, <1>3, <1>4, <2>1 DEF Doomed
  <2>. QED  BY <1>1, <1>3, <2>2 DEF DoomedLeaf
<1>7. FirstInHand'
  BY <1>1, <1>3, <1>5 DEF FirstInHand
<1>8. \A L \in 1 .. depth : L < level => d_row_number'[L] = d_row_number[L]
  <2>. TAKE L \in 1 .. depth
  <2>1. L < level => L \in Levels /\ L # level
    BY <1>2
  <2>. QED  BY <1>4, <2>1
<1>9. Targets'
  <2>1. \A L \in 1 .. depth : Active(L)' => L < level /\ Active(L)
    BY <1>1, <1>3 DEF Active
  <2>. QED  BY <1>1, <1>3, <1>8, <2>1 DEF Targets
<1>10. NumbersCount'
  BY <1>1, <1>3, <1>8 DEF NumbersCount
<1>11. FilledWerePut' /\ PassedWerePut' /\ PutWereSelected'
  <2>1. Len(values') \in Int /\ Len(values') <= Len(values)
    BY <1>2, <1>3, FillingIs
  <2>. QED  BY <1>1, <1>5, <2>1, PutStays
<1>12. SkippedAreNotSelected'
  <2>. SUFFICES ASSUME ~FallsShort', NEW m \in row + 1 .. Len(table), RowAt(level - 1, m) = RowAt(level - 1, row),
                       Selected(m)
                PROVE  FALSE
    <3>1. ~FallsShort' => IsThrough(level - 1)
      BY DEF IsThrough
    <3>. QED  BY <1>1, <1>3, <3>1 DEF SkippedAreNotSelected
  <2>1. CASE row = 0
    <3>1. level = 1 /\ 1 \in row + 1 .. Len(table) /\ table[1].starts = 1
      <4>1. ~(level > 1)
        BY <2>1 DEF FirstInHand
      <4>. QED  BY <1>2, <2>1, <4>1 DEF RequestOK
    <3>2. PICK p \in row + 1 .. 1 : table[p].starts < 1
      BY <1>1, <1>2, <3>1, EndOfFileIs
    <3>. QED  BY <2>1, <3>1, <3>2
  <2>2. CASE row # 0
    <3>1. row \in 1 .. Len(table) /\ m \in 1 .. Len(table) /\ row \in Nat /\ m \in Nat /\ row <= m
          /\ level - 1 \in 0 .. depth /\ level \in 0 .. depth
      BY <1>2, <2>2
    <3>2. IsThrough(level)
      BY <1>1, <1>5, <3>1 DEF SkippedAreNotSelected
    <3>3. ASSUME NEW q \in row + 1 .. m
          PROVE  table[q].starts > level /\ table[q].starts \in Int
      <4>1. q \in row + 1 .. Len(table) /\ q \in 1 .. Len(table)
        BY <3>1
      <4>2. ASSUME table[q].starts <= level
            PROVE  FALSE
        <5>1. PICK p \in row + 1 .. q : table[p].starts < level
          BY <1>1, <1>2, <4>1, <4>2, EndOfFileIs
        <5>2. p \in row + 1 .. m /\ p \in 1 .. Len(table)
          BY <3>1, <5>1
        <5>3. table[p].starts > level - 1 /\ table[p].starts \in 1 .. depth
          BY <3>1, <5>2, NoRowBetween, LineIs
        <5>. QED  BY <1>2, <5>1, <5>3
      <4>3. table[q].starts \in 1 .. depth
        BY <4>1, LineIs
      <4>. QED  BY <1>2, <4>2, <4>3
    <3>4. RowAt(level, m) = RowAt(level, row)
      BY <3>1, <3>3, RowStays
    <3>. QED  BY <3>2, <3>4 DEF IsThrough
  <2>. QED  BY <2>1, <2>2
<1>. QED  BY <1>6, <1>7, <1>9, <1>10, <1>11, <1>12

LEMMA ReturnKeepsSInv ==
    ASSUME IInv, SInv, Return
    PROVE  SInv'
<1>. USE DEF IInv, SInv
<1>1. /\ at = "returned" /\ at' = "read" /\ d_read_p' = Below(d_read_p, FALSE)
      /\ UNCHANGED <<request, row, level, first, i, d_row_number, values, received>>
  BY DEF Return
<1>2. level \in Levels /\ level \in Nat /\ level \in 1 .. depth /\ depth \in Nat /\ level < depth
  BY <1>1, LevelIs DEF Places
<1>3. /\ depth' = depth /\ table' = table /\ limit' = limit /\ resets' = resets
      /\ row' = row /\ level' = level /\ values' = values /\ i' = i /\ d_row_number' = d_row_number
      /\ \A L, k : Number(L, k)' = Number(L, k)
      /\ \A L : IsThrough(L)' <=> IsThrough(L)
      /\ (StopsShort' <=> StopsShort)
  BY <1>1, RequestStays, SelectionStays, ThroughStays
<1>4. ~d_read_p'[level] /\ ~InHand' /\ ~InHand /\ (Doomed' <=> Doomed)
  <2>1. d_read_p'[level] = FALSE
    BY <1>1, <1>2 DEF Below
  <2>. QED  BY <1>1, <1>2, <1>3, <2>1 DEF InHand, Doomed
<1>5. DoomedLeaf'
  BY <1>2, <1>3, <1>4 DEF DoomedLeaf, Leaf
<1>6. FirstInHand'
  BY <1>1, <1>3, <1>4 DEF FirstInHand
<1>7. Targets'
  <2>1. \A L \in 1 .. depth : Active(L)' => Active(L)
    BY <1>1, <1>3 DEF Active
  <2>. QED  BY <1>1, <1>3, <2>1 DEF Targets
<1>8. NumbersCount'
  BY <1>1, <1>3 DEF NumbersCount
<1>9. FilledWerePut' /\ PassedWerePut' /\ PutWereSelected'
  <2>1. Len(values') \in Int /\ Len(values') <= Len(values)
    BY <1>2, <1>3, FillingIs
  <2>. QED  BY <1>1, <1>3, <1>4, <2>1, PutStays DEF FallsShort
<1>10. SkippedAreNotSelected'
  BY <1>1, <1>3, <1>4 DEF SkippedAreNotSelected, FallsShort
<1>. QED  BY <1>5, <1>6, <1>7, <1>8, <1>9, <1>10

LEMMA ParentRowKeepsSInv ==
    ASSUME IInv, SInv, ParentRow
    PROVE  SInv'
<1>. USE DEF IInv, SInv
<1>1. /\ at = "row" /\ at' = "call" /\ level # depth /\ level' = level + 1
      /\ ~is_end_of_rows(i[level], limit[level].stop)
      /\ i' = [i EXCEPT ![level] = i[level] + limit[level].stride]
      /\ UNCHANGED <<request, row, first, marks, values, received>>
  BY DEF ParentRow, InRange, Leaf
<1>2. /\ level \in Levels /\ level \in Nat /\ level \in 1 .. depth /\ level < depth /\ depth \in Nat /\ depth \in Levels
      /\ limit[level] \in Limits /\ Levels = 1 .. MaxDepth /\ MaxDepth \in Nat /\ i[level] \in Nat
      /\ level + 1 \in Levels
  BY <1>1, LevelIs DEF StateOK
<1>3. /\ depth' = depth /\ table' = table /\ limit' = limit /\ resets' = resets
      /\ row' = row /\ values' = values /\ d_row_number' = d_row_number /\ d_read_p' = d_read_p
      /\ \A L, k : Number(L, k)' = Number(L, k)
      /\ (StopsShort' <=> StopsShort)
  BY <1>1, RequestStays, SelectionStays DEF marks
<1>4. i'[level] = i[level] + limit[level].stride /\ \A L \in Levels : L # level => i'[L] = i[L]
  <2>1. i \in [Levels -> Nat]
    BY DEF StateOK
  <2>. QED  BY ONLY <1>1, <1>2, <2>1
<1>5. InHand /\ d_row_number[level] = i[level] /\ row \in Nat /\ row >= 1 /\ table[row].starts <= level
      /\ \A L \in Levels : L >= level => d_read_p[L]
  <2>1. d_row_number[level] = i[level]
    BY <1>1 DEF NumbersRestart
  <2>2. row \in Nat
    BY DEF StateOK, RequestOK
  <2>3. d_row_number[level] <= row - 1
    BY <1>2, <2>2 DEF NumbersBelowRow
  <2>4. row >= 1
    BY <1>2, <2>1, <2>2, <2>3
  <2>. QED  BY <1>1, <2>1, <2>2, <2>4 DEF FirstInHand, InHand
<1>6. InHand' /\ (Doomed' => Doomed)
  BY <1>1, <1>2, <1>3, <1>5 DEF InHand, Doomed
<1>7. Active(level) /\ OnTarget(limit[level], i[level])
  BY <1>1, <1>2 DEF Active, Targets
<1>8. DoomedLeaf'
  BY <1>1, <1>3, <1>6 DEF DoomedLeaf
<1>9. FirstInHand'
  <2>1. \A L \in Levels : L >= level + 1 => d_read_p[L]
    BY <1>2, <1>5
  <2>2. table[row].starts < level + 1
    <3>1. row \in 1 .. Len(table)
      BY <1>5 DEF StateOK, RequestOK
    <3>2. table[row].starts \in 1 .. depth
      BY <3>1, LineIs
    <3>. QED  BY <1>2, <1>5, <3>2
  <2>3. ~(level + 1 = depth /\ Doomed) => d_row_number[level + 1] = -1
    <3>1. CASE level + 1 < depth
      BY <1>2, <3>1 DEF NumbersRestart
    <3>2. CASE level + 1 = depth
      <4>1. resets => d_row_number[depth] = -1
        BY <1>2, <1>5 DEF NumbersRestart
      <4>. QED  BY <1>2, <3>2, <4>1 DEF Doomed
    <3>. QED  BY <1>2, <3>1, <3>2
  <2>4. Doomed => Doomed'
    BY <1>1, DoomedStays DEF Next
  <2>5. level' > 1
    BY <1>1, <1>2
  <2>. QED  BY <1>1, <1>3, <1>5, <2>1, <2>2, <2>3, <2>4, <2>5 DEF FirstInHand, Leaf
<1>10. Targets'
  <2>1. /\ OnTarget(limit[level], i'[level])
        /\ \A n \in Nat : d_row_number[level] < n /\ n < i'[level] => ~Limited(limit[level], n)
        /\ d_row_number[level] = i'[level] => limit[level].stride = 0
    <3>1. limit[level].stride \in Nat
      BY <1>2, LimitIs
    <3>2. OnTarget(limit[level], i[level] + limit[level].stride)
          /\ \A n \in Nat : i[level] < n /\ n < i[level] + limit[level].stride => ~Limited(limit[level], n)
      BY <1>2, <1>7, NextTarget
    <3>. QED  BY <1>2, <1>4, <1>5, <3>1, <3>2
  <2>2. ASSUME NEW L \in 1 .. depth, Active(L)'
        PROVE  /\ OnTarget(limit[L], i'[L])
               /\ \A n \in Nat : d_row_number[L] < n /\ n < i'[L] => ~Limited(limit[L], n)
               /\ d_row_number[L] = i'[L] => limit[L].stride = 0
    <3>1. L <= level /\ L \in Levels
      BY <1>1, <1>2, <2>2 DEF Active
    <3>2. CASE L = level
      BY <2>1, <3>2
    <3>3. CASE L # level
      <4>1. L < level /\ Active(L) /\ i'[L] = i[L]
        BY <1>2, <1>4, <3>1, <3>3 DEF Active
      <4>. QED  BY <4>1 DEF Targets
    <3>. QED  BY <3>2, <3>3
  <2>. QED  BY <1>3, <2>2 DEF Targets
<1>11. NumbersCount'
  <2>1. d_row_number[level] = Number(level, row)
    BY <1>1 DEF NumbersCount
  <2>2. Limited(limit[level], d_row_number[level])
    BY <1>1, <1>2, <1>5, <1>7, TargetIsLimited
  <2>3. \A L \in 1 .. depth : L < level + 1 => d_row_number[L] = Number(L, row) /\ Limited(limit[L], d_row_number[L])
    <3>. TAKE L \in 1 .. depth
    <3>1. L < level + 1 => L < level \/ L = level
      BY <1>2
    <3>. QED  BY <2>1, <2>2, <3>1 DEF NumbersCount
  <2>4. d_read_p[level + 1]
    BY <1>2, <1>5
  <2>. QED  BY <1>1, <1>3, <2>3, <2>4 DEF NumbersCount
<1>12. FilledWerePut' /\ PassedWerePut' /\ PutWereSelected'
  <2>1. Len(values') \in Int /\ Len(values') <= Len(values)
    BY <1>2, <1>3, FillingIs
  <2>2. FallsShort => FallsShort'
    BY DoomedStays DEF Next, FallsShort
  <2>. QED  BY <1>1, <1>6, <2>1, <2>2, PutStays
<1>13. SkippedAreNotSelected'
  <2>1. d_read_p[level + 1]
    BY <1>2, <1>5
  <2>. QED  BY <1>1, <1>3, <2>1 DEF SkippedAreNotSelected
<1>. QED  BY <1>8, <1>9, <1>10, <1>11, <1>12, <1>13

LEMMA LeaveKeepsSInv ==
    ASSUME IInv, SInv, Leave
    PROVE  SInv'
<1>. USE DEF IInv, SInv
<1>1. /\ at = "end" \/ (at = "row" /\ is_end_of_rows(i[level], limit[level].stop))
      /\ d_row_number' = [d_row_number EXCEPT ![level] = NumberAfter]
      /\ level' = IF level = 1 THEN 1 ELSE level - 1
      /\ at' = IF level = 1 THEN "done" ELSE "returned"
      /\ UNCHANGED <<request, row, first, i, d_read_p, d_unsent_data, orig_stack_size, received>>
  BY DEF Leave, InRange
<1>2. /\ level \in Levels /\ level \in Nat /\ level \in 1 .. depth /\ depth \in Nat /\ depth \in Levels
      /\ limit[level] \in Limits /\ limit[depth] \in Limits /\ Levels = 1 .. MaxDepth /\ MaxDepth \in Nat
      /\ i[level] \in Nat /\ row \in 0 .. Len(table) /\ Len(table) \in Nat
  BY LevelIs DEF StateOK, RequestOK
<1>3. /\ depth' = depth /\ table' = table /\ limit' = limit /\ resets' = resets
      /\ row' = row /\ i' = i /\ d_read_p' = d_read_p
      /\ \A L, k : Number(L, k)' = Number(L, k)
      /\ \A L : IsThrough(L)' <=> IsThrough(L)
      /\ (StopsShort' <=> StopsShort)
  BY <1>1, RequestStays, SelectionStays, ThroughStays
<1>4. d_row_number'[level] = NumberAfter /\ \A L \in Levels : L # level => d_row_number'[L] = d_row_number[L]
  <2>1. d_row_number \in [Levels -> Int]
    BY DEF StateOK
  <2>. QED  BY ONLY <1>1, <1>2, <2>1
<1>5. ASSUME NEW L \in 1 .. depth, L < level' \/ (L = level' /\ at' = "returned")
      PROVE  L < level /\ d_row_number'[L] = d_row_number[L]
  <2>1. L < level /\ L # level /\ L \in Levels
    BY <1>1, <1>2, <1>5
  <2>. QED  BY <1>4, <2>1
<1>6. ~InHand' /\ (FallsShort => FallsShort')
  BY <1>1, DoomedStays DEF InHand, Next, FallsShort
<1>7. ASSUME at = "row"
      PROVE  /\ row \in 1 .. Len(table) /\ d_row_number[level] = i[level] /\ Number(level, row) = i[level]
             /\ limit[level] # NoLimit /\ i[level] > limit[level].start
             /\ \A m \in Nat : m >= i[level] => ~Limited(limit[level], m)
  <2>1. d_row_number[level] = i[level] /\ Number(level, row) = d_row_number[level]
    BY <1>7 DEF NumbersRestart, NumbersCount
  <2>2. d_row_number[level] <= row - 1
    BY <1>2 DEF NumbersBelowRow
  <2>3. row \in 1 .. Len(table)
    BY <1>2, <2>1, <2>2
  <2>4. is_end_of_rows(i[level], limit[level].stop)
    BY <1>1, <1>7
  <2>. QED  BY <1>2, <2>1, <2>3, <2>4, NoneAfterEnd
<1>8. DoomedLeaf'
  <2>. SUFFICES ASSUME Doomed'
                PROVE  /\ limit[depth] # NoLimit /\ d_row_number'[depth] >= limit[depth].start
                       /\ limit[depth].stride > 0 => d_row_number'[depth] > limit[depth].start
    BY <1>1, <1>3 DEF DoomedLeaf
  <2>1. d_row_number'[depth] = d_row_number[depth]
    <3>1. level = depth => NumberAfter = d_row_number[depth]
      BY DEF NumberAfter, Leaf
    <3>. QED  BY <1>2, <1>4, <3>1
  <2>2. CASE Doomed
    BY <2>1, <2>2 DEF DoomedLeaf
  <2>3. CASE ~Doomed
    <3>1. level = depth /\ at = "row"
      BY <1>1, <1>2, <1>3, <2>1, <2>3 DEF Doomed
    <3>2. limit[depth].start \in Int
      BY <1>2, LimitIs
    <3>. QED  BY <1>2, <1>7, <2>1, <3>1, <3>2
  <2>. QED  BY <2>2, <2>3
<1>9. FirstInHand'
  <2>1. level' > 1 => row >= 1
    BY <1>1, <1>2 DEF FirstInHand
  <2>2. at' \notin {"call", "row"}
    BY <1>1
  <2>. QED  BY <1>3, <1>6, <2>1, <2>2 DEF FirstInHand
<1>10. Targets'
  <2>1. ASSUME NEW L \in 1 .. depth, Active(L)'
        PROVE  L < level /\ Active(L) /\ d_row_number'[L] = d_row_number[L]
    <3>1. L < level' \/ (L = level' /\ at' = "returned")
      BY <1>1, <2>1 DEF Active
    <3>. QED  BY <1>5, <3>1 DEF Active
  <2>. QED  BY <1>3, <2>1 DEF Targets
<1>11. NumbersCount'
  <2>1. at' = "returned" => level' \in 1 .. depth
    BY <1>1, <1>2
  <2>2. at' \in {"returned", "done"}
    BY <1>1
  <2>. QED  BY <1>3, <1>5, <2>1, <2>2 DEF NumbersCount
<1>12. FilledWerePut' /\ PassedWerePut' /\ PutWereSelected'
  <2>1. Len(values') \in Int /\ Len(values') <= Len(values)
    <3>1. PICK n \in 1 .. level, m \in 0 .. level :
              /\ Len(values) = n /\ Len(values') = m
              /\ level > 1 => m = IF n = level THEN level - 1 ELSE n
      BY WhatLeaveEnds
    <3>. QED  BY <1>2, <3>1
  <2>2. at = "row" => ~Selected(row)
    BY <1>2, <1>7 DEF Selected
  <2>3. at # "thrown" /\ (InHand => at = "row")
    BY <1>1 DEF InHand
  <2>. QED  BY <1>1, <1>6, <2>1, <2>2, <2>3, PutStays
<1>13. SkippedAreNotSelected'
  <2>. SUFFICES ASSUME ~FallsShort'
                PROVE  IsThrough(level - 1)
    <3>1. (at' = "returned" => level' = level - 1) /\ (at' = "done" => level - 1 = 0) /\ at' \in {"returned", "done"}
      BY <1>1, <1>2
    <3>. QED  BY <1>3, <3>1 DEF SkippedAreNotSelected
  <2>1. CASE at = "end"
    BY <1>6, <2>1 DEF SkippedAreNotSelected
  <2>2. CASE at = "row"
    <3>1. ASSUME NEW m \in row + 1 .. Len(table), RowAt(level - 1, m) = RowAt(level - 1, row)
          PROVE  ~Selected(m)
      <4>1. m \in 1 .. Len(table) /\ row \in 1 .. Len(table) /\ row <= m
        BY <1>2, <1>7, <2>2
      <4>2. Number(level, m) >= i[level]
        BY <1>2, <1>7, <2>2, <3>1, <4>1, NumberGrows
      <4>3. Number(level, m) \in Int
        BY <4>1, CountedIs
      <4>. QED  BY <1>2, <1>7, <2>2, <4>2, <4>3 DEF Selected
    <3>. QED  BY <3>1 DEF IsThrough
  <2>. QED  BY <1>1, <2>1, <2>2
<1>. QED  BY <1>8, <1>9, <1>10, <1>11, <1>12, <1>13

(* Both steps that move on count the rows, and pass over no selected line. *)
LEMMA AdvanceKeepsSInv ==
    ASSUME IInv, SInv, NEW line \in 1 .. Len(table), NEW number \in Int, number = d_row_number[level],
           at = "read", number < i[level], Advance(line, number), row' = line, row <= line,
           UNCHANGED <<request, level, i, values, received>>,
           ~Doomed' \/ level < depth, FallsShort => FallsShort',
           Number(level, line) = number + (IF IsCounted(level, line) THEN 1 ELSE 0),
           table[line].starts <= level, \A L \in 0 .. depth : L < level => RowAt(L, line) = RowAt(L, row),
           ~FallsShort => \A m \in row .. line - 1 : m >= 1 /\ Selected(m) => HasBeenPut(m)
    PROVE  SInv'
<1>. USE DEF IInv, SInv
<1>1. /\ level \in Levels /\ level \in Nat /\ level \in 1 .. depth /\ depth \in Nat /\ depth \in Levels
      /\ limit[level] \in Limits /\ Levels = 1 .. MaxDepth /\ MaxDepth \in Nat
      /\ i[level] \in Nat /\ row \in 0 .. Len(table) /\ Len(table) \in Nat /\ line \in Nat /\ row \in Nat
      /\ number >= -1
  <2>1. i[level] \in Nat /\ row \in 0 .. Len(table) /\ Len(table) \in Nat /\ level \in Levels
    BY LevelIs DEF StateOK, RequestOK
  <2>2. number >= -1
    BY <2>1 DEF NumbersBelowRow
  <2>. QED  BY <2>1, <2>2, LevelIs
<1>2. /\ depth' = depth /\ table' = table /\ limit' = limit /\ resets' = resets
      /\ level' = level /\ values' = values /\ i' = i /\ received' = received
      /\ \A L, k : RowAt(L, k)' = RowAt(L, k)
      /\ \A L, k : Number(L, k)' = Number(L, k) /\ Placed(L, k)' = Placed(L, k)
      /\ \A k : Selected(k)' <=> Selected(k)
      /\ SelectedRows' = SelectedRows
  BY RequestStays, SelectionStays
<1>. DEFINE counted == number + (IF IsCounted(level, line) THEN 1 ELSE 0)
<1>3. counted \in Int /\ counted >= number /\ (IsCounted(level, line) => counted = number + 1)
      /\ (counted = number => ~IsCounted(level, line))
  OBVIOUS
<1>4. /\ d_row_number'[level] = counted
      /\ \A L \in Levels : L # level /\ (L < level \/ ~resets) => d_row_number'[L] = d_row_number[L]
      /\ d_read_p' = Below(d_read_p, counted = i[level])
      /\ at' = IF counted = i[level] THEN "row" ELSE "read"
  <2>1. Counts(line) <=> IsCounted(level, line)
    BY DEF Counts, IsCounted, Leaf
  <2>2. counted = number + (IF Counts(line) THEN 1 ELSE 0)
    BY <2>1
  <2>3. \A L \in Levels : L < level => ~(L > level)
    BY <1>1
  <2>. HIDE DEF counted
  <2>. QED  BY <1>1, <2>2, <2>3 DEF Advance
<1>5. Number(level, line) = counted
  OBVIOUS
<1>. HIDE DEF counted
<1>6. d_read_p'[level] <=> counted = i[level]
  <2>1. d_read_p'[level] = (counted = i[level])
    BY <1>1, <1>4 DEF Below
  <2>. QED  BY <2>1
<1>7. (InHand' <=> at' = "row") /\ at' \in {"row", "read"} /\ (at' = "row" <=> counted = i[level])
  BY <1>2, <1>4, <1>6 DEF InHand
<1>8. at' = "read" /\ IsCounted(level, line) => ~Limited(limit[level], counted)
  <2>. SUFFICES ASSUME at' = "read", IsCounted(level, line)
                PROVE  ~Limited(limit[level], counted)
    OBVIOUS
  <2>1. counted \in Nat /\ number < counted /\ counted < i[level]
    BY <1>1, <1>3, <1>4, <1>7, AdvanceIs
  <2>2. Active(level)
    BY DEF Active
  <2>. QED  BY <1>1, <2>1, <2>2 DEF Targets
<1>9. at' = "read" => ~Selected(line)
  BY <1>1, <1>5, <1>8 DEF Selected, IsCounted
<1>10. DoomedLeaf'
  <2>1. Doomed' => Doomed
    <3>. SUFFICES ASSUME Doomed'
                  PROVE  Doomed
      OBVIOUS
    <3>1. level < depth /\ ~resets /\ d_row_number'[depth] # -1
      BY <1>2 DEF Doomed
    <3>2. d_row_number'[depth] = d_row_number[depth]
      BY <1>1, <1>4, <3>1
    <3>. QED  BY <1>2, <3>1, <3>2 DEF Doomed
  <2>2. Doomed' => level < depth /\ d_row_number'[depth] = d_row_number[depth]
    <3>1. Doomed' => level < depth /\ ~resets
      BY <1>2 DEF Doomed
    <3>. QED  BY <1>1, <1>4, <3>1
  <2>. QED  BY <1>1, <1>2, <2>1, <2>2 DEF DoomedLeaf, Leaf
<1>11. FirstInHand'
  <2>1. at' = "row" => \A L \in Levels : L >= level => d_read_p'[L]
    BY <1>4, <1>7 DEF Below
  <2>. QED  BY <1>1, <1>2, <1>7, <2>1 DEF FirstInHand
<1>12. Targets'
  <2>1. ASSUME NEW L \in 1 .. depth, Active(L)'
        PROVE  /\ OnTarget(limit[L], i[L])
               /\ \A n \in Nat : d_row_number'[L] < n /\ n < i[L] => ~Limited(limit[L], n)
               /\ d_row_number'[L] = i[L] /\ (L < level \/ at' # "row") => limit[L].stride = 0
    <3>1. CASE L = level
      <4>1. Active(level)
        BY DEF Active
      <4>2. /\ OnTarget(limit[level], i[level])
            /\ \A n \in Nat : number < n /\ n < i[level] => ~Limited(limit[level], n)
        BY <1>1, <4>1 DEF Targets
      <4>3. \A n \in Nat : counted < n => number < n
        BY <1>3
      <4>. QED  BY <1>1, <1>4, <1>7, <3>1, <4>2, <4>3
    <3>2. CASE L # level
      <4>1. L < level /\ L \in Levels
        BY <1>1, <1>2, <2>1, <3>2 DEF Active
      <4>2. Active(L) /\ d_row_number'[L] = d_row_number[L]
        BY <1>4, <3>2, <4>1 DEF Active
      <4>. QED  BY <4>1, <4>2 DEF Targets
    <3>. QED  BY <3>1, <3>2
  <2>. QED  BY <1>2, <2>1 DEF Targets
<1>13. NumbersCount'
  <2>1. ASSUME NEW L \in 1 .. depth, L < level
        PROVE  d_row_number'[L] = Number(L, line) /\ Limited(limit[L], d_row_number'[L])
    <3>1. row \in 1 .. Len(table) /\ L \in Levels /\ L # level
      BY <1>1, <2>1 DEF FirstInHand
    <3>2. Number(L, line) = Number(L, row)
      <4>1. RowAt(L, line) = RowAt(L, row)
        BY <1>1, <2>1
      <4>. QED  BY <3>1, <4>1, NumberStays
    <3>3. d_row_number'[L] = d_row_number[L]
      BY <1>4, <2>1, <3>1
    <3>. QED  BY <2>1, <3>2, <3>3 DEF NumbersCount
  <2>. QED  BY <1>2, <1>4, <1>5, <2>1 DEF NumbersCount
<1>14. FilledWerePut'
  <2>1. ASSUME NEW L \in 1 .. Len(values) - 1
        PROVE  Placed(L, line) \in ToSet(received)
    <3>1. PICK n \in 0 .. level : Len(values) = n
      BY FillingIs
    <3>2. L \in 0 .. depth /\ L < level /\ L - 1 \in 0 .. depth /\ L - 1 < level
      BY <1>1, <3>1
    <3>3. Placed(L, line) = Placed(L, row)
      BY <3>2 DEF Placed
    <3>. QED  BY <3>3 DEF FilledWerePut
  <2>. QED  BY <1>2, <2>1 DEF FilledWerePut
<1>15. PassedWerePut'
  <2>1. \A m : HasBeenPut(m)' <=> HasBeenPut(m)
    BY <1>2 DEF HasBeenPut
  <2>. SUFFICES ASSUME ~FallsShort', NEW m \in 1 .. line, Selected(m), m = line => ~InHand'
                PROVE  HasBeenPut(m)
    BY <1>2, <2>1 DEF PassedWerePut
  <2>2. m # line
    BY <1>7, <1>9
  <2>3. CASE m < row
    BY <1>1, <2>3 DEF PassedWerePut
  <2>4. CASE m >= row
    <3>1. m \in row .. line - 1 /\ m >= 1
      BY <1>1, <2>2, <2>4
    <3>. QED  BY <3>1
  <2>. QED  BY <1>1, <2>3, <2>4
<1>16. PutWereSelected'
  BY <1>2 DEF PutWereSelected
<1>17. SkippedAreNotSelected'
  <2>. SUFFICES ASSUME at' = "read", NEW m \in line + 1 .. Len(table), RowAt(level, m) = RowAt(level, line), Selected(m)
                PROVE  FALSE
    <3>1. at' = "read" => IsThrough(level)'
      BY <1>2 DEF IsThrough
    <3>. QED  BY <1>2, <1>7, <3>1 DEF SkippedAreNotSelected
  <2>1. m \in 1 .. Len(table) /\ line <= m /\ m # line
    BY <1>1
  <2>2. Number(level, m) = counted
    BY <1>1, <1>5, <2>1, NumberStays
  <2>3. ~IsCounted(level, line)
    BY <1>1, <1>8, <2>2 DEF Selected
  <2>4. level = depth
    BY <2>3 DEF IsCounted
  <2>. QED  BY <2>1, <2>4, LeafRowIsLine
<1>. QED  BY <1>10, <1>11, <1>12, <1>13, <1>14, <1>15, <1>16, <1>17

LEMMA AdvanceIsNotDoomed ==
    ASSUME RequestOK, StateOK, NEW line, NEW number, Advance(line, number), UNCHANGED <<request, level>>
    PROVE  ~Doomed' \/ level < depth
<1>1. level \in Levels /\ level \in 1 .. depth /\ depth \in Nat
  BY LevelIs
<1>2. PICK found : d_read_p' = Below(d_read_p, found) /\ found \in BOOLEAN /\ at' = IF found THEN "row" ELSE "read"
  BY DEF Advance
<1>3. d_read_p'[level] = found
  BY <1>1, <1>2 DEF Below
<1>4. depth' = depth /\ level' = level
  BY RequestStays
<1>. QED  BY <1>1, <1>2, <1>3, <1>4 DEF Doomed

LEMMA RowInHandKeepsSInv ==
    ASSUME IInv, SInv, RowInHand
    PROVE  SInv'
<1>. USE DEF IInv, SInv
<1>1. /\ at = "read" /\ i[level] > d_row_number[level] /\ d_read_p[level]
      /\ Advance(row, d_row_number[level])
      /\ UNCHANGED <<request, row, level, i, values, received>>
  BY DEF RowInHand
<1>2. /\ level \in Levels /\ level \in Nat /\ level \in 1 .. depth /\ depth \in Nat /\ depth \in Levels
      /\ limit[depth] \in Limits /\ i[level] \in Nat /\ d_row_number[level] \in Int /\ d_row_number[depth] \in Int
      /\ row \in 0 .. Len(table) /\ Len(table) \in Nat
  BY LevelIs DEF StateOK, RequestOK
<1>3. ~(Leaf /\ Doomed)
  <2>. SUFFICES ASSUME Leaf, Doomed
                PROVE  FALSE
    OBVIOUS
  <2>1. i[depth] = limit[depth].start /\ d_row_number[depth] >= limit[depth].start /\ level = depth
    BY <1>1 DEF DoomedLeaf, Leaf
  <2>2. limit[depth].start \in Int
    BY <1>2, LimitIs
  <2>. QED  BY <1>1, <1>2, <2>1, <2>2
<1>4. row >= 1 /\ table[row].starts < level /\ d_row_number[level] = -1
  <2>1. InHand
    BY <1>1 DEF InHand
  <2>. QED  BY <1>1, <1>3, <2>1 DEF FirstInHand
<1>5. PICK line \in 1 .. Len(table), number \in Int : line = row /\ number = -1
  BY <1>2, <1>4
<1>6. level \in 2 .. depth /\ table[line].starts <= level
  <2>1. table[line].starts \in 1 .. depth
    BY LineIs
  <2>. QED  BY <1>2, <1>4, <1>5, <2>1
<1>7. Number(level, line) = number + (IF IsCounted(level, line) THEN 1 ELSE 0)
  <2>1. Number(level, line) = IF IsCounted(level, line) THEN 0 ELSE -1
    BY <1>4, <1>5, <1>6, NumberBegins
  <2>. QED  BY <1>5, <2>1
<1>8. ~Doomed' \/ level < depth
  BY <1>1, AdvanceIsNotDoomed
<1>9. FallsShort => FallsShort'
  BY DoomedStays DEF Next, FallsShort
<1>10. number < i[level] /\ number = d_row_number[level] /\ Advance(line, number) /\ row' = line /\ row <= line
  BY <1>1, <1>2, <1>4, <1>5
<1>11. ~FallsShort => \A m \in row .. line - 1 : m >= 1 /\ Selected(m) => HasBeenPut(m)
  BY <1>2, <1>5
<1>. QED  BY <1>1, <1>5, <1>6, <1>7, <1>8, <1>9, <1>10, <1>11, AdvanceKeepsSInv

LEMMA NextRowKeepsSInv ==
    ASSUME IInv, SInv, NextRow
    PROVE  SInv'
<1>. USE DEF IInv, SInv
<1>1. /\ at = "read" /\ i[level] > d_row_number[level] /\ ~d_read_p[level] /\ ~EndOfFile(level)
      /\ row' = Smallest(Following(level))
      /\ Advance(row', d_row_number[level])
      /\ UNCHANGED <<request, level, i, values, received>>
  BY DEF NextRow
<1>2. /\ level \in Levels /\ level \in Nat /\ level \in 1 .. depth /\ depth \in Nat /\ depth \in Levels
      /\ i[level] \in Nat /\ d_row_number[level] \in Int
      /\ row \in 0 .. Len(table) /\ Len(table) \in Nat /\ row \in Nat
  BY LevelIs DEF StateOK, RequestOK
<1>3. PICK line \in row + 1 .. Len(table) :
          /\ line = Smallest(Following(level)) /\ table[line].starts = level
          /\ \A m \in row + 1 .. line - 1 : table[m].starts > level
  BY <1>1, <1>2, NextLine
<1>4. PICK number \in Int : number = d_row_number[level] /\ number < i[level]
  BY <1>1, <1>2
<1>5. line \in 1 .. Len(table) /\ row <= line /\ line \in Nat
  BY <1>2, <1>3
<1>6. ASSUME NEW L \in 0 .. depth, L < level
      PROVE  RowAt(L, line) = RowAt(L, row)
  <2>1. ASSUME NEW m \in row + 1 .. line
        PROVE  table[m].starts > L /\ table[m].starts \in Int
    <3>1. m \in 1 .. Len(table) /\ (m = line \/ m \in row + 1 .. line - 1)
      BY <1>2, <1>3
    <3>2. table[m].starts >= level /\ table[m].starts \in Int
      BY <1>2, <1>3, <3>1, LineIs
    <3>. QED  BY <1>2, <1>6, <3>2
  <2>. QED  BY <1>2, <1>5, <2>1, RowStays
<1>7. Number(level, line) = number + (IF IsCounted(level, line) THEN 1 ELSE 0)
  <2>1. number = Number(level, row)
    BY <1>1, <1>4 DEF NumbersCount
  <2>2. RowAt(level - 1, line) = RowAt(level - 1, row) /\ table[line].starts <= level
    BY <1>2, <1>3, <1>6
  <2>3. Number(level, line) = Number(level, row) + (IF IsCounted(level, line) THEN 1 ELSE 0)
    BY <1>2, <1>3, <2>2, NumberGoesOn
  <2>. QED  BY <2>1, <2>3
<1>8. ~Doomed' \/ level < depth
  BY <1>1, AdvanceIsNotDoomed
<1>9. FallsShort => FallsShort'
  BY DoomedStays DEF Next, FallsShort
<1>10. ASSUME ~FallsShort, NEW m \in row .. line - 1, m >= 1, Selected(m)
       PROVE  HasBeenPut(m)
  <2>1. CASE m = row
    <3>1. m \in 1 .. row /\ ~InHand
      BY <1>1, <1>2, <1>10, <2>1 DEF InHand
    <3>. QED  BY <1>1, <1>10, <2>1, <3>1 DEF PassedWerePut
  <2>2. CASE m # row
    <3>1. m \in row + 1 .. line - 1 /\ m \in row + 1 .. Len(table) /\ m \in Nat
      BY <1>2, <1>3, <1>5, <2>2
    <3>2. row >= 1
      <4>1. SUFFICES ASSUME row = 0
                     PROVE  FALSE
        BY <1>2
      <4>2. level = 1 /\ 1 \in row + 1 .. line - 1 /\ table[1].starts = 1
        <5>1. ~(level > 1)
          BY <1>2, <4>1 DEF FirstInHand
        <5>. QED  BY <1>2, <1>5, <3>1, <4>1, <5>1 DEF RequestOK
      <4>. QED  BY <1>3, <4>2
    <3>3. ASSUME NEW p \in row + 1 .. m
          PROVE  table[p].starts > level /\ table[p].starts \in Int
      <4>1. p \in row + 1 .. line - 1 /\ p \in 1 .. Len(table)
        BY <1>2, <1>5, <3>1
      <4>. QED  BY <1>3, <4>1, LineIs
    <3>4. RowAt(level, m) = RowAt(level, row)
      <4>1. level \in 0 .. depth /\ row <= m
        BY <1>2, <3>1
      <4>. QED  BY <1>2, <3>1, <3>3, <4>1, RowStays
    <3>5. IsThrough(level)
      BY <1>1, <1>10, <3>2 DEF SkippedAreNotSelected
    <3>. QED  BY <1>10, <3>1, <3>4, <3>5 DEF IsThrough
  <2>. QED  BY <2>1, <2>2
<1>11. Advance(line, number) /\ row' = line /\ table[line].starts <= level
  BY <1>1, <1>2, <1>3, <1>4
<1>. QED  BY <1>1, <1>4, <1>5, <1>6, <1>7, <1>8, <1>9, <1>10, <1>11, AdvanceKeepsSInv

(* What a row of the leaf brings with it.                                  *)
LEMMA ReceivedIs ==
    ASSUME IInv, LeafRow
    PROVE  /\ \E n \in 1 .. depth :
                  Len(values) = n /\ \A r : r \in ToSet(received') <=>
                      r \in ToSet(received) \/ \E L \in n .. depth : r = Placed(L, row)
           /\ Len(values') = depth
<1>. USE DEF IInv
<1>1. at = "row" /\ Leaf /\ level = depth /\ received' = received \o [k \in DOMAIN Rows |-> Put(k)]
      /\ values' = Stack(Len(Rows))
  BY DEF LeafRow, InRange, Leaf
<1>2. depth \in Nat /\ depth >= 1 /\ received \in Seq([in : Int \X Int, row : Int \X Int])
  BY DepthIs DEF History
<1>3. PICK n \in 1 .. depth : Len(values) = n
  <2>1. PICK n \in 0 .. level : Len(values) = n
    BY FillingIs
  <2>2. n >= 1
    BY <1>1, <2>1 DEF Places
  <2>. QED  BY <1>1, <1>2, <2>1, <2>2
<1>4. PICK c \in Nat : c = depth - n + 1
  BY <1>2
<1>5. DOMAIN Rows = 1 .. c /\ Stack(Len(Rows)) = [k \in 1 .. depth |-> RowAt(k - 1, row)]
      /\ \A k \in 1 .. c : Put(k) = [in |-> RowAt(n + k - 2, row), row |-> RowAt(n + k - 1, row)]
  BY <1>1, <1>3, <1>4, PutIs
<1>6. ASSUME NEW k \in 1 .. c
      PROVE  Put(k) = Placed(n + k - 1, row)
  <2>1. n + k - 1 - 1 = n + k - 2
    BY <1>2
  <2>. QED  BY <1>5, <2>1 DEF Placed
<1>. DEFINE new == [k \in 1 .. c |-> Placed(n + k - 1, row)]
<1>7. received' = received \o new
  <2>1. [k \in DOMAIN Rows |-> Put(k)] = new
    BY <1>5, <1>6
  <2>. QED  BY <1>1, <2>1
<1>8. ASSUME NEW r
      PROVE  (\E k \in 1 .. c : r = new[k]) <=> \E L \in n .. depth : r = Placed(L, row)
  <2>1. \A k \in 1 .. c : n + k - 1 \in n .. depth /\ new[k] = Placed(n + k - 1, row)
    BY <1>2, <1>4
  <2>2. ASSUME NEW L \in n .. depth
        PROVE  \E k \in 1 .. c : new[k] = Placed(L, row)
    <3>1. L - n + 1 \in 1 .. c /\ n + (L - n + 1) - 1 = L
      BY <1>2, <1>4
    <3>. QED  BY <2>1, <3>1
  <2>. HIDE DEF new
  <2>. QED  BY <2>1, <2>2
<1>9. Len(received) \in Nat /\ DOMAIN received = 1 .. Len(received)
  BY <1>2
<1>. DEFINE S == [in : Int \X Int, row : Int \X Int] \cup {new[k] : k \in 1 .. c}
<1>10. received \in Seq(S) /\ new \in Seq(S) /\ Len(new) = c /\ DOMAIN new = 1 .. c
  <2>1. new = [k \in 1 .. c |-> new[k]]
    OBVIOUS
  <2>. HIDE DEF new
  <2>2. \A k \in 1 .. c : new[k] \in S
    OBVIOUS
  <2>3. received \in Seq(S)
    <3>1. \A k \in 1 .. Len(received) : received[k] \in S
      BY <1>2, <1>9, ElementOfSeq
    <3>2. received = [k \in 1 .. Len(received) |-> received[k]]
      BY <1>2
    <3>. HIDE DEF S
    <3>. QED  BY <1>9, <3>1, <3>2
  <2>. HIDE DEF S
  <2>. QED  BY <1>4, <2>1, <2>2, <2>3
<1>. HIDE DEF new, S
<1>11. /\ DOMAIN (received \o new) = 1 .. Len(received) + c
       /\ \A k \in 1 .. Len(received) + c :
              (received \o new)[k] = IF k <= Len(received) THEN received[k] ELSE new[k - Len(received)]
  BY <1>4, <1>9, <1>10
<1>12. ASSUME NEW r
       PROVE  r \in ToSet(received \o new) <=> r \in ToSet(received) \/ \E k \in 1 .. c : r = new[k]
  <2>1. ASSUME NEW k \in 1 .. Len(received) + c, r = (received \o new)[k]
        PROVE  r \in ToSet(received) \/ \E j \in 1 .. c : r = new[j]
    <3>1. CASE k <= Len(received)
      <4>1. k \in DOMAIN received /\ r = received[k]
        BY <1>9, <1>11, <2>1, <3>1
      <4>. QED  BY <4>1 DEF ToSet
    <3>2. CASE ~(k <= Len(received))
      <4>1. k - Len(received) \in 1 .. c /\ r = new[k - Len(received)]
        BY <1>9, <1>11, <2>1, <3>2
      <4>. QED  BY <4>1
    <3>. QED  BY <3>1, <3>2
  <2>2. ASSUME NEW k \in DOMAIN received
        PROVE  received[k] \in ToSet(received \o new)
    <3>1. k \in DOMAIN (received \o new) /\ (received \o new)[k] = received[k]
      BY <1>4, <1>9, <1>11
    <3>. QED  BY <3>1 DEF ToSet
  <2>3. ASSUME NEW k \in 1 .. c
        PROVE  new[k] \in ToSet(received \o new)
    <3>1. Len(received) + k \in DOMAIN (received \o new) /\ (received \o new)[Len(received) + k] = new[k]
      BY <1>4, <1>9, <1>11
    <3>. QED  BY <3>1 DEF ToSet
  <2>4. r \in ToSet(received \o new) => \E k \in 1 .. Len(received) + c : r = (received \o new)[k]
    BY <1>11 DEF ToSet
  <2>5. r \in ToSet(received) => \E k \in DOMAIN received : r = received[k]
    BY DEF ToSet
  <2>. QED  BY <2>1, <2>2, <2>3, <2>4, <2>5
<1>13. Len(values') = depth
  BY <1>1, <1>2, <1>5
<1>14. \A r : r \in ToSet(received') <=> r \in ToSet(received) \/ \E L \in n .. depth : r = Placed(L, row)
  BY <1>7, <1>8, <1>12
<1>. QED  BY <1>3, <1>13, <1>14

LEMMA LeafRowKeepsSInv ==
    ASSUME IInv, SInv, LeafRow
    PROVE  SInv'
<1>. USE DEF SInv
<1>1. /\ at = "row" /\ level = depth /\ at' = "read"
      /\ ~is_end_of_rows(i[level], limit[level].stop)
      /\ d_read_p' = Below(d_read_p, FALSE)
      /\ i' = [i EXCEPT ![level] = i[level] + limit[level].stride]
      /\ UNCHANGED <<request, row, level, d_row_number>>
  BY DEF LeafRow, InRange, Leaf
<1>2. /\ level \in Levels /\ level \in Nat /\ level \in 1 .. depth /\ depth \in Nat
      /\ limit[level] \in Limits /\ Levels = 1 .. MaxDepth /\ MaxDepth \in Nat /\ i[level] \in Nat
      /\ row \in 0 .. Len(table) /\ Len(table) \in Nat
  BY LevelIs DEF IInv, StateOK, RequestOK
<1>3. /\ depth' = depth /\ table' = table /\ limit' = limit /\ resets' = resets
      /\ row' = row /\ level' = level /\ d_row_number' = d_row_number
      /\ \A L, k : RowAt(L, k)' = RowAt(L, k)
      /\ \A L, k : Number(L, k)' = Number(L, k)
      /\ \A L, k : Placed(L, k)' = Placed(L, k)
      /\ \A k : Selected(k)' <=> Selected(k)
      /\ SelectedRows' = SelectedRows
      /\ \A L : IsThrough(L)' <=> IsThrough(L)
  BY <1>1, RequestStays, SelectionStays, ThroughStays DEF IInv
<1>4. i'[level] = i[level] + limit[level].stride /\ \A L \in Levels : L # level => i'[L] = i[L]
  <2>1. i \in [Levels -> Nat]
    BY DEF IInv, StateOK
  <2>. QED  BY ONLY <1>1, <1>2, <2>1
<1>5. ~d_read_p'[level]
  <2>1. d_read_p'[level] = FALSE
    BY <1>1, <1>2 DEF Below
  <2>. QED  BY <2>1
<1>6. ~InHand' /\ ~Doomed /\ ~Doomed'
  <2>1. at = "row" /\ at' = "read" /\ level' = level /\ level = depth /\ depth' = depth /\ ~(level < depth)
    BY <1>1, <1>2, <1>3
  <2>. QED  BY ONLY <1>5, <2>1 DEF InHand, Doomed
<1>7. row \in 1 .. Len(table) /\ d_row_number[level] = i[level] /\ Number(level, row) = i[level]
      /\ table[row].selected
  <2>1. d_row_number[level] = i[level] /\ d_row_number[level] = Number(level, row)
    BY <1>1 DEF IInv, NumbersRestart, NumbersCount
  <2>2. d_row_number[level] <= row - 1
    BY <1>2 DEF IInv, NumbersBelowRow
  <2>3. table[row].selected
    BY <1>1 DEF IInv, History, Leaf
  <2>. QED  BY <1>2, <2>1, <2>2, <2>3
<1>8. OnTarget(limit[level], i[level])
  BY <1>1, <1>2 DEF Active, Targets
<1>9. Selected(row)
  <2>1. Limited(limit[level], i[level])
    BY <1>1, <1>2, <1>8, TargetIsLimited
  <2>2. ASSUME NEW L \in 1 .. depth
        PROVE  Limited(limit[L], Number(L, row))
    <3>1. CASE L < level
      BY <3>1 DEF NumbersCount
    <3>2. CASE L = level
      BY <1>7, <2>1, <3>2
    <3>. QED  BY <1>1, <1>2, <3>1, <3>2
  <2>. QED  BY <1>7, <2>2 DEF Selected
<1>10. PICK n \in 1 .. depth :
           Len(values) = n /\ \A r : r \in ToSet(received') <=>
               r \in ToSet(received) \/ \E L \in n .. depth : r = Placed(L, row)
  BY ReceivedIs
<1>11. Len(values') = depth
  BY ReceivedIs
<1>12. ASSUME NEW L \in 1 .. depth
       PROVE  Placed(L, row) \in ToSet(received')
  <2>1. CASE L < n
    <3>1. L \in 1 .. Len(values) - 1
      BY <1>2, <1>10, <2>1
    <3>. QED  BY <1>10, <3>1 DEF FilledWerePut
  <2>2. CASE ~(L < n)
    <3>1. L \in n .. depth
      BY <1>2, <2>2
    <3>. QED  BY <1>10, <3>1
  <2>. QED  BY <2>1, <2>2
<1>13. ASSUME NEW m \in 1 .. row, Selected(m), NEW L \in 1 .. depth
       PROVE  Placed(L, m) \in ToSet(received')
  <2>1. CASE m = row
    BY <1>12, <2>1
  <2>2. CASE m # row
    <3>1. HasBeenPut(m)
      BY <1>1, <1>6, <1>13, <2>2 DEF PassedWerePut, FallsShort
    <3>. QED  BY <1>10, <3>1 DEF HasBeenPut
  <2>. QED  BY <2>1, <2>2
<1>14. DoomedLeaf'
  BY <1>6 DEF DoomedLeaf
<1>15. FirstInHand'
  BY <1>1, <1>3, <1>6, <1>7 DEF FirstInHand
<1>16. Targets'
  <2>1. /\ OnTarget(limit[level], i'[level])
        /\ \A k \in Nat : d_row_number[level] < k /\ k < i'[level] => ~Limited(limit[level], k)
        /\ d_row_number[level] = i'[level] => limit[level].stride = 0
    <3>1. limit[level].stride \in Nat
      BY <1>2, LimitIs
    <3>2. OnTarget(limit[level], i[level] + limit[level].stride)
          /\ \A k \in Nat : i[level] < k /\ k < i[level] + limit[level].stride => ~Limited(limit[level], k)
      BY <1>2, <1>8, NextTarget
    <3>. QED  BY <1>2, <1>4, <1>7, <3>1, <3>2
  <2>2. ASSUME NEW L \in 1 .. depth
        PROVE  /\ OnTarget(limit[L], i'[L])
               /\ \A k \in Nat : d_row_number[L] < k /\ k < i'[L] => ~Limited(limit[L], k)
               /\ d_row_number[L] = i'[L] => limit[L].stride = 0
    <3>1. CASE L = level
      BY <2>1, <3>1
    <3>2. CASE L # level
      <4>1. L < level /\ L \in Levels
        BY <1>1, <1>2, <3>2
      <4>2. Active(L) /\ i'[L] = i[L]
        BY <1>4, <3>2, <4>1 DEF Active
      <4>. QED  BY <4>1, <4>2 DEF Targets
    <3>. QED  BY <3>1, <3>2
  <2>. QED  BY <1>3, <2>2 DEF Targets
<1>17. NumbersCount'
  BY <1>3, <1>7 DEF NumbersCount
<1>18. FilledWerePut'
  <2>1. \A L \in 1 .. Len(values') - 1 : L \in 1 .. depth
    BY <1>2, <1>11
  <2>. QED  BY <1>3, <1>12, <2>1 DEF FilledWerePut
<1>19. PassedWerePut'
  <2>1. \A m \in 1 .. row, L \in 1 .. depth : Selected(m) => Placed(L, m) \in ToSet(received')
    BY <1>13
  <2>. QED  BY <1>3, <2>1 DEF PassedWerePut, HasBeenPut
<1>20. SkippedAreNotSelected'
  <2>1. IsThrough(level)
    <3>1. ASSUME NEW m \in row + 1 .. Len(table)
          PROVE  RowAt(depth, m) # RowAt(depth, row)
      <4>1. m \in 1 .. Len(table) /\ m # row
        BY <1>2
      <4>2. RowAt(depth, m)[2] = m /\ RowAt(depth, row)[2] = row
        BY <1>7, <4>1, LeafRowIsLine DEF IInv
      <4>. QED  BY <4>1, <4>2
    <3>. QED  BY <1>1, <3>1 DEF IsThrough
  <2>. QED  BY <1>1, <1>3, <2>1 DEF SkippedAreNotSelected
<1>21. PutWereSelected'
  <2>1. ASSUME NEW r, r \in ToSet(received')
        PROVE  r \in SelectedRows
    <3>1. CASE r \in ToSet(received)
      BY <3>1 DEF PutWereSelected
    <3>2. CASE \E L \in n .. depth : r = Placed(L, row)
      <4>1. PICK L \in n .. depth : r = Placed(L, row)
        BY <3>2
      <4>2. L \in 1 .. depth /\ row \in {m \in DOMAIN table : Selected(m)}
        BY <1>2, <1>7, <1>9, <4>1 DEF IInv, RequestOK
      <4>. QED  BY <4>1, <4>2 DEF SelectedRows
    <3>. QED  BY <1>10, <2>1, <3>1, <3>2
  <2>2. ASSUME NEW r \in SelectedRows, NEW k \in DOMAIN received', Before(r.row, received'[k].row)
        PROVE  r \in ToSet(received')
    <3>1. PICK M \in 1 .. depth, m \in 1 .. Len(table) : Selected(m) /\ r = Placed(M, m)
      <4>1. DOMAIN table = 1 .. Len(table)
        BY DEF IInv, RequestOK
      <4>. QED  BY <4>1 DEF SelectedRows
    <3>2. PICK got : got = received'[k]
      OBVIOUS
    <3>3. got.row[2] \in Int /\ got.row[2] <= row
      <4>1. IInv'
        BY LeafRowKeepsIInv
      <4>2. received' \in Seq([in : Int \X Int, row : Int \X Int])
            /\ \A j \in DOMAIN received' : received'[j].row[2] <= row
        <5>1. History'
          BY <4>1 DEF IInv
        <5>2. row' = row
          BY <1>3
        <5>. QED  BY ONLY <5>1, <5>2 DEF History
      <4>3. k \in 1 .. Len(received')
        <5>1. PICK s \in Seq([in : Int \X Int, row : Int \X Int]) : s = received'
          BY <4>2
        <5>2. DOMAIN s = 1 .. Len(s)
          OBVIOUS
        <5>. QED  BY <5>1, <5>2
      <4>4. received'[k] \in [in : Int \X Int, row : Int \X Int]
        BY <4>2, <4>3, ElementOfSeq
      <4>. QED  BY <3>2, <4>2, <4>4
    <3>4. RowAt(M, m)[2] <= row
      <4>1. RowAt(M, m)[2] \in 1 .. m
        BY <3>1, RowAtIs DEF IInv
      <4>2. Before(RowAt(M, m), got.row)
        BY <2>2, <3>1, <3>2 DEF Placed
      <4>. QED  BY <1>2, <3>3, <4>1, <4>2 DEF Before
    <3>5. CASE m <= row
      <4>1. m \in 1 .. row
        BY <1>2, <3>5
      <4>. QED  BY <1>13, <3>1, <4>1
    <3>6. CASE ~(m <= row)
      <4>1. m \in row .. Len(table) /\ m \in row .. m /\ M \in 0 .. depth /\ M - 1 \in 0 .. M
        BY <1>2, <3>6
      <4>2. RowAt(M, m) = RowAt(M, row)
        BY <1>7, <3>4, <4>1, RowOfEarlierLine DEF IInv
      <4>3. RowAt(M - 1, m) = RowAt(M - 1, row)
        BY <1>7, <4>1, <4>2, SameRowBetween DEF IInv
      <4>. QED  BY <1>12, <3>1, <4>2, <4>3 DEF Placed
    <3>. QED  BY <3>5, <3>6
  <2>3. PICK got : got = received'
    OBVIOUS
  <2>. QED  BY <1>3, <2>1, <2>2 DEF PutWereSelected
<1>. QED  BY <1>14, <1>15, <1>16, <1>17, <1>18, <1>19, <1>20, <1>21

-----------------------------------------------------------------------------
(* The second invariant holds.                                             *)

LEMMA InitIsSInv ==
    ASSUME Init
    PROVE  SInv
<1>. USE DEF Init
<1>1. RequestOK
  BY InitIsIInv DEF IInv
<1>2. depth \in 1 .. MaxDepth /\ MaxDepth \in Nat /\ Levels = 1 .. MaxDepth /\ Len(table) \in Nat
  BY <1>1, DepthIs DEF Levels, RequestOK
<1>3. row = 0 /\ level = 1 /\ at = "call" /\ ~d_read_p[1] /\ ~InHand /\ ~Doomed
      /\ d_row_number[1] = -1 /\ Len(values) = 1 /\ DOMAIN received = {}
  BY <1>2 DEF InHand, Doomed
<1>4. Number(1, 0) = -1
  <2>1. Counted(1, 0) = {}
    BY DEF Counted
  <2>2. Cardinality(Counted(1, 0)) = 0
    BY <2>1, FS_EmptySet
  <2>3. Number(1, 0) = 0 - 1
    BY ONLY <2>2 DEF Number
  <2>. QED  BY <2>3
<1>5. DoomedLeaf /\ FirstInHand /\ Targets
  <2>1. \A L \in 1 .. depth : ~Active(L)
    BY <1>2, <1>3 DEF Active
  <2>. QED  BY <1>3, <2>1 DEF DoomedLeaf, FirstInHand, Targets
<1>6. NumbersCount
  <2>1. \A L \in 1 .. depth : ~(L < level)
    BY <1>2, <1>3
  <2>. QED  BY <1>3, <1>4, <2>1 DEF NumbersCount
<1>7. FilledWerePut /\ PassedWerePut /\ SkippedAreNotSelected
  <2>1. ~(\E L \in 1 .. Len(values) - 1 : TRUE) /\ ~(\E m \in 1 .. row : TRUE)
    BY <1>3
  <2>. QED  BY <1>3, <2>1 DEF FilledWerePut, PassedWerePut, SkippedAreNotSelected
<1>8. PutWereSelected
  BY <1>3 DEF PutWereSelected, ToSet
<1>. QED  BY <1>5, <1>6, <1>7, <1>8 DEF SInv

LEMMA NextKeepsSInv ==
    ASSUME IInv, SInv, [Next]_vars
    PROVE  SInv'
<1>1. CASE Next
  BY <1>1, CallKeepsSInv, BackUpKeepsSInv, SameRowKeepsSInv, RowInHandKeepsSInv, NextRowKeepsSInv,
     NoMoreRowsKeepsSInv, ParentRowKeepsSInv, ReturnKeepsSInv, LeafRowKeepsSInv, LeaveKeepsSInv DEF Next
<1>2. CASE UNCHANGED vars
  <2>1. /\ depth' = depth /\ table' = table /\ limit' = limit /\ resets' = resets
        /\ row' = row /\ level' = level /\ at' = at /\ i' = i /\ d_row_number' = d_row_number
        /\ d_read_p' = d_read_p /\ values' = values /\ received' = received
        /\ \A L, k : RowAt(L, k)' = RowAt(L, k)
        /\ \A L, k : Number(L, k)' = Number(L, k)
        /\ \A L, k : Placed(L, k)' = Placed(L, k)
        /\ \A k : Selected(k)' <=> Selected(k)
        /\ SelectedRows' = SelectedRows
        /\ (StopsShort' <=> StopsShort)
        /\ \A L : IsThrough(L)' <=> IsThrough(L)
    BY <1>2, RequestStays, SelectionStays, ThroughStays DEF vars, marks, IInv
  <2>2. (InHand' <=> InHand) /\ (Doomed' <=> Doomed) /\ (FallsShort' <=> FallsShort)
        /\ \A L : Active(L)' <=> Active(L)
    BY <2>1 DEF InHand, Doomed, FallsShort, Active
  <2>3. \A m : HasBeenPut(m)' <=> HasBeenPut(m)
    BY <2>1 DEF HasBeenPut
  <2>4. DoomedLeaf' /\ FirstInHand' /\ Targets' /\ NumbersCount'
    BY <2>1, <2>2 DEF SInv, DoomedLeaf, FirstInHand, Targets, NumbersCount, Leaf
  <2>5. FilledWerePut' /\ PassedWerePut' /\ SkippedAreNotSelected' /\ PutWereSelected'
    BY <2>1, <2>2, <2>3 DEF SInv, FilledWerePut, PassedWerePut, SkippedAreNotSelected, PutWereSelected
  <2>. QED  BY <2>4, <2>5 DEF SInv
<1>. QED  BY <1>1, <1>2

LEMMA SpecSInv == Spec => [](IInv /\ SInv)
<1>1. ASSUME Init
      PROVE  IInv /\ SInv
  BY <1>1, InitIsIInv, InitIsSInv
<1>2. ASSUME IInv /\ SInv, [Next]_vars
      PROVE  (IInv /\ SInv)'
  BY <1>2, NextKeepsIInv, NextKeepsSInv
<1>. QED  BY <1>1, <1>2, PTL DEF Spec

(* At any time the rows that have been put are the selected ones up to the *)
(* last of them, and in the end they are all there are.                    *)
LEMMA FilledIs ==
    ASSUME IInv, SInv
    PROVE  Filled
<1>1. InOrder(received) /\ RequestOK /\ StateOK
  BY DEF IInv, History
<1>2. ASSUME at = "done", ~StopsShort, NEW r \in SelectedRows
      PROVE  r \in ToSet(received)
  <2>1. PICK L \in 1 .. depth, m \in 1 .. Len(table) : Selected(m) /\ r = Placed(L, m)
    <3>1. DOMAIN table = 1 .. Len(table)
      BY <1>1 DEF RequestOK
    <3>. QED  BY <3>1 DEF SelectedRows
  <2>2. ~FallsShort /\ ~InHand /\ row \in 0 .. Len(table) /\ Len(table) \in Nat
    BY <1>1, <1>2 DEF FallsShort, InHand, StateOK, RequestOK
  <2>3. m \in 1 .. row
    <3>1. IsThrough(0)
      BY <1>2, <2>2 DEF SInv, SkippedAreNotSelected
    <3>2. ASSUME NEW k \in row + 1 .. Len(table)
          PROVE  ~Selected(k)
      BY <3>1, TopIs DEF IsThrough
    <3>3. m \in 1 .. row \/ m \in row + 1 .. Len(table)
      BY <2>2
    <3>. QED  BY <2>1, <3>2, <3>3
  <2>4. HasBeenPut(m)
    BY <1>2, <2>1, <2>2, <2>3 DEF SInv, PassedWerePut
  <2>. QED  BY <2>1, <2>4 DEF HasBeenPut
<1>. QED  BY <1>1, <1>2 DEF Filled, SInv, PutWereSelected


(* The client gets the rows that the constraint selects, each in the       *)
(* Sequence that is in its parent's row, in order, none twice and nothing  *)
(* else; when serialize returns none is left out, unless a stride of 0     *)
(* stops a leaf short, and the client has left every Sequence.             *)
THEOREM SpecClientGetsSelection == Spec => []ClientGetsSelection
<1>1. ASSUME IInv, SInv
      PROVE  ClientGetsSelection
  <2>1. at = "done" /\ mode = "serialize" => values = <<>>
    BY <1>1, FillingIs DEF IInv, Places
  <2>. QED  BY <1>1, <2>1, FilledIs DEF ClientGetsSelection
<1>. QED  BY <1>1, SpecSInv, PTL

(* intern_data does what it says it simulates: without a client and a      *)
(* stream, the same rows get into the same Sequences.                      *)
THEOREM SpecInternGetsSelection == Spec => []InternGetsSelection
<1>1. ASSUME IInv, SInv
      PROVE  InternGetsSelection
  BY <1>1, FilledIs DEF InternGetsSelection
<1>. QED  BY <1>1, SpecSInv, PTL
=============================================================================
