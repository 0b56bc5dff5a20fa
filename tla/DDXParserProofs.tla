-------------------------- MODULE DDXParserProofs --------------------------
(***************************************************************************)
(* Proofs about DDXParser, for documents of any length over any start      *)
(* tags.  The lemmas say what one push or pop does to the stack of states  *)
(* (StackOK) and to the three stacks together (InStep); each callback is   *)
(* a few pushes and pops.  The last part relates the stacks to the open    *)
(* elements of a document without errors (InDocument).                     *)
(***************************************************************************)
EXTENDS DDXParser, FiniteSetTheorems, SequenceTheorems, TLAPS

-----------------------------------------------------------------------------
(* Counting.                                                               *)

(* What is counted is finite, and the count of an empty prefix is zero.    *)
LEMMA CountIsNat ==
    ASSUME NEW stack, NEW states, NEW n \in Nat
    PROVE  /\ Count(stack, states, n) \in Nat
           /\ IsFiniteSet({i \in 1 .. n : stack[i] \in states})
           /\ Count(stack, states, 0) = 0
<1> DEFINE P(m) == {i \in 1 .. m : stack[i] \in states}
<1>1. IsFiniteSet(1 .. n)  BY FS_Interval
<1>2. P(n) \subseteq 1 .. n  OBVIOUS
<1>3. IsFiniteSet(P(n)) /\ Cardinality(P(n)) \in Nat
  BY <1>1, <1>2, FS_Subset, FS_CardinalityType
<1>4. P(0) = {}  OBVIOUS
<1>5. Cardinality(P(0)) = 0  BY <1>4, FS_EmptySet
<1>. QED  BY <1>3, <1>5 DEF Count

(* One more state is counted if it is one of those looked for.             *)
LEMMA CountNext ==
    ASSUME NEW stack, NEW states, NEW n \in Nat
    PROVE  Count(stack, states, n + 1)
             = Count(stack, states, n) + (IF stack[n + 1] \in states THEN 1 ELSE 0)
<1> DEFINE P(m) == {i \in 1 .. m : stack[i] \in states}
<1>1. IsFiniteSet(P(n)) /\ Cardinality(P(n)) \in Nat  BY CountIsNat DEF Count
<1>2. CASE stack[n + 1] \in states
  <2>1. P(n + 1) = P(n) \cup {n + 1}  BY <1>2
  <2>2. n + 1 \notin P(n)  OBVIOUS
  <2>3. Cardinality(P(n + 1)) = Cardinality(P(n)) + 1  BY <1>1, <2>1, <2>2, FS_AddElement
  <2>. QED  BY <1>2, <2>3 DEF Count
<1>3. CASE stack[n + 1] \notin states
  <2>1. P(n + 1) = P(n)  BY <1>3
  <2>. QED  BY <1>1, <1>3, <2>1 DEF Count
<1>. QED  BY <1>2, <1>3

(* The count of a prefix depends on the prefix only.                       *)
LEMMA CountSame ==
    ASSUME NEW a, NEW b, NEW states, NEW n \in Nat, \A i \in 1 .. n : a[i] = b[i]
    PROVE  Count(a, states, n) = Count(b, states, n)
<1>1. {i \in 1 .. n : a[i] \in states} = {i \in 1 .. n : b[i] \in states}  OBVIOUS
<1>. QED  BY <1>1 DEF Count

(* The count of a prefix is at most the count of the whole.                *)
LEMMA CountPrefix ==
    ASSUME NEW stack, NEW states, NEW n \in Nat, NEW k \in 0 .. n
    PROVE  Count(stack, states, k) <= Count(stack, states, n)
<1>1. IsFiniteSet({i \in 1 .. n : stack[i] \in states})  BY CountIsNat
<1>2. {i \in 1 .. k : stack[i] \in states} \subseteq {i \in 1 .. n : stack[i] \in states}
  OBVIOUS
<1>. QED  BY <1>1, <1>2, FS_Subset DEF Count

-----------------------------------------------------------------------------
(* The stack of states.                                                    *)

(* parser_start is at the bottom and nowhere else, and an error is there   *)
(* if one has been reported.                                               *)
StackOK(stack, failed) ==
    /\ stack \in Seq(States) /\ Len(stack) > 0
    /\ stack[1] = "parser_start"
    /\ \A i \in 2 .. Len(stack) : stack[i] # "parser_start"
    /\ failed => \E i \in 1 .. Len(stack) : stack[i] = "parser_error"

(* A push keeps that, and no error is new unless it is pushed.             *)
LEMMA PushOK ==
    ASSUME NEW stack, NEW failed, NEW now, StackOK(stack, failed),
           NEW x \in States, x # "parser_start", now => failed \/ x = "parser_error"
    PROVE  StackOK(Append(stack, x), now)
<1>1. stack \in Seq(States) /\ Len(stack) \in Nat  BY LenProperties DEF StackOK
<1>2. /\ Append(stack, x) \in Seq(States)
      /\ Len(Append(stack, x)) = Len(stack) + 1
      /\ \A i \in 1 .. Len(stack) : Append(stack, x)[i] = stack[i]
      /\ Append(stack, x)[Len(stack) + 1] = x
  BY <1>1, AppendProperties
<1>3. Append(stack, x)[1] = "parser_start"  BY <1>1, <1>2 DEF StackOK
<1>4. \A i \in 2 .. Len(stack) + 1 : Append(stack, x)[i] # "parser_start"
  BY <1>1, <1>2 DEF StackOK
<1>5. now => \E i \in 1 .. Len(stack) + 1 : Append(stack, x)[i] = "parser_error"
  <2>1. CASE failed  BY <1>1, <1>2, <2>1 DEF StackOK
  <2>2. CASE ~failed  BY <1>1, <1>2, <2>2
  <2>. QED  BY <2>1, <2>2
<1>. QED  BY <1>1, <1>2, <1>3, <1>4, <1>5 DEF StackOK

(* What a pop leaves, with the length as a number of its own, as the       *)
(* provers of arithmetic want it.                                          *)
LEMMA PopIs ==
    ASSUME NEW S, NEW stack \in Seq(S), NEW n \in Nat, n > 0, n = Len(stack)
    PROVE  /\ Pop(stack) \in Seq(S)
           /\ Len(Pop(stack)) = n - 1
           /\ \A i \in 1 .. n - 1 : Pop(stack)[i] = stack[i]
           /\ Top(stack) \in S
<1>1. \A i \in 1 .. n : stack[i] \in S  BY ElementOfSeq
<1>2. \A i \in 1 .. n - 1 : stack[i] \in S  BY <1>1
<1>3. Pop(stack) = SubSeq(stack, 1, n - 1)  BY DEF Pop
<1>4. n - 1 \in Int  OBVIOUS
<1>5. /\ Pop(stack) \in Seq(S)
      /\ Len(Pop(stack)) = IF 1 <= n - 1 THEN n - 1 - 1 + 1 ELSE 0
      /\ \A i \in 1 .. n - 1 - 1 + 1 : Pop(stack)[i] = stack[1 + i - 1]
  BY <1>2, <1>3, <1>4, SubSeqProperties
<1>6. Len(Pop(stack)) = n - 1  BY <1>5
<1>7. \A i \in 1 .. n - 1 : Pop(stack)[i] = stack[i]
  <2>1. SUFFICES ASSUME NEW i \in 1 .. n - 1 PROVE Pop(stack)[i] = stack[i]
    OBVIOUS
  <2>2. i \in 1 .. n - 1 - 1 + 1 /\ 1 + i - 1 = i  OBVIOUS
  <2>. QED  BY <1>5, <2>2
<1>8. Top(stack) \in S  BY <1>1 DEF Top
<1>. QED  BY <1>5, <1>6, <1>7, <1>8

(* A pop keeps it unless it takes an error away.                           *)
LEMMA PopOK ==
    ASSUME NEW stack, NEW failed, StackOK(stack, failed),
           Top(stack) \notin {"parser_start", "parser_error"}
    PROVE  StackOK(Pop(stack), failed)
<1>1. stack \in Seq(States) /\ Len(stack) > 0  BY DEF StackOK
<1>2. PICK n \in Nat : n = Len(stack)  BY <1>1, LenProperties
<1>3. /\ n > 1 /\ stack[1] = "parser_start" /\ Top(stack) = stack[n]
      /\ \A i \in 2 .. n : stack[i] # "parser_start"
      /\ failed => \E i \in 1 .. n : stack[i] = "parser_error"
  BY <1>1, <1>2 DEF StackOK, Top
<1>4. /\ Pop(stack) \in Seq(States) /\ Len(Pop(stack)) = n - 1
      /\ \A i \in 1 .. n - 1 : Pop(stack)[i] = stack[i]
  BY <1>1, <1>2, <1>3, PopIs
<1>5. \A i \in 2 .. n - 1 : Pop(stack)[i] # "parser_start"  BY <1>3, <1>4
<1>6. failed => \E i \in 1 .. n - 1 : Pop(stack)[i] = "parser_error"  BY <1>3, <1>4
<1>7. Pop(stack)[1] = "parser_start"  BY <1>3, <1>4
<1>. QED  BY <1>3, <1>4, <1>5, <1>6, <1>7 DEF StackOK

-----------------------------------------------------------------------------
(* The three stacks.                                                       *)

(* StacksInStep of any three stacks.                                       *)
InStep(stack, variables, tables) ==
    /\ Len(variables) = 1 + Count(stack, VariableStates, Len(stack))
    /\ Len(tables) = 1 + Count(stack, TableStates, Len(stack))
    /\ \A i \in 1 .. Len(stack) : stack[i] \in VariableStates =>
         variables[1 + Count(stack, VariableStates, i)].type = StateType(stack[i])

(* A push adds one to the count of the whole and leaves those of prefixes. *)
LEMMA PushCounts ==
    ASSUME NEW n \in Nat, NEW stack, NEW pushed, NEW x, NEW states,
           \A i \in 1 .. n : pushed[i] = stack[i], pushed[n + 1] = x
    PROVE  /\ \A i \in 0 .. n : Count(pushed, states, i) = Count(stack, states, i)
           /\ Count(pushed, states, n + 1)
                = Count(stack, states, n) + (IF x \in states THEN 1 ELSE 0)
<1>1. ASSUME NEW i \in 0 .. n
      PROVE  Count(pushed, states, i) = Count(stack, states, i)
  <2>1. (\A j \in 1 .. i : pushed[j] = stack[j]) /\ i \in Nat  OBVIOUS
  <2>. QED  BY <2>1, CountSame
<1>2. Count(pushed, states, n + 1)
        = Count(pushed, states, n) + (IF pushed[n + 1] \in states THEN 1 ELSE 0)
  BY CountNext
<1>3. n \in 0 .. n  OBVIOUS
<1>. QED  BY <1>1, <1>2, <1>3

(* A pop takes one from it.                                                *)
LEMMA PopCounts ==
    ASSUME NEW stack \in Seq(States), NEW states,
           NEW n \in Nat, n > 0, n = Len(stack)
    PROVE  /\ \A i \in 0 .. n - 1 : Count(Pop(stack), states, i) = Count(stack, states, i)
           /\ Count(stack, states, n)
                = Count(stack, states, n - 1) + (IF Top(stack) \in states THEN 1 ELSE 0)
<1>1. \A i \in 1 .. n - 1 : Pop(stack)[i] = stack[i]  BY PopIs
<1>2. ASSUME NEW i \in 0 .. n - 1
      PROVE  Count(Pop(stack), states, i) = Count(stack, states, i)
  <2>1. \A j \in 1 .. i : Pop(stack)[j] = stack[j]  BY <1>1
  <2>2. i \in Nat  OBVIOUS
  <2>. QED  BY <2>1, <2>2, CountSame
<1>3. n - 1 \in Nat /\ n - 1 + 1 = n  OBVIOUS
<1>4. Count(stack, states, n - 1 + 1)
        = Count(stack, states, n - 1) + (IF stack[n - 1 + 1] \in states THEN 1 ELSE 0)
  BY <1>3, CountNext
<1>. QED  BY <1>2, <1>3, <1>4 DEF Top

(* The stacks of variables and tables are not empty, and have two elements *)
(* while a variable is read.                                               *)
LEMMA StacksNotEmpty ==
    ASSUME NEW stack \in Seq(States), NEW variables, NEW tables,
           NEW n \in Nat, n > 0, n = Len(stack), InStep(stack, variables, tables)
    PROVE  /\ Len(variables) \in Nat /\ Len(variables) >= 1
           /\ Len(tables) \in Nat /\ Len(tables) >= 1
           /\ Top(stack) \in VariableStates =>
                /\ Len(variables) >= 2 /\ Len(tables) >= 2
                /\ Top(variables).type = StateType(Top(stack))
           /\ Top(stack) \in TableStates => Len(tables) >= 2
<1>1. \A states : Count(stack, states, n) \in Nat /\ Count(stack, states, n - 1) \in Nat
  <2>1. n - 1 \in Nat  OBVIOUS
  <2>. QED  BY <2>1, CountIsNat
<1>2. \A states : Count(stack, states, n)
                    = Count(stack, states, n - 1) + (IF Top(stack) \in states THEN 1 ELSE 0)
  BY PopCounts
<1>3. /\ Len(variables) = 1 + Count(stack, VariableStates, n)
      /\ Len(tables) = 1 + Count(stack, TableStates, n)
  BY DEF InStep
<1>4. Top(stack) \in VariableStates => Top(stack) \in TableStates  BY DEF TableStates
<1>5. Top(stack) \in VariableStates => Top(variables).type = StateType(Top(stack))
  BY <1>3 DEF InStep, Top
<1>. QED  BY <1>1, <1>2, <1>3, <1>4, <1>5

(* A state pushed together with its variable and its table.                *)
LEMMA PushInStep ==
    ASSUME NEW stack \in Seq(States), NEW variables, NEW tables,
           NEW n \in Nat, n > 0, n = Len(stack), InStep(stack, variables, tables),
           NEW x \in States, NEW v, NEW t,
           Len(v) = Len(variables) + (IF x \in VariableStates THEN 1 ELSE 0),
           Len(t) = Len(tables) + (IF x \in TableStates THEN 1 ELSE 0),
           \A i \in 1 .. Len(variables) : v[i].type = variables[i].type,
           x \in VariableStates => v[Len(variables) + 1].type = StateType(x)
    PROVE  InStep(Append(stack, x), v, t)
<1>1. PICK pushed : pushed = Append(stack, x)  OBVIOUS
<1>2. /\ Len(pushed) = n + 1 /\ pushed[n + 1] = x
      /\ \A i \in 1 .. n : pushed[i] = stack[i]
  BY <1>1, AppendProperties
<1>3. /\ \A states : \A i \in 0 .. n : Count(pushed, states, i) = Count(stack, states, i)
      /\ \A states : Count(pushed, states, n + 1)
                       = Count(stack, states, n) + (IF x \in states THEN 1 ELSE 0)
  <2>1. (\A i \in 1 .. n : pushed[i] = stack[i]) /\ pushed[n + 1] = x  BY <1>2
  <2>2. ASSUME NEW states
        PROVE  /\ \A i \in 0 .. n : Count(pushed, states, i) = Count(stack, states, i)
               /\ Count(pushed, states, n + 1)
                    = Count(stack, states, n) + (IF x \in states THEN 1 ELSE 0)
    BY ONLY n \in Nat, <2>1, PushCounts
  <2>. QED  BY ONLY <2>2
<1>4. \A states : \A i \in 0 .. n : /\ Count(stack, states, i) \in Nat
                                    /\ Count(stack, states, i) <= Count(stack, states, n)
  <2>1. ASSUME NEW states, NEW i \in 0 .. n
        PROVE  Count(stack, states, i) \in Nat /\ Count(stack, states, i) <= Count(stack, states, n)
    <3>1. i \in Nat  OBVIOUS
    <3>. QED  BY <3>1, CountIsNat, CountPrefix
  <2>. QED  BY <2>1
<1>5. /\ Len(variables) = 1 + Count(stack, VariableStates, n)
      /\ Len(tables) = 1 + Count(stack, TableStates, n)
      /\ \A i \in 1 .. n : stack[i] \in VariableStates =>
           variables[1 + Count(stack, VariableStates, i)].type = StateType(stack[i])
  BY DEF InStep
<1>6. /\ Len(v) = 1 + Count(pushed, VariableStates, n + 1)
      /\ Len(t) = 1 + Count(pushed, TableStates, n + 1)
  BY <1>3, <1>4, <1>5
<1>7. ASSUME NEW i \in 1 .. n + 1, pushed[i] \in VariableStates
      PROVE  v[1 + Count(pushed, VariableStates, i)].type = StateType(pushed[i])
  <2>1. CASE i = n + 1
    <3>1. Count(stack, VariableStates, n) \in Nat  BY <1>4
    <3>2. x \in VariableStates  BY <1>2, <1>7, <2>1
    <3>3. 1 + Count(pushed, VariableStates, i) = Len(variables) + 1
      BY <1>3, <1>5, <2>1, <3>1, <3>2
    <3>. QED  BY <1>2, <2>1, <3>2, <3>3
  <2>2. CASE i \in 1 .. n
    <3>1. PICK c \in Nat : c = Count(stack, VariableStates, i)  BY <1>4, <2>2
    <3>2. Count(pushed, VariableStates, i) = c  BY <1>3, <2>2, <3>1
    <3>3. 1 + c \in 1 .. Len(variables)  BY <1>4, <1>5, <2>2, <3>1
    <3>4. variables[1 + c].type = StateType(stack[i]) /\ pushed[i] = stack[i]
      BY <1>2, <1>5, <1>7, <2>2, <3>1
    <3>. QED  BY <3>2, <3>3, <3>4
  <2>. QED  BY <2>1, <2>2
<1>. QED  BY <1>1, <1>2, <1>6, <1>7 DEF InStep

(* A state popped together with its variable and its table.                *)
LEMMA PopInStep ==
    ASSUME NEW stack \in Seq(States), NEW variables, NEW tables,
           NEW n \in Nat, n > 0, n = Len(stack), InStep(stack, variables, tables),
           NEW v, NEW t,
           Len(v) = Len(variables) - (IF Top(stack) \in VariableStates THEN 1 ELSE 0),
           Len(t) = Len(tables) - (IF Top(stack) \in TableStates THEN 1 ELSE 0),
           \A i \in 1 .. Len(v) : v[i].type = variables[i].type
    PROVE  InStep(Pop(stack), v, t)
<1>1. PICK popped : popped = Pop(stack)  OBVIOUS
<1>2. /\ \A states : \A i \in 0 .. n - 1 : Count(popped, states, i) = Count(stack, states, i)
      /\ \A states : Count(stack, states, n)
                       = Count(stack, states, n - 1) + (IF Top(stack) \in states THEN 1 ELSE 0)
  BY ONLY stack \in Seq(States), n \in Nat, n > 0, n = Len(stack), <1>1, PopCounts
<1>3. Len(popped) = n - 1 /\ \A i \in 1 .. n - 1 : popped[i] = stack[i]
  BY <1>1, PopIs
<1>4. \A states : \A i \in 0 .. n - 1 : /\ Count(stack, states, i) \in Nat
                                        /\ Count(stack, states, i) <= Count(stack, states, n - 1)
  <2>1. ASSUME NEW states, NEW i \in 0 .. n - 1
        PROVE  /\ Count(stack, states, i) \in Nat
               /\ Count(stack, states, i) <= Count(stack, states, n - 1)
    <3>1. i \in Nat /\ n - 1 \in Nat  OBVIOUS
    <3>. QED  BY <3>1, CountIsNat, CountPrefix
  <2>. QED  BY <2>1
<1>5. /\ Len(variables) = 1 + Count(stack, VariableStates, n)
      /\ Len(tables) = 1 + Count(stack, TableStates, n)
      /\ \A i \in 1 .. n : stack[i] \in VariableStates =>
           variables[1 + Count(stack, VariableStates, i)].type = StateType(stack[i])
  BY DEF InStep
<1>6. /\ Len(v) = 1 + Count(popped, VariableStates, n - 1)
      /\ Len(t) = 1 + Count(popped, TableStates, n - 1)
  BY <1>2, <1>4, <1>5
<1>7. ASSUME NEW i \in 1 .. n - 1, popped[i] \in VariableStates
      PROVE  v[1 + Count(popped, VariableStates, i)].type = StateType(popped[i])
  <2>1. PICK c \in Nat : c = Count(stack, VariableStates, i)  BY <1>4
  <2>2. Count(popped, VariableStates, i) = c  BY <1>2, <2>1
  <2>3. 1 + c \in 1 .. Len(v)  BY <1>2, <1>4, <1>6, <2>1
  <2>4. variables[1 + c].type = StateType(stack[i]) /\ popped[i] = stack[i]
    BY <1>3, <1>5, <1>7, <2>1
  <2>. QED  BY <2>2, <2>3, <2>4
<1>. QED  BY <1>1, <1>3, <1>6, <1>7 DEF InStep

-----------------------------------------------------------------------------
(* Pushes and pops.                                                        *)

(* The stacks and whether an error has been reported.                      *)
Stacks(stack, failed, variables, tables) ==
    /\ StackOK(stack, failed)
    /\ variables \in Seq(Variables) /\ tables \in Seq(Nat)
    /\ InStep(stack, variables, tables)

(* What can be read off the tops.                                          *)
LEMMA Tops ==
    ASSUME NEW stack, NEW failed, NEW variables, NEW tables,
           Stacks(stack, failed, variables, tables)
    PROVE  /\ Top(stack) \in States
           /\ Len(variables) \in Nat /\ Len(variables) >= 1 /\ Top(variables) \in Variables
           /\ Len(tables) \in Nat /\ Len(tables) >= 1 /\ Top(tables) \in Nat
           /\ Top(stack) \in VariableStates =>
                /\ Len(variables) >= 2 /\ Len(tables) >= 2
                /\ Parent(variables) \in Variables
                /\ Top(variables).type = StateType(Top(stack))
           /\ Top(stack) \in TableStates => Len(tables) >= 2
<1>1. stack \in Seq(States) /\ Len(stack) > 0  BY DEF Stacks, StackOK
<1>2. PICK n \in Nat : n = Len(stack)  BY <1>1, LenProperties
<1>3. /\ Len(variables) \in Nat /\ Len(variables) >= 1
      /\ Len(tables) \in Nat /\ Len(tables) >= 1
      /\ Top(stack) \in VariableStates =>
           /\ Len(variables) >= 2 /\ Len(tables) >= 2
           /\ Top(variables).type = StateType(Top(stack))
      /\ Top(stack) \in TableStates => Len(tables) >= 2
  BY <1>1, <1>2, StacksNotEmpty DEF Stacks
<1>4. Top(stack) \in States  BY <1>1, <1>2, PopIs
<1>5. /\ \A i \in 1 .. Len(variables) : variables[i] \in Variables
      /\ \A i \in 1 .. Len(tables) : tables[i] \in Nat
  BY ElementOfSeq DEF Stacks
<1>6. Top(variables) \in Variables /\ Top(tables) \in Nat  BY <1>3, <1>5 DEF Top
<1>7. Top(stack) \in VariableStates => Parent(variables) \in Variables
  BY <1>3, <1>5 DEF Parent
<1>. QED  BY <1>3, <1>4, <1>6, <1>7

(* A state without a variable or a table of its own.                       *)
LEMMA PushPlain ==
    ASSUME NEW stack, NEW failed, NEW variables, NEW tables,
           Stacks(stack, failed, variables, tables),
           NEW x \in States \ (TableStates \cup {"parser_start"}),
           NEW now, now => failed \/ x = "parser_error"
    PROVE  Stacks(Append(stack, x), now, variables, tables)
<1>1. stack \in Seq(States) /\ Len(stack) > 0  BY DEF Stacks, StackOK
<1>2. PICK n \in Nat : n = Len(stack)  BY <1>1, LenProperties
<1>3. x \notin VariableStates /\ x \notin TableStates /\ x # "parser_start" /\ x \in States
  BY DEF TableStates
<1>4. Len(variables) \in Nat /\ Len(tables) \in Nat  BY Tops
<1>5. InStep(Append(stack, x), variables, tables)
  BY <1>1, <1>2, <1>3, <1>4, PushInStep DEF Stacks
<1>6. StackOK(Append(stack, x), now)  BY <1>3, PushOK DEF Stacks
<1>. QED  BY <1>5, <1>6 DEF Stacks

(* A container and its table.                                              *)
LEMMA PushTable ==
    ASSUME NEW stack, NEW failed, NEW variables, NEW tables,
           Stacks(stack, failed, variables, tables), NEW id \in Nat
    PROVE  Stacks(Append(stack, "inside_attribute_container"), failed,
                  variables, Append(tables, id))
<1>1. stack \in Seq(States) /\ Len(stack) > 0  BY DEF Stacks, StackOK
<1>2. PICK n \in Nat : n = Len(stack)  BY <1>1, LenProperties
<1>3. PICK x : x = "inside_attribute_container"  OBVIOUS
<1>4. x \notin VariableStates /\ x \in TableStates /\ x # "parser_start" /\ x \in States
  BY <1>3 DEF TableStates, VariableStates, States
<1>5. Len(variables) \in Nat /\ Len(tables) \in Nat  BY Tops
<1>6. PICK longer : longer = Append(tables, id)  OBVIOUS
<1>7. longer \in Seq(Nat) /\ Len(longer) = Len(tables) + 1
  BY <1>6, AppendProperties DEF Stacks
<1>8. InStep(Append(stack, x), variables, longer)
  <2>1. Len(longer) = Len(tables) + (IF x \in TableStates THEN 1 ELSE 0)  BY <1>4, <1>7
  <2>2. Len(variables) = Len(variables) + (IF x \in VariableStates THEN 1 ELSE 0)
    BY <1>4, <1>5
  <2>. QED  BY <1>1, <1>2, <1>4, <2>1, <2>2, PushInStep DEF Stacks
<1>9. StackOK(Append(stack, x), failed)  BY <1>4, PushOK DEF Stacks
<1>. QED  BY <1>3, <1>6, <1>7, <1>8, <1>9 DEF Stacks

(* A variable and its table.                                               *)
LEMMA PushVariable ==
    ASSUME NEW stack, NEW failed, NEW variables, NEW tables,
           Stacks(stack, failed, variables, tables), NEW id \in Nat,
           NEW x \in VariableStates, NEW v \in Variables, v.type = StateType(x)
    PROVE  Stacks(Append(stack, x), failed, Append(variables, v), Append(tables, id))
<1>1. stack \in Seq(States) /\ Len(stack) > 0  BY DEF Stacks, StackOK
<1>2. PICK n \in Nat : n = Len(stack)  BY <1>1, LenProperties
<1>3. x \in TableStates /\ x # "parser_start" /\ x \in States
  BY DEF TableStates, VariableStates, States
<1>4. Len(variables) \in Nat /\ Len(tables) \in Nat  BY Tops
<1>5. Append(tables, id) \in Seq(Nat) /\ Len(Append(tables, id)) = Len(tables) + 1
  BY AppendProperties DEF Stacks
<1>6. PICK longer : longer = Append(variables, v)  OBVIOUS
<1>7. /\ longer \in Seq(Variables) /\ Len(longer) = Len(variables) + 1
      /\ \A i \in 1 .. Len(variables) : longer[i] = variables[i]
      /\ longer[Len(variables) + 1] = v
  BY <1>6, AppendProperties DEF Stacks
<1>8. InStep(Append(stack, x), longer, Append(tables, id))
  <2>1. \A i \in 1 .. Len(variables) : longer[i].type = variables[i].type  BY <1>7
  <2>2. longer[Len(variables) + 1].type = StateType(x)  BY <1>7
  <2>. QED  BY <1>1, <1>2, <1>3, <1>4, <1>5, <1>7, <2>1, <2>2, PushInStep DEF Stacks
<1>9. StackOK(Append(stack, x), failed)  BY <1>3, PushOK DEF Stacks
<1>. QED  BY <1>5, <1>6, <1>7, <1>8, <1>9 DEF Stacks

(* A new dimension of the array on top.                                    *)
LEMMA AddDimension ==
    ASSUME NEW stack, NEW failed, NEW variables, NEW tables,
           Stacks(stack, failed, variables, tables)
    PROVE  Stacks(stack, failed, [variables EXCEPT ![Len(variables)].dims = TRUE], tables)
<1>1. PICK n \in Nat : n = Len(variables) /\ n >= 1  BY Tops
<1>2. \A i \in 1 .. n : variables[i] \in Variables
  BY <1>1, ElementOfSeq DEF Stacks
<1>3. PICK v : v = [variables[n] EXCEPT !.dims = TRUE]  OBVIOUS
<1>4. v \in Variables /\ v.type = variables[n].type
  <2>1. n \in 1 .. n  BY <1>1
  <2>2. PICK u \in Variables : u = variables[n]  BY <1>2, <2>1
  <2>3. v = [u EXCEPT !.dims = TRUE]  BY <1>3, <2>2
  <2>4. v \in Variables /\ v.type = u.type  BY <2>3 DEF Variables
  <2>. QED  BY <2>2, <2>4
<1>5. PICK longer : longer = [variables EXCEPT ![n] = v]  OBVIOUS
<1>6. longer = [variables EXCEPT ![Len(variables)].dims = TRUE]  BY <1>1, <1>3, <1>5
<1>7. /\ longer \in Seq(Variables) /\ Len(longer) = n
      /\ \A i \in 1 .. n : longer[i] = IF i = n THEN v ELSE variables[i]
  <2>1. n \in 1 .. Len(variables)  BY <1>1
  <2>. QED  BY <1>1, <1>4, <1>5, <2>1, ExceptSeq DEF Stacks
<1>8. \A i \in 1 .. n : longer[i].type = variables[i].type  BY <1>4, <1>7
<1>9. InStep(stack, longer, tables)
  <2>1. stack \in Seq(States) /\ Len(stack) > 0  BY DEF Stacks, StackOK
  <2>2. PICK k \in Nat : k = Len(stack)  BY <2>1, LenProperties
  <2>3. \A i \in 1 .. k : stack[i] \in VariableStates =>
          variables[1 + Count(stack, VariableStates, i)].type = StateType(stack[i])
    BY <2>2 DEF Stacks, InStep
  <2>4. ASSUME NEW i \in 1 .. k, stack[i] \in VariableStates
        PROVE  1 + Count(stack, VariableStates, i) \in 1 .. n
    <3>1. i \in Nat /\ i \in 0 .. k  OBVIOUS
    <3>2. /\ Count(stack, VariableStates, i) \in Nat
          /\ Count(stack, VariableStates, k) \in Nat
          /\ Count(stack, VariableStates, i) <= Count(stack, VariableStates, k)
      BY <3>1, CountIsNat, CountPrefix
    <3>3. n = 1 + Count(stack, VariableStates, k)  BY <1>1, <2>2 DEF Stacks, InStep
    <3>. QED  BY <3>2, <3>3
  <2>5. \A i \in 1 .. k : stack[i] \in VariableStates =>
          longer[1 + Count(stack, VariableStates, i)].type = StateType(stack[i])
    BY <1>8, <2>3, <2>4
  <2>. QED  BY <1>1, <1>7, <2>2, <2>5 DEF Stacks, InStep
<1>. QED  BY <1>6, <1>7, <1>9 DEF Stacks

(* The end of a state without a variable or a table.                       *)
LEMMA PopPlain ==
    ASSUME NEW stack, NEW failed, NEW variables, NEW tables,
           Stacks(stack, failed, variables, tables),
           Top(stack) \notin TableStates \cup {"parser_start", "parser_error"}
    PROVE  Stacks(Pop(stack), failed, variables, tables)
<1>1. stack \in Seq(States) /\ Len(stack) > 0  BY DEF Stacks, StackOK
<1>2. PICK n \in Nat : n = Len(stack)  BY <1>1, LenProperties
<1>3. Top(stack) \notin VariableStates /\ Top(stack) \notin TableStates
  BY DEF TableStates
<1>4. Len(variables) \in Nat /\ Len(tables) \in Nat  BY Tops
<1>5. InStep(Pop(stack), variables, tables)
  <2>1. Len(variables) = Len(variables) - (IF Top(stack) \in VariableStates THEN 1 ELSE 0)
    BY <1>3, <1>4
  <2>2. Len(tables) = Len(tables) - (IF Top(stack) \in TableStates THEN 1 ELSE 0)
    BY <1>3, <1>4
  <2>. QED  BY <1>1, <1>2, <2>1, <2>2, PopInStep DEF Stacks
<1>6. StackOK(Pop(stack), failed)  BY PopOK DEF Stacks
<1>. QED  BY <1>5, <1>6 DEF Stacks

(* The end of a container.                                                 *)
LEMMA PopTable ==
    ASSUME NEW stack, NEW failed, NEW variables, NEW tables,
           Stacks(stack, failed, variables, tables),
           Top(stack) = "inside_attribute_container"
    PROVE  Stacks(Pop(stack), failed, variables, Pop(tables))
<1>1. stack \in Seq(States) /\ Len(stack) > 0  BY DEF Stacks, StackOK
<1>2. PICK n \in Nat : n = Len(stack)  BY <1>1, LenProperties
<1>3. Top(stack) \notin VariableStates /\ Top(stack) \in TableStates
  BY DEF TableStates, VariableStates
<1>4. PICK k \in Nat : k = Len(tables) /\ k > 0  BY Tops
<1>5. Len(variables) \in Nat  BY Tops
<1>6. PICK shorter : shorter = Pop(tables)  OBVIOUS
<1>7. shorter \in Seq(Nat) /\ Len(shorter) = k - 1  BY <1>4, <1>6, PopIs DEF Stacks
<1>8. InStep(Pop(stack), variables, shorter)
  <2>1. Len(variables) = Len(variables) - (IF Top(stack) \in VariableStates THEN 1 ELSE 0)
    BY <1>3, <1>5
  <2>2. Len(shorter) = Len(tables) - (IF Top(stack) \in TableStates THEN 1 ELSE 0)
    BY <1>3, <1>4, <1>7
  <2>. QED  BY <1>1, <1>2, <2>1, <2>2, PopInStep DEF Stacks
<1>9. StackOK(Pop(stack), failed)  BY PopOK DEF Stacks
<1>. QED  BY <1>6, <1>7, <1>8, <1>9 DEF Stacks

(* The end of a variable.                                                  *)
LEMMA PopVariable ==
    ASSUME NEW stack, NEW failed, NEW variables, NEW tables,
           Stacks(stack, failed, variables, tables), Top(stack) \in VariableStates
    PROVE  Stacks(Pop(stack), failed, Pop(variables), Pop(tables))
<1>1. stack \in Seq(States) /\ Len(stack) > 0  BY DEF Stacks, StackOK
<1>2. PICK n \in Nat : n = Len(stack)  BY <1>1, LenProperties
<1>3. Top(stack) \in TableStates /\ Top(stack) \notin {"parser_start", "parser_error"}
  BY DEF TableStates, VariableStates
<1>4. PICK k \in Nat : k = Len(tables) /\ k > 0  BY Tops
<1>5. PICK l \in Nat : l = Len(variables) /\ l > 0  BY Tops
<1>6. PICK fewer : fewer = Pop(variables)  OBVIOUS
<1>7. PICK shorter : shorter = Pop(tables)  OBVIOUS
<1>8. shorter \in Seq(Nat) /\ Len(shorter) = k - 1  BY <1>4, <1>7, PopIs DEF Stacks
<1>9. /\ fewer \in Seq(Variables) /\ Len(fewer) = l - 1
      /\ \A i \in 1 .. l - 1 : fewer[i] = variables[i]
  BY <1>5, <1>6, PopIs DEF Stacks
<1>10. InStep(Pop(stack), fewer, shorter)
  <2>1. Len(fewer) = Len(variables) - (IF Top(stack) \in VariableStates THEN 1 ELSE 0)
    BY <1>5, <1>9
  <2>2. Len(shorter) = Len(tables) - (IF Top(stack) \in TableStates THEN 1 ELSE 0)
    BY <1>3, <1>4, <1>8
  <2>3. \A i \in 1 .. Len(fewer) : fewer[i].type = variables[i].type  BY <1>9
  <2>. QED  BY <1>1, <1>2, <2>1, <2>2, <2>3, PopInStep DEF Stacks
<1>11. StackOK(Pop(stack), failed)  BY <1>3, PopOK DEF Stacks
<1>. QED  BY <1>6, <1>7, <1>8, <1>9, <1>10, <1>11 DEF Stacks

-----------------------------------------------------------------------------
(* The callbacks.                                                          *)

(* What every callback keeps of the parser's own variables.                *)
ParserInv ==
    /\ Stacks(s, errors, bt_stack, at_stack) /\ errors \in BOOLEAN
    /\ other_xml_depth \in 0 .. UINT_MAX /\ dods_attr_name \in Nat
    /\ vars_added \subseteq Nat \X Nat /\ attrs_added \subseteq Nat \X Nat \X Nat

(* An error is pushed.                                                     *)
LEMMA FatalError ==
    ASSUME ParserInv, fatal_error
    PROVE  ParserInv'
<1>1. "parser_error" \in States \ (TableStates \cup {"parser_start"})
  BY DEF States, TableStates, VariableStates
<1>2. Stacks(Append(s, "parser_error"), TRUE, bt_stack, at_stack)
  BY <1>1, PushPlain DEF ParserInv
<1>. QED  BY <1>2 DEF ParserInv, fatal_error, attribute

(* A missing XML attribute leaves an error on the stack of states.         *)
LEMMA Checking ==
    ASSUME ParserInv, NEW e \in StartTags
    PROVE  Stacks(Checked(e), Reported(e), bt_stack, at_stack) /\ Reported(e) \in BOOLEAN
<1>1. e.complete \in BOOLEAN  BY DEF StartTags
<1>2. CASE e.complete
  BY <1>2 DEF Checked, Reported, ParserInv
<1>3. CASE ~e.complete
  <2>1. "parser_error" \in States \ (TableStates \cup {"parser_start"})
    BY DEF States, TableStates, VariableStates
  <2>2. Stacks(Append(s, "parser_error"), TRUE, bt_stack, at_stack)
    BY <2>1, PushPlain DEF ParserInv
  <2>. QED  BY <1>3, <2>2 DEF Checked, Reported
<1>. QED  BY <1>1, <1>2, <1>3

(* Attributes.                                                             *)
LEMMA StartAttribute ==
    ASSUME ParserInv, NEW e \in StartTags, NEW id \in Nat, is_attribute_or_alias(e, id)
    PROVE  ParserInv'
<1>1. Stacks(Checked(e), Reported(e), bt_stack, at_stack) /\ Reported(e) \in BOOLEAN
  BY Checking
<1>2. Top(at_stack) \in Nat  BY <1>1, Tops
<1>3. <<Top(at_stack), id, id>> \in Nat \X Nat \X Nat  BY <1>2
<1>4. CASE process_attribute_alias(e, id)
  <2>1. "inside_alias" \in States \ (TableStates \cup {"parser_start"})
    BY DEF States, TableStates, VariableStates
  <2>2. Stacks(Append(Checked(e), "inside_alias"), Reported(e), bt_stack, at_stack)
    BY <1>1, <2>1, PushPlain
  <2>. QED  BY <1>1, <1>3, <1>4, <2>2 DEF process_attribute_alias, ParserInv, attribute
<1>5. CASE process_attribute_element(e, id) /\ e.type = "Container"
  <2>1. AttributeState(e.type) = "inside_attribute_container"  BY <1>5 DEF AttributeState
  <2>2. Stacks(Append(Checked(e), "inside_attribute_container"), Reported(e),
               bt_stack, Append(at_stack, id))
    BY <1>1, PushTable
  <2>. QED  BY <1>1, <1>3, <1>5, <2>1, <2>2 DEF process_attribute_element, ParserInv
<1>6. CASE process_attribute_element(e, id) /\ e.type # "Container"
  <2>1. AttributeState(e.type) \in {"inside_other_xml_attribute", "inside_attribute"}
    BY <1>6 DEF AttributeState
  <2>2. AttributeState(e.type) \in States \ (TableStates \cup {"parser_start"})
    BY <2>1 DEF States, TableStates, VariableStates
  <2>3. Stacks(Append(Checked(e), AttributeState(e.type)), Reported(e), bt_stack, at_stack)
    BY <1>1, <2>2, PushPlain
  <2>. QED  BY <1>1, <1>6, <2>3 DEF process_attribute_element, ParserInv
<1>. QED  BY <1>4, <1>5, <1>6 DEF is_attribute_or_alias

(* Variables: the type of the variable is the one its state expects.       *)
LEMMA StartVariable ==
    ASSUME ParserInv, NEW e \in StartTags, NEW id \in Nat, NEW allowed,
           is_variable(e, id, allowed), allowed \subseteq VariableTags
    PROVE  ParserInv'
<1>1. e.tag \in VariableTags  BY DEF is_variable
<1>2. PICK x \in VariableStates : x = VariableState(e.tag)
  BY <1>1 DEF VariableTags, SimpleTags, VariableState, VariableStates
<1>3. VariableType(e.tag) \in Types /\ VariableType(e.tag) = StateType(x)
  BY <1>1, <1>2
  DEF VariableTags, SimpleTags, VariableState, VariableType, StateType, Types
<1>4. PICK v : v = [id |-> id, type |-> VariableType(e.tag), dims |-> FALSE]  OBVIOUS
<1>5. v \in Variables /\ v.type = StateType(x)  BY <1>3, <1>4 DEF Variables
<1>6. Stacks(Append(s, x), errors, Append(bt_stack, v), Append(at_stack, id))
  BY <1>5, PushVariable DEF ParserInv
<1>7. "parser_error" \in States \ (TableStates \cup {"parser_start"})
  BY DEF States, TableStates, VariableStates
<1>8. Stacks(Append(Append(s, x), "parser_error"), TRUE,
             Append(bt_stack, v), Append(at_stack, id))
  BY <1>6, <1>7, PushPlain
<1>9. PICK named : named = (e.complete \/ Top(bt_stack).type = "array")  OBVIOUS
<1>10. /\ s' = IF named THEN Append(s, x) ELSE Append(Append(s, x), "parser_error")
       /\ errors' = (errors \/ ~named)
       /\ bt_stack' = Append(bt_stack, v) /\ at_stack' = Append(at_stack, id)
       /\ UNCHANGED <<attribute, vars_added, attrs_added>>
  BY <1>2, <1>4, <1>9 DEF is_variable, process_variable
<1>11. CASE named
  <2>1. s' = Append(s, x) /\ errors' = errors  BY <1>10, <1>11 DEF ParserInv
  <2>. QED  BY <1>6, <1>10, <2>1 DEF ParserInv, attribute
<1>12. CASE ~named
  <2>1. s' = Append(Append(s, x), "parser_error") /\ errors' = TRUE  BY <1>10, <1>12
  <2>. QED  BY <1>8, <1>10, <2>1 DEF ParserInv, attribute
<1>. QED  BY <1>11, <1>12

(* Dimensions, which find an array on top.                                 *)
LEMMA StartDimension ==
    ASSUME ParserInv, NEW e \in StartTags, process_dimension(e)
    PROVE  ParserInv'
<1>1. Stacks(Checked(e), Reported(e), bt_stack, at_stack) /\ Reported(e) \in BOOLEAN
  BY Checking
<1>2. "inside_dimension" \in States \ (TableStates \cup {"parser_start"})
  BY DEF States, TableStates, VariableStates
<1>3. Stacks(Append(Checked(e), "inside_dimension"), Reported(e), bt_stack, at_stack)
  BY <1>1, <1>2, PushPlain
<1>4. CASE Top(bt_stack).type = "array"
  <2>1. PICK longer : longer = [bt_stack EXCEPT ![Len(bt_stack)].dims = TRUE]  OBVIOUS
  <2>2. Stacks(Append(Checked(e), "inside_dimension"), Reported(e), longer, at_stack)
    BY <1>3, <2>1, AddDimension
  <2>3. /\ s' = Append(Checked(e), "inside_dimension") /\ errors' = Reported(e)
        /\ bt_stack' = longer
        /\ UNCHANGED <<at_stack, attribute, vars_added, attrs_added>>
    BY <1>4, <2>1 DEF process_dimension
  <2>. QED  BY <1>1, <2>2, <2>3 DEF ParserInv, attribute
<1>5. CASE Top(bt_stack).type # "array"
  <2>1. "parser_error" \in States \ (TableStates \cup {"parser_start"})
    BY DEF States, TableStates, VariableStates
  <2>2. Stacks(Append(Append(Checked(e), "inside_dimension"), "parser_error"), TRUE,
               bt_stack, at_stack)
    BY <1>3, <2>1, PushPlain
  <2>3. /\ s' = Append(Append(Checked(e), "inside_dimension"), "parser_error")
        /\ errors' = TRUE
        /\ UNCHANGED <<bt_stack, at_stack, attribute, vars_added, attrs_added>>
    BY <1>5 DEF process_dimension
  <2>. QED  BY <2>2, <2>3 DEF ParserInv, attribute
<1>. QED  BY <1>4, <1>5

(* The Dataset, a blob and a value have a state only.                      *)
LEMMA StartPlain ==
    ASSUME ParserInv, NEW e \in StartTags,
           start_dataset(e) \/ process_blob(e) \/ start_value(e) \/ start_other_xml(e)
    PROVE  ParserInv'
<1>1. {"inside_dataset", "inside_blob_href", "inside_attribute_value", "parser_error"}
        \subseteq States \ (TableStates \cup {"parser_start"})
  BY DEF States, TableStates, VariableStates
<1>2. CASE start_dataset(e)
  <2>1. Stacks(Append(s, "inside_dataset"), errors, bt_stack, at_stack)
    BY <1>1, PushPlain DEF ParserInv
  <2>2. Stacks(Append(Append(s, "inside_dataset"), "parser_error"), TRUE, bt_stack, at_stack)
    BY <1>1, <2>1, PushPlain
  <2>3. e.complete \in BOOLEAN  BY DEF StartTags
  <2>4. CASE e.complete
    BY <1>2, <2>1, <2>4 DEF start_dataset, Reported, ParserInv, attribute
  <2>5. CASE ~e.complete
    BY <1>2, <2>2, <2>5 DEF start_dataset, Reported, ParserInv, attribute
  <2>. QED  BY <2>3, <2>4, <2>5
<1>3. CASE process_blob(e)
  <2>1. Stacks(Checked(e), Reported(e), bt_stack, at_stack) /\ Reported(e) \in BOOLEAN
    BY Checking
  <2>2. Stacks(Append(Checked(e), "inside_blob_href"), Reported(e), bt_stack, at_stack)
    BY <1>1, <2>1, PushPlain
  <2>. QED  BY <1>3, <2>1, <2>2 DEF process_blob, ParserInv, attribute
<1>4. CASE start_value(e)
  <2>1. Stacks(Append(s, "inside_attribute_value"), errors, bt_stack, at_stack)
    BY <1>1, PushPlain DEF ParserInv
  <2>. QED  BY <1>4, <2>1 DEF start_value, ParserInv, attribute
<1>5. CASE start_other_xml(e)
  <2>1. (other_xml_depth + 1) % (UINT_MAX + 1) \in 0 .. UINT_MAX
    BY DDXAssumption DEF ParserInv
  <2>. QED  BY <1>5, <2>1 DEF start_other_xml, ParserInv
<1>. QED  BY <1>2, <1>3, <1>4, <1>5

(* Every start tag.                                                        *)
LEMMA StartKeepsInv ==
    ASSUME ParserInv, NEW e \in StartTags, NEW id \in Nat, ddx_sax2_start_element(e, id)
    PROVE  ParserInv'
<1>1. CASE is_attribute_or_alias(e, id)  BY <1>1, StartAttribute
<1>2. CASE is_variable(e, id, Allowed(get_state))
  <2>1. Allowed(get_state) \subseteq VariableTags  BY DEF Allowed, VariableTags
  <2>. QED  BY <1>2, <2>1, StartVariable
<1>3. CASE process_dimension(e)  BY <1>3, StartDimension
<1>4. CASE start_dataset(e) \/ process_blob(e) \/ start_value(e) \/ start_other_xml(e)
  BY <1>4, StartPlain
<1>5. CASE UNCHANGED parserVars
  BY <1>5 DEF parserVars, attribute, ParserInv
<1>6. CASE fatal_error  BY <1>6, FatalError
<1>. QED  BY <1>1, <1>2, <1>3, <1>4, <1>5, <1>6 DEF ddx_sax2_start_element

(* The end of a variable.                                                  *)
LEMMA EndVariable ==
    ASSUME ParserInv, NEW e, finish_variable(e)
    PROVE  ParserInv'
<1>1. Top(s) \in VariableStates  BY DEF finish_variable, get_state
<1>2. Parent(bt_stack) \in Variables /\ Top(bt_stack) \in Variables
  BY <1>1, Tops DEF ParserInv
<1>3. <<Parent(bt_stack).id, Top(bt_stack).id>> \in Nat \X Nat  BY <1>2 DEF Variables
<1>4. Stacks(Pop(s), errors, Pop(bt_stack), Pop(at_stack))
  BY <1>1, PopVariable DEF ParserInv
<1>5. "parser_error" \in States \ (TableStates \cup {"parser_start"})
  BY DEF States, TableStates, VariableStates
<1>6. Stacks(Append(Pop(s), "parser_error"), TRUE, Pop(bt_stack), Pop(at_stack))
  BY <1>4, <1>5, PushPlain
<1>7. CASE Faulty(Top(bt_stack), get_state) \/ Parent(bt_stack).type = "simple"
  BY <1>6, <1>7 DEF finish_variable, ParserInv, attribute
<1>8. CASE ~(Faulty(Top(bt_stack), get_state) \/ Parent(bt_stack).type = "simple")
  <2>1. /\ s' = Pop(s) /\ bt_stack' = Pop(bt_stack) /\ at_stack' = Pop(at_stack)
        /\ vars_added' = vars_added \cup {<<Parent(bt_stack).id, Top(bt_stack).id>>}
        /\ UNCHANGED <<errors, attribute, attrs_added>>
    BY <1>8 DEF finish_variable
  <2>. QED  BY <1>3, <1>4, <2>1 DEF ParserInv, attribute
<1>. QED  BY <1>7, <1>8

(* Every other end tag.                                                    *)
LEMMA EndPlain ==
    ASSUME ParserInv, NEW e, NEW id \in Nat,
           \/ end_pops(e) \/ end_container(e) \/ end_value(e, id)
           \/ end_other_xml_attribute(e, id) \/ end_other_xml(e)
    PROVE  ParserInv'
<1>1. Top(at_stack) \in Nat  BY Tops DEF ParserInv
<1>2. <<Top(at_stack), dods_attr_name, id>> \in Nat \X Nat \X Nat
  BY <1>1 DEF ParserInv
<1>3. CASE end_pops(e)
  <2>1. Top(s) \notin TableStates \cup {"parser_start", "parser_error"}
    BY <1>3 DEF end_pops, get_state, TableStates, VariableStates
  <2>2. Stacks(Pop(s), errors, bt_stack, at_stack)  BY <2>1, PopPlain DEF ParserInv
  <2>. QED  BY <1>3, <2>2 DEF end_pops, ParserInv, attribute
<1>4. CASE end_container(e)
  <2>1. Stacks(Pop(s), errors, bt_stack, Pop(at_stack))
    BY <1>4, PopTable DEF end_container, get_state, ParserInv
  <2>. QED  BY <1>4, <2>1 DEF end_container, ParserInv, attribute
<1>5. CASE end_value(e, id)
  <2>1. Top(s) \notin TableStates \cup {"parser_start", "parser_error"}
    BY <1>5 DEF end_value, get_state, TableStates, VariableStates
  <2>2. Stacks(Pop(s), errors, bt_stack, at_stack)  BY <2>1, PopPlain DEF ParserInv
  <2>. QED  BY <1>2, <1>5, <2>2 DEF end_value, ParserInv, attribute
<1>6. CASE end_other_xml_attribute(e, id)
  <2>1. Top(s) \notin TableStates \cup {"parser_start", "parser_error"}
    BY <1>6 DEF end_other_xml_attribute, get_state, TableStates, VariableStates
  <2>2. Stacks(Pop(s), errors, bt_stack, at_stack)  BY <2>1, PopPlain DEF ParserInv
  <2>. QED  BY <1>2, <1>6, <2>2 DEF end_other_xml_attribute, ParserInv, attribute
<1>7. CASE end_other_xml(e)
  <2>1. Decremented(other_xml_depth) \in 0 .. UINT_MAX
    BY DDXAssumption DEF ParserInv, Decremented
  <2>2. "parser_error" \in States \ (TableStates \cup {"parser_start"})
    BY DEF States, TableStates, VariableStates
  <2>3. Stacks(Append(s, "parser_error"), TRUE, bt_stack, at_stack)
    BY <2>2, PushPlain DEF ParserInv
  <2>4. CASE other_xml_depth = 0
    BY <1>7, <2>1, <2>3, <2>4 DEF end_other_xml, ParserInv
  <2>5. CASE other_xml_depth # 0
    BY <1>7, <2>1, <2>5 DEF end_other_xml, ParserInv
  <2>. QED  BY <2>4, <2>5
<1>. QED  BY <1>3, <1>4, <1>5, <1>6, <1>7

(* Every end tag.                                                          *)
LEMMA EndKeepsInv ==
    ASSUME ParserInv, NEW e, NEW id \in Nat, ddx_sax2_end_element(e, id)
    PROVE  ParserInv'
<1>1. CASE finish_variable(e)  BY <1>1, EndVariable
<1>2. CASE UNCHANGED parserVars
  BY <1>2 DEF parserVars, attribute, ParserInv
<1>3. CASE fatal_error  BY <1>3, FatalError
<1>. QED  BY <1>1, <1>2, <1>3, EndPlain DEF ddx_sax2_end_element, end_ignored

-----------------------------------------------------------------------------
(* The theorems.                                                           *)

(* The inductive invariant: the parser's, and what is typed beside it.     *)
IInv ==
    /\ ParserInv
    /\ open \in Seq(OpenElements) /\ count \in 0 .. MaxElements
    /\ nested \in BOOLEAN
    /\ outcome \in {"parsing", "accepted", "failed", "crashed"}
    /\ AcceptedWithoutErrors

(* An empty document.                                                      *)
LEMMA InitIInv == Init => IInv
<1>. SUFFICES ASSUME Init PROVE IInv
  OBVIOUS
<1>2. s = <<"parser_start">> /\ bt_stack = <<Root>> /\ at_stack = <<0>> /\ errors = FALSE
  BY DEF Init
<1>3. s \in Seq(States) /\ Len(s) = 1 /\ s[1] = "parser_start"
  BY <1>2 DEF States
<1>4. Root \in Variables  BY DEF Root, Variables, Types
<1>5. bt_stack \in Seq(Variables) /\ Len(bt_stack) = 1  BY <1>2, <1>4
<1>6. at_stack \in Seq(Nat) /\ Len(at_stack) = 1  BY <1>2
<1>7. s[1] \notin VariableStates /\ s[1] \notin TableStates
  BY <1>3 DEF VariableStates, TableStates
<1>8. Count(s, VariableStates, 1) = 0 /\ Count(s, TableStates, 1) = 0
  <2>1. /\ Count(s, VariableStates, 0 + 1) = Count(s, VariableStates, 0)
                + (IF s[0 + 1] \in VariableStates THEN 1 ELSE 0)
        /\ Count(s, TableStates, 0 + 1) = Count(s, TableStates, 0)
                + (IF s[0 + 1] \in TableStates THEN 1 ELSE 0)
    BY ONLY 0 \in Nat, CountNext
  <2>2. Count(s, VariableStates, 0) = 0 /\ Count(s, TableStates, 0) = 0
    BY CountIsNat
  <2>. QED  BY <1>7, <2>1, <2>2
<1>9. Stacks(s, errors, bt_stack, at_stack)
  BY <1>2, <1>3, <1>5, <1>6, <1>7, <1>8 DEF Stacks, StackOK, InStep
<1>10. 0 \in 0 .. UINT_MAX /\ 0 \in 0 .. MaxElements  BY DDXAssumption
<1>11. /\ open = <<>> /\ count = 0 /\ other_xml_depth = 0 /\ dods_attr_name = 0
       /\ vars_added = {} /\ attrs_added = {} /\ outcome = "parsing" /\ nested = FALSE
  BY DEF Init
<1>12. ParserInv  BY ONLY <1>2, <1>9, <1>10, <1>11 DEF ParserInv
<1>13. open \in Seq(OpenElements)  BY <1>11
<1>. QED  BY ONLY <1>10, <1>11, <1>12, <1>13 DEF IInv, AcceptedWithoutErrors

(* parser_start is on top only if it is alone, and no error is below it.   *)
LEMMA StartMeansNoError ==
    ASSUME ParserInv, get_state = "parser_start"
    PROVE  errors = FALSE
<1>1. StackOK(s, errors) /\ errors \in BOOLEAN  BY DEF ParserInv, Stacks
<1>2. PICK n \in Nat : n = Len(s) /\ n > 0  BY <1>1, LenProperties DEF StackOK
<1>3. /\ \A i \in 2 .. n : s[i] # "parser_start"
      /\ errors => \E i \in 1 .. n : s[i] = "parser_error"
      /\ s[n] = "parser_start"
  BY <1>1, <1>2 DEF StackOK, get_state, Top
<1>4. n = 1  BY <1>2, <1>3
<1>. QED  BY <1>1, <1>3, <1>4

(* A start tag, with what is noted of the document.                        *)
LEMMA StartElementIInv ==
    ASSUME IInv, NEW e \in Elements, StartElement(e)
    PROVE  IInv'
<1>1. e \in StartTags  BY DDXAssumption
<1>2. count \in Nat /\ count + 1 \in Nat /\ count + 1 \in 0 .. MaxElements
  BY DDXAssumption DEF IInv, StartElement
<1>3. ParserInv'  BY <1>1, <1>2, StartKeepsInv DEF IInv, StartElement
<1>4. PICK x : x = [id |-> count + 1, tag |-> e.tag, type |-> e.type, dap |-> e.dap]
  OBVIOUS
<1>5. x \in OpenElements  BY <1>1, <1>2, <1>4 DEF StartTags, OpenElements
<1>6. open' = Append(open, x)  BY <1>4 DEF StartElement
<1>7. open' \in Seq(OpenElements)  BY <1>5, <1>6, AppendProperties DEF IInv
<1>8. count' \in 0 .. MaxElements  BY <1>2, DDXAssumption DEF StartElement
<1>9. nested' \in BOOLEAN  BY DEF StartElement, NoteAttribute
<1>10. outcome = "parsing" /\ outcome' = outcome  BY DEF StartElement
<1>. QED  BY <1>3, <1>7, <1>8, <1>9, <1>10 DEF IInv, AcceptedWithoutErrors

(* An end tag.                                                             *)
LEMMA EndElementIInv ==
    ASSUME IInv, EndElement
    PROVE  IInv'
<1>1. PICK n \in Nat : n = Len(open) /\ n > 0
  BY EmptySeq DEF IInv, EndElement
<1>2. Top(open) \in OpenElements /\ Pop(open) \in Seq(OpenElements)
  BY <1>1, PopIs DEF IInv
<1>3. Top(open).id \in Nat
  <2>1. PICK x \in OpenElements : x = Top(open)  BY <1>2
  <2>2. x.id \in 0 .. MaxElements  BY DEF OpenElements
  <2>. QED  BY <2>1, <2>2
<1>4. ParserInv'  BY <1>3, EndKeepsInv DEF IInv, EndElement
<1>. QED  BY <1>2, <1>4 DEF IInv, EndElement, AcceptedWithoutErrors

(* Every step.                                                             *)
LEMMA NextIInv == IInv /\ [Next]_vars => IInv'
<1>. SUFFICES ASSUME IInv, [Next]_vars PROVE IInv'
  OBVIOUS
<1>1. ASSUME NEW e \in Elements, StartElement(e) PROVE IInv'
  BY <1>1, StartElementIInv
<1>2. ASSUME NEW e \in Elements, DereferenceNull(e) PROVE IInv'
  <2>1. UNCHANGED <<open, count, nested, s, bt_stack, at_stack, attribute,
                    errors, vars_added, attrs_added>>
    BY <1>2 DEF DereferenceNull, docVars, parserVars
  <2>2. outcome' = "crashed"  BY <1>2 DEF DereferenceNull
  <2>. QED  BY <2>1, <2>2 DEF IInv, ParserInv, attribute, AcceptedWithoutErrors
<1>3. CASE EndElement  BY <1>3, EndElementIInv
<1>4. CASE Warning \/ ddx_get_cdata \/ NotWellFormed
  <2>1. ParserInv'  BY <1>4, FatalError DEF IInv, Warning, ddx_get_cdata, NotWellFormed
  <2>2. UNCHANGED <<open, count, nested>>
    BY <1>4 DEF Warning, ddx_get_cdata, NotWellFormed, docVars
  <2>3. outcome' \in {"parsing", "failed"}
    BY <1>4 DEF Warning, ddx_get_cdata, NotWellFormed
  <2>. QED  BY <2>1, <2>2, <2>3 DEF IInv, AcceptedWithoutErrors
<1>5. CASE EndDocument
  <2>1. UNCHANGED <<open, count, nested>>  BY <1>5 DEF EndDocument, docVars
  <2>2. CASE get_state = "parser_start"
    <3>1. errors = FALSE  BY <2>2, StartMeansNoError DEF IInv
    <3>2. outcome' = "accepted" /\ UNCHANGED parserVars  BY <1>5, <2>2 DEF EndDocument
    <3>. QED  BY <2>1, <3>1, <3>2
         DEF IInv, ParserInv, parserVars, attribute, AcceptedWithoutErrors
  <2>3. CASE get_state # "parser_start"
    <3>1. ParserInv'  BY <1>5, <2>3, FatalError DEF IInv, EndDocument
    <3>2. outcome' = "failed"  BY <1>5, <2>3 DEF EndDocument
    <3>. QED  BY <2>1, <3>1, <3>2 DEF IInv, AcceptedWithoutErrors
  <2>. QED  BY <2>2, <2>3
<1>6. CASE UNCHANGED vars
  BY <1>6 DEF vars, docVars, parserVars, attribute, IInv, ParserInv, AcceptedWithoutErrors
<1>. QED  BY <1>1, <1>2, <1>3, <1>4, <1>5, <1>6 DEF Next

(* The inductive invariant holds throughout.                               *)
LEMMA Invariance == Spec => []IInv
<1>. QED  BY InitIInv, NextIInv, PTL DEF Spec

(* For every document, the parser's variables keep their types and the     *)
(* stack of states is never empty.                                         *)
THEOREM TypeCorrect == Spec => []TypeOK
<1>1. IInv => TypeOK
  BY DEF IInv, ParserInv, Stacks, StackOK, TypeOK
<1>. QED  BY <1>1, Invariance, PTL

(* For every document, the three stacks stay in step.                      *)
THEOREM StacksStayInStep == Spec => []StacksInStep
<1>1. IInv => StacksInStep
  BY DEF IInv, ParserInv, Stacks, InStep, StacksInStep
<1>. QED  BY <1>1, Invariance, PTL

(* For every document, one that is accepted has met no error.              *)
THEOREM ErrorsAreFinal == Spec => []AcceptedWithoutErrors
<1>1. IInv => AcceptedWithoutErrors  BY DEF IInv
<1>. QED  BY <1>1, Invariance, PTL

-----------------------------------------------------------------------------
(* The document.  While no error is found and no Attribute is nested in    *)
(* one that is no container, the states above parser_start are those of the*)
(* open elements, and the variables and tables on the stacks are theirs.   *)

(* The state an element is read in.                                        *)
StateOf(x) ==
    CASE x.tag = "Dataset"   -> "inside_dataset"
      [] x.tag = "Attribute" -> AttributeState(x.type)
      [] x.tag = "Alias"     -> "inside_alias"
      [] x.tag = "value"     -> "inside_attribute_value"
      [] x.tag = "dimension" -> "inside_dimension"
      [] x.tag = "blob"      -> "inside_blob_href"
      [] x.tag \in VariableTags -> VariableState(x.tag)
      [] OTHER               -> "parser_error"

(* The states in which another element is an error or is ignored.          *)
Leaves == {"inside_attribute_value", "inside_other_xml_attribute", "inside_alias",
           "inside_dimension", "inside_blob_href"}
InAttribute == {"inside_attribute_value", "inside_alias"}
Naming == {"inside_attribute", "inside_other_xml_attribute"}

(* Elements inside an OtherXML attribute are counted and have no state.    *)
ShapeOf(stack, elements, depth, name) ==
    LET n == Len(stack)
    IN  /\ n - 1 <= Len(elements) /\ depth <= Len(elements) - (n - 1)
        /\ \A i \in 1 .. n - 1 : stack[i + 1] = StateOf(elements[i])
        /\ \A i \in 1 .. n : stack[i] # "parser_error"
        /\ \A i \in 1 .. n - 1 : stack[i] \notin Leaves
        /\ \A i \in 1 .. n - 1 :
             stack[i] = "inside_attribute" => stack[i + 1] \in InAttribute
        /\ \A i \in 1 .. n - 1 : stack[i + 1] \in Naming => name = elements[i].id
        /\ Len(elements) > n - 1 => stack[n] = "inside_other_xml_attribute"
        /\ \A i \in n .. Len(elements) : ~(elements[i].tag = "Attribute" /\ elements[i].dap)
Shape == ShapeOf(s, open, other_xml_depth, dods_attr_name)

(* Elements are numbered in the order in which they begin.                 *)
NumberedOf(elements, n) ==
    /\ \A i \in 1 .. Len(elements) : elements[i].id <= n
    /\ \A i \in 1 .. Len(elements) : elements[i].type = "none" <=> elements[i].tag # "Attribute"
Numbered == NumberedOf(open, count)

WithVariable == {x \in OpenElements : x.tag \in VariableTags}
WithTable == WithVariable \cup
    {x \in OpenElements : x.tag = "Attribute" /\ x.type = "Container"}

(* The first n elements that are of a kind.                                *)
Of(elements, kind, n) == {elements[j] : j \in {k \in 1 .. n : elements[k] \in kind}}

(* What is on a stack for a prefix of the states is the innermost element  *)
(* of the kind in that prefix of the document.                             *)
Named(ids, stack, states, elements, kind) ==
    \A i \in 1 .. Len(stack) :
        ids[1 + Count(stack, states, i)] = InnermostOf(Of(elements, kind, i - 1))

Ids(variables) == [k \in DOMAIN variables |-> variables[k].id]
NamesOf(stack, variables, tables, elements) ==
    /\ Named(Ids(variables), stack, VariableStates, elements, WithVariable)
    /\ Named(tables, stack, TableStates, elements, WithTable)
Names == NamesOf(s, bt_stack, at_stack, open)

(* What the document says and has not been added yet is on the stacks.     *)
Pairs(variables) == {<<variables[k].id, variables[k + 1].id>> : k \in 1 .. Len(variables) - 1}
Value ==
    CASE get_state = "inside_attribute_value" -> {<<Top(at_stack), dods_attr_name, Top(open).id>>}
      [] get_state = "inside_other_xml_attribute" ->
           {<<Top(at_stack), dods_attr_name, dods_attr_name>>}
      [] OTHER -> {}
Added == doc_vars = vars_added \cup Pairs(bt_stack) /\ doc_attrs = attrs_added \cup Value

InDocument == Shape /\ Numbered /\ Names /\ Added

(* The invariant.                                                          *)
Faithful ==
    /\ outcome \in {"parsing", "accepted"} /\ ~errors /\ ~nested => InDocument
    /\ outcome = "accepted" => open = <<>> /\ get_state = "parser_start"

-----------------------------------------------------------------------------
(* The innermost element.                                                  *)

LEMMA InnermostIs ==
    ASSUME NEW elements, NEW m \in {0} \cup {x.id : x \in elements},
           \A x \in elements : x.id \in Nat /\ x.id <= m, m \in Nat
    PROVE  InnermostOf(elements) = m
<1> DEFINE ids == {0} \cup {x.id : x \in elements}
<1>1. \A id \in ids : id \in Nat /\ id <= m OBVIOUS
<1>2. m \in ids /\ \A other \in ids : other <= m BY <1>1
<1>3. \A id \in ids : (\A other \in ids : other <= id) => id = m BY <1>1, <1>2
<1> QED BY <1>2, <1>3 DEF InnermostOf

LEMMA InnermostNew ==
    ASSUME NEW elements, NEW x, x.id \in Nat, \A y \in elements : y.id \in Nat /\ y.id <= x.id
    PROVE  InnermostOf(elements \cup {x}) = x.id
<1>1. x.id \in {0} \cup {y.id : y \in elements \cup {x}} OBVIOUS
<1>2. \A y \in elements \cup {x} : y.id \in Nat /\ y.id <= x.id OBVIOUS
<1> QED BY <1>1, <1>2, InnermostIs

LEMMA OpenIs ==
    ASSUME NEW x \in OpenElements
    PROVE  /\ x.id \in Nat /\ x.tag \in Tags /\ x.dap \in BOOLEAN
           /\ x.type \in {"none", "Byte", "Container", "OtherXML"}
<1>1. x.id \in 0 .. MaxElements BY DEF OpenElements
<1>2. x.id \in Nat BY <1>1
<1> QED BY <1>2 DEF OpenElements

(* An element begins, with a state.                                        *)
LEMMA NamedPush ==
    ASSUME NEW stack \in Seq(States), NEW elements \in Seq(OpenElements),
           NEW n \in Nat, n > 0, n = Len(stack), Len(elements) = n - 1,
           NEW states, NEW kind, NEW ids, NEW new,
           NEW x \in OpenElements, NEW st,
           \A i \in 1 .. n - 1 : elements[i].id <= x.id,
           st \in states <=> x \in kind,
           Named(ids, stack, states, elements, kind),
           \A k \in 1 .. 1 + Count(stack, states, n) : new[k] = ids[k],
           x \in kind => new[2 + Count(stack, states, n)] = x.id
    PROVE  Named(new, Append(stack, st), states, Append(elements, x), kind)
<1>1. PICK pushed : pushed = Append(stack, st) OBVIOUS
<1>2. PICK longer : longer = Append(elements, x) OBVIOUS
<1>3. Len(pushed) = n + 1 /\ pushed[n + 1] = st /\ \A i \in 1 .. n : pushed[i] = stack[i]
  BY <1>1, AppendProperties
<1>4. longer[n] = x /\ \A i \in 1 .. n - 1 : longer[i] = elements[i]
  <2>1. n - 1 + 1 = n OBVIOUS
  <2> QED BY <1>2, <2>1, AppendProperties
<1>5. /\ \A i \in 0 .. n : Count(pushed, states, i) = Count(stack, states, i)
      /\ Count(pushed, states, n + 1) = Count(stack, states, n) + (IF st \in states THEN 1 ELSE 0)
  BY ONLY n \in Nat, <1>3, PushCounts
<1>6. \A i \in 0 .. n : /\ Count(stack, states, i) \in Nat
                        /\ Count(stack, states, i) <= Count(stack, states, n)
  <2>1. SUFFICES ASSUME NEW i \in 0 .. n
                 PROVE  Count(stack, states, i) \in Nat /\ Count(stack, states, i) <= Count(stack, states, n)
    OBVIOUS
  <2>2. i \in Nat OBVIOUS
  <2> QED BY <2>2, CountIsNat, CountPrefix
<1>7. \A i \in 0 .. n - 1 : Of(longer, kind, i) = Of(elements, kind, i) BY <1>4 DEF Of
<1>8. ASSUME NEW i \in 1 .. n
      PROVE  new[1 + Count(pushed, states, i)] = InnermostOf(Of(longer, kind, i - 1))
  <2>1. ids[1 + Count(stack, states, i)] = InnermostOf(Of(elements, kind, i - 1)) BY DEF Named
  <2>2. 1 + Count(stack, states, i) \in 1 .. 1 + Count(stack, states, n) BY <1>6
  <2>3. i - 1 \in 0 .. n - 1 /\ i \in 0 .. n OBVIOUS
  <2>4. Count(pushed, states, i) = Count(stack, states, i) BY <1>5, <2>3
  <2>5. Of(longer, kind, i - 1) = Of(elements, kind, i - 1) BY <1>7, <2>3
  <2> QED BY <2>1, <2>2, <2>4, <2>5
<1>9. new[1 + Count(pushed, states, n + 1)] = InnermostOf(Of(longer, kind, n))
  <2>1. CASE x \in kind
    <3>1. Of(longer, kind, n) = Of(elements, kind, n - 1) \cup {x} BY <1>4, <2>1 DEF Of
    <3>2. \A y \in Of(elements, kind, n - 1) : y.id \in Nat /\ y.id <= x.id
      <4>1. \A j \in 1 .. n - 1 : elements[j] \in OpenElements BY ElementOfSeq
      <4>2. \A j \in 1 .. n - 1 : elements[j].id \in Nat BY <4>1, OpenIs
      <4> QED BY <4>2 DEF Of
    <3>3. x.id \in Nat BY OpenIs
    <3>4. InnermostOf(Of(longer, kind, n)) = x.id
      <4>1. PICK older : older = Of(elements, kind, n - 1) OBVIOUS
      <4>2. InnermostOf(older \cup {x}) = x.id BY ONLY <3>2, <3>3, <4>1, InnermostNew
      <4> QED BY ONLY <3>1, <4>1, <4>2
    <3>5. 1 + Count(pushed, states, n + 1) = 2 + Count(stack, states, n) BY <1>5, <1>6, <2>1
    <3> QED BY <2>1, <3>4, <3>5
  <2>2. CASE x \notin kind
    <3>1. Of(longer, kind, n) = Of(elements, kind, n - 1) BY <1>4, <2>2 DEF Of
    <3>2. ids[1 + Count(stack, states, n)] = InnermostOf(Of(elements, kind, n - 1)) BY DEF Named
    <3>3. Count(pushed, states, n + 1) = Count(stack, states, n) BY <1>5, <1>6, <2>2
    <3>4. 1 + Count(stack, states, n) \in 1 .. 1 + Count(stack, states, n) BY <1>6
    <3> QED BY <3>1, <3>2, <3>3, <3>4
  <2> QED BY <2>1, <2>2
<1>10. \A i \in 1 .. n + 1 : new[1 + Count(pushed, states, i)] = InnermostOf(Of(longer, kind, i - 1))
  BY <1>8, <1>9
<1> QED BY <1>1, <1>2, <1>3, <1>10 DEF Named

(* What a pop does to every count.                                         *)
LEMMA PopCountsAll ==
    ASSUME NEW stack \in Seq(States), NEW n \in Nat, n > 1, n = Len(stack)
    PROVE  /\ \A any : \A i \in 0 .. n - 1 : Count(Pop(stack), any, i) = Count(stack, any, i)
           /\ \A any : Count(stack, any, n)
                          = Count(stack, any, n - 1) + (IF Top(stack) \in any THEN 1 ELSE 0)
<1>1. PICK popped : popped = Pop(stack) OBVIOUS
<1>2. n > 0 OBVIOUS
<1>3. /\ \A any : \A i \in 0 .. n - 1 : Count(popped, any, i) = Count(stack, any, i)
      /\ \A any : Count(stack, any, n)
                     = Count(stack, any, n - 1) + (IF Top(stack) \in any THEN 1 ELSE 0)
  BY ONLY stack \in Seq(States), n \in Nat, <1>2, n = Len(stack), <1>1, PopCounts
<1> QED BY ONLY <1>1, <1>3

(* An element ends, with its state.                                        *)
LEMMA NamedPop ==
    ASSUME NEW stack \in Seq(States), NEW elements \in Seq(OpenElements),
           NEW n \in Nat, n > 1, n = Len(stack), Len(elements) = n - 1,
           NEW states, NEW kind, NEW ids, NEW new,
           Named(ids, stack, states, elements, kind),
           \A k \in 1 .. 1 + Count(stack, states, n - 1) : new[k] = ids[k]
    PROVE  Named(new, Pop(stack), states, Pop(elements), kind)
<1>1. PICK popped : popped = Pop(stack) OBVIOUS
<1>2. PICK shorter : shorter = Pop(elements) OBVIOUS
<1>3. Len(popped) = n - 1
  <2>1. n > 0 OBVIOUS
  <2> QED BY <1>1, <2>1, PopIs
<1>4. \A i \in 0 .. n - 1 : Count(popped, states, i) = Count(stack, states, i)
  BY ONLY stack \in Seq(States), n \in Nat, n > 1, n = Len(stack), <1>1, PopCountsAll
<1>5. \A i \in 1 .. n - 2 : shorter[i] = elements[i]
  <2>1. n - 1 \in Nat /\ n - 1 > 0 /\ n - 1 - 1 = n - 2 OBVIOUS
  <2> QED BY <1>2, <2>1, PopIs
<1>6. \A i \in 0 .. n - 2 : Of(shorter, kind, i) = Of(elements, kind, i) BY <1>5 DEF Of
<1>7. ASSUME NEW i \in 1 .. n - 1
      PROVE  new[1 + Count(popped, states, i)] = InnermostOf(Of(shorter, kind, i - 1))
  <2>1. ids[1 + Count(stack, states, i)] = InnermostOf(Of(elements, kind, i - 1)) BY DEF Named
  <2>2. Count(stack, states, i) \in Nat /\ Count(stack, states, i) <= Count(stack, states, n - 1)
    <3>1. i \in Nat /\ n - 1 \in Nat /\ i \in 0 .. n - 1 OBVIOUS
    <3> QED BY <3>1, CountIsNat, CountPrefix
  <2>3. Count(stack, states, n - 1) \in Nat
    <3>1. n - 1 \in Nat OBVIOUS
    <3> QED BY <3>1, CountIsNat
  <2>4. 1 + Count(stack, states, i) \in 1 .. 1 + Count(stack, states, n - 1) BY <2>2, <2>3
  <2>5. i \in 0 .. n - 1 /\ i - 1 \in 0 .. n - 2 OBVIOUS
  <2> QED BY <1>4, <1>6, <2>1, <2>4, <2>5
<1> QED BY <1>1, <1>2, <1>3, <1>7 DEF Named

(* An element without a state begins or ends.                              *)
LEMMA NamedSame ==
    ASSUME NEW stack, NEW elements, NEW others, NEW n \in Nat, n = Len(stack),
           \A i \in 1 .. n - 1 : others[i] = elements[i],
           NEW states, NEW kind, NEW ids,
           Named(ids, stack, states, elements, kind)
    PROVE  Named(ids, stack, states, others, kind)
<1>1. \A i \in 1 .. n : Of(others, kind, i - 1) = Of(elements, kind, i - 1) BY DEF Of
<1> QED BY <1>1 DEF Named

-----------------------------------------------------------------------------
(* The shape of the stack of states.                                       *)

LEMMA ShapePush ==
    ASSUME NEW stack \in Seq(States), NEW elements \in Seq(OpenElements),
           NEW n \in Nat, n > 0, n = Len(stack), NEW depth \in Nat, NEW name,
           NEW x \in OpenElements, NEW next,
           ShapeOf(stack, elements, depth, name), Top(stack) \notin Leaves,
           StateOf(x) # "parser_error",
           Top(stack) = "inside_attribute" => StateOf(x) \in InAttribute,
           next = IF StateOf(x) \in Naming THEN x.id ELSE name
    PROVE  ShapeOf(Append(stack, StateOf(x)), Append(elements, x), depth, next)
<1> USE DEF Leaves, Naming, InAttribute
<1>1. PICK pushed : pushed = Append(stack, StateOf(x)) OBVIOUS
<1>2. PICK longer : longer = Append(elements, x) OBVIOUS
<1>3. /\ Len(pushed) = n + 1 /\ pushed[n + 1] = StateOf(x)
      /\ \A i \in 1 .. n : pushed[i] = stack[i]
  BY <1>1, AppendProperties
<1>4. stack[n] \notin Leaves /\ (stack[n] = "inside_attribute" => StateOf(x) \in InAttribute)
  BY DEF Top
<1>5. Len(elements) = n - 1 /\ depth = 0
  <2>1. Len(elements) \in Nat BY LenProperties
  <2> QED BY <1>4, <2>1 DEF ShapeOf
<1>6. Len(longer) = n /\ longer[n] = x /\ \A i \in 1 .. n - 1 : longer[i] = elements[i]
  <2>1. n - 1 + 1 = n OBVIOUS
  <2> QED BY <1>2, <1>5, <2>1, AppendProperties
<1>7. /\ \A i \in 1 .. n - 1 : stack[i + 1] = StateOf(elements[i])
      /\ \A i \in 1 .. n : stack[i] # "parser_error"
      /\ \A i \in 1 .. n - 1 : stack[i] \notin Leaves
      /\ \A i \in 1 .. n - 1 : stack[i] = "inside_attribute" => stack[i + 1] \in InAttribute
      /\ \A i \in 1 .. n - 1 : stack[i + 1] \in Naming => name = elements[i].id
  BY DEF ShapeOf
<1>8. \A i \in 1 .. n : pushed[i + 1] = StateOf(longer[i])
  <2>1. SUFFICES ASSUME NEW i \in 1 .. n PROVE pushed[i + 1] = StateOf(longer[i]) OBVIOUS
  <2>2. CASE i = n BY <1>3, <1>6, <2>2
  <2>3. CASE i \in 1 .. n - 1
    <3>1. i + 1 \in 1 .. n BY <2>3
    <3> QED BY <1>3, <1>6, <1>7, <2>3, <3>1
  <2> QED BY <2>2, <2>3
<1>9. \A i \in 1 .. n + 1 : pushed[i] # "parser_error" BY <1>3, <1>7
<1>10. \A i \in 1 .. n : pushed[i] \notin Leaves BY <1>3, <1>4, <1>7
<1>11. \A i \in 1 .. n : pushed[i] = "inside_attribute" => pushed[i + 1] \in InAttribute
  <2>1. SUFFICES ASSUME NEW i \in 1 .. n, pushed[i] = "inside_attribute"
                 PROVE  pushed[i + 1] \in InAttribute
    OBVIOUS
  <2>2. CASE i = n BY <1>3, <1>4, <2>1, <2>2
  <2>3. CASE i \in 1 .. n - 1
    <3>1. i + 1 \in 1 .. n BY <2>3
    <3> QED BY <1>3, <1>7, <2>1, <2>3, <3>1
  <2> QED BY <2>2, <2>3
<1>12. \A i \in 1 .. n - 1 : stack[i + 1] \in Naming => StateOf(x) \in InAttribute
  <2>1. SUFFICES ASSUME NEW i \in 1 .. n - 1, stack[i + 1] \in Naming
                 PROVE  StateOf(x) \in InAttribute
    OBVIOUS
  <2>2. CASE i + 1 = n BY <1>4, <2>1, <2>2
  <2>3. CASE i + 1 \in 1 .. n - 1
    <3>1. stack[i + 1] = "inside_attribute" BY <1>7, <2>1, <2>3
    <3>2. stack[i + 1 + 1] \in InAttribute BY <1>7, <2>3, <3>1
    <3>3. i + 1 + 1 \in 1 .. n BY <2>3
    <3> QED BY <1>4, <1>7, <3>2, <3>3
  <2> QED BY <2>2, <2>3
<1>13. \A i \in 1 .. n : pushed[i + 1] \in Naming => next = longer[i].id
  <2>1. SUFFICES ASSUME NEW i \in 1 .. n, pushed[i + 1] \in Naming
                 PROVE  next = longer[i].id
    OBVIOUS
  <2>2. CASE i = n BY <1>3, <1>6, <2>1, <2>2
  <2>3. CASE i \in 1 .. n - 1
    <3>1. i + 1 \in 1 .. n BY <2>3
    <3>2. stack[i + 1] \in Naming BY <1>3, <2>1, <3>1
    <3>3. StateOf(x) \in InAttribute BY <1>12, <2>3, <3>2
    <3> QED BY <1>6, <1>7, <2>3, <3>2, <3>3
  <2> QED BY <2>2, <2>3
<1>14. /\ n + 1 - 1 <= Len(longer) /\ depth <= Len(longer) - (n + 1 - 1)
       /\ ~(Len(longer) > n + 1 - 1) /\ n + 1 .. Len(longer) = {} /\ n + 1 - 1 = n
  BY <1>5, <1>6
<1> QED BY <1>1, <1>2, <1>3, <1>8, <1>9, <1>10, <1>11, <1>13, <1>14 DEF ShapeOf

LEMMA ShapePop ==
    ASSUME NEW stack \in Seq(States), NEW elements \in Seq(OpenElements),
           NEW n \in Nat, n > 1, n = Len(stack), Len(elements) = n - 1,
           NEW depth \in Nat, NEW name, ShapeOf(stack, elements, depth, name)
    PROVE  /\ ShapeOf(Pop(stack), Pop(elements), depth, name)
           /\ Top(Pop(stack)) \notin Leaves
<1>1. PICK popped : popped = Pop(stack) OBVIOUS
<1>2. PICK shorter : shorter = Pop(elements) OBVIOUS
<1>3. Len(popped) = n - 1 /\ \A i \in 1 .. n - 1 : popped[i] = stack[i]
  <2>1. n > 0 OBVIOUS
  <2> QED BY <1>1, <2>1, PopIs
<1>4. Len(shorter) = n - 2 /\ \A i \in 1 .. n - 2 : shorter[i] = elements[i]
  <2>1. n - 1 \in Nat /\ n - 1 > 0 /\ n - 1 - 1 = n - 2 OBVIOUS
  <2> QED BY <1>2, <2>1, PopIs
<1>5. depth = 0 BY DEF ShapeOf
<1>6. /\ \A i \in 1 .. n - 1 : stack[i + 1] = StateOf(elements[i])
      /\ \A i \in 1 .. n : stack[i] # "parser_error"
      /\ \A i \in 1 .. n - 1 : stack[i] \notin Leaves
      /\ \A i \in 1 .. n - 1 : stack[i] = "inside_attribute" => stack[i + 1] \in InAttribute
      /\ \A i \in 1 .. n - 1 : stack[i + 1] \in Naming => name = elements[i].id
  BY DEF ShapeOf
<1>7. \A i \in 1 .. n - 2 : /\ popped[i + 1] = stack[i + 1] /\ popped[i] = stack[i]
                           /\ shorter[i] = elements[i] /\ i \in 1 .. n - 1
  BY <1>3, <1>4
<1>8. /\ \A i \in 1 .. n - 2 : popped[i + 1] = StateOf(shorter[i])
      /\ \A i \in 1 .. n - 1 : popped[i] # "parser_error"
      /\ \A i \in 1 .. n - 1 : popped[i] \notin Leaves
      /\ \A i \in 1 .. n - 2 : popped[i] = "inside_attribute" => popped[i + 1] \in InAttribute
      /\ \A i \in 1 .. n - 2 : popped[i + 1] \in Naming => name = shorter[i].id
  <2>1. \A i \in 1 .. n - 2 : popped[i + 1] = StateOf(shorter[i]) BY <1>6, <1>7
  <2>2. /\ \A i \in 1 .. n - 1 : popped[i] # "parser_error"
        /\ \A i \in 1 .. n - 1 : popped[i] \notin Leaves
    BY <1>3, <1>6
  <2>3. \A i \in 1 .. n - 2 : popped[i] = "inside_attribute" => popped[i + 1] \in InAttribute
    BY <1>6, <1>7
  <2>4. \A i \in 1 .. n - 2 : popped[i + 1] \in Naming => name = shorter[i].id
    BY <1>6, <1>7
  <2> QED BY <2>1, <2>2, <2>3, <2>4
<1>9. /\ n - 1 - 1 = n - 2 /\ n - 1 .. n - 2 = {} /\ 0 <= n - 2 - (n - 2) OBVIOUS
<1>10. ShapeOf(popped, shorter, depth, name) BY <1>3, <1>4, <1>5, <1>8, <1>9 DEF ShapeOf
<1>11. Top(popped) \notin Leaves BY <1>3, <1>8 DEF Top
<1> QED BY <1>1, <1>2, <1>10, <1>11

(* Inside OtherXML: an element begins, or one ends.                        *)
Inside(elements, others, n) ==
    \A i \in 1 .. Len(others) :
        \/ i \in 1 .. Len(elements) /\ others[i] = elements[i]
        \/ i >= n /\ ~(others[i].tag = "Attribute" /\ others[i].dap)

LEMMA ShapeInside ==
    ASSUME NEW stack \in Seq(States), NEW elements, NEW others,
           NEW n \in Nat, n > 0, n = Len(stack), NEW m \in Nat, m = Len(others),
           NEW depth \in Nat, NEW deep, NEW name, ShapeOf(stack, elements, depth, name),
           stack[n] = "inside_other_xml_attribute",
           n - 1 <= m, deep <= m - (n - 1),
           Inside(elements, others, n)
    PROVE  ShapeOf(stack, others, deep, name)
<1>1. \A i \in 1 .. n - 1 : others[i] = elements[i] BY DEF Inside
<1>2. \A i \in n .. m : ~(others[i].tag = "Attribute" /\ others[i].dap) BY DEF ShapeOf, Inside
<1>3. /\ \A i \in 1 .. n - 1 : stack[i + 1] = StateOf(others[i])
      /\ \A i \in 1 .. n - 1 : stack[i + 1] \in Naming => name = others[i].id
  BY <1>1 DEF ShapeOf
<1> QED BY <1>2, <1>3 DEF ShapeOf

-----------------------------------------------------------------------------
(* The stacks of variables and of tables.                                  *)

(* Which elements have a variable or a table.                              *)
LEMMA StateOfKind ==
    ASSUME NEW x \in OpenElements, StateOf(x) # "parser_error"
    PROVE  /\ StateOf(x) \in VariableStates <=> x \in WithVariable
           /\ StateOf(x) \in TableStates <=> x \in WithTable
           /\ StateOf(x) \in States
           /\ StateOf(x) = "inside_other_xml_attribute" <=> x.tag = "Attribute" /\ x.type = "OtherXML"
           /\ StateOf(x) = "inside_attribute" => x.tag = "Attribute" /\ x.type \notin {"Container", "OtherXML"}
           /\ StateOf(x) = "inside_attribute_value" => x.tag = "value"
<1>1. PICK tag \in Tags : tag = x.tag BY OpenIs
<1>2. PICK type \in {"none", "Byte", "Container", "OtherXML"} : type = x.type BY OpenIs
<1>3. /\ x \in WithVariable <=> tag \in VariableTags
      /\ x \in WithTable <=> tag \in VariableTags \/ (tag = "Attribute" /\ type = "Container")
  BY <1>1, <1>2 DEF WithVariable, WithTable
<1>4. CASE tag \in VariableTags
  BY <1>1, <1>3, <1>4
     DEF StateOf, VariableState, VariableTags, SimpleTags, VariableStates, TableStates, States
<1>5. CASE tag = "Attribute"
  BY <1>1, <1>2, <1>3, <1>5
     DEF StateOf, AttributeState, VariableTags, SimpleTags, VariableStates, TableStates, States
<1>6. CASE tag \notin VariableTags \cup {"Attribute"}
  BY <1>1, <1>3, <1>6
     DEF StateOf, Tags, VariableTags, SimpleTags, VariableStates, TableStates, States
<1> QED BY <1>4, <1>5, <1>6

LEMMA NamesPush ==
    ASSUME NEW stack \in Seq(States), NEW elements \in Seq(OpenElements),
           NEW n \in Nat, n > 0, n = Len(stack), Len(elements) = n - 1,
           NEW variables \in Seq(Variables), NEW tables \in Seq(Nat),
           InStep(stack, variables, tables), NamesOf(stack, variables, tables, elements),
           NEW x \in OpenElements, StateOf(x) # "parser_error",
           \A i \in 1 .. n - 1 : elements[i].id <= x.id,
           NEW vars_, NEW tables_,
           x \in WithVariable => \E v \in Variables : v.id = x.id /\ vars_ = Append(variables, v),
           x \notin WithVariable => Ids(vars_) = Ids(variables),
           tables_ = IF x \in WithTable THEN Append(tables, x.id) ELSE tables
    PROVE  NamesOf(Append(stack, StateOf(x)), vars_, tables_, Append(elements, x))
<1>1. /\ StateOf(x) \in VariableStates <=> x \in WithVariable
      /\ StateOf(x) \in TableStates <=> x \in WithTable
  BY StateOfKind
<1>2. PICK c : c = Count(stack, VariableStates, n) OBVIOUS
<1>3. PICK d : d = Count(stack, TableStates, n) OBVIOUS
<1>4. c \in Nat /\ d \in Nat BY <1>2, <1>3, CountIsNat
<1>5. Len(variables) = 1 + c /\ Len(tables) = 1 + d BY <1>2, <1>3 DEF InStep
<1>6. /\ \A k \in 1 .. 1 + c : Ids(vars_)[k] = Ids(variables)[k]
      /\ x \in WithVariable => Ids(vars_)[2 + c] = x.id
  <2>1. CASE x \in WithVariable
    <3>1. PICK v \in Variables : v.id = x.id /\ vars_ = Append(variables, v) BY <2>1
    <3>2. PICK longer : longer = vars_ OBVIOUS
    <3>3. /\ longer \in Seq(Variables) /\ Len(longer) = 2 + c
          /\ \A k \in 1 .. 1 + c : longer[k] = variables[k]
          /\ longer[2 + c] = v
      <4>1. 1 + c + 1 = 2 + c BY <1>4
      <4> QED BY <1>4, <1>5, <3>1, <3>2, <4>1, AppendProperties
    <3>4. DOMAIN longer = 1 .. 2 + c /\ DOMAIN variables = 1 .. 1 + c
      BY <1>5, <3>3, LenProperties
    <3>5. \A k \in 1 .. 1 + c : k \in 1 .. 2 + c BY <1>4
    <3>6. 2 + c \in 1 .. 2 + c BY <1>4
    <3> QED BY <3>1, <3>2, <3>3, <3>4, <3>5, <3>6 DEF Ids
  <2> QED BY <2>1
<1>7. /\ \A k \in 1 .. 1 + d : tables_[k] = tables[k]
      /\ x \in WithTable => tables_[2 + d] = x.id
  <2>1. CASE x \in WithTable
    <3>1. tables_ = Append(tables, x.id) /\ x.id \in Nat BY <2>1, OpenIs
    <3>2. 1 + d + 1 = 2 + d BY <1>4
    <3> QED BY <1>4, <1>5, <3>1, <3>2, AppendProperties
  <2> QED BY <2>1
<1>8. Named(Ids(vars_), Append(stack, StateOf(x)), VariableStates, Append(elements, x), WithVariable)
  BY <1>1, <1>2, <1>6, NamedPush DEF NamesOf
<1>9. Named(tables_, Append(stack, StateOf(x)), TableStates, Append(elements, x), WithTable)
  BY <1>1, <1>3, <1>7, NamedPush DEF NamesOf
<1> QED BY <1>8, <1>9 DEF NamesOf

LEMMA NamesPop ==
    ASSUME NEW stack \in Seq(States), NEW elements \in Seq(OpenElements),
           NEW n \in Nat, n > 1, n = Len(stack), Len(elements) = n - 1,
           NEW variables \in Seq(Variables), NEW tables \in Seq(Nat),
           InStep(stack, variables, tables), NamesOf(stack, variables, tables, elements),
           NEW vars_, NEW tables_,
           vars_ = IF Top(stack) \in VariableStates THEN Pop(variables) ELSE variables,
           tables_ = IF Top(stack) \in TableStates THEN Pop(tables) ELSE tables
    PROVE  NamesOf(Pop(stack), vars_, tables_, Pop(elements))
<1>1. PICK c : c = Count(stack, VariableStates, n - 1) OBVIOUS
<1>2. PICK d : d = Count(stack, TableStates, n - 1) OBVIOUS
<1>3. c \in Nat /\ d \in Nat
  <2>1. n - 1 \in Nat OBVIOUS
  <2> QED BY <1>1, <1>2, <2>1, CountIsNat
<1>4. /\ Count(stack, VariableStates, n) = c + (IF Top(stack) \in VariableStates THEN 1 ELSE 0)
      /\ Count(stack, TableStates, n) = d + (IF Top(stack) \in TableStates THEN 1 ELSE 0)
  <2>1. /\ Count(stack, VariableStates, n) = Count(stack, VariableStates, n - 1)
                + (IF Top(stack) \in VariableStates THEN 1 ELSE 0)
        /\ Count(stack, TableStates, n) = Count(stack, TableStates, n - 1)
                + (IF Top(stack) \in TableStates THEN 1 ELSE 0)
    BY ONLY stack \in Seq(States), n \in Nat, n > 1, n = Len(stack), PopCountsAll
  <2> QED BY ONLY <1>1, <1>2, <2>1
<1>5. /\ Len(variables) = 1 + c + (IF Top(stack) \in VariableStates THEN 1 ELSE 0)
      /\ Len(tables) = 1 + d + (IF Top(stack) \in TableStates THEN 1 ELSE 0)
  BY <1>3, <1>4 DEF InStep
<1>6. \A k \in 1 .. 1 + c : Ids(vars_)[k] = Ids(variables)[k]
  <2>1. CASE Top(stack) \in VariableStates
    <3>1. PICK m \in Nat : m = Len(variables) /\ m = 2 + c BY <1>3, <1>5, <2>1
    <3>2. PICK shorter : shorter = Pop(variables) OBVIOUS
    <3>3. /\ shorter \in Seq(Variables) /\ Len(shorter) = m - 1
          /\ \A k \in 1 .. m - 1 : shorter[k] = variables[k]
      <4>1. m > 0 BY <1>3, <3>1
      <4> QED BY <3>1, <3>2, <4>1, PopIs
    <3>4. DOMAIN shorter = 1 .. m - 1 /\ DOMAIN variables = 1 .. m
      BY <3>1, <3>3, LenProperties
    <3>5. vars_ = shorter BY <2>1, <3>2
    <3>6. \A k \in 1 .. 1 + c : k \in 1 .. m - 1 /\ k \in 1 .. m BY <1>3, <3>1
    <3> QED BY <3>3, <3>4, <3>5, <3>6 DEF Ids
  <2> QED BY <2>1
<1>7. \A k \in 1 .. 1 + d : tables_[k] = tables[k]
  <2>1. CASE Top(stack) \in TableStates
    <3>1. PICK m \in Nat : m = Len(tables) /\ m = 2 + d BY <1>3, <1>5, <2>1
    <3>2. \A k \in 1 .. m - 1 : Pop(tables)[k] = tables[k]
      <4>1. m > 0 BY <1>3, <3>1
      <4> QED BY <3>1, <4>1, PopIs
    <3>3. m - 1 = 1 + d BY <1>3, <3>1
    <3> QED BY <2>1, <3>2, <3>3
  <2> QED BY <2>1
<1>8. Named(Ids(vars_), Pop(stack), VariableStates, Pop(elements), WithVariable)
  BY <1>1, <1>6, NamedPop DEF NamesOf
<1>9. Named(tables_, Pop(stack), TableStates, Pop(elements), WithTable)
  BY <1>2, <1>7, NamedPop DEF NamesOf
<1> QED BY <1>8, <1>9 DEF NamesOf

(* The tops of the stacks are the innermost open elements.                 *)
LEMMA NamesTop ==
    ASSUME IInv, Names, Len(open) = Len(s) - 1
    PROVE  /\ Top(bt_stack).id = InnermostOf(OpenVariables)
           /\ Top(at_stack) = InnermostOf(OpenVariables \cup OpenContainers)
<1>1. /\ s \in Seq(States) /\ Len(s) > 0 /\ open \in Seq(OpenElements)
      /\ bt_stack \in Seq(Variables) /\ at_stack \in Seq(Nat)
      /\ InStep(s, bt_stack, at_stack)
  BY DEF IInv, ParserInv, Stacks, StackOK
<1>2. PICK n \in Nat : n = Len(s) /\ n > 0 BY <1>1, LenProperties
<1>3. PICK c \in Nat : c = Count(s, VariableStates, n) BY CountIsNat
<1>4. PICK d \in Nat : d = Count(s, TableStates, n) BY CountIsNat
<1>5. Len(bt_stack) = 1 + c /\ Len(at_stack) = 1 + d BY <1>1, <1>2, <1>3, <1>4 DEF InStep
<1>6. /\ Ids(bt_stack)[1 + c] = InnermostOf(Of(open, WithVariable, n - 1))
      /\ at_stack[1 + d] = InnermostOf(Of(open, WithTable, n - 1))
  <2>1. n \in 1 .. n BY <1>2
  <2> QED BY <1>2, <1>3, <1>4, <2>1 DEF Names, NamesOf, Named
<1>7. Ids(bt_stack)[1 + c] = Top(bt_stack).id
  <2>1. DOMAIN bt_stack = 1 .. 1 + c BY <1>1, <1>5, LenProperties
  <2> QED BY <1>5, <2>1 DEF Ids, Top
<1>8. /\ DOMAIN open = 1 .. n - 1
      /\ \A i \in 1 .. n - 1 : open[i] \in OpenElements
  BY <1>1, <1>2, LenProperties, ElementOfSeq
<1>9. Of(open, WithVariable, n - 1) = OpenVariables
  BY <1>8 DEF Of, WithVariable, OpenVariables
<1>10. Of(open, WithTable, n - 1) = OpenVariables \cup OpenContainers
  BY <1>8 DEF Of, WithVariable, WithTable, OpenVariables, OpenContainers
<1> QED BY <1>5, <1>6, <1>7, <1>9, <1>10 DEF Top

-----------------------------------------------------------------------------
(* A variable is for the one below it.                                     *)

LEMMA PairsPush ==
    ASSUME NEW variables \in Seq(Variables), NEW n \in Nat, n > 0, n = Len(variables),
           NEW v \in Variables
    PROVE  Pairs(Append(variables, v)) = Pairs(variables) \cup {<<Top(variables).id, v.id>>}
<1>1. PICK longer : longer = Append(variables, v) OBVIOUS
<1>2. /\ Len(longer) = n + 1 /\ longer[n + 1] = v
      /\ \A i \in 1 .. n : longer[i] = variables[i]
  BY <1>1, AppendProperties
<1>3. n + 1 - 1 = n OBVIOUS
<1>4. \A k \in 1 .. n - 1 : /\ longer[k] = variables[k] /\ longer[k + 1] = variables[k + 1]
                            /\ k \in 1 .. n
  BY <1>2
<1>5. longer[n] = Top(variables) /\ n \in 1 .. n BY <1>2 DEF Top
<1>6. \A k \in 1 .. n : k = n \/ k \in 1 .. n - 1 OBVIOUS
<1>7. Pairs(longer) \subseteq Pairs(variables) \cup {<<Top(variables).id, v.id>>}
  <2>1. SUFFICES ASSUME NEW k \in 1 .. n
                 PROVE  <<longer[k].id, longer[k + 1].id>>
                          \in Pairs(variables) \cup {<<Top(variables).id, v.id>>}
    BY <1>2, <1>3 DEF Pairs
  <2>2. CASE k = n BY <1>2, <1>5, <2>2
  <2>3. CASE k \in 1 .. n - 1 BY <1>4, <2>3 DEF Pairs
  <2> QED BY <1>6, <2>2, <2>3
<1>8. Pairs(variables) \subseteq Pairs(longer) BY <1>2, <1>3, <1>4 DEF Pairs
<1>9. <<Top(variables).id, v.id>> \in Pairs(longer) BY <1>2, <1>3, <1>5 DEF Pairs
<1> QED BY <1>1, <1>7, <1>8, <1>9

LEMMA PairsPop ==
    ASSUME NEW variables \in Seq(Variables), NEW n \in Nat, n > 1, n = Len(variables)
    PROVE  Pairs(variables) = Pairs(Pop(variables)) \cup {<<Parent(variables).id, Top(variables).id>>}
<1>1. PICK shorter : shorter = Pop(variables) OBVIOUS
<1>2. Len(shorter) = n - 1 /\ \A i \in 1 .. n - 1 : shorter[i] = variables[i]
  <2>1. n > 0 OBVIOUS
  <2> QED BY <1>1, <2>1, PopIs
<1>3. n - 1 - 1 = n - 2 /\ n - 2 + 1 = n - 1 /\ n - 1 + 1 = n OBVIOUS
<1>4. \A k \in 1 .. n - 2 : /\ shorter[k] = variables[k] /\ shorter[k + 1] = variables[k + 1]
                            /\ k \in 1 .. n - 1
  BY <1>2
<1>5. Parent(variables) = variables[n - 1] /\ Top(variables) = variables[n] /\ n - 1 \in 1 .. n - 1
  BY DEF Parent, Top
<1>6. \A k \in 1 .. n - 1 : k = n - 1 \/ k \in 1 .. n - 2 OBVIOUS
<1>7. Pairs(variables) \subseteq Pairs(shorter) \cup {<<Parent(variables).id, Top(variables).id>>}
  <2>1. SUFFICES ASSUME NEW k \in 1 .. n - 1
                 PROVE  <<variables[k].id, variables[k + 1].id>>
                          \in Pairs(shorter) \cup {<<Parent(variables).id, Top(variables).id>>}
    BY DEF Pairs
  <2>2. CASE k = n - 1 BY <1>3, <1>5, <2>2
  <2>3. CASE k \in 1 .. n - 2 BY <1>2, <1>3, <1>4, <2>3 DEF Pairs
  <2> QED BY <1>6, <2>2, <2>3
<1>8. Pairs(shorter) \subseteq Pairs(variables) BY <1>2, <1>3, <1>4 DEF Pairs
<1>9. <<Parent(variables).id, Top(variables).id>> \in Pairs(variables) BY <1>3, <1>5 DEF Pairs
<1> QED BY <1>1, <1>7, <1>8, <1>9

(* The pairs are those of the ids.                                         *)
LEMMA PairsSame ==
    ASSUME NEW a \in Seq(Variables), NEW b \in Seq(Variables), Ids(a) = Ids(b)
    PROVE  Pairs(a) = Pairs(b)
<1>1. DOMAIN a = 1 .. Len(a) /\ DOMAIN b = 1 .. Len(b) /\ Len(a) \in Nat /\ Len(b) \in Nat
  BY LenProperties
<1>2. DOMAIN Ids(a) = 1 .. Len(a) /\ DOMAIN Ids(b) = 1 .. Len(b) BY <1>1 DEF Ids
<1>3. Len(a) = Len(b)
  <2>1. PICK p \in Nat, q \in Nat : p = Len(a) /\ q = Len(b) BY <1>1
  <2>2. 1 .. p = 1 .. q BY <1>2, <2>1
  <2>3. p > 0 => p \in 1 .. p BY <2>1
  <2>4. q > 0 => q \in 1 .. q BY <2>1
  <2>5. p > 0 => p <= q BY <2>2, <2>3
  <2>6. q > 0 => q <= p BY <2>2, <2>4
  <2> QED BY <2>1, <2>5, <2>6
<1>4. \A k \in 1 .. Len(a) : a[k].id = b[k].id BY <1>1, <1>3 DEF Ids
<1>5. \A k \in 1 .. Len(a) - 1 : k \in 1 .. Len(a) /\ k + 1 \in 1 .. Len(a) BY <1>1
<1> QED BY <1>3, <1>4, <1>5 DEF Pairs

-----------------------------------------------------------------------------
(* A parser that has found no error.                                       *)

(* What the state on top says of the open elements.                        *)
LEMMA Context ==
    ASSUME IInv, InDocument
    PROVE  /\ get_state # "parser_error"
           /\ get_state = "parser_start" => Len(s) = 1
           /\ get_state # "parser_start" => open # <<>> /\ Len(s) > 1
           /\ get_state = "inside_other_xml_attribute" <=> InOtherXML
           /\ get_state # "inside_other_xml_attribute" => Len(open) = Len(s) - 1
           /\ Len(open) = Len(s) - 1 /\ open # <<>> =>
                /\ get_state = StateOf(Top(open))
                /\ get_state \in Naming => dods_attr_name = Top(open).id
           /\ get_state = "inside_attribute" => Top(open).type = "Byte"
<1>1. PICK n \in Nat : n = Len(s) /\ n > 0
  BY LenProperties DEF IInv, ParserInv, Stacks, StackOK
<1>2. PICK m \in Nat : m = Len(open) BY LenProperties DEF IInv
<1>3. /\ n - 1 <= m
      /\ \A i \in 1 .. n - 1 : s[i + 1] = StateOf(open[i])
      /\ \A i \in 1 .. n : s[i] # "parser_error"
      /\ \A i \in 1 .. n - 1 : s[i] \notin Leaves
      /\ \A i \in 1 .. n - 1 : s[i + 1] \in Naming => dods_attr_name = open[i].id
      /\ m > n - 1 => s[n] = "inside_other_xml_attribute"
  BY <1>1, <1>2 DEF InDocument, Shape, ShapeOf
<1>4. get_state = s[n] BY <1>1 DEF get_state, Top
<1>5. s[1] = "parser_start" /\ \A i \in 2 .. n : s[i] # "parser_start"
  BY <1>1 DEF IInv, ParserInv, Stacks, StackOK
<1>6. get_state = "parser_start" => n = 1
  <2>1. n = 1 \/ n \in 2 .. n BY <1>1
  <2> QED BY <1>4, <1>5, <2>1
<1>7. get_state # "parser_start" => n > 1 BY <1>1, <1>4, <1>5
<1>8. n > 1 => open # <<>>
  <2>1. n > 1 => m > 0 BY <1>3
  <2> QED BY <1>2, <2>1, EmptySeq
<1>9. get_state # "inside_other_xml_attribute" => m = n - 1 BY <1>3, <1>4
<1>10. DOMAIN open = 1 .. m /\ \A i \in 1 .. m : open[i] \in OpenElements
  BY <1>2, LenProperties, ElementOfSeq DEF IInv
<1>11. \A i \in 1 .. m : open[i].type = "none" <=> open[i].tag # "Attribute"
  BY <1>2 DEF InDocument, Numbered, NumberedOf
<1>12. \A i \in 1 .. n - 1 : open[i].type = "OtherXML" => StateOf(open[i]) = "inside_other_xml_attribute"
  <2>1. SUFFICES ASSUME NEW i \in 1 .. n - 1, open[i].type = "OtherXML"
                 PROVE  StateOf(open[i]) = "inside_other_xml_attribute"
    OBVIOUS
  <2>2. i \in 1 .. m BY <1>2, <1>3
  <2>3. PICK x \in OpenElements : x = open[i] BY <1>10, <2>2
  <2>4. x.tag = "Attribute" /\ x.type = "OtherXML" BY <1>11, <2>1, <2>2, <2>3
  <2>5. StateOf(x) = "inside_other_xml_attribute" BY <2>4 DEF StateOf, AttributeState, VariableTags, SimpleTags
  <2> QED BY <2>3, <2>5
<1>13. InOtherXML => get_state = "inside_other_xml_attribute"
  <2>1. SUFFICES ASSUME m = n - 1, NEW i \in 1 .. m, open[i].type = "OtherXML"
                 PROVE  s[n] = "inside_other_xml_attribute"
    BY <1>4, <1>9, <1>10 DEF InOtherXML
  <2>2. s[i + 1] = "inside_other_xml_attribute" BY <1>3, <1>12, <2>1
  <2>3. i + 1 = n \/ i + 1 \in 1 .. n - 1 BY <2>1
  <2> QED BY <1>3, <2>2, <2>3 DEF Leaves
<1>14. get_state = "inside_other_xml_attribute" => InOtherXML
  <2>1. SUFFICES ASSUME s[n] = "inside_other_xml_attribute" PROVE InOtherXML BY <1>4
  <2>2. n > 1 BY <1>4, <1>7, <2>1
  <2>3. n - 1 \in 1 .. n - 1 /\ n - 1 + 1 = n /\ n - 1 \in 1 .. m BY <1>3, <2>2
  <2>4. StateOf(open[n - 1]) = "inside_other_xml_attribute" BY <1>3, <2>1, <2>3
  <2>5. open[n - 1] \in OpenElements BY <1>10, <2>3
  <2>6. open[n - 1].type = "OtherXML"
    <3>1. PICK x \in OpenElements : x = open[n - 1] BY <2>5
    <3> QED BY <2>4, <3>1, StateOfKind
  <2> QED BY <1>10, <2>3, <2>6 DEF InOtherXML
<1>15. ASSUME m = n - 1, m # 0
       PROVE  /\ get_state = StateOf(Top(open)) /\ Top(open) \in OpenElements
              /\ get_state \in Naming => dods_attr_name = Top(open).id
              /\ Top(open).type = "none" <=> Top(open).tag # "Attribute"
  <2>1. m \in 1 .. n - 1 /\ m + 1 = n /\ m \in 1 .. m BY <1>15
  <2> QED BY <1>2, <1>3, <1>4, <1>10, <1>11, <2>1 DEF Top
<1>16. get_state = "inside_attribute" => Top(open).type = "Byte"
  <2>1. SUFFICES ASSUME get_state = "inside_attribute" PROVE Top(open).type = "Byte" OBVIOUS
  <2>2. m = n - 1 /\ m # 0 BY <1>7, <1>9, <2>1
  <2>3. PICK x \in OpenElements : x = Top(open) BY <1>15, <2>2
  <2>4. x.tag = "Attribute" /\ x.type \notin {"Container", "OtherXML"}
    BY <1>15, <2>1, <2>2, <2>3, StateOfKind
  <2>5. x.type # "none" BY <1>15, <2>2, <2>3, <2>4
  <2> QED BY <2>3, <2>4, <2>5, OpenIs
<1>17. open # <<>> => m # 0 BY <1>2, EmptySeq DEF IInv
<1> QED BY <1>1, <1>2, <1>3, <1>4, <1>6, <1>7, <1>8, <1>9, <1>13, <1>14, <1>15, <1>16, <1>17

(* An element begins whose state is pushed.                                *)
Pushes(x) ==
    /\ open' = Append(open, x) /\ count' = count + 1 /\ s' = Append(s, StateOf(x))
    /\ UNCHANGED other_xml_depth
    /\ dods_attr_name' = IF StateOf(x) \in Naming THEN x.id ELSE dods_attr_name
    /\ x \in WithVariable =>
         \E v \in Variables : v.id = x.id /\ bt_stack' = Append(bt_stack, v)
    /\ x \notin WithVariable => Ids(bt_stack') = Ids(bt_stack)
    /\ at_stack' = IF x \in WithTable THEN Append(at_stack, x.id) ELSE at_stack

LEMMA Begins ==
    ASSUME IInv, InDocument, NEW x \in OpenElements, x.id = count + 1,
           x.type = "none" <=> x.tag # "Attribute",
           Pushes(x), StateOf(x) # "parser_error", get_state \notin Leaves,
           get_state = "inside_attribute" => StateOf(x) \in InAttribute
    PROVE  Shape' /\ Numbered' /\ Names'
<1>1. PICK n \in Nat : n = Len(s) /\ n > 0
  BY LenProperties DEF IInv, ParserInv, Stacks, StackOK
<1>2. /\ s \in Seq(States) /\ open \in Seq(OpenElements) /\ other_xml_depth \in Nat
      /\ bt_stack \in Seq(Variables) /\ at_stack \in Seq(Nat) /\ count \in Nat
      /\ InStep(s, bt_stack, at_stack)
  BY DEF IInv, ParserInv, Stacks, StackOK
<1>3. Len(open) = n - 1 BY <1>1, Context DEF Leaves
<1>4. \A i \in 1 .. n - 1 : open[i] \in OpenElements /\ open[i].id <= count
  BY <1>2, <1>3, ElementOfSeq DEF InDocument, Numbered, NumberedOf
<1>5. \A i \in 1 .. n - 1 : open[i].id <= count + 1
  <2>1. \A i \in 1 .. n - 1 : open[i].id \in Nat BY <1>4, OpenIs
  <2> QED BY <1>2, <1>4, <2>1
<1>6. Shape'
  <2>1. PICK next : next = dods_attr_name' OBVIOUS
  <2>2. next = IF StateOf(x) \in Naming THEN x.id ELSE dods_attr_name BY <2>1 DEF Pushes
  <2>3. ShapeOf(s, open, other_xml_depth, dods_attr_name) BY DEF InDocument, Shape
  <2>4. ShapeOf(Append(s, StateOf(x)), Append(open, x), other_xml_depth, next)
    BY <1>1, <1>2, <2>2, <2>3, ShapePush DEF get_state
  <2> QED BY <2>1, <2>4 DEF Shape, Pushes
<1>7. Numbered'
  <2>1. PICK longer : longer = Append(open, x) OBVIOUS
  <2>2. Len(longer) = n /\ longer[n] = x /\ \A i \in 1 .. n - 1 : longer[i] = open[i]
    <3>1. n - 1 + 1 = n OBVIOUS
    <3> QED BY <1>2, <1>3, <2>1, <3>1, AppendProperties
  <2>3. \A i \in 1 .. n : i = n \/ i \in 1 .. n - 1 BY <1>1
  <2>4. \A i \in 1 .. n - 1 : open[i].type = "none" <=> open[i].tag # "Attribute"
    BY <1>3 DEF InDocument, Numbered, NumberedOf
  <2>5. \A i \in 1 .. n : longer[i].id <= count + 1
    <3>1. x.id <= count + 1 BY <1>2
    <3> QED BY <1>5, <2>2, <2>3, <3>1
  <2>6. \A i \in 1 .. n : longer[i].type = "none" <=> longer[i].tag # "Attribute"
    BY <2>2, <2>3, <2>4
  <2> QED BY <2>1, <2>2, <2>5, <2>6 DEF Pushes, Numbered, NumberedOf
<1>8. Names'
  <2>1. PICK vars_ : vars_ = bt_stack' OBVIOUS
  <2>2. PICK tables_ : tables_ = at_stack' OBVIOUS
  <2>3. /\ x \in WithVariable => \E v \in Variables : v.id = x.id /\ vars_ = Append(bt_stack, v)
        /\ x \notin WithVariable => Ids(vars_) = Ids(bt_stack)
        /\ tables_ = IF x \in WithTable THEN Append(at_stack, x.id) ELSE at_stack
    BY <2>1, <2>2 DEF Pushes
  <2>4. NamesOf(s, bt_stack, at_stack, open) BY DEF InDocument, Names
  <2>5. NamesOf(Append(s, StateOf(x)), vars_, tables_, Append(open, x))
    BY <1>1, <1>2, <1>3, <1>5, <2>3, <2>4, NamesPush
  <2> QED BY <2>1, <2>2, <2>5 DEF Names, Pushes
<1> QED BY <1>6, <1>7, <1>8

(* The innermost element ends, with its state.                             *)
Pops ==
    /\ open' = Pop(open) /\ count' = count /\ s' = Pop(s)
    /\ UNCHANGED <<other_xml_depth, dods_attr_name>>
    /\ bt_stack' = IF get_state \in VariableStates THEN Pop(bt_stack) ELSE bt_stack
    /\ at_stack' = IF get_state \in TableStates THEN Pop(at_stack) ELSE at_stack

LEMMA EndsIts ==
    ASSUME IInv, InDocument, Len(open) = Len(s) - 1, open # <<>>, Pops
    PROVE  Shape' /\ Numbered' /\ Names' /\ get_state' \notin Leaves
<1>1. PICK n \in Nat : n = Len(s) /\ n > 0
  BY LenProperties DEF IInv, ParserInv, Stacks, StackOK
<1>2. /\ s \in Seq(States) /\ open \in Seq(OpenElements) /\ other_xml_depth \in Nat
      /\ bt_stack \in Seq(Variables) /\ at_stack \in Seq(Nat) /\ count \in Nat
      /\ InStep(s, bt_stack, at_stack)
  BY DEF IInv, ParserInv, Stacks, StackOK
<1>3. Len(open) = n - 1 BY <1>1
<1>4. n > 1
  <2>1. Len(open) # 0 BY <1>2, EmptySeq
  <2> QED BY <1>1, <1>3, <2>1
<1>5. Shape' /\ get_state' \notin Leaves
  <2>1. ShapeOf(s, open, other_xml_depth, dods_attr_name) BY DEF InDocument, Shape
  <2>2. /\ ShapeOf(Pop(s), Pop(open), other_xml_depth, dods_attr_name)
        /\ Top(Pop(s)) \notin Leaves
    BY <1>1, <1>2, <1>3, <1>4, <2>1, ShapePop
  <2> QED BY <2>2 DEF Shape, get_state, Pops
<1>6. Numbered'
  <2>1. PICK shorter : shorter = Pop(open) OBVIOUS
  <2>2. PICK m \in Nat : m = n - 1 /\ m > 0 BY <1>4
  <2>3. Len(shorter) = m - 1 /\ \A i \in 1 .. m - 1 : shorter[i] = open[i]
    BY <1>2, <1>3, <2>1, <2>2, PopIs
  <2>4. \A i \in 1 .. m - 1 : i \in 1 .. Len(open) BY <1>3, <2>2
  <2> QED BY <2>1, <2>3, <2>4 DEF InDocument, Numbered, NumberedOf, Pops
<1>7. Names'
  <2>1. PICK vars_ : vars_ = bt_stack' OBVIOUS
  <2>2. PICK tables_ : tables_ = at_stack' OBVIOUS
  <2>3. /\ vars_ = IF Top(s) \in VariableStates THEN Pop(bt_stack) ELSE bt_stack
        /\ tables_ = IF Top(s) \in TableStates THEN Pop(at_stack) ELSE at_stack
    BY <2>1, <2>2 DEF get_state, Pops
  <2>4. NamesOf(s, bt_stack, at_stack, open) BY DEF InDocument, Names
  <2>5. NamesOf(Pop(s), vars_, tables_, Pop(open))
    BY <1>1, <1>2, <1>3, <1>4, <2>3, <2>4, NamesPop
  <2> QED BY <2>1, <2>2, <2>5 DEF Names, Pops
<1> QED BY <1>5, <1>6, <1>7

-----------------------------------------------------------------------------
(* Start tags.                                                             *)

(* What the document says of an element, in the parser's terms.            *)
Noted(e) == e.tag \in {"value", "Alias"} \/ e.type \in {"Container", "OtherXML"}

LEMMA Notes ==
    ASSUME IInv, InDocument, ~errors, get_state # "inside_other_xml_attribute",
           NEW e \in Elements, NEW id, NoteVariable(e, id), NoteAttribute(e, id)
    PROVE  /\ doc_vars' = IF e.tag \in VariableTags
                          THEN doc_vars \cup {<<Top(bt_stack).id, id>>} ELSE doc_vars
           /\ doc_attrs' = IF Noted(e) /\ open # <<>>
                           THEN doc_attrs \cup {<<Top(at_stack),
                                  IF e.tag = "value" THEN Top(open).id ELSE id, id>>}
                           ELSE doc_attrs
<1>1. ~InOtherXML /\ Len(open) = Len(s) - 1 BY Context
<1>2. /\ Top(bt_stack).id = InnermostOf(OpenVariables)
      /\ Top(at_stack) = InnermostOf(OpenVariables \cup OpenContainers)
  BY <1>1, NamesTop DEF InDocument
<1> QED BY <1>1, <1>2 DEF NoteVariable, NoteAttribute, Noted

LEMMA NewTop ==
    ASSUME NEW S, NEW stack \in Seq(S), NEW x \in S
    PROVE  Top(Append(stack, x)) = x
<1>1. Len(Append(stack, x)) = Len(stack) + 1 /\ Append(stack, x)[Len(stack) + 1] = x
  BY AppendProperties
<1> QED BY <1>1 DEF Top

(* An element that is no variable and whose state is pushed, with what is  *)
(* added to the tables at once.                                            *)
LEMMA BeginsPlain ==
    ASSUME IInv, InDocument, NEW x \in OpenElements, x.id = count + 1,
           x.type = "none" <=> x.tag # "Attribute",
           Pushes(x), StateOf(x) # "parser_error", get_state \notin Leaves,
           get_state = "inside_attribute" => StateOf(x) \in InAttribute,
           x \notin WithVariable, IInv',
           UNCHANGED <<vars_added, doc_vars>>,
           doc_attrs = attrs_added => doc_attrs' = attrs_added' \cup Value'
    PROVE  InDocument'
<1>1. Shape' /\ Numbered' /\ Names' BY Begins
<1>2. Value = {} BY DEF Value, Leaves
<1>3. Ids(bt_stack') = Ids(bt_stack) BY DEF Pushes
<1>4. Pairs(bt_stack') = Pairs(bt_stack)
  <2>1. PICK before : before = bt_stack OBVIOUS
  <2>2. PICK after : after = bt_stack' OBVIOUS
  <2>3. before \in Seq(Variables) /\ after \in Seq(Variables)
    BY <2>1, <2>2 DEF IInv, ParserInv, Stacks
  <2> QED BY <1>3, <2>1, <2>2, <2>3, PairsSame
<1>5. Added' BY <1>2, <1>4 DEF InDocument, Added
<1> QED BY <1>1, <1>5 DEF InDocument

LEMMA StartInside ==
    ASSUME IInv, InDocument, NEW x \in OpenElements, x.id = count + 1,
           x.type = "none" <=> x.tag # "Attribute",
           get_state = "inside_other_xml_attribute", ~(x.tag = "Attribute" /\ x.dap),
           open' = Append(open, x), count' = count + 1,
           other_xml_depth' = (other_xml_depth + 1) % (UINT_MAX + 1),
           UNCHANGED <<s, bt_stack, at_stack, dods_attr_name, vars_added, attrs_added,
                       doc_vars, doc_attrs>>
    PROVE  InDocument'
<1>1. PICK n \in Nat : n = Len(s) /\ n > 0
  BY LenProperties DEF IInv, ParserInv, Stacks, StackOK
<1>2. PICK m \in Nat : m = Len(open) BY LenProperties DEF IInv
<1>3. PICK longer : longer = Append(open, x) OBVIOUS
<1>4. Len(longer) = m + 1 /\ longer[m + 1] = x /\ \A i \in 1 .. m : longer[i] = open[i]
  BY <1>2, <1>3, AppendProperties DEF IInv
<1>5. PICK depth \in Nat : depth = other_xml_depth /\ depth <= UINT_MAX
  BY DDXAssumption DEF IInv, ParserInv
<1>6. PICK deep : deep = (depth + 1) % (UINT_MAX + 1) OBVIOUS
<1>7. deep <= depth + 1
  <2>1. CASE depth = UINT_MAX
    <3>1. deep \in 0 .. UINT_MAX BY <1>5, <1>6, DDXAssumption
    <3> QED BY <1>5, <2>1, <3>1, DDXAssumption
  <2>2. CASE depth # UINT_MAX
    <3>1. depth + 1 \in 0 .. UINT_MAX BY <1>5, <2>2, DDXAssumption
    <3>2. deep = depth + 1 BY <1>6, <3>1, DDXAssumption
    <3> QED BY <3>2, <1>5
  <2> QED BY <2>1, <2>2
<1>8. n - 1 <= m /\ depth <= m - (n - 1)
  BY <1>1, <1>2, <1>5 DEF InDocument, Shape, ShapeOf
<1>9. deep \in Nat BY <1>5, <1>6, DDXAssumption
<1>10. s[n] = "inside_other_xml_attribute" BY <1>1 DEF get_state, Top
<1>11. Shape'
  <2>1. ShapeOf(s, open, depth, dods_attr_name) BY <1>5 DEF InDocument, Shape
  <2>2. PICK k \in Nat : k = m + 1 OBVIOUS
  <2>3. Inside(open, longer, n) BY <1>1, <1>2, <1>4, <1>8, <2>2 DEF Inside
  <2>4. s \in Seq(States) BY DEF IInv, ParserInv, Stacks, StackOK
  <2>5. n - 1 <= k /\ deep <= k - (n - 1) /\ k = Len(longer)
    BY <1>1, <1>4, <1>5, <1>7, <1>8, <1>9, <2>2
  <2>6. ShapeOf(s, longer, deep, dods_attr_name)
    BY ONLY n \in Nat, depth \in Nat, k \in Nat, <1>1, <1>5, <1>10,
            <2>1, <2>2, <2>3, <2>4, <2>5, ShapeInside
  <2> QED BY <1>3, <1>5, <1>6, <2>6 DEF Shape
<1>12. Numbered'
  <2>1. count \in Nat /\ \A i \in 1 .. m : open[i] \in OpenElements /\ open[i].id <= count
    BY <1>2, ElementOfSeq DEF IInv, InDocument, Numbered, NumberedOf
  <2>2. \A i \in 1 .. m : open[i].id \in Nat BY <2>1, OpenIs
  <2>3. \A i \in 1 .. m : open[i].type = "none" <=> open[i].tag # "Attribute"
    BY <1>2 DEF InDocument, Numbered, NumberedOf
  <2>4. \A i \in 1 .. m + 1 : i = m + 1 \/ i \in 1 .. m BY <1>2
  <2>5. \A i \in 1 .. m + 1 : longer[i].id <= count + 1
    <3>1. x.id <= count + 1 BY <2>1
    <3>2. \A i \in 1 .. m : open[i].id <= count + 1 BY <2>1, <2>2
    <3> QED BY <1>4, <2>4, <3>1, <3>2
  <2>6. \A i \in 1 .. m + 1 : longer[i].type = "none" <=> longer[i].tag # "Attribute"
    BY <1>4, <2>3, <2>4
  <2> QED BY <1>3, <1>4, <2>5, <2>6 DEF Numbered, NumberedOf
<1>13. Names'
  <2>1. \A i \in 1 .. n - 1 : longer[i] = open[i] BY <1>4, <1>8
  <2>2. NamesOf(s, bt_stack, at_stack, open) BY DEF InDocument, Names
  <2>3. NamesOf(s, bt_stack, at_stack, longer)
    BY <1>1, <2>1, <2>2, NamedSame DEF NamesOf
  <2> QED BY <1>3, <2>3 DEF Names
<1>14. Added'
  <2>1. get_state' = get_state BY DEF get_state
  <2> QED BY <2>1 DEF InDocument, Added, Value
<1> QED BY <1>11, <1>12, <1>13, <1>14 DEF InDocument

(* Every start tag.                                                        *)
LEMMA StartKeeps ==
    ASSUME IInv, InDocument, NEW e \in Elements, StartElement(e),
           ~errors, ~errors', ~nested'
    PROVE  InDocument'
<1>1. PICK id : id = count + 1 OBVIOUS
<1>2. PICK x : x = [id |-> id, tag |-> e.tag, type |-> e.type, dap |-> e.dap] OBVIOUS
<1>3. /\ ddx_sax2_start_element(e, id) /\ NoteVariable(e, id) /\ NoteAttribute(e, id)
      /\ open' = Append(open, x)
      /\ count' = IF get_state = "parser_error" THEN MaxElements ELSE id
  BY <1>1, <1>2 DEF StartElement
<1>4. /\ e \in StartTags /\ e.complete \in BOOLEAN
      /\ e.type = "none" <=> e.tag # "Attribute"
  BY DDXAssumption DEF StartTags
<1>5. /\ x.id = id /\ x.tag = e.tag /\ x.type = e.type /\ x.dap = e.dap
      /\ x.type = "none" <=> x.tag # "Attribute"
  BY <1>2, <1>4
<1>6. x \in OpenElements /\ id \in Nat
  <2>1. count \in Nat /\ count < MaxElements BY DEF IInv, StartElement
  <2>2. id \in 0 .. MaxElements BY <1>1, <2>1, DDXAssumption
  <2> QED BY <1>2, <1>4, <2>2 DEF StartTags, OpenElements
<1>7. IInv' BY StartElementIInv
<1>8. get_state # "parser_error" BY Context
<1>9. count' = count + 1 BY <1>1, <1>3, <1>8
<1>10. errors \in BOOLEAN BY DEF IInv, ParserInv
<1>11. CASE get_state = "inside_other_xml_attribute"
  <2>1. start_other_xml(e)
    BY <1>3, <1>11
       DEF ddx_sax2_start_element, start_dataset, HasAttributes, is_variable, Allowed, start_value
  <2>2. InOtherXML /\ open # <<>> BY <1>11, Context
  <2>3. UNCHANGED <<doc_vars, doc_attrs>> BY <1>3, <2>2 DEF NoteVariable, NoteAttribute
  <2>4. ~(e.tag = "Attribute" /\ e.dap) BY <1>3, <2>2 DEF NoteAttribute
  <2> QED BY <1>1, <1>3, <1>5, <1>6, <1>9, <1>11, <2>1, <2>3, <2>4, StartInside DEF start_other_xml
<1>12. CASE get_state # "inside_other_xml_attribute"
  <2>1. /\ doc_vars' = IF e.tag \in VariableTags
                       THEN doc_vars \cup {<<Top(bt_stack).id, id>>} ELSE doc_vars
        /\ doc_attrs' = IF Noted(e) /\ open # <<>>
                        THEN doc_attrs \cup {<<Top(at_stack),
                               IF e.tag = "value" THEN Top(open).id ELSE id, id>>}
                        ELSE doc_attrs
    BY <1>3, <1>12, Notes
  <2>3. get_state # "parser_start" => open # <<>> BY Context
  <2>4. get_state = "inside_attribute" => open # <<>> /\ Top(open).type = "Byte" BY Context
  <2>5. ASSUME s' = Append(s, StateOf(x)), StateOf(x) # "parser_error"
        PROVE  get_state' = StateOf(x)
    <3>1. s \in Seq(States) /\ StateOf(x) \in States
      BY <1>6, <2>5, StateOfKind DEF IInv, ParserInv, Stacks, StackOK
    <3> QED BY <2>5, <3>1, NewTop DEF get_state
  <2>6. /\ x \in WithVariable <=> e.tag \in VariableTags
        /\ x \in WithTable <=> e.tag \in VariableTags \/ (e.tag = "Attribute" /\ e.type = "Container")
    BY <1>5, <1>6 DEF WithVariable, WithTable
  <2>7. CASE start_dataset(e)
    <3>1. e.tag = "Dataset" /\ get_state = "parser_start" BY <2>7 DEF start_dataset
    <3>2. StateOf(x) = "inside_dataset" /\ e.type = "none" /\ e.tag \notin VariableTags
      BY <1>4, <1>5, <3>1 DEF StateOf, VariableTags, SimpleTags
    <3>3. e.complete BY <1>10, <2>7, <1>4 DEF start_dataset, Reported
    <3>4. Pushes(x)
      BY <1>3, <1>9, <2>6, <2>7, <3>1, <3>2, <3>3 DEF start_dataset, Pushes, Naming, attribute
    <3>5. UNCHANGED <<vars_added, attrs_added, doc_vars, doc_attrs>>
      BY <2>1, <2>7, <3>1, <3>2 DEF start_dataset, Noted
    <3>6. Value' = {} BY <2>5, <3>2, <3>4 DEF Value, Pushes
    <3> QED BY <1>1, <1>5, <1>6, <1>7, <2>6, <3>1, <3>2, <3>4, <3>5, <3>6, BeginsPlain DEF Leaves
  <2>8. CASE HasAttributes(get_state) /\ process_attribute_element(e, id)
    <3> SUFFICES ASSUME HasAttributes(get_state), process_attribute_element(e, id)
                 PROVE  InDocument'
      BY <2>8
    <3>1. e.tag = "Attribute" /\ get_state \notin Leaves /\ get_state # "parser_start"
      BY DEF process_attribute_element, HasAttributes, Leaves
    <3>2. get_state # "inside_attribute" BY <1>3, <2>4, <3>1 DEF NoteAttribute
    <3>3. StateOf(x) = AttributeState(e.type) /\ e.tag \notin VariableTags
      BY <1>5, <3>1 DEF StateOf, VariableTags, SimpleTags
    <3>4. e.complete BY <1>4, <1>10 DEF process_attribute_element, Reported
    <3>5. StateOf(x) # "parser_error" BY <3>3 DEF AttributeState
    <3>6. Pushes(x)
      BY <1>3, <1>5, <1>9, <2>6, <3>1, <3>3, <3>4
         DEF process_attribute_element, Checked, AttributeState, Pushes, Naming
    <3>7. UNCHANGED <<vars_added, doc_vars>>
      BY <2>1, <3>3 DEF process_attribute_element
    <3>8. get_state' = AttributeState(e.type) BY <2>5, <3>3, <3>5, <3>6 DEF Pushes
    <3>9. ASSUME doc_attrs = attrs_added PROVE doc_attrs' = attrs_added' \cup Value'
      <4>1. CASE e.type = "Container"
        <5>1. Value' = {} BY <3>8, <4>1 DEF Value, AttributeState
        <5> QED BY <2>1, <2>3, <3>1, <3>9, <4>1, <5>1 DEF Noted, process_attribute_element
      <4>2. CASE e.type = "OtherXML"
        <5>1. Value' = {<<Top(at_stack), id, id>>}
          BY <3>8, <4>2 DEF Value, AttributeState, process_attribute_element
        <5>2. attrs_added' = attrs_added BY <4>2 DEF process_attribute_element
        <5> QED BY <2>1, <2>3, <3>1, <3>9, <4>2, <5>1, <5>2 DEF Noted
      <4>3. CASE e.type \notin {"Container", "OtherXML"}
        <5>1. Value' = {} BY <3>8, <4>3 DEF Value, AttributeState
        <5> QED BY <2>1, <3>1, <3>9, <4>3, <5>1 DEF Noted, process_attribute_element
      <4> QED BY <4>1, <4>2, <4>3
    <3> QED BY <1>1, <1>5, <1>6, <1>7, <2>6, <3>1, <3>2, <3>3, <3>5, <3>6, <3>7, <3>9, BeginsPlain
  <2>9. CASE HasAttributes(get_state) /\ process_attribute_alias(e, id)
    <3> SUFFICES ASSUME HasAttributes(get_state), process_attribute_alias(e, id)
                 PROVE  InDocument'
      BY <2>9
    <3>1. e.tag = "Alias" /\ get_state \notin Leaves /\ get_state # "parser_start"
      BY DEF process_attribute_alias, HasAttributes, Leaves
    <3>2. StateOf(x) = "inside_alias" /\ e.tag \notin VariableTags
      BY <1>5, <3>1 DEF StateOf, VariableTags, SimpleTags
    <3>3. e.complete BY <1>4, <1>10 DEF process_attribute_alias, Reported
    <3>4. Pushes(x)
      BY <1>3, <1>5, <1>9, <2>6, <3>1, <3>2, <3>3
         DEF process_attribute_alias, Checked, Pushes, Naming, attribute
    <3>5. UNCHANGED <<vars_added, doc_vars>>
      BY <2>1, <3>2 DEF process_attribute_alias
    <3>6. Value' = {} BY <2>5, <3>2, <3>4 DEF Value, Pushes
    <3>7. ASSUME doc_attrs = attrs_added PROVE doc_attrs' = attrs_added' \cup Value'
      BY <2>1, <2>3, <3>1, <3>6, <3>7 DEF Noted, process_attribute_alias
    <3> QED BY <1>1, <1>5, <1>6, <1>7, <2>6, <3>1, <3>2, <3>4, <3>5, <3>7, BeginsPlain DEF InAttribute
  <2>10. CASE is_variable(e, id, Allowed(get_state))
    <3>1. e.tag \in VariableTags /\ e.tag \in Allowed(get_state)
      BY <2>10 DEF is_variable, Allowed, VariableTags
    <3>2. get_state \notin Leaves /\ get_state # "inside_attribute"
      BY <3>1 DEF Allowed, Leaves
    <3>3. StateOf(x) = VariableState(e.tag) /\ StateOf(x) \in VariableStates /\ e.type = "none"
      BY <1>4, <1>5, <3>1 DEF StateOf, VariableTags, SimpleTags, VariableState, VariableStates
    <3>4. StateOf(x) # "parser_error" /\ StateOf(x) \notin Naming
      BY <3>3 DEF VariableStates, Naming
    <3>5. PICK v : v = [id |-> id, type |-> VariableType(e.tag), dims |-> FALSE] OBVIOUS
    <3>6. v \in Variables /\ v.id = id
      BY <1>6, <3>1, <3>5 DEF Variables, VariableType, Types, VariableTags, SimpleTags
    <3>7. /\ s' = Append(s, VariableState(e.tag))
          /\ bt_stack' = Append(bt_stack, v) /\ at_stack' = Append(at_stack, id)
          /\ UNCHANGED <<attribute, vars_added, attrs_added>>
      BY <1>10, <2>10, <3>5 DEF is_variable, process_variable
    <3>8. Pushes(x)
      BY <1>3, <1>5, <1>9, <2>6, <3>1, <3>3, <3>4, <3>6, <3>7 DEF Pushes, attribute
    <3>9. Shape' /\ Numbered' /\ Names'
      BY <1>1, <1>5, <1>6, <3>2, <3>4, <3>8, Begins
    <3>10. Value = {} /\ Value' = {}
      BY <2>5, <3>2, <3>3, <3>4, <3>8 DEF Value, Leaves, Naming, VariableStates, Pushes
    <3>11. Pairs(bt_stack') = Pairs(bt_stack) \cup {<<Top(bt_stack).id, id>>}
      <4>1. PICK before : before = bt_stack OBVIOUS
      <4>2. before \in Seq(Variables) /\ Len(before) \in Nat /\ Len(before) > 0
        BY <4>1, Tops DEF IInv, ParserInv, Stacks
      <4>3. PICK n \in Nat : n = Len(before) /\ n > 0 BY <4>2
      <4> QED BY <3>6, <3>7, <4>1, <4>2, <4>3, PairsPush
    <3>12. Added'
      BY <2>1, <3>1, <3>3, <3>7, <3>10, <3>11
         DEF InDocument, Added, Noted, VariableTags, SimpleTags
    <3> QED BY <3>9, <3>12 DEF InDocument
  <2>11. CASE get_state \in {"inside_array", "inside_map"} /\ process_dimension(e)
    <3> SUFFICES ASSUME get_state \in {"inside_array", "inside_map"}, process_dimension(e)
                 PROVE  InDocument'
      BY <2>11
    <3>1. /\ e.tag = "dimension" /\ e.type = "none" /\ get_state \notin Leaves
          /\ get_state # "inside_attribute"
      BY <1>4 DEF process_dimension, Leaves
    <3>2. StateOf(x) = "inside_dimension" /\ e.tag \notin VariableTags
      BY <1>5, <3>1 DEF StateOf, VariableTags, SimpleTags
    <3>3. /\ e.complete /\ s' = Append(s, "inside_dimension")
          /\ bt_stack' = [bt_stack EXCEPT ![Len(bt_stack)].dims = TRUE]
          /\ UNCHANGED <<at_stack, attribute, vars_added, attrs_added>>
      BY <1>4, <1>10 DEF process_dimension, Checked, Reported
    <3>4. Ids(bt_stack') = Ids(bt_stack)
      <4>1. PICK before : before = bt_stack OBVIOUS
      <4>2. before \in Seq(Variables) /\ Len(before) \in Nat /\ Len(before) > 0
        BY <4>1, Tops DEF IInv, ParserInv, Stacks
      <4>3. PICK n \in Nat : n = Len(before) /\ n \in 1 .. n BY <4>2
      <4>4. before \in [1 .. n -> Variables] BY <4>2, <4>3, LenProperties
      <4>5. PICK after : after = [before EXCEPT ![n].dims = TRUE] OBVIOUS
      <4>6. DOMAIN after = 1 .. n /\ DOMAIN before = 1 .. n BY <4>4, <4>5
      <4>7. \A k \in 1 .. n : after[k].id = before[k].id
        <5>1. SUFFICES ASSUME NEW k \in 1 .. n PROVE after[k].id = before[k].id OBVIOUS
        <5>2. PICK w \in Variables : w = before[k] BY <4>4
        <5>3. after[k] = IF k = n THEN [w EXCEPT !.dims = TRUE] ELSE w BY <4>4, <4>5, <5>2
        <5> QED BY <5>2, <5>3 DEF Variables
      <4>8. Ids(after) = Ids(before) BY <4>6, <4>7 DEF Ids
      <4> QED BY <3>3, <4>1, <4>3, <4>5, <4>8
    <3>5. Pushes(x)
      BY <1>3, <1>5, <1>9, <2>6, <3>1, <3>2, <3>3, <3>4 DEF Pushes, Naming, attribute
    <3>6. UNCHANGED <<vars_added, attrs_added, doc_vars, doc_attrs>>
      BY <2>1, <3>1, <3>2, <3>3 DEF Noted
    <3>7. Value' = {} BY <2>5, <3>2, <3>5 DEF Value, Pushes
    <3> QED BY <1>1, <1>5, <1>6, <1>7, <2>6, <3>1, <3>2, <3>5, <3>6, <3>7, BeginsPlain
  <2>12. CASE get_state = "inside_dataset" /\ process_blob(e)
    <3>1. /\ e.tag = "blob" /\ e.type = "none" /\ get_state \notin Leaves
          /\ get_state # "inside_attribute"
      BY <1>4, <2>12 DEF process_blob, Leaves
    <3>2. StateOf(x) = "inside_blob_href" /\ e.tag \notin VariableTags
      BY <1>5, <3>1 DEF StateOf, VariableTags, SimpleTags
    <3>3. e.complete BY <1>4, <1>10, <2>12 DEF process_blob, Reported
    <3>4. Pushes(x)
      BY <1>3, <1>5, <1>9, <2>6, <2>12, <3>1, <3>2, <3>3
         DEF process_blob, Checked, Pushes, Naming, attribute
    <3>5. UNCHANGED <<vars_added, attrs_added, doc_vars, doc_attrs>>
      BY <2>1, <2>12, <3>1, <3>2 DEF process_blob, Noted
    <3>6. Value' = {} BY <2>5, <3>2, <3>4 DEF Value, Pushes
    <3> QED BY <1>1, <1>5, <1>6, <1>7, <2>6, <3>1, <3>2, <3>4, <3>5, <3>6, BeginsPlain
  <2>13. CASE start_value(e)
    <3>1. /\ e.tag = "value" /\ e.type = "none" /\ get_state \notin Leaves
          /\ get_state = "inside_attribute"
      BY <1>4, <2>13 DEF start_value, Leaves
    <3>2. StateOf(x) = "inside_attribute_value" /\ e.tag \notin VariableTags
      BY <1>5, <3>1 DEF StateOf, VariableTags, SimpleTags
    <3>3. Pushes(x)
      BY <1>3, <1>5, <1>9, <2>6, <2>13, <3>1, <3>2 DEF start_value, Pushes, Naming, attribute
    <3>4. UNCHANGED <<vars_added, attrs_added, doc_vars>>
      BY <2>1, <2>13, <3>2 DEF start_value
    <3>5. Top(open') = x BY <1>3, <1>6, NewTop DEF IInv
    <3>6. Value' = {<<Top(at_stack), dods_attr_name, id>>}
      BY <1>5, <2>5, <2>13, <3>2, <3>3, <3>5 DEF Value, Pushes, start_value, attribute
    <3>7. dods_attr_name = Top(open).id /\ open # <<>>
      BY <1>12, <2>4, <3>1, Context DEF Naming
    <3>8. ASSUME doc_attrs = attrs_added PROVE doc_attrs' = attrs_added' \cup Value'
      BY <2>1, <3>1, <3>4, <3>6, <3>7, <3>8 DEF Noted
    <3> QED BY <1>1, <1>5, <1>6, <1>7, <2>6, <3>1, <3>2, <3>3, <3>4, <3>8, BeginsPlain DEF InAttribute
  <2>14. ~fatal_error BY DEF fatal_error
  <2> QED BY <1>3, <1>8, <1>12, <2>7, <2>8, <2>9, <2>10, <2>11, <2>12, <2>13, <2>14
          DEF ddx_sax2_start_element, is_attribute_or_alias, start_other_xml
<1> QED BY <1>11, <1>12

-----------------------------------------------------------------------------
(* End tags.                                                               *)

LEMMA EndInside ==
    ASSUME IInv, InDocument, get_state = "inside_other_xml_attribute",
           Len(open) > Len(s) - 1, other_xml_depth # 0,
           open' = Pop(open), count' = count, other_xml_depth' = Decremented(other_xml_depth),
           UNCHANGED <<s, bt_stack, at_stack, dods_attr_name, vars_added, attrs_added,
                       doc_vars, doc_attrs>>
    PROVE  InDocument'
<1>1. PICK n \in Nat : n = Len(s) /\ n > 0
  BY LenProperties DEF IInv, ParserInv, Stacks, StackOK
<1>2. PICK m \in Nat : m = Len(open) /\ m > n - 1 BY <1>1, LenProperties DEF IInv
<1>3. PICK shorter : shorter = Pop(open) OBVIOUS
<1>4. m > 0 BY <1>1, <1>2
<1>5. /\ Len(shorter) = m - 1 /\ \A i \in 1 .. m - 1 : shorter[i] = open[i]
  BY <1>2, <1>3, <1>4, PopIs DEF IInv
<1>6. PICK depth \in Nat : depth = other_xml_depth /\ depth <= UINT_MAX /\ depth > 0
  BY DDXAssumption DEF IInv, ParserInv
<1>7. Decremented(depth) = depth - 1
  <2>1. depth - 1 \in 0 .. UINT_MAX BY <1>6, DDXAssumption
  <2> QED BY <2>1, DDXAssumption DEF Decremented
<1>8. depth <= m - (n - 1) BY <1>1, <1>2, <1>6 DEF InDocument, Shape, ShapeOf
<1>9. s[n] = "inside_other_xml_attribute" BY <1>1 DEF get_state, Top
<1>10. Shape'
  <2>1. ShapeOf(s, open, depth, dods_attr_name) BY <1>6 DEF InDocument, Shape
  <2>2. PICK k \in Nat : k = m - 1 BY <1>4
  <2>3. Inside(open, shorter, n) BY <1>2, <1>5, <2>2 DEF Inside
  <2>4. s \in Seq(States) BY DEF IInv, ParserInv, Stacks, StackOK
  <2>5. n - 1 <= k /\ depth - 1 <= k - (n - 1) /\ k = Len(shorter)
    BY <1>2, <1>5, <1>6, <1>8, <2>2
  <2>6. ShapeOf(s, shorter, depth - 1, dods_attr_name)
    BY ONLY n \in Nat, depth \in Nat, k \in Nat, <1>1, <1>9,
            <2>1, <2>2, <2>3, <2>4, <2>5, ShapeInside
  <2> QED BY <1>3, <1>6, <1>7, <2>6 DEF Shape
<1>11. Numbered'
  <2>1. \A i \in 1 .. m - 1 : i \in 1 .. m BY <1>2
  <2> QED BY <1>2, <1>3, <1>5, <2>1 DEF InDocument, Numbered, NumberedOf
<1>12. Names'
  <2>1. \A i \in 1 .. n - 1 : shorter[i] = open[i] BY <1>2, <1>5
  <2>2. NamesOf(s, bt_stack, at_stack, open) BY DEF InDocument, Names
  <2>3. NamesOf(s, bt_stack, at_stack, shorter)
    BY <1>1, <2>1, <2>2, NamedSame DEF NamesOf
  <2> QED BY <1>3, <2>3 DEF Names
<1>13. Added'
  <2>1. get_state' = get_state BY DEF get_state
  <2> QED BY <1>9, <2>1 DEF InDocument, Added, Value
<1> QED BY <1>10, <1>11, <1>12, <1>13 DEF InDocument

(* Every end tag.                                                          *)
LEMMA EndKeeps ==
    ASSUME IInv, InDocument, EndElement, ~errors'
    PROVE  InDocument'
<1>1. PICK e : e = Top(open) OBVIOUS
<1>2. /\ ddx_sax2_end_element(e, e.id) /\ open # <<>> /\ open' = Pop(open)
      /\ UNCHANGED <<count, doc_vars, doc_attrs>>
  BY <1>1 DEF EndElement
<1>3. get_state # "parser_error" BY Context
<1>4. PICK n \in Nat : n = Len(s) /\ n > 0
  BY LenProperties DEF IInv, ParserInv, Stacks, StackOK
<1>5. PICK m \in Nat : m = Len(open) /\ m > 0
  BY <1>2, LenProperties, EmptySeq DEF IInv
<1>6. /\ n - 1 <= m /\ other_xml_depth <= m - (n - 1)
      /\ \A i \in n .. m : ~(open[i].tag = "Attribute" /\ open[i].dap)
  BY <1>4, <1>5 DEF InDocument, Shape, ShapeOf
<1>7. other_xml_depth \in Nat BY DEF IInv, ParserInv
<1>8. CASE m > n - 1
  <2>1. get_state = "inside_other_xml_attribute" BY <1>4, <1>5, <1>8, Context
  <2>2. ~(e.tag = "Attribute" /\ e.dap)
    <3>1. m \in n .. m BY <1>4, <1>5, <1>8
    <3> QED BY <1>1, <1>5, <1>6, <3>1 DEF Top
  <2>3. end_other_xml(e)
    BY <1>2, <2>1, <2>2
       DEF ddx_sax2_end_element, end_pops, end_container, end_value, finish_variable,
           end_other_xml_attribute, end_ignored, VariableStates
  <2>4. other_xml_depth # 0 BY <2>3 DEF end_other_xml
  <2> QED BY <1>2, <1>4, <1>5, <1>8, <2>1, <2>3, <2>4, EndInside DEF end_other_xml
<1>9. CASE m = n - 1
  <2>1. Len(open) = Len(s) - 1 BY <1>4, <1>5, <1>9
  <2>2. get_state \in Naming => dods_attr_name = e.id BY <1>1, <1>2, <2>1, Context
  <2>3. ASSUME Pops PROVE Shape' /\ Numbered' /\ Names' /\ Value' = {}
    <3>1. Shape' /\ Numbered' /\ Names' /\ get_state' \notin Leaves
      BY <1>2, <2>1, <2>3, EndsIts
    <3> QED BY <3>1 DEF Value, Leaves
  <2>4. ASSUME Pops, UNCHANGED <<bt_stack, vars_added>>, attrs_added' = attrs_added \cup Value
        PROVE  InDocument'
    <3>1. Added' BY <1>2, <2>3, <2>4 DEF InDocument, Added
    <3> QED BY <2>3, <2>4, <3>1 DEF InDocument
  <2>5. CASE end_pops(e)
    <3>1. Pops /\ Value = {}
      BY <1>2, <2>5 DEF end_pops, Pops, Value, VariableStates, TableStates, attribute
    <3> QED BY <2>4, <2>5, <3>1 DEF end_pops
  <2>6. CASE end_container(e)
    <3>1. Pops /\ Value = {}
      BY <1>2, <2>6 DEF end_container, Pops, Value, VariableStates, TableStates, attribute
    <3> QED BY <2>4, <2>6, <3>1 DEF end_container
  <2>7. CASE end_value(e, e.id)
    <3>1. Pops /\ Value = {<<Top(at_stack), dods_attr_name, e.id>>}
      BY <1>1, <1>2, <2>7 DEF end_value, Pops, Value, VariableStates, TableStates, attribute
    <3> QED BY <2>4, <2>7, <3>1 DEF end_value
  <2>8. CASE end_other_xml_attribute(e, e.id)
    <3>1. Pops /\ Value = {<<Top(at_stack), dods_attr_name, e.id>>}
      BY <1>2, <2>2, <2>8
         DEF end_other_xml_attribute, Pops, Value, VariableStates, TableStates, attribute, Naming
    <3> QED BY <2>4, <2>8, <3>1 DEF end_other_xml_attribute
  <2>9. CASE finish_variable(e)
    <3>1. /\ get_state \in VariableStates /\ get_state \in TableStates
          /\ bt_stack' = Pop(bt_stack) /\ at_stack' = Pop(at_stack) /\ s' = Pop(s)
          /\ vars_added' = vars_added \cup {<<Parent(bt_stack).id, Top(bt_stack).id>>}
          /\ UNCHANGED <<attribute, attrs_added>>
      BY <2>9 DEF finish_variable, TableStates
    <3>2. Pops BY <1>2, <3>1 DEF Pops, attribute
    <3>3. Value = {} BY <3>1 DEF Value, VariableStates
    <3>4. Pairs(bt_stack) = Pairs(Pop(bt_stack)) \cup {<<Parent(bt_stack).id, Top(bt_stack).id>>}
      <4>1. /\ bt_stack \in Seq(Variables) /\ Len(bt_stack) \in Nat /\ Len(bt_stack) >= 2
        BY <3>1, Tops DEF IInv, ParserInv, Stacks, get_state
      <4>2. PICK k \in Nat : k = Len(bt_stack) /\ k > 1 BY <4>1
      <4> QED BY <4>1, <4>2, PairsPop
    <3>5. Added' BY <1>2, <2>3, <3>1, <3>2, <3>3, <3>4 DEF InDocument, Added
    <3> QED BY <2>3, <3>2, <3>5 DEF InDocument
  <2>10. ~end_other_xml(e)
    <3>1. other_xml_depth = 0 BY <1>6, <1>7, <1>9
    <3> QED BY <3>1 DEF end_other_xml
  <2>11. ~fatal_error BY DEF fatal_error
  <2> QED BY <1>2, <1>3, <2>5, <2>6, <2>7, <2>8, <2>9, <2>10, <2>11
          DEF ddx_sax2_end_element, end_ignored
<1> QED BY <1>4, <1>5, <1>6, <1>8, <1>9

-----------------------------------------------------------------------------
(* The whole document.                                                     *)

(* A callback that reports no error finds none reported.                   *)
LEMMA ErrorsStay ==
    ASSUME NEW e, NEW id, errors,
           ddx_sax2_start_element(e, id) \/ ddx_sax2_end_element(e, id)
    PROVE  errors'
<1>1. CASE ddx_sax2_start_element(e, id)
  BY <1>1 DEF ddx_sax2_start_element, start_dataset, is_attribute_or_alias,
              process_attribute_element, process_attribute_alias, is_variable, process_variable,
              process_dimension, process_blob, start_value, start_other_xml, parserVars,
              fatal_error, Reported
<1>2. CASE ddx_sax2_end_element(e, id)
  BY <1>2 DEF ddx_sax2_end_element, end_pops, end_container, end_value, finish_variable,
              end_other_xml_attribute, end_other_xml, end_ignored, parserVars, fatal_error
<1> QED BY <1>1, <1>2

LEMMA InitFaithful == Init => Faithful
<1> SUFFICES ASSUME Init PROVE Faithful OBVIOUS
<1>1. /\ open = <<>> /\ count = 0 /\ s = <<"parser_start">> /\ bt_stack = <<Root>>
      /\ at_stack = <<0>> /\ other_xml_depth = 0 /\ outcome = "parsing"
      /\ vars_added = {} /\ attrs_added = {} /\ doc_vars = {} /\ doc_attrs = {}
  BY DEF Init
<1>2. Len(open) = 0 /\ Len(s) = 1 /\ s[1] = "parser_start" BY <1>1
<1>3. Shape /\ Numbered BY <1>1, <1>2 DEF Shape, ShapeOf, Numbered, NumberedOf
<1>4. Names
  <2>1. /\ Len(bt_stack) = 1 /\ DOMAIN bt_stack = 1 .. 1 /\ bt_stack[1] = Root
        /\ Len(at_stack) = 1 /\ at_stack[1] = 0
    BY <1>1
  <2>2. Ids(bt_stack)[1] = 0 BY <2>1 DEF Ids, Root
  <2>3. \A kind : Of(open, kind, 0) = {} BY DEF Of
  <2>4. InnermostOf({}) = 0 BY InnermostIs
  <2>5. /\ Count(s, VariableStates, 0 + 1) = Count(s, VariableStates, 0)
              + (IF s[0 + 1] \in VariableStates THEN 1 ELSE 0)
        /\ Count(s, TableStates, 0 + 1) = Count(s, TableStates, 0)
              + (IF s[0 + 1] \in TableStates THEN 1 ELSE 0)
    BY ONLY 0 \in Nat, CountNext
  <2>6. Count(s, VariableStates, 0) = 0 /\ Count(s, TableStates, 0) = 0 BY CountIsNat
  <2>7. Count(s, VariableStates, 1) = 0 /\ Count(s, TableStates, 1) = 0
    BY <1>2, <2>5, <2>6 DEF VariableStates, TableStates
  <2>8. ASSUME NEW ids, NEW states, NEW kind, ids[1] = 0, Count(s, states, 1) = 0
        PROVE  Named(ids, s, states, open, kind)
    <3>1. SUFFICES ASSUME NEW i \in 1 .. 1
                   PROVE  ids[1 + Count(s, states, i)] = InnermostOf(Of(open, kind, i - 1))
      BY <1>2 DEF Named
    <3>2. i = 1 /\ i - 1 = 0 OBVIOUS
    <3>3. 1 + Count(s, states, i) = 1 BY <2>8, <3>2
    <3> QED BY <2>3, <2>4, <2>8, <3>2, <3>3
  <2> QED BY <2>1, <2>2, <2>7, <2>8 DEF Names, NamesOf
<1>5. Added
  <2>1. Pairs(bt_stack) = {} BY <1>1 DEF Pairs
  <2>2. Value = {} BY <1>2 DEF Value, get_state, Top
  <2> QED BY <1>1, <2>1, <2>2 DEF Added
<1> QED BY <1>1, <1>3, <1>4, <1>5 DEF Faithful, InDocument

LEMMA NextFaithful == IInv /\ Faithful /\ [Next]_vars => Faithful'
<1> SUFFICES ASSUME IInv, Faithful, [Next]_vars PROVE Faithful' OBVIOUS
<1>1. ASSUME NEW e \in Elements, StartElement(e) PROVE Faithful'
  <2>1. outcome = "parsing" /\ outcome' = "parsing" BY <1>1 DEF StartElement
  <2>2. ~errors' => ~errors BY <1>1, ErrorsStay DEF StartElement
  <2>3. ~nested' => ~nested BY <1>1 DEF StartElement, NoteAttribute
  <2> QED BY <1>1, <2>1, <2>2, <2>3, StartKeeps DEF Faithful
<1>2. ASSUME NEW e \in Elements, DereferenceNull(e) PROVE Faithful'
  BY <1>2 DEF DereferenceNull, Faithful
<1>3. CASE EndElement
  <2>1. outcome = "parsing" /\ outcome' = "parsing" /\ nested' = nested BY <1>3 DEF EndElement
  <2>2. ~errors' => ~errors BY <1>3, ErrorsStay DEF EndElement
  <2> QED BY <1>3, <2>1, <2>2, EndKeeps DEF Faithful
<1>4. CASE Warning \/ ddx_get_cdata \/ NotWellFormed
  <2>1. errors' /\ outcome' \in {"parsing", "failed"}
    BY <1>4 DEF Warning, ddx_get_cdata, NotWellFormed, fatal_error
  <2> QED BY <2>1 DEF Faithful
<1>5. CASE EndDocument
  <2>1. CASE get_state = "parser_start"
    <3>1. UNCHANGED <<docVars, parserVars>> /\ outcome = "parsing" /\ open = <<>>
      BY <1>5, <2>1 DEF EndDocument
    <3>2. UNCHANGED <<errors, nested, get_state, open>> /\ InDocument' = InDocument
      BY <3>1 DEF docVars, parserVars, attribute, InDocument, Shape, Numbered, Names, Added,
                  Value, get_state
    <3> QED BY <2>1, <3>1, <3>2 DEF Faithful
  <2>2. CASE get_state # "parser_start"
    BY <1>5, <2>2 DEF EndDocument, Faithful
  <2> QED BY <2>1, <2>2
<1>6. CASE UNCHANGED vars
  <2>1. UNCHANGED <<errors, nested, outcome, get_state, open>> /\ InDocument' = InDocument
    BY <1>6 DEF vars, docVars, parserVars, attribute, InDocument, Shape, Numbered, Names, Added,
                Value, get_state
  <2> QED BY <2>1 DEF Faithful
<1> QED BY <1>1, <1>2, <1>3, <1>4, <1>5, <1>6 DEF Next

(* For every document that is accepted, the DDS is what the document says: *)
(* every variable, value, container and alias is where the elements put it *)
(* (DDXParserSAX2::finish_variable, ddx_sax2_end_element), unless an       *)
(* Attribute was in one that is no container.                              *)
THEOREM AcceptedIsTheDocument == Spec => []DDSIsTheDocument
<1>1. IInv /\ Faithful => DDSIsTheDocument
  <2> SUFFICES ASSUME IInv, Faithful, outcome = "accepted", ~nested
               PROVE  vars_added = doc_vars /\ attrs_added = doc_attrs
    BY DEF DDSIsTheDocument
  <2>1. InDocument /\ get_state = "parser_start"
    BY DEF IInv, AcceptedWithoutErrors, Faithful
  <2>2. Len(s) = 1 BY <2>1, Context
  <2>3. s[1] = "parser_start" BY <2>1, <2>2 DEF get_state, Top
  <2>4. Count(s, VariableStates, 1) = 0
    <3>1. Count(s, VariableStates, 0 + 1) = Count(s, VariableStates, 0)
            + (IF s[0 + 1] \in VariableStates THEN 1 ELSE 0)
      BY ONLY 0 \in Nat, CountNext
    <3>2. Count(s, VariableStates, 0) = 0 BY CountIsNat
    <3> QED BY <2>3, <3>1, <3>2 DEF VariableStates
  <2>5. Len(bt_stack) = 1 BY <2>2, <2>4 DEF IInv, ParserInv, Stacks, InStep
  <2>6. Pairs(bt_stack) = {} BY <2>5 DEF Pairs
  <2>7. Value = {} BY <2>1 DEF Value
  <2> QED BY <2>1, <2>6, <2>7 DEF InDocument, Added
<1>2. Init => IInv /\ Faithful BY InitIInv, InitFaithful
<1>3. IInv /\ Faithful /\ [Next]_vars => (IInv /\ Faithful)' BY NextIInv, NextFaithful
<1> QED BY <1>1, <1>2, <1>3, PTL DEF Spec
=============================================================================
