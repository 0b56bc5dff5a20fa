------------------------------- MODULE RWLock -------------------------------
(***************************************************************************)
(* What the lock of one cache entry promises (HTTPCacheTable.h, class      *)
(* comment): "An entry can be accessed by multiple readers but only one    *)
(* writer."  The state is who reads and who writes; EntryLock implements   *)
(* it with two mutexes, a counter and the interface mutex.                 *)
(***************************************************************************)
EXTENDS FiniteSets, Naturals

CONSTANT Threads

VARIABLES reading, writing

vars == <<reading, writing>>

Init == reading = {} /\ writing = {}

AcquireRead(t) ==
    /\ t \notin reading
    /\ writing = {}
    /\ reading' = reading \cup {t}
    /\ UNCHANGED writing

ReleaseRead(t) ==
    /\ t \in reading
    /\ reading' = reading \ {t}
    /\ UNCHANGED writing

AcquireWrite(t) ==
    /\ reading = {} /\ writing = {}
    /\ writing' = {t}
    /\ UNCHANGED reading

ReleaseWrite(t) ==
    /\ t \in writing
    /\ writing' = writing \ {t}
    /\ UNCHANGED reading

Next == \E t \in Threads :
    AcquireRead(t) \/ ReleaseRead(t) \/ AcquireWrite(t) \/ ReleaseWrite(t)

Spec == Init /\ [][Next]_vars
=============================================================================
