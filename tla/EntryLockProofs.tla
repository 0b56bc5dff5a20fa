--------------------------- MODULE EntryLockProofs ---------------------------
(***************************************************************************)
(* Proofs about EntryLock, for any finite set of threads: the inductive    *)
(* invariant IInv, the safety properties of the runs that follow from it,  *)
(* and that the entry's lock implements RWLock.                            *)
(***************************************************************************)
EXTENDS EntryLock, FiniteSetTheorems, TLAPS

(* Where a thread is between lock_cache_interface and                      *)
(* unlock_cache_interface.                                                 *)
Inside == {"trylock", "wait_writer", "pass_writer", "count", "uncount",
           "lock_response", "lock_write", "write", "unlock_response", "leave"}

Holder == \A t \in Threads : pc[t] \in Inside <=> d_cache_mutex = t

OpAtPC == \A t \in Threads :
    /\ pc[t] \in {"client", "reading"} <=> op[t] = "none"
    /\ pc[t] \in {"trylock", "wait_writer", "pass_writer", "count"} =>
           op[t] \in {"read", "peek"}
    /\ pc[t] = "uncount" => op[t] \in {"peek", "release"}
    /\ pc[t] \in {"lock_response", "lock_write", "write", "unlock_response"} =>
           op[t] = "write"

(* The response lock is held by the readers together or by the one thread  *)
(* inside that is about to read or write.                                  *)
ResponseHeld ==
    d_response_lock <=>
        \/ Reading # {}
        \/ \E t \in Threads : pc[t] \in {"count", "lock_write", "write", "unlock_response"}

WaiterSeesReader ==
    \A t \in Threads : pc[t] \in {"wait_writer", "pass_writer"} => Reading # {}

WriteHeld ==
    d_response_write_lock <=> \E t \in Threads : pc[t] \in {"pass_writer", "write"}

WriterAlone ==
    \A t \in Threads : pc[t] \in {"lock_write", "write", "unlock_response"} => Reading = {}

IInv == /\ TypeOK /\ Holder /\ OpAtPC /\ ReaderCount
        /\ ResponseHeld /\ WaiterSeesReader /\ WriteHeld /\ WriterAlone

-----------------------------------------------------------------------------
(* What a step does to the set of readers.                                 *)

(* The steps of a thread that do not touch the counter.                    *)
Quiet(t) ==   \/ Call(t) \/ CallRelease(t) \/ lock_cache_interface(t) \/ unlock_cache_interface(t)
              \/ TryResponse(t) \/ WaitForWriter(t) \/ PassWriter(t)
              \/ LockResponse(t) \/ LockWrite(t) \/ UnlockWrite(t) \/ UnlockResponse(t)

USE DEF Goto, Inside, FirstStep, CanLock, Counted, IsLast

(* Only the steps that touch the counter change who reads the entry.       *)
LEMMA QuietReading ==
    ASSUME TypeOK, OpAtPC, NEW t \in Threads, Quiet(t)
    PROVE  Reading' = Reading
<1>1. ASSUME NEW s \in Threads PROVE IsReading(s)' <=> IsReading(s)
  BY <1>1 DEF Quiet, TypeOK, OpAtPC, IsReading, Ops, PCs,
              Call, CallRelease, lock_cache_interface, unlock_cache_interface, TryResponse,
               WaitForWriter, PassWriter, LockResponse, LockWrite, UnlockWrite, UnlockResponse
<1> QED BY <1>1 DEF Reading

(* Counting a reader adds one client to those who read.                    *)
LEMMA CountReading ==
    ASSUME TypeOK, OpAtPC, NEW t \in Threads, CountReader(t)
    PROVE  t \notin Reading /\ Reading' = Reading \cup {t}
<1>1. ~IsReading(t) /\ IsReading(t)'
  BY DEF TypeOK, OpAtPC, IsReading, CountReader, Ops, PCs
<1>2. ASSUME NEW s \in Threads \ {t} PROVE IsReading(s)' <=> IsReading(s)
  BY <1>2 DEF TypeOK, IsReading, CountReader
<1> QED BY <1>1, <1>2 DEF Reading

(* Uncounting a reader removes it.                                         *)
LEMMA UncountReading ==
    ASSUME TypeOK, OpAtPC, NEW t \in Threads, UncountReader(t)
    PROVE  t \in Reading /\ Reading' = Reading \ {t}
<1>1. IsReading(t) /\ ~IsReading(t)'
  BY DEF TypeOK, OpAtPC, IsReading, UncountReader, Ops, PCs
<1>2. ASSUME NEW s \in Threads \ {t} PROVE IsReading(s)' <=> IsReading(s)
  BY <1>2 DEF TypeOK, IsReading, UncountReader
<1> QED BY <1>1, <1>2 DEF Reading

LEMMA ReadingFinite == IsFiniteSet(Reading)
  BY ThreadsAssumption, FS_Subset DEF Reading

-----------------------------------------------------------------------------
(* The invariant is inductive.                                             *)

LEMMA InitIInv == Init => IInv
<1> SUFFICES ASSUME Init PROVE IInv OBVIOUS
<1>1. Reading = {} BY DEF Init, Reading, IsReading
<1>2. TypeOK BY DEF Init, TypeOK, Ops, PCs
<1>3. ReaderCount BY <1>1, FS_EmptySet DEF Init, ReaderCount
<1> QED BY <1>1, <1>2, <1>3, ThreadsAssumption
        DEF IInv, Init, Holder, OpAtPC, ResponseHeld, WaiterSeesReader,
            WriteHeld, WriterAlone

(* The steps that leave the set of readers alone.                          *)
LEMMA QuietIInv ==
    ASSUME IInv, NEW t \in Threads, Quiet(t)
    PROVE  IInv'
<1> USE DEF IInv
<1>r. Reading' = Reading BY QuietReading
<1>n. ReaderCount'
  BY <1>r DEF ReaderCount, Quiet, Call, CallRelease, lock_cache_interface,
              unlock_cache_interface, TryResponse, WaitForWriter, PassWriter,
              LockResponse, LockWrite, UnlockWrite, UnlockResponse
<1> USE DEF TypeOK, Holder, OpAtPC, ResponseHeld, WaiterSeesReader, WriteHeld,
            WriterAlone, Ops, PCs
<1>1. CASE Call(t)            BY <1>1, <1>r, <1>n, ThreadsAssumption DEF Call
<1>2. CASE CallRelease(t)     BY <1>2, <1>r, <1>n, ThreadsAssumption DEF CallRelease
<1>3. CASE lock_cache_interface(t)
  BY <1>3, <1>r, <1>n, ThreadsAssumption DEF lock_cache_interface
<1>4. CASE unlock_cache_interface(t)
  BY <1>4, <1>r, <1>n, ThreadsAssumption DEF unlock_cache_interface
<1>5. CASE TryResponse(t)     BY <1>5, <1>r, <1>n, ThreadsAssumption DEF TryResponse
<1>6. CASE WaitForWriter(t)   BY <1>6, <1>r, <1>n, ThreadsAssumption DEF WaitForWriter
<1>7. CASE PassWriter(t)      BY ZenonT(40), <1>7, <1>r, <1>n, ThreadsAssumption DEF PassWriter
<1>8. CASE LockResponse(t)    BY <1>8, <1>r, <1>n, ThreadsAssumption DEF LockResponse
<1>9. CASE LockWrite(t)       BY <1>9, <1>r, <1>n, ThreadsAssumption DEF LockWrite
<1>10. CASE UnlockWrite(t)    BY <1>10, <1>r, <1>n, ThreadsAssumption DEF UnlockWrite
<1>11. CASE UnlockResponse(t) BY <1>11, <1>r, <1>n, ThreadsAssumption DEF UnlockResponse
<1> QED
  BY <1>1, <1>2, <1>3, <1>4, <1>5, <1>6, <1>7, <1>8, <1>9, <1>10, <1>11 DEF Quiet

(* The step that counts a reader: nobody writes, and the response is held. *)
LEMMA CountIInv ==
    ASSUME IInv, NEW t \in Threads, CountReader(t)
    PROVE  IInv'
<1> USE DEF IInv
<1>1. t \notin Reading /\ Reading' = Reading \cup {t} BY CountReading
<1>2. Cardinality(Reading') = Cardinality(Reading) + 1
  BY <1>1, ReadingFinite, FS_AddElement
<1>3. ReaderCount' BY <1>2 DEF ReaderCount, CountReader
<1>4. TypeOK' BY DEF TypeOK, CountReader, Ops, PCs
<1> QED
  BY <1>1, <1>3, <1>4, ThreadsAssumption
     DEF CountReader, TypeOK, Holder, OpAtPC, ResponseHeld, WaiterSeesReader,
         WriteHeld, WriterAlone, Ops, PCs

(* The step that uncounts one: the response is unlocked with the last.     *)
LEMMA UncountIInv ==
    ASSUME IInv, NEW t \in Threads, UncountReader(t)
    PROVE  IInv'
<1> USE DEF IInv
<1>1. t \in Reading /\ Reading' = Reading \ {t} BY UncountReading
<1>2. Cardinality(Reading') = Cardinality(Reading) - 1 /\ IsFiniteSet(Reading')
  BY <1>1, ReadingFinite, FS_RemoveElement
<1>3. Cardinality(Reading') \in Nat BY <1>2, FS_CardinalityType
<1>4. readers' = Cardinality(Reading') BY <1>2 DEF ReaderCount, UncountReader
<1>5. readers' = 0 <=> Reading' = {} BY <1>2, <1>4, FS_EmptySet
<1>6. TypeOK' BY <1>3, <1>4 DEF TypeOK, UncountReader, Ops, PCs
<1>7. ReaderCount' BY <1>4 DEF ReaderCount
<1>8. Holder' /\ OpAtPC' BY DEF UncountReader, TypeOK, Holder, OpAtPC, Ops, PCs
<1>9. \A s \in Threads : pc[s] \in Inside => s = t
  BY DEF UncountReader, Holder
<1>10. ResponseHeld'
  BY <1>1, <1>4, <1>5, <1>9 DEF UncountReader, TypeOK, ResponseHeld, PCs
<1>11. WaiterSeesReader' /\ WriterAlone' /\ WriteHeld'
  BY <1>9 DEF UncountReader, TypeOK, WaiterSeesReader, WriterAlone, WriteHeld, PCs
<1> QED BY <1>6, <1>7, <1>8, <1>10, <1>11

LEMMA NextIInv == IInv /\ [Next]_vars => IInv'
<1> SUFFICES ASSUME IInv, [Next]_vars PROVE IInv' OBVIOUS
<1>1. ASSUME NEW t \in Threads, Quiet(t) PROVE IInv'       BY <1>1, QuietIInv
<1>2. ASSUME NEW t \in Threads, CountReader(t) PROVE IInv'   BY <1>2, CountIInv
<1>3. ASSUME NEW t \in Threads, UncountReader(t) PROVE IInv' BY <1>3, UncountIInv
<1>4. CASE UNCHANGED vars
  BY <1>4 DEF vars, IInv, TypeOK, Holder, OpAtPC, ReaderCount, ResponseHeld,
              WaiterSeesReader, WriteHeld, WriterAlone, Reading, IsReading
<1> QED BY <1>1, <1>2, <1>3, <1>4 DEF Next, Method, Quiet

(* The inductive invariant holds in every reachable state.                 *)
LEMMA Inductive == Spec => []IInv
  BY InitIInv, NextIInv, PTL DEF Spec

-----------------------------------------------------------------------------
(* What the runs check, for any set of threads.                            *)

(* Types are kept; the counter never goes below zero, so a release never   *)
(* finds "An unlocked entry was released" (uncouple_entry_from_data).      *)
THEOREM TypeCorrect == Spec => []TypeOK
<1>1. IInv => TypeOK BY DEF IInv
<1> QED BY <1>1, Inductive, PTL

(* The counter of CacheEntry counts the clients that read it.              *)
THEOREM ReadersAreCounted == Spec => []ReaderCount
<1>1. IInv => ReaderCount BY DEF IInv
<1> QED BY <1>1, Inductive, PTL

(* lock_read_response never waits for the write lock.                      *)
THEOREM ReadersDoNotWait == Spec => []ReaderNeverWaits
<1>1. IInv => ReaderNeverWaits
  BY DEF IInv, ReaderNeverWaits, TypeOK, Holder, WriteHeld
<1> QED BY <1>1, Inductive, PTL

(* lock_write_response waits for nobody but clients outside any method.    *)
THEOREM WritersWaitForClients == Spec => []WriterWaitsForClients
<1>1. IInv => WriterWaitsForClients
  BY DEF IInv, WriterWaitsForClients, TypeOK, Holder, OpAtPC, WriteHeld,
         ResponseHeld, Reading, IsReading
<1> QED BY <1>1, Inductive, PTL

-----------------------------------------------------------------------------
(* EntryLock implements RWLock.                                            *)

(* A thread that is inside is the only one, so no other writes.            *)
LEMMA OnlyWriter ==
    ASSUME TypeOK, Holder, NEW t \in Threads, pc[t] \in Inside
    PROVE  Writing \subseteq {t} /\ (pc[t] # "write" => Writing = {})
  BY DEF Holder, Writing

(* Every step takes or gives back one lock of RWLock, or changes neither   *)
(* who reads nor who writes.                                               *)
LEMMA StepSimulation == IInv /\ [Next]_vars => [RW!Next]_(RW!vars)
<1> SUFFICES ASSUME IInv, [Next]_vars PROVE [RW!Next]_(RW!vars) OBVIOUS
<1> USE DEF IInv
<1>1. ASSUME NEW t \in Threads, CountReader(t) PROVE RW!AcquireRead(t)
  <2>1. Reading' = Reading \cup {t} /\ t \notin Reading BY <1>1, CountReading
  <2>2. Writing = {} BY <1>1, OnlyWriter DEF CountReader
  <2>3. Writing' = Writing
    BY <1>1 DEF CountReader, TypeOK, Writing, PCs
  <2> QED BY <2>1, <2>2, <2>3 DEF RW!AcquireRead
<1>2. ASSUME NEW t \in Threads, UncountReader(t) PROVE RW!ReleaseRead(t)
  <2>1. Reading' = Reading \ {t} /\ t \in Reading BY <1>2, UncountReading
  <2>2. Writing' = Writing
    BY <1>2 DEF UncountReader, TypeOK, Writing, PCs
  <2> QED BY <2>1, <2>2 DEF RW!ReleaseRead
<1>3. ASSUME NEW t \in Threads, LockWrite(t) PROVE RW!AcquireWrite(t)
  <2>1. Reading' = Reading BY <1>3, QuietReading DEF Quiet
  <2>2. Reading = {} BY <1>3 DEF LockWrite, WriterAlone
  <2>3. Writing = {} BY <1>3, OnlyWriter DEF LockWrite
  <2>4. Writing' = {t} BY <1>3, <2>3 DEF LockWrite, TypeOK, Writing, PCs
  <2> QED BY <2>1, <2>2, <2>3, <2>4 DEF RW!AcquireWrite
<1>4. ASSUME NEW t \in Threads, UnlockWrite(t) PROVE RW!ReleaseWrite(t)
  <2>1. Reading' = Reading BY <1>4, QuietReading DEF Quiet
  <2>2. Writing' = Writing \ {t} /\ t \in Writing
    BY <1>4 DEF UnlockWrite, TypeOK, Writing, PCs
  <2> QED BY <2>1, <2>2 DEF RW!ReleaseWrite
<1>5. ASSUME NEW t \in Threads, Quiet(t), ~LockWrite(t), ~UnlockWrite(t)
      PROVE UNCHANGED RW!vars
  <2>1. Reading' = Reading BY <1>5, QuietReading
  <2>2. Writing' = Writing
    BY <1>5 DEF Quiet, TypeOK, Writing, Ops, PCs, Call, CallRelease,
                lock_cache_interface, unlock_cache_interface, TryResponse,
                WaitForWriter, PassWriter, LockResponse, UnlockResponse
  <2> QED BY <2>1, <2>2 DEF RW!vars
<1>6. CASE UNCHANGED vars
  BY <1>6 DEF vars, RW!vars, Reading, Writing, IsReading
<1> QED
  BY <1>1, <1>2, <1>3, <1>4, <1>5, <1>6 DEF Next, Method, Quiet, RW!Next

(* The two mutexes and the counter, under the interface mutex, give what   *)
(* the class comment of HTTPCacheTable promises: many readers, one writer. *)
THEOREM EntryLockImplementsRWLock == Spec => ImplementsRWLock
<1>1. Init => RW!Init
  BY DEF Init, RW!Init, Reading, Writing, IsReading
<1> QED
  BY <1>1, StepSimulation, Inductive, PTL DEF Spec, RW!Spec, ImplementsRWLock
=============================================================================
