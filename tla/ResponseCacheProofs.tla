------------------------ MODULE ResponseCacheProofs ------------------------
(***************************************************************************)
(* Proofs about ResponseCache, for any finite number of processes and of   *)
(* results, any sizes and any number of mishaps: the inductive invariant   *)
(* IInv and the safety properties of the run, which follow from it.        *)
(***************************************************************************)
EXTENDS ResponseCache, FiniteSetTheorems, TLAPS

(* What a process has at each step: a name to work on, a file it has       *)
(* opened, the cache locked.                                               *)
HasFile == {"lock", "relock", "purge_file", "parse", "build", "write", "share",
            "update", "collect", "sweep"}
ReadLocksCache == {"lock", "relock"}
WriteLocksCache == {"purge_file", "sweep"}
Recorded == {"parse", "build", "write", "share", "update", "collect", "sweep", "respond"}

TargetAtStep ==
    \A p \in Procs : at[p] \in {"start", "init", "idle"} <=> target[p] = None
FileAtStep ==
    \A p \in Procs : at[p] \in HasFile <=> file[p] # None
CacheLockAtStep ==
    \A p \in Procs :
        /\ at[p] \in ReadLocksCache <=> locks[Info][p] = "read"
        /\ at[p] \in WriteLocksCache <=> locks[Info][p] = "write"

(* POSIX: who has a file locked for writing is alone.                      *)
Exclusive ==
    \A f \in Files \cup {None, Info} : \A p, q \in Procs :
        p # q /\ locks[f][p] = "write" => locks[f][q] = "none"

(* What a process builds or reads it has locked.                           *)
FileLockAtStep ==
    \A p \in Procs :
        /\ at[p] \in {"build", "write"} => locks[file[p]][p] = "write"
        /\ at[p] = "parse" => locks[file[p]][p] = "read"

(* From the moment a file is found or created it keeps its name: first the *)
(* lock on the cache sees to that, then the lock on the file.              *)
FoundIsNamed ==
    \A p \in Procs :
        at[p] \in {"lock", "relock", "purge_file", "build", "write", "parse"} =>
            dir[target[p]] = file[p]

(* A process that has had no failure has no more than the descriptor and   *)
(* the lock of the file it works on.                                       *)
HoldsOnlyRecorded ==
    \A p \in Procs \ failed :
        /\ \A n \in Names : d_locks[p][n] # None => at[p] \in Recorded /\ n = target[p]
        /\ \A f \in Files \cup {None} :
             locks[f][p] # "none" => at[p] \in Recorded /\ f = d_locks[p][target[p]]
        /\ at[p] \in Recorded \ {"respond"} => d_locks[p][target[p]] = file[p]

IInv == /\ TypeOK /\ TargetAtStep /\ FileAtStep /\ CacheLockAtStep /\ Exclusive
        /\ FileLockAtStep /\ FoundIsNamed /\ HoldsOnlyRecorded

-----------------------------------------------------------------------------
(* What the operators of the cache return.                                 *)

(* A file has from none to all of its bytes.                               *)
LEMMA SizeOfType ==
    ASSUME TypeOK, NEW f \in Files
    PROVE  SizeOf(f) \in 0 .. FULL_SIZE
<1>1. content[f] \in {"empty", "partial", "full"} BY DEF TypeOK
<1>2. CASE content[f] = "empty" BY <1>2, CacheAssumption DEF SizeOf
<1>3. CASE content[f] = "partial" BY <1>3, CacheAssumption DEF SizeOf
<1>4. CASE content[f] = "full" BY <1>4, CacheAssumption DEF SizeOf
<1> QED BY <1>1, <1>2, <1>3, <1>4

(* The unsigned operations count modulo WORD.                              *)
LEMMA ModType ==
    ASSUME NEW a \in Int
    PROVE  a % WORD \in 0 .. WORD - 1
  BY CacheAssumption

LEMMA LessType ==
    ASSUME NEW a \in Int, NEW b \in Int
    PROVE  Less(a, b) \in 0 .. WORD - 1
  BY ModType DEF Less

(* There are finitely many bytes in the cache: their number is a size.     *)
LEMMA TotalType == Total \in 0 .. WORD - 1
<1>1. IsFiniteSet(1 .. FULL_SIZE) BY CacheAssumption, FS_Interval
<1>2. IsFiniteSet(Names \X (1 .. FULL_SIZE)) BY <1>1, CacheAssumption, FS_Product
<1>3. IsFiniteSet(Bytes) BY <1>2, FS_Subset DEF Bytes
<1>4. Cardinality(Bytes) \in Nat BY <1>3, FS_CardinalityType
<1> QED BY <1>4, ModType DEF Total

(* What update_and_purge looks at are names of files and their sizes.      *)
LEMMA OrderType ==
    ASSUME TypeOK, NEW s \in Orders
    PROVE  [i \in DOMAIN s |-> [name |-> s[i], size |-> SizeOf(dir[s[i]])]] \in Seq(Entries)
<1>1. PICK k \in Nat : s \in [1 .. k -> Named] BY CacheAssumption, FS_CardinalityType DEF Orders
<1>2. ASSUME NEW i \in 1 .. k PROVE [name |-> s[i], size |-> SizeOf(dir[s[i]])] \in Entries
  <2>1. s[i] \in Names /\ dir[s[i]] \in Files BY <1>1, <1>2 DEF Named, TypeOK
  <2> QED BY <2>1, SizeOfType DEF Entries
<1> QED BY <1>1, <1>2

-----------------------------------------------------------------------------
(* Initially.                                                              *)

LEMMA InitIInv == Init => IInv
<1> SUFFICES ASSUME Init PROVE IInv OBVIOUS
<1> USE DEF Init
<1>1. TypeOK
  BY CacheAssumption, RequestAssumption
     DEF TypeOK, Sweeps, Entries, LockTypes, Steps, Info, None, NoInfo, ShortInfo
<1>2. TargetAtStep /\ FileAtStep BY DEF TargetAtStep, FileAtStep, HasFile
<1>3. CacheLockAtStep /\ Exclusive
  BY DEF CacheLockAtStep, Exclusive, ReadLocksCache, WriteLocksCache
<1>4. FileLockAtStep /\ FoundIsNamed BY DEF FileLockAtStep, FoundIsNamed
<1>5. HoldsOnlyRecorded BY DEF HoldsOnlyRecorded, Recorded
<1> QED BY <1>1, <1>2, <1>3, <1>4, <1>5 DEF IInv

-----------------------------------------------------------------------------
(* A step of the cache keeps each part of the invariant.                   *)

LEMMA TypeOKStep ==
    ASSUME IInv, [Next]_vars
    PROVE  TypeOK'
<1> USE CacheAssumption, RequestAssumption
    DEF TypeOK, LockTypes, Steps, NoInfo, ShortInfo, GoTo, SetLock, ReleaseBoth, Granted,
        diskVars, procVars
<1>0. TypeOK /\ TargetAtStep /\ FileAtStep BY DEF IInv
<1>t. ASSUME NEW p \in Procs, at[p] \notin {"start", "init", "idle"} PROVE target[p] \in Names
  BY <1>0, <1>t DEF TargetAtStep
<1>f. ASSUME NEW p \in Procs, at[p] \in HasFile PROVE file[p] \in Files
  BY <1>0, <1>f DEF FileAtStep
<1>u. ASSUME NEW n \in Names, unlink(n)
      PROVE  /\ dir' \in [Names -> Files \cup {None}]
             /\ content' \in [Files -> {"empty", "partial", "full"}]
             /\ stale' \subseteq Files
  BY <1>0, <1>u DEF unlink
<1>l. ASSUME NEW p \in Procs, NEW f \in Files \cup {None, Info}, NEW type \in LockTypes,
             SetLock(p, f, type)
      PROVE  locks' \in [Files \cup {None, Info} -> [Procs -> LockTypes]]
  BY <1>0, <1>l
<1>b. ASSUME NEW p \in Procs, NEW f \in Files \cup {None, Info}, ReleaseBoth(p, f)
      PROVE  locks' \in [Files \cup {None, Info} -> [Procs -> LockTypes]]
  BY <1>0, <1>b
<1>s. ASSUME NEW p \in Procs, sweep' = [sweep EXCEPT ![p] = <<>>]
      PROVE  sweep' \in Sweeps
  BY <1>0, <1>s DEF Sweeps
<1>z. ASSUME NEW p \in Procs, saved' = [saved EXCEPT ![p] = 0]
      PROVE  saved' \in [Procs -> 0 .. WORD - 1]
  BY <1>0, <1>z
<1>i. info \in Int /\ \A p \in Procs : saved[p] \in Int
  BY <1>0
<1>z2. \A f \in Files : SizeOf(f) \in Int
  BY <1>0, SizeOfType
<1>th. ASSUME NEW p \in Procs, Throws(p), UNCHANGED info, blocked' \subseteq Procs,
              locks' \in [Files \cup {None, Info} -> [Procs -> LockTypes]],
              dir' \in [Names -> Files \cup {None}],
              content' \in [Files -> {"empty", "partial", "full"}],
              stale' \subseteq Files, mishaps' \in 0 .. MaxMishaps
       PROVE TypeOK'
  <2>1. /\ target' \in [Procs -> Names \cup {None}] /\ file' \in [Procs -> Files \cup {None}]
        /\ d_locks' \in [Procs -> [Names -> Files \cup {None}]] /\ failed' \subseteq Procs
    BY <1>0, <1>th DEF Throws
  <2>2. at' \in [Procs -> Steps] BY <1>0, <1>th DEF Throws
  <2> QED BY <1>0, <1>s, <1>z, <1>th, <2>1, <2>2 DEF Throws
<1>1. ASSUME NEW p \in Procs, initialize(p), UNCHANGED mishaps PROVE TypeOK'
  <2>1. CASE create_info(p) BY <1>0, <1>1, <2>1 DEF create_info
  <2>2. CASE open_info(p) BY <1>0, <1>1, <2>2 DEF open_info
  <2>3. CASE write_info(p) BY <1>0, <1>1, <2>3 DEF write_info
  <2> QED BY <1>1, <2>1, <2>2, <2>3 DEF initialize
<1>2. ASSUME NEW p \in Procs, Check(p), UNCHANGED mishaps PROVE TypeOK'
  BY <1>0, <1>2 DEF Check
<1>3. ASSUME NEW p \in Procs, purge(p), UNCHANGED mishaps PROVE TypeOK'
  <2>1. CASE purge_file(p, "purge", "purge_file", "read")
    <3>1. target[p] \in Names BY <1>t, <2>1 DEF purge_file
    <3>2. CASE dir[target[p]] = None BY <1>0, <1>3, <2>1, <3>2 DEF purge_file
    <3>3. CASE dir[target[p]] # None
      BY ZenonT(40), <1>0, <1>l, <1>3, <2>1, <3>1, <3>3 DEF purge_file
    <3> QED BY <3>2, <3>3
  <2>2. CASE purge_unlink(p, "purge_file", "purge_size")
    <3>1. file[p] \in Files /\ target[p] \in Names BY <1>t, <1>f, <2>2 DEF purge_unlink, HasFile
    <3>2. Less(info, SizeOf(file[p])) \in 0 .. WORD - 1 
      <4>1. SizeOf(file[p]) \in Int BY <1>z2, <3>1
      <4> QED BY <1>i, <4>1, LessType
    <3>3. locks' \in [Files \cup {None, Info} -> [Procs -> LockTypes]]
      BY <1>b, <2>2, <3>1 DEF purge_unlink
    <3> QED BY <1>0, <1>u, <1>3, <2>2, <3>1, <3>2, <3>3 DEF purge_unlink
  <2>3. CASE purge_write_size(p, "purge_size", "read")
    BY <1>0, <1>3, <2>3 DEF purge_write_size
  <2> QED BY <1>3, <2>1, <2>2, <2>3 DEF purge
<1>4. ASSUME NEW p \in Procs, get_cached_data(p), UNCHANGED mishaps PROVE TypeOK'
  <2>1. ASSUME NEW here \in {"read", "reread"}, NEW lock \in Steps, NEW absent \in Steps,
               get_read_lock(p, here, lock, absent)
        PROVE  TypeOK'
    <3>0. at[p] = here BY <2>1 DEF get_read_lock
    <3>1. target[p] \in Names BY <1>t, <3>0
    <3>2. CASE dir[target[p]] = None BY ZenonT(40), <1>0, <1>4, <2>1, <3>2 DEF get_read_lock
    <3>3. CASE dir[target[p]] # None
      <4>1. locks' \in [Files \cup {None, Info} -> [Procs -> LockTypes]]
        BY <1>0, <1>l, <2>1, <3>3 DEF get_read_lock
      <4>2. dir[target[p]] \in Files BY <1>0, <3>1, <3>3
      <4>3. at' \in [Procs -> Steps]
        <5> HIDE DEF Steps
        <5>1. GoTo(p, lock) BY <2>1, <3>3 DEF get_read_lock
        <5> QED BY <1>0, <2>1, <5>1
      <4>4. file' = [file EXCEPT ![p] = dir[target[p]]] BY <2>1, <3>3 DEF get_read_lock
      <4>5. UNCHANGED <<dir, content, stale, info, target, d_locks, saved, sweep, failed>>
        BY <2>1 DEF get_read_lock
      <4>6. blocked' \subseteq Procs BY <1>0, <2>1 DEF get_read_lock
      <4> QED BY <1>0, <1>4, <4>1, <4>2, <4>3, <4>4, <4>5, <4>6
    <3> QED BY <3>2, <3>3
  <2>2. ASSUME NEW here \in {"lock", "relock"}, getSharedLock(p, here, "parse") PROVE TypeOK'
    <3>1. file[p] \in Files /\ target[p] \in Names BY <1>t, <1>f, <2>2 DEF getSharedLock, HasFile
    <3>2. locks' \in [Files \cup {None, Info} -> [Procs -> LockTypes]]
      BY <1>0, <2>2, <3>1 DEF getSharedLock
    <3>3. d_locks' \in [Procs -> [Names -> Files \cup {None}]]
      BY <1>0, <2>2, <3>1 DEF getSharedLock, m_record_descriptor
    <3> QED BY <1>0, <1>4, <2>2, <3>2, <3>3 DEF getSharedLock
  <2> QED BY <1>4, <2>1, <2>2 DEF get_cached_data
<1>5. ASSUME NEW p \in Procs, get_cached_data_ddx(p), UNCHANGED mishaps PROVE TypeOK'
  <2>1. file[p] \in Files BY <1>f, <1>5 DEF get_cached_data_ddx, HasFile
  <2> QED BY <1>0, <1>l, <1>5, <2>1 DEF get_cached_data_ddx
<1>6. ASSUME NEW p \in Procs, Build(p) \/ Write(p), UNCHANGED mishaps PROVE TypeOK'
  <2>1. file[p] \in Files BY <1>f, <1>6 DEF Build, Write, HasFile
  <2> QED BY <1>0, <1>l, <1>6, <2>1 DEF Build, Write
<1>7. ASSUME NEW p \in Procs, create_and_lock(p, "create", "build", "reread"), UNCHANGED mishaps
      PROVE  TypeOK'
  <2>0. target[p] \in Names BY <1>t, <1>7 DEF create_and_lock
  <2>1. CASE dir[target[p]] # None BY <1>0, <1>7, <2>1 DEF create_and_lock
  <2>2. ASSUME NEW f \in Files, dir' = [dir EXCEPT ![target[p]] = f],
               content' = [content EXCEPT ![f] = "empty"], file' = [file EXCEPT ![p] = f],
               SetLock(p, f, "write"), m_record_descriptor(p, f), GoTo(p, "build")
        PROVE  TypeOK'
    <3>1. d_locks' \in [Procs -> [Names -> Files \cup {None}]]
      BY <1>0, <2>0, <2>2 DEF m_record_descriptor
    <3> QED BY <1>0, <1>l, <1>7, <2>0, <2>2, <3>1 DEF create_and_lock
  <2> QED BY <1>7, <2>1, <2>2 DEF create_and_lock, CreateLock
<1>8. ASSUME NEW p \in Procs, exclusive_to_shared_lock(p, "share", "update"), UNCHANGED mishaps
      PROVE  TypeOK'
  <2>1. file[p] \in Files BY <1>f, <1>8 DEF exclusive_to_shared_lock, HasFile
  <2> QED BY <1>0, <1>l, <1>8, <2>1 DEF exclusive_to_shared_lock
<1>9. ASSUME NEW p \in Procs, update_cache_info(p, "update", "respond", "collect"),
             UNCHANGED mishaps
      PROVE  TypeOK'
  <2>1. target[p] \in Names /\ dir[target[p]] \in Files
    BY <1>0, <1>t, <1>9 DEF update_cache_info, CanUpdate
  <2>2. (info + SizeOf(dir[target[p]])) % WORD \in 0 .. WORD - 1
    <3>1. SizeOf(dir[target[p]]) \in Int BY <1>z2, <2>1
    <3>2. info + SizeOf(dir[target[p]]) \in Int BY <1>i, <3>1
    <3> QED BY <3>2, ModType
  <2> QED BY <1>0, <1>9, <2>2 DEF update_cache_info
<1>10. ASSUME NEW p \in Procs, m_collect_cache_dir_info(p, "collect", "sweep"), UNCHANGED mishaps
       PROVE  TypeOK'
  <2>1. sweep' \in Sweeps
    <3>1. CASE UNCHANGED sweep BY <1>0, <3>1
    <3>2. ASSUME NEW s \in Orders,
                 sweep' = [sweep EXCEPT ![p] = [i \in DOMAIN s |->
                                        [name |-> s[i], size |-> SizeOf(dir[s[i]])]]]
          PROVE  sweep' \in Sweeps
      BY <1>0, <3>2, OrderType DEF Sweeps
    <3> QED BY <1>10, <3>1, <3>2 DEF m_collect_cache_dir_info
  <2> QED BY <1>0, <1>l, <1>10, <2>1, TotalType DEF m_collect_cache_dir_info
<1>11. ASSUME NEW p \in Procs, purge_oldest(p, "sweep"), UNCHANGED mishaps PROVE TypeOK'
  <2> DEFINE oldest == Head(sweep[p])
  <2>1. oldest \in Entries /\ Tail(sweep[p]) \in Seq(Entries)
    BY <1>0, <1>11 DEF purge_oldest, Sweeping, Sweeps
  <2>a. oldest.name \in Names /\ oldest.size \in Int BY <2>1 DEF Entries
  <2> HIDE DEF oldest
  <2>2. oldest.name \in Names /\ Less(saved[p], oldest.size) \in 0 .. WORD - 1
    BY <1>i, <2>a, LessType
  <2>3. sweep' \in Sweeps BY <1>0, <1>11, <2>1 DEF purge_oldest, Sweeps
  <2>4. dir[oldest.name] \in Files \cup {None} BY <1>0, <2>2
  <2>5. UNCHANGED <<info, at, target, file, d_locks, failed, blocked>>
    BY <1>11 DEF purge_oldest
  <2>6. CASE oldest.name = target[p]
    BY <1>0, <1>11, <2>3, <2>5, <2>6 DEF purge_oldest, oldest
  <2>7. CASE oldest.name # target[p]
    <3>1. SetLock(p, dir[oldest.name], "none") BY <1>11, <2>7 DEF purge_oldest, oldest
    <3>2. CASE unlink(oldest.name) /\ saved' = [saved EXCEPT ![p] = Less(@, oldest.size)]
      BY <1>0, <1>l, <1>u, <1>11, <2>2, <2>3, <2>4, <2>5, <3>1, <3>2
    <3>3. CASE UNCHANGED <<dir, content, stale, saved>>
      BY <1>0, <1>l, <1>11, <2>3, <2>4, <2>5, <3>1, <3>3
    <3> QED BY <1>11, <2>7, <3>2, <3>3 DEF purge_oldest, oldest
  <2> QED BY <2>6, <2>7
<1>12. ASSUME NEW p \in Procs, update_and_purge_ends(p, "sweep", "respond"), UNCHANGED mishaps
       PROVE  TypeOK'
  BY <1>0, <1>l, <1>s, <1>z, <1>12 DEF update_and_purge_ends
<1>13. ASSUME NEW p \in Procs, Respond(p), UNCHANGED mishaps PROVE TypeOK'
  <2>1. d_locks[p][target[p]] \in Files \cup {None}
    <3>1. target[p] \in Names BY <1>t, <1>13 DEF Respond, unlock_and_close
    <3> QED BY <1>0, <3>1
  <2> QED BY <1>0, <1>l, <1>13, <2>1 DEF Respond, unlock_and_close
<1>14. ASSUME NEW p \in Procs, LockRefused(p), UNCHANGED mishaps PROVE TypeOK'
  <2>1. locks' \in [Files \cup {None, Info} -> [Procs -> LockTypes]]
    <3>1. CASE at[p] \in {"lock", "relock", "purge_file"}
      <4>1. file[p] \in Files BY <1>f, <3>1 DEF HasFile
      <4> QED BY <1>b, <1>14, <3>1, <4>1 DEF LockRefused
    <3>2. CASE at[p] \notin {"lock", "relock", "purge_file"}
      BY <1>l, <1>14, <3>2 DEF LockRefused
    <3> QED BY <3>1, <3>2
  <2> QED BY <1>0, <1>14, <1>th, <2>1 DEF LockRefused
<1>15. ASSUME NEW p \in Procs, UpdateThrows(p) \/ ReadThrows(p), UNCHANGED mishaps PROVE TypeOK'
  BY <1>0, <1>15, <1>th DEF UpdateThrows, ReadThrows
<1>16. ASSUME NEW p \in Procs, PurgeThrows(p), UNCHANGED mishaps PROVE TypeOK'
  <2>1. file[p] \in Files /\ target[p] \in Names BY <1>t, <1>f, <1>16 DEF PurgeThrows, HasFile
  <2>2. locks' \in [Files \cup {None, Info} -> [Procs -> LockTypes]]
    BY <1>b, <1>16, <2>1 DEF PurgeThrows
  <2> QED BY <1>0, <1>u, <1>16, <1>th, <2>1, <2>2 DEF PurgeThrows
<1>17. ASSUME NEW p \in Procs, Block(p), UNCHANGED mishaps PROVE TypeOK'
  BY <1>0, <1>17 DEF Block
<1>18. ASSUME NEW p \in Procs, Request(p), UNCHANGED mishaps PROVE TypeOK'
  BY <1>0, <1>18 DEF Request
<1>19. ASSUME NEW p \in Procs, RequestThrows(p) PROVE TypeOK'
  <2>1. locks' \in [Files \cup {None, Info} -> [Procs -> LockTypes]]
    <3>1. CASE at[p] = "write"
      <4>1. file[p] \in Files BY <1>f, <3>1 DEF HasFile
      <4> QED BY <1>l, <1>19, <3>1, <4>1 DEF RequestThrows
    <3>2. CASE at[p] # "write" BY <1>0, <1>19, <3>2 DEF RequestThrows
    <3> QED BY <3>1, <3>2
  <2> QED BY <1>0, <1>19, <1>th, <2>1 DEF RequestThrows, Mishap
<1>20. ASSUME NEW p \in Procs, Exit(p) PROVE TypeOK'
  <2>1. locks' \in [Files \cup {None, Info} -> [Procs -> LockTypes]] BY <1>0, <1>20 DEF Exit
  <2>2. mishaps' \in 0 .. MaxMishaps BY <1>0, <1>20 DEF Exit, Mishap
  <2>3. d_locks' \in [Procs -> [Names -> Files \cup {None}]] BY <1>0, <1>20 DEF Exit
  <2> QED BY <1>0, <1>s, <1>z, <1>20, <2>1, <2>2, <2>3 DEF Exit
<1>21. CASE DatasetChanges BY <1>0, <1>21 DEF DatasetChanges
<1>22. CASE UNCHANGED vars BY <1>0, <1>22 DEF vars, cacheVars
<1> QED BY <1>1, <1>2, <1>3, <1>4, <1>5, <1>6, <1>7, <1>8, <1>9, <1>10, <1>11, <1>12, <1>13,
           <1>14, <1>15, <1>16, <1>17, <1>18, <1>19, <1>20, <1>21, <1>22
        DEF Next, Step, Add

(* Where a process is says whether it has a name and a file.               *)
LEMMA AtStep ==
    ASSUME IInv, [Next]_vars
    PROVE  TargetAtStep' /\ FileAtStep'
<1> USE DEF TargetAtStep, FileAtStep, HasFile, GoTo, Throws
<1>0. /\ TargetAtStep /\ FileAtStep
      /\ at \in [Procs -> Steps] /\ dir \in [Names -> Files \cup {None}]
      /\ target \in [Procs -> Names \cup {None}] /\ file \in [Procs -> Files \cup {None}]
      /\ None \notin Names \cup Files
  BY CacheAssumption DEF IInv, TypeOK
<1>1. ASSUME NEW p \in Procs, initialize(p) \/ Check(p) \/ Request(p)
      PROVE  TargetAtStep' /\ FileAtStep'
  BY <1>0, <1>1 DEF initialize, create_info, open_info, write_info, Check, Request
<1>2. ASSUME NEW p \in Procs, purge(p) PROVE TargetAtStep' /\ FileAtStep'
  BY <1>0, <1>2 DEF purge, purge_file, purge_unlink, purge_write_size
<1>3. ASSUME NEW p \in Procs, get_cached_data(p) \/ get_cached_data_ddx(p)
      PROVE  TargetAtStep' /\ FileAtStep'
  BY <1>0, <1>3 DEF get_cached_data, get_read_lock, getSharedLock, get_cached_data_ddx
<1>4. ASSUME NEW p \in Procs, Build(p) \/ Write(p) \/ Respond(p)
      PROVE  TargetAtStep' /\ FileAtStep'
  BY <1>0, <1>4 DEF Build, Write, Respond, unlock_and_close
<1>5. ASSUME NEW p \in Procs, Add(p) PROVE TargetAtStep' /\ FileAtStep'
  BY <1>0, <1>5 DEF Add, create_and_lock, exclusive_to_shared_lock, update_cache_info,
                    m_collect_cache_dir_info, purge_oldest, update_and_purge_ends
<1>6. ASSUME NEW p \in Procs, LockRefused(p) \/ UpdateThrows(p) \/ PurgeThrows(p)
                              \/ ReadThrows(p) \/ RequestThrows(p) \/ Exit(p)
      PROVE  TargetAtStep' /\ FileAtStep'
  BY <1>0, <1>6 DEF LockRefused, UpdateThrows, PurgeThrows, ReadThrows, RequestThrows, Exit
<1>7. ASSUME UNCHANGED procVars PROVE TargetAtStep' /\ FileAtStep'
  BY <1>0, <1>7 DEF procVars
<1> QED BY <1>1, <1>2, <1>3, <1>4, <1>5, <1>6, <1>7
        DEF Next, Step, Block, DatasetChanges, vars, cacheVars

(* A lock that fcntl grants conflicts with no other.                       *)
LEMMA GrantedExclusive ==
    ASSUME TypeOK, Exclusive,
           NEW p \in Procs, NEW f \in Files \cup {None, Info}, NEW type \in {"read", "write"},
           Holders(p, f, type) = {},
           locks' = [locks EXCEPT ![f][p] = type]
    PROVE  Exclusive'
<1>1. locks \in [Files \cup {None, Info} -> [Procs -> LockTypes]] BY DEF TypeOK
<1>2. \A q \in Procs \ {p} : ~Conflict(locks[f][q], type) BY DEF Holders
<1> QED BY <1>1, <1>2 DEF Exclusive, Conflict, LockTypes

(* Giving up locks never conflicts.                                        *)
LEMMA ReleaseExclusive ==
    ASSUME TypeOK, Exclusive,
           locks' \in [Files \cup {None, Info} -> [Procs -> LockTypes]],
           \A f \in Files \cup {None, Info} : \A p \in Procs :
               locks'[f][p] \in {locks[f][p], "none"}
    PROVE  Exclusive'
  BY DEF TypeOK, Exclusive, LockTypes

LEMMA ExclusiveStep ==
    ASSUME IInv, TypeOK', [Next]_vars
    PROVE  Exclusive'
<1> DEFINE Locks == [Files \cup {None, Info} -> [Procs -> LockTypes]]
           Released == \A f \in Files \cup {None, Info} : \A p \in Procs :
                         locks'[f][p] \in {locks[f][p], "none"}
<1> USE DEF SetLock, ReleaseBoth, Granted
<1>0. /\ TypeOK /\ Exclusive /\ locks \in Locks /\ locks' \in Locks
      /\ \A p \in Procs : at[p] \in HasFile => file[p] \in Files
  BY DEF IInv, TypeOK, FileAtStep
<1>r. ASSUME Released PROVE Exclusive' BY <1>0, <1>r, ReleaseExclusive
<1>u. ASSUME UNCHANGED locks PROVE Exclusive' BY <1>u, <1>0 DEF Exclusive
<1>n. ASSUME NEW p \in Procs, NEW f, SetLock(p, f, "none") \/ ReleaseBoth(p, f)
      PROVE  Exclusive'
  <2>1. Released BY <1>0, <1>n
  <2> QED BY <1>r, <2>1
<1>w. ASSUME NEW p \in Procs,
             Granted(p), SetLock(p, WantedFile(p), WantedType(p)),
             WantedFile(p) \in Files \cup {None, Info}
      PROVE  Exclusive'
  BY <1>0, <1>w, GrantedExclusive DEF WaitsFor, WantedType
<1>1. ASSUME NEW p \in Procs, purge(p) PROVE Exclusive'
  <2>1. CASE purge_file(p, "purge", "purge_file", "read")
    <3>1. WantedFile(p) = Info /\ WantedType(p) = "write"
      BY <2>1 DEF purge_file, WantedFile, WantedType, WritesInfo
    <3> QED BY <1>u, <1>w, <2>1, <3>1 DEF purge_file
  <2>2. CASE purge_unlink(p, "purge_file", "purge_size") BY <1>n, <2>2 DEF purge_unlink
  <2>3. CASE purge_write_size(p, "purge_size", "read") BY <1>u, <2>3 DEF purge_write_size
  <2> QED BY <1>1, <2>1, <2>2, <2>3 DEF purge
<1>2. ASSUME NEW p \in Procs, get_cached_data(p) PROVE Exclusive'
  <2>1. ASSUME NEW here \in {"read", "reread"}, NEW lock, NEW absent,
               get_read_lock(p, here, lock, absent)
        PROVE  Exclusive'
    <3>1. WantedFile(p) = Info /\ WantedType(p) = "read"
      BY <2>1 DEF get_read_lock, WantedFile, WantedType, WritesInfo, ReadsInfo
    <3> QED BY <1>u, <1>w, <2>1, <3>1 DEF get_read_lock
  <2>2. ASSUME NEW here \in {"lock", "relock"}, getSharedLock(p, here, "parse") PROVE Exclusive'
    <3>1. file[p] \in Files /\ at[p] = here BY <1>0, <2>2 DEF getSharedLock, HasFile
    <3>2. Holders(p, file[p], "read") = {}
      BY <2>2, <3>1 DEF getSharedLock, WaitsFor, WantedFile, WantedType, WritesInfo, ReadsInfo
    <3>3. locks' = [locks EXCEPT ![file[p]][p] = "read", ![Info][p] = "none"]
      BY <2>2 DEF getSharedLock
    <3>4. \A q \in Procs \ {p} : locks[file[p]][q] # "write"
      BY <3>2, <1>0, <3>1 DEF Holders, Conflict, LockTypes
    <3> QED BY SMTT(40), <1>0, <3>1, <3>3, <3>4 DEF Exclusive, LockTypes, Info
  <2> QED BY <1>2, <2>1, <2>2 DEF get_cached_data
<1>3. ASSUME NEW p \in Procs, get_cached_data_ddx(p) \/ Write(p) \/ Respond(p) PROVE Exclusive'
  BY <1>n, <1>3 DEF get_cached_data_ddx, Write, Respond, unlock_and_close
<1>4. ASSUME NEW p \in Procs, Add(p) PROVE Exclusive'
  <2>1. CASE create_and_lock(p, "create", "build", "reread")
    <3>1. CASE UNCHANGED locks BY <1>u, <3>1
    <3>2. ASSUME NEW f \in Files, Unused(f), SetLock(p, f, "write") PROVE Exclusive'
      <4>1. Holders(p, f, "write") = {} BY <3>2 DEF Unused, Holders, Conflict
      <4> QED BY <1>0, <3>2, <4>1, GrantedExclusive
    <3> QED BY <2>1, <3>1, <3>2 DEF create_and_lock, CreateLock
  <2>2. CASE exclusive_to_shared_lock(p, "share", "update")
    <3>1. WantedFile(p) = file[p] /\ WantedType(p) = "read" /\ file[p] \in Files
      BY <1>0, <2>2 DEF exclusive_to_shared_lock, WantedFile, WantedType, WritesInfo, ReadsInfo,
                        HasFile
    <3> QED BY <1>w, <2>2, <3>1 DEF exclusive_to_shared_lock
  <2>3. CASE m_collect_cache_dir_info(p, "collect", "sweep")
    <3>1. WantedFile(p) = Info /\ WantedType(p) = "write"
      BY <2>3 DEF m_collect_cache_dir_info, WantedFile, WantedType, WritesInfo
    <3> QED BY <1>w, <2>3, <3>1 DEF m_collect_cache_dir_info
  <2>4. CASE update_cache_info(p, "update", "respond", "collect")
    BY <1>u, <2>4 DEF update_cache_info
  <2>5. CASE purge_oldest(p, "sweep") BY <1>n, <1>u, <2>5 DEF purge_oldest
  <2>6. CASE update_and_purge_ends(p, "sweep", "respond") BY <1>n, <2>6 DEF update_and_purge_ends
  <2> QED BY <1>4, <2>1, <2>2, <2>3, <2>4, <2>5, <2>6 DEF Add
<1>5. ASSUME NEW p \in Procs, LockRefused(p) \/ PurgeThrows(p) \/ RequestThrows(p)
      PROVE  Exclusive'
  BY <1>n, <1>u, <1>5 DEF LockRefused, PurgeThrows, RequestThrows
<1>6. ASSUME NEW p \in Procs, Exit(p) PROVE Exclusive'
  <2>1. Released BY <1>0, <1>6 DEF Exit
  <2> QED BY <1>r, <2>1
<1>7. ASSUME NEW p \in Procs, initialize(p) \/ Check(p) \/ Request(p) \/ Build(p) \/ Block(p)
                              \/ UpdateThrows(p) \/ ReadThrows(p)
      PROVE  Exclusive'
  BY <1>u, <1>7 DEF initialize, create_info, open_info, write_info, Check, Request, Build, Block,
                    UpdateThrows, ReadThrows
<1> QED BY <1>u, <1>1, <1>2, <1>3, <1>4, <1>5, <1>6, <1>7
        DEF Next, Step, DatasetChanges, vars, cacheVars

(* The cache is locked at the steps that need it, and at no others.        *)
LEMMA CacheLockStep ==
    ASSUME IInv, [Next]_vars
    PROVE  CacheLockAtStep'
<1> USE DEF CacheLockAtStep, ReadLocksCache, WriteLocksCache, GoTo, Throws, SetLock, ReleaseBoth
<1>0. /\ CacheLockAtStep /\ at \in [Procs -> Steps]
      /\ locks \in [Files \cup {None, Info} -> [Procs -> LockTypes]]
      /\ Info \notin Files \cup {None}
      /\ \A p \in Procs : at[p] \in HasFile => file[p] \in Files
  BY CacheAssumption DEF IInv, TypeOK, FileAtStep, Info, None
<1>1. ASSUME NEW p \in Procs, initialize(p) \/ Check(p) \/ Request(p) \/ Build(p)
      PROVE  CacheLockAtStep'
  BY <1>0, <1>1 DEF initialize, create_info, open_info, write_info, Check, Request, Build
<1>2. ASSUME NEW p \in Procs, purge(p) PROVE CacheLockAtStep'
  BY <1>0, <1>2 DEF purge, purge_file, purge_unlink, purge_write_size, HasFile
<1>3. ASSUME NEW p \in Procs, get_cached_data(p) PROVE CacheLockAtStep'
  BY <1>0, <1>3 DEF get_cached_data, get_read_lock, getSharedLock, HasFile
<1>4. ASSUME NEW p \in Procs, get_cached_data_ddx(p) \/ Write(p) PROVE CacheLockAtStep'
  BY <1>0, <1>4 DEF get_cached_data_ddx, Write, HasFile
<1>5. ASSUME NEW p \in Procs, Respond(p) PROVE CacheLockAtStep'
  <2>1. d_locks[p][target[p]] \in Files \cup {None}
    <3>1. target[p] \in Names /\ d_locks \in [Procs -> [Names -> Files \cup {None}]]
      BY <1>5 DEF IInv, TypeOK, TargetAtStep, Respond, unlock_and_close
    <3> QED BY <3>1
  <2> QED BY <1>0, <1>5, <2>1 DEF Respond, unlock_and_close
<1>6. ASSUME NEW p \in Procs, Add(p) PROVE CacheLockAtStep'
  <2>1. CASE create_and_lock(p, "create", "build", "reread")
    BY <1>0, <2>1 DEF create_and_lock, CreateLock
  <2>2. CASE exclusive_to_shared_lock(p, "share", "update")
    BY <1>0, <2>2 DEF exclusive_to_shared_lock, HasFile
  <2>3. CASE update_cache_info(p, "update", "respond", "collect")
    BY <1>0, <2>3 DEF update_cache_info
  <2>4. CASE m_collect_cache_dir_info(p, "collect", "sweep")
    BY <1>0, <2>4 DEF m_collect_cache_dir_info
  <2>5. CASE purge_oldest(p, "sweep")
    <3>1. dir[Head(sweep[p]).name] \in Files \cup {None}
      <4>1. Head(sweep[p]) \in Entries
        BY <2>5 DEF IInv, TypeOK, Sweeps, purge_oldest, Sweeping
      <4> QED BY <4>1 DEF IInv, TypeOK, Entries
    <3> QED BY <1>0, <2>5, <3>1 DEF purge_oldest
  <2>6. CASE update_and_purge_ends(p, "sweep", "respond")
    BY <1>0, <2>6 DEF update_and_purge_ends
  <2> QED BY <1>6, <2>1, <2>2, <2>3, <2>4, <2>5, <2>6 DEF Add
<1>7. ASSUME NEW p \in Procs, LockRefused(p) \/ PurgeThrows(p) PROVE CacheLockAtStep'
  BY <1>0, <1>7 DEF LockRefused, PurgeThrows, HasFile, LockSteps, WritesInfo, ReadsInfo, ReadsFile
<1>8. ASSUME NEW p \in Procs, UpdateThrows(p) \/ ReadThrows(p) \/ RequestThrows(p)
      PROVE  CacheLockAtStep'
  BY <1>0, <1>8 DEF UpdateThrows, ReadThrows, RequestThrows, HasFile
<1>9. ASSUME NEW p \in Procs, Exit(p) PROVE CacheLockAtStep'
  BY <1>0, <1>9 DEF Exit
<1>10. ASSUME UNCHANGED <<at, locks>> PROVE CacheLockAtStep'
  BY <1>0, <1>10
<1> QED BY <1>1, <1>2, <1>3, <1>4, <1>5, <1>6, <1>7, <1>8, <1>9, <1>10
        DEF Next, Step, Block, DatasetChanges, vars, cacheVars, procVars

(* A file that is built or read is locked.                                 *)
LEMMA FileLockStep ==
    ASSUME IInv, [Next]_vars
    PROVE  FileLockAtStep'
<1> USE DEF FileLockAtStep, GoTo, Throws, SetLock, ReleaseBoth
<1>0. /\ FileLockAtStep /\ at \in [Procs -> Steps]
      /\ locks \in [Files \cup {None, Info} -> [Procs -> LockTypes]]
      /\ file \in [Procs -> Files \cup {None}]
      /\ Info \notin Files \cup {None}
      /\ \A p \in Procs : at[p] \in HasFile => file[p] \in Files
  BY CacheAssumption DEF IInv, TypeOK, FileAtStep, Info, None
<1>1. ASSUME NEW p \in Procs, initialize(p) \/ Check(p) \/ Request(p) \/ Build(p)
      PROVE  FileLockAtStep'
  BY <1>0, <1>1 DEF initialize, create_info, open_info, write_info, Check, Request, Build
<1>2. ASSUME NEW p \in Procs, purge(p) PROVE FileLockAtStep'
  BY <1>0, <1>2 DEF purge, purge_file, purge_unlink, purge_write_size, HasFile
<1>3. ASSUME NEW p \in Procs, get_cached_data(p) PROVE FileLockAtStep'
  BY <1>0, <1>3 DEF get_cached_data, get_read_lock, getSharedLock, HasFile
<1>4. ASSUME NEW p \in Procs, get_cached_data_ddx(p) \/ Write(p) PROVE FileLockAtStep'
  BY <1>0, <1>4 DEF get_cached_data_ddx, Write, HasFile
<1>5. ASSUME NEW p \in Procs, Respond(p) PROVE FileLockAtStep'
  BY <1>0, <1>5 DEF Respond, unlock_and_close
<1>6. ASSUME NEW p \in Procs, Add(p) PROVE FileLockAtStep'
  <2>1. CASE create_and_lock(p, "create", "build", "reread")
    BY <1>0, <2>1 DEF create_and_lock, CreateLock
  <2>2. CASE exclusive_to_shared_lock(p, "share", "update")
    BY <1>0, <2>2 DEF exclusive_to_shared_lock, HasFile
  <2>3. CASE update_cache_info(p, "update", "respond", "collect")
    BY <1>0, <2>3 DEF update_cache_info
  <2>4. CASE m_collect_cache_dir_info(p, "collect", "sweep")
    BY <1>0, <2>4 DEF m_collect_cache_dir_info
  <2>5. CASE purge_oldest(p, "sweep") BY <1>0, <2>5 DEF purge_oldest
  <2>6. CASE update_and_purge_ends(p, "sweep", "respond")
    BY <1>0, <2>6 DEF update_and_purge_ends
  <2> QED BY <1>6, <2>1, <2>2, <2>3, <2>4, <2>5, <2>6 DEF Add
<1>7. ASSUME NEW p \in Procs, LockRefused(p) \/ PurgeThrows(p) PROVE FileLockAtStep'
  <2>1. CASE at[p] \in {"lock", "relock", "purge_file"}
    <3>1. file[p] \in Files BY <1>0, <2>1 DEF HasFile
    <3>2. at' = [at EXCEPT ![p] = "idle"] /\ file' = [file EXCEPT ![p] = None]
          /\ locks' = [locks EXCEPT ![Info][p] = "none", ![file[p]][p] = "none"]
      BY <1>7, <2>1 DEF LockRefused, PurgeThrows
    <3> QED BY <1>0, <3>1, <3>2
  <2>2. CASE at[p] \notin {"lock", "relock", "purge_file"}
    BY <1>0, <1>7, <2>2 DEF LockRefused, PurgeThrows
  <2> QED BY <2>1, <2>2
<1>8. ASSUME NEW p \in Procs, UpdateThrows(p) \/ ReadThrows(p) \/ RequestThrows(p)
      PROVE  FileLockAtStep'
  BY SMTT(40), <1>0, <1>8 DEF UpdateThrows, ReadThrows, RequestThrows, HasFile
<1>9. ASSUME NEW p \in Procs, Exit(p) PROVE FileLockAtStep'
  BY <1>0, <1>9 DEF Exit
<1>10. ASSUME UNCHANGED <<at, file, locks>> PROVE FileLockAtStep'
  BY <1>0, <1>10
<1> QED BY <1>1, <1>2, <1>3, <1>4, <1>5, <1>6, <1>7, <1>8, <1>9, <1>10
        DEF Next, Step, Block, DatasetChanges, vars, cacheVars, procVars

(* Whoever removes a name has the cache locked for writing and meets no    *)
(* lock on the file: the name is not one that another process has found.   *)
LEMMA RemovedIsNotFound ==
    ASSUME IInv,
           NEW q \in Procs, NEW n \in Names, dir[n] \in Files,
           locks[Info][q] = "write", Holders(q, dir[n], "write") = {},
           NEW p \in Procs \ {q},
           at[p] \in {"lock", "relock", "purge_file", "build", "write", "parse"}
    PROVE  target[p] # n
<1> SUFFICES ASSUME target[p] = n PROVE FALSE OBVIOUS
<1>1. dir[n] = file[p] BY DEF IInv, FoundIsNamed
<1>2. CASE at[p] \in {"lock", "relock", "purge_file"}
  <2>1. locks[Info][p] # "none"
    BY <1>2 DEF IInv, CacheLockAtStep, ReadLocksCache, WriteLocksCache
  <2> QED BY <2>1 DEF IInv, Exclusive
<1>3. CASE at[p] \in {"build", "write", "parse"}
  <2>1. locks[file[p]][p] \in {"read", "write"} BY <1>3 DEF IInv, FileLockAtStep
  <2> QED BY <1>1, <2>1 DEF Holders, Conflict
<1> QED BY <1>2, <1>3

LEMMA FoundIsNamedStep ==
    ASSUME IInv, [Next]_vars
    PROVE  FoundIsNamed'
<1> USE DEF FoundIsNamed, GoTo, Throws
<1>0. /\ FoundIsNamed /\ at \in [Procs -> Steps] /\ dir \in [Names -> Files \cup {None}]
      /\ target \in [Procs -> Names \cup {None}] /\ file \in [Procs -> Files \cup {None}]
      /\ \A p \in Procs : at[p] \in HasFile => file[p] \in Files
      /\ \A p \in Procs : at[p] \notin {"start", "init", "idle"} => target[p] \in Names
      /\ None \notin Files
  BY CacheAssumption DEF IInv, TypeOK, FileAtStep, TargetAtStep
<1>1. ASSUME NEW p \in Procs, initialize(p) \/ Check(p) \/ Request(p) \/ Build(p)
      PROVE  FoundIsNamed'
  BY <1>0, <1>1 DEF initialize, create_info, open_info, write_info, Check, Request, Build, diskVars
<1>u. ASSUME NEW q \in Procs, NEW n \in Names, dir[n] \in Files, unlink(n),
             locks[Info][q] = "write", Holders(q, dir[n], "write") = {},
             at'[q] \notin {"lock", "relock", "purge_file", "build", "write", "parse"},
             \A p \in Procs \ {q} : at'[p] = at[p] /\ target'[p] = target[p] /\ file'[p] = file[p]
      PROVE  FoundIsNamed'
  <2>1. ASSUME NEW p \in Procs \ {q},
               at[p] \in {"lock", "relock", "purge_file", "build", "write", "parse"}
        PROVE  dir'[target[p]] = file[p]
    <3>1. target[p] # n BY <1>u, <2>1, RemovedIsNotFound
    <3>2. target[p] \in Names BY <1>0, <2>1
    <3> QED BY <1>0, <1>u, <2>1, <3>1, <3>2 DEF unlink
  <2> QED BY <1>u, <2>1
<1>p. ASSUME NEW p \in Procs, at[p] = "purge_file", Granted(p)
      PROVE  /\ locks[Info][p] = "write" /\ target[p] \in Names
             /\ dir[target[p]] = file[p] /\ file[p] \in Files
             /\ Holders(p, file[p], "write") = {}
  <2>1. WantedFile(p) = file[p] /\ WantedType(p) = "write"
    BY <1>p DEF WantedFile, WantedType, WritesInfo, ReadsInfo
  <2> QED BY <1>0, <1>p, <2>1 DEF IInv, CacheLockAtStep, WriteLocksCache, HasFile, Granted, WaitsFor
<1>2. ASSUME NEW p \in Procs, purge(p) PROVE FoundIsNamed'
  <2>1. CASE purge_file(p, "purge", "purge_file", "read")
    BY <1>0, <2>1 DEF purge_file, diskVars
  <2>2. CASE purge_unlink(p, "purge_file", "purge_size")
    BY <1>0, <1>u, <1>p, <2>2 DEF purge_unlink
  <2>3. CASE purge_write_size(p, "purge_size", "read") BY <1>0, <2>3 DEF purge_write_size
  <2> QED BY <1>2, <2>1, <2>2, <2>3 DEF purge
<1>3. ASSUME NEW p \in Procs, get_cached_data(p) PROVE FoundIsNamed'
  BY <1>0, <1>3 DEF get_cached_data, get_read_lock, getSharedLock, diskVars
<1>4. ASSUME NEW p \in Procs, get_cached_data_ddx(p) \/ Write(p) \/ Respond(p)
      PROVE  FoundIsNamed'
  BY <1>0, <1>4 DEF get_cached_data_ddx, Write, Respond, unlock_and_close, diskVars
<1>5. ASSUME NEW p \in Procs, Add(p) PROVE FoundIsNamed'
  <2>1. CASE create_and_lock(p, "create", "build", "reread")
    <3>0. at[p] = "create" /\ target[p] \in Names /\ UNCHANGED target
      BY <1>0, <2>1 DEF create_and_lock
    <3>1. CASE dir[target[p]] # None BY <1>0, <2>1, <3>1 DEF create_and_lock
    <3>2. ASSUME NEW f \in Files, dir[target[p]] = None, dir' = [dir EXCEPT ![target[p]] = f],
                 file' = [file EXCEPT ![p] = f], GoTo(p, "build")
          PROVE  FoundIsNamed'
      BY <1>0, <3>0, <3>2 DEF HasFile
    <3> QED BY <2>1, <3>1, <3>2 DEF create_and_lock
  <2>2. CASE purge_oldest(p, "sweep")
    <3> DEFINE n == Head(sweep[p]).name
    <3>0. n \in Names
      <4>1. Head(sweep[p]) \in Entries
        BY <2>2 DEF IInv, TypeOK, Sweeps, purge_oldest, Sweeping
      <4> QED BY <4>1 DEF Entries
    <3>1. CASE UNCHANGED dir BY <1>0, <2>2, <3>1 DEF purge_oldest
    <3>2. CASE Free(p, dir[n], "write") /\ unlink(n) /\ dir[n] # None
      <4>1. locks[Info][p] = "write" /\ at'[p] = "sweep"
        BY <1>0, <2>2 DEF IInv, CacheLockAtStep, WriteLocksCache, purge_oldest
      <4>2. dir[n] \in Files BY <1>0, <3>0, <3>2
      <4> QED BY <1>0, <1>u, <2>2, <3>0, <3>2, <4>1, <4>2 DEF purge_oldest, Free
    <3>3. CASE unlink(n) /\ dir[n] = None BY <1>0, <2>2, <3>0, <3>3 DEF purge_oldest, unlink
    <3> QED BY <2>2, <3>1, <3>2, <3>3 DEF purge_oldest
  <2>3. CASE exclusive_to_shared_lock(p, "share", "update")
             \/ update_cache_info(p, "update", "respond", "collect")
             \/ m_collect_cache_dir_info(p, "collect", "sweep")
             \/ update_and_purge_ends(p, "sweep", "respond")
    BY <1>0, <2>3 DEF exclusive_to_shared_lock, update_cache_info, m_collect_cache_dir_info,
                      update_and_purge_ends, diskVars
  <2> QED BY <1>5, <2>1, <2>2, <2>3 DEF Add
<1>6. ASSUME NEW p \in Procs, LockRefused(p) \/ UpdateThrows(p) \/ ReadThrows(p)
                              \/ RequestThrows(p) \/ Exit(p)
      PROVE  FoundIsNamed'
  BY <1>0, <1>6 DEF LockRefused, UpdateThrows, ReadThrows, RequestThrows, Exit, diskVars
<1>7. ASSUME NEW p \in Procs, PurgeThrows(p) PROVE FoundIsNamed'
  BY <1>0, <1>u, <1>p, <1>7 DEF PurgeThrows
<1>8. ASSUME UNCHANGED <<dir, at, target, file>> PROVE FoundIsNamed'
  BY <1>0, <1>8
<1> QED BY <1>1, <1>2, <1>3, <1>4, <1>5, <1>6, <1>7, <1>8
        DEF Next, Step, Block, DatasetChanges, vars, cacheVars, procVars, diskVars

LEMMA HoldsOnlyRecordedStep ==
    ASSUME IInv, [Next]_vars
    PROVE  HoldsOnlyRecorded'
<1> USE DEF HoldsOnlyRecorded, Recorded, GoTo, SetLock, ReleaseBoth
<1>0. /\ HoldsOnlyRecorded /\ at \in [Procs -> Steps]
      /\ target \in [Procs -> Names \cup {None}] /\ file \in [Procs -> Files \cup {None}]
      /\ d_locks \in [Procs -> [Names -> Files \cup {None}]]
      /\ locks \in [Files \cup {None, Info} -> [Procs -> LockTypes]]
      /\ Info \notin Files \cup {None} /\ None \notin Files
  BY CacheAssumption DEF IInv, TypeOK, Info, None
<1>f. \A p \in Procs : at[p] \in HasFile => file[p] \in Files
  BY DEF IInv, TypeOK, FileAtStep
<1>t. \A p \in Procs : at[p] \notin {"start", "init", "idle"} => target[p] \in Names
  BY DEF IInv, TypeOK, TargetAtStep
(* Before a descriptor is recorded, at most the cache is locked.           *)
<1>b. ASSUME NEW p \in Procs, at[p] \notin Recorded,
             NEW step, step \notin Recorded, at' = [at EXCEPT ![p] = step],
             UNCHANGED <<target, d_locks, failed>>,
             \A q \in Procs \ {p} : file'[q] = file[q],
             \A f \in Files \cup {None} : \A q \in Procs : locks'[f][q] = locks[f][q]
      PROVE  HoldsOnlyRecorded'
  BY <1>0, <1>b
<1>1. ASSUME NEW p \in Procs, initialize(p) \/ Check(p) \/ Request(p) \/ Build(p)
      PROVE  HoldsOnlyRecorded'
  BY <1>0, <1>1 DEF initialize, create_info, open_info, write_info, Check, Request, Build
<1>2. ASSUME NEW p \in Procs, purge(p) PROVE HoldsOnlyRecorded'
  <2>1. CASE purge_file(p, "purge", "purge_file", "read")
    <3>1. \A f \in Files \cup {None} : \A q \in Procs : locks'[f][q] = locks[f][q]
      BY <1>0, <2>1 DEF purge_file
    <3>2. \A q \in Procs \ {p} : file'[q] = file[q] BY <1>0, <2>1 DEF purge_file
    <3>3. PICK step \in {"read", "purge_file"} : at' = [at EXCEPT ![p] = step]
      BY <2>1 DEF purge_file
    <3>4. at[p] = "purge" /\ UNCHANGED <<target, d_locks, failed>> BY <2>1 DEF purge_file
    <3> QED BY <1>b, <3>1, <3>2, <3>3, <3>4
  <2>2. CASE purge_unlink(p, "purge_file", "purge_size")
    BY <1>0, <1>f, <2>2 DEF purge_unlink, HasFile
  <2>3. CASE purge_write_size(p, "purge_size", "read") BY <1>0, <2>3 DEF purge_write_size
  <2> QED BY <1>2, <2>1, <2>2, <2>3 DEF purge
<1>3. ASSUME NEW p \in Procs, get_cached_data(p) PROVE HoldsOnlyRecorded'
  <2>1. ASSUME NEW here, NEW lock, NEW absent, get_read_lock(p, here, lock, absent),
               {here, lock, absent} \cap Recorded = {}
        PROVE  HoldsOnlyRecorded'
    <3>1. \A f \in Files \cup {None} : \A q \in Procs : locks'[f][q] = locks[f][q]
      BY <1>0, <2>1 DEF get_read_lock
    <3>2. \A q \in Procs \ {p} : file'[q] = file[q] BY <1>0, <2>1 DEF get_read_lock
    <3>3. PICK step \in {lock, absent} : at' = [at EXCEPT ![p] = step]
      BY <2>1 DEF get_read_lock
    <3>4. at[p] = here /\ UNCHANGED <<target, d_locks, failed>> BY <2>1 DEF get_read_lock
    <3> QED BY <1>b, <2>1, <3>1, <3>2, <3>3, <3>4
  <2>2. ASSUME NEW here \in {"lock", "relock"}, getSharedLock(p, here, "parse")
        PROVE  HoldsOnlyRecorded'
    <3>1. file[p] \in Files /\ target[p] \in Names /\ at[p] = here
      BY <1>f, <1>t, <2>2 DEF getSharedLock, HasFile
    <3> QED BY <1>0, <2>2, <3>1 DEF getSharedLock, m_record_descriptor
  <2> QED BY <1>3, <2>1, <2>2 DEF get_cached_data
<1>4. ASSUME NEW p \in Procs, get_cached_data_ddx(p) \/ Write(p) PROVE HoldsOnlyRecorded'
  BY <1>0, <1>f, <1>4 DEF get_cached_data_ddx, Write, HasFile
<1>5. ASSUME NEW p \in Procs, Respond(p) PROVE HoldsOnlyRecorded'
  <2>1. target[p] \in Names /\ at[p] = "respond" /\ at' = [at EXCEPT ![p] = "idle"]
    BY <1>t, <1>5 DEF Respond, unlock_and_close
  <2>2. d_locks[p][target[p]] \in Files \cup {None} BY <1>0, <2>1
  <2> QED BY <1>0, <1>5, <2>1, <2>2 DEF Respond, unlock_and_close
<1>6. ASSUME NEW p \in Procs, Add(p) PROVE HoldsOnlyRecorded'
  <2>1. CASE create_and_lock(p, "create", "build", "reread")
    <3>0. at[p] = "create" /\ target[p] \in Names /\ UNCHANGED <<target, failed>>
      BY <1>t, <2>1 DEF create_and_lock
    <3>1. CASE dir[target[p]] # None BY <1>0, <2>1, <3>1 DEF create_and_lock
    <3>2. ASSUME NEW f \in Files, file' = [file EXCEPT ![p] = f], SetLock(p, f, CreateLock),
                 m_record_descriptor(p, f), GoTo(p, "build")
          PROVE  HoldsOnlyRecorded'
      BY <1>0, <3>0, <3>2 DEF m_record_descriptor
    <3> QED BY <2>1, <3>1, <3>2 DEF create_and_lock
  <2>2. CASE exclusive_to_shared_lock(p, "share", "update")
    BY <1>0, <1>f, <2>2 DEF exclusive_to_shared_lock, HasFile
  <2>3. CASE update_cache_info(p, "update", "respond", "collect")
    BY <1>0, <2>3 DEF update_cache_info
  <2>4. CASE m_collect_cache_dir_info(p, "collect", "sweep")
    BY <1>0, <2>4 DEF m_collect_cache_dir_info
  <2>5. CASE purge_oldest(p, "sweep")
    <3>1. \A f \in Files \cup {None} : \A q \in Procs : locks'[f][q] \in {locks[f][q], "none"}
      BY <1>0, <2>5 DEF purge_oldest
    <3> QED BY <1>0, <2>5, <3>1 DEF purge_oldest
  <2>6. CASE update_and_purge_ends(p, "sweep", "respond")
    BY <1>0, <2>6 DEF update_and_purge_ends
  <2> QED BY <1>6, <2>1, <2>2, <2>3, <2>4, <2>5, <2>6 DEF Add
(* A process that fails promises nothing; the others keep their promise.   *)
<1>7. ASSUME NEW p \in Procs, LockRefused(p) \/ UpdateThrows(p) \/ PurgeThrows(p)
                              \/ ReadThrows(p) \/ RequestThrows(p)
      PROVE  HoldsOnlyRecorded'
  <2>1. failed' = failed \cup {p} /\ UNCHANGED d_locks
    BY <1>7 DEF LockRefused, UpdateThrows, PurgeThrows, ReadThrows, RequestThrows, Throws
  <2>2. \A q \in Procs \ {p} : at'[q] = at[q] /\ target'[q] = target[q] /\ file'[q] = file[q]
    BY <1>0, <1>7 DEF LockRefused, UpdateThrows, PurgeThrows, ReadThrows, RequestThrows, Throws
  <2>3. \A q \in Procs \ {p} : \A f \in Files \cup {None} : locks'[f][q] = locks[f][q]
    BY SMTT(40), <1>0, <1>7 DEF LockRefused, UpdateThrows, PurgeThrows, ReadThrows, RequestThrows
  <2> QED BY <1>0, <2>1, <2>2, <2>3
<1>8. ASSUME NEW p \in Procs, Exit(p) PROVE HoldsOnlyRecorded'
  BY <1>0, <1>8 DEF Exit
<1>9. ASSUME UNCHANGED <<procVars, locks, failed>> PROVE HoldsOnlyRecorded'
  BY <1>0, <1>9 DEF procVars
<1> QED BY <1>1, <1>2, <1>3, <1>4, <1>5, <1>6, <1>7, <1>8, <1>9
        DEF Next, Step, Block, DatasetChanges, vars, cacheVars

-----------------------------------------------------------------------------
(* The invariant, and what it says of the properties of the run.           *)

(* IInv is an invariant of the response cache.                             *)
THEOREM Invariant == Spec => []IInv
<1>1. IInv /\ [Next]_vars => IInv'
  BY TypeOKStep, AtStep, ExclusiveStep, CacheLockStep, FileLockStep, FoundIsNamedStep,
     HoldsOnlyRecordedStep DEF IInv
<1> QED BY InitIInv, <1>1, PTL DEF Spec

(* Every variable has its type whatever the requests of the processes, the *)
(* calls of fcntl and the failures; the sizes the cache computes are words.*)
THEOREM TypeCorrect == Spec => []TypeOK
  BY Invariant, PTL DEF IInv

(* A file being built or read keeps its name: neither purge_file nor       *)
(* update_and_purge removes it, nor does another request create its name.  *)
THEOREM InUseKeepsItsName == Spec => []InUseIsNotPurged
<1>1. IInv => InUseIsNotPurged BY DEF IInv, FoundIsNamed, InUseIsNotPurged
<1> QED BY Invariant, <1>1, PTL

(* Nobody reads a file (get_cached_data_ddx) that another is building.     *)
THEOREM ReadersAndBuildersApart == Spec => []ReadersMeetNoBuilder
<1>1. ASSUME IInv, NEW p \in Procs, NEW q \in Procs, at[p] = "parse", at[q] \in {"build", "write"}
      PROVE  file[p] # file[q]
  <2>1. locks[file[p]][p] = "read" /\ locks[file[q]][q] = "write" /\ p # q
    BY <1>1 DEF IInv, FileLockAtStep
  <2>2. file[q] \in Files BY <1>1 DEF IInv, TypeOK, FileAtStep, HasFile
  <2> QED BY <1>1, <2>1, <2>2 DEF IInv, Exclusive
<1>2. IInv => ReadersMeetNoBuilder BY <1>1 DEF ReadersMeetNoBuilder
<1> QED BY Invariant, <1>2, PTL

(* A process that has had no failure holds nothing between its requests:   *)
(* unlock_and_close and the streams have given up every lock.              *)
THEOREM NothingHeldBetweenRequests == Spec => []IdleHoldsNothing
<1>1. ASSUME IInv, NEW p \in Procs, at[p] = "idle", p \notin failed
      PROVE  /\ \A f \in DOMAIN locks : locks[f][p] = "none"
             /\ \A n \in Names : d_locks[p][n] = None
  <2>1. DOMAIN locks = Files \cup {None, Info} /\ locks[Info][p] \in LockTypes
    BY <1>1 DEF IInv, TypeOK
  <2>2. locks[Info][p] = "none"
    BY <1>1, <2>1 DEF IInv, CacheLockAtStep, ReadLocksCache, WriteLocksCache, LockTypes
  <2>3. \A f \in Files \cup {None} : locks[f][p] = "none"
    BY <1>1 DEF IInv, HoldsOnlyRecorded, Recorded
  <2>4. \A n \in Names : d_locks[p][n] = None
    BY <1>1 DEF IInv, HoldsOnlyRecorded, Recorded
  <2> QED BY <2>1, <2>2, <2>3, <2>4
<1>2. IInv => IdleHoldsNothing BY <1>1 DEF IdleHoldsNothing
<1> QED BY Invariant, <1>2, PTL
=============================================================================
