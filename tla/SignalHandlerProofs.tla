------------------------- MODULE SignalHandlerProofs -------------------------
(***************************************************************************)
(* Proofs about SignalHandler, for any EventHandlers and any functions of  *)
(* the program, however many of them call each other.                      *)
(***************************************************************************)
EXTENDS SignalHandler, TLAPS

(* An EventHandler that has been handed back has not been deleted and is   *)
(* not the one in the table.                                               *)
OldIsFree ==
    at \in {"sigaction", "save", "returned"} =>
        /\ job.old_eh \in alive \cup {Null}
        /\ job.old_eh = Null \/ job.old_eh # d_signal_handler

(* The action found by sigaction is the program's or the dispatcher.       *)
ActionIsKnown == action = "dispatcher" \/ action = host

SaveKnowsHost ==
    at = "save" =>
        /\ action = "dispatcher"
        /\ job.osa = "dispatcher" \/ job.osa = host
        /\ job.osa = "dispatcher" /\ ~overridden /\ ~lost => d_old_handler = host

(* Only a function of the program calls the dispatcher.                    *)
ChainedToDispatcher(f) == f \in Chaining /\ saved[f] = "dispatcher"
CalledByHost ==
    \A k \in 2 .. Len(running) : running[k] = "dispatcher" => ChainedToDispatcher(running[k - 1])

Safe == HookIsAlive /\ d_old_handler # "dispatcher" /\ OldActionIsDone

IInv == TypeOK /\ OldIsFree /\ ActionIsKnown /\ SaveKnowsHost /\ CalledByHost /\ Safe

(* TypeOK but for the functions that run, whose sequences the other facts  *)
(* do not need.                                                            *)
Types ==
    /\ d_signal_handler \in MaybeHandler /\ d_old_handler \in Actions
    /\ action \in Actions /\ alive \subseteq EventHandlers
    /\ at \in Places /\ job \in Job
    /\ saved \in [HostFunctions -> Actions] /\ host \in Choices
    /\ overridden \in BOOLEAN /\ lost \in BOOLEAN
Quiet == OldIsFree /\ ActionIsKnown /\ SaveKnowsHost /\ Safe
Calls == running \in Seq(Callable) /\ CalledByHost

LEMMA IInvParts == IInv <=> Types /\ Quiet /\ Calls
  BY DEF IInv, TypeOK, Types, Quiet, Calls

LEMMA PrimedParts == Types' /\ Quiet' /\ Calls' => IInv'
  BY DEF IInv, TypeOK, Types, Quiet, Calls

LEMMA CallTypes ==
    /\ <<>> \in Seq(Callable)
    /\ \A s \in Seq(Callable), f \in Callable : Append(s, f) \in Seq(Callable)
OBVIOUS

(* A step that is not a call either lets the functions run or ends them.   *)
LEMMA CallsStay ==
    ASSUME Calls, running' = <<>> \/ (running' = running /\ saved' = saved)
    PROVE  Calls'
<1>1. CalledByHost'
  BY DEF Calls, CalledByHost, ChainedToDispatcher
<1>2. running' \in Seq(Callable)
  BY CallTypes DEF Calls
<1>. QED  BY <1>1, <1>2 DEF Calls

LEMMA JobTypes ==
    ASSUME NEW j \in Job
    PROVE  /\ j.old_eh \in MaybeHandler /\ j.osa \in Actions
           /\ \A o \in BOOLEAN, e \in MaybeHandler, u \in Users :
                  /\ [j EXCEPT !.override = o, !.old_eh = e, !.user = u] \in Job
                  /\ [j EXCEPT !.old_eh = e, !.user = u] \in Job
           /\ \A a \in Actions : [j EXCEPT !.osa = a] \in Job
  BY DEF Job

LEMMA InitIInv == Init => IInv
<1>. SUFFICES ASSUME Init PROVE IInv
  OBVIOUS
<1>1. job \in Job
  BY DEF Init, Job, MaybeHandler, Actions, Choices, Users
<1>2. Types
  BY <1>1 DEF Init, Types, MaybeHandler, Actions, Choices, Places
<1>3. Calls
  BY CallTypes DEF Init, Calls, CalledByHost
<1>4. Quiet
  BY DEF Init, Quiet, OldIsFree, ActionIsKnown, SaveKnowsHost, Safe, HookIsAlive, OldActionIsDone
<1>. QED  BY <1>2, <1>3, <1>4, IInvParts

LEMMA RegisterKeeps ==
    ASSUME IInv, NEW eh \in EventHandlers, NEW override \in BOOLEAN, NEW user \in Users,
           register_handler(eh, override, user)
    PROVE  Types' /\ Quiet' /\ Calls'
<1>. USE IInvParts DEF register_handler, Begin
<1>1. eh \in MaybeHandler /\ d_signal_handler \in MaybeHandler /\ job \in Job
  BY DEF Types, MaybeHandler
<1>2. job' \in Job
  BY <1>1, JobTypes
<1>3. job'.old_eh = d_signal_handler
  BY <1>1 DEF Job
<1>4. Types'
  BY <1>1, <1>2 DEF Types, Places, hostVars
<1>5. Quiet'
  BY <1>1, <1>3, SignalAssumption
     DEF Quiet, OldIsFree, ActionIsKnown, SaveKnowsHost, Safe, HookIsAlive, OldActionIsDone, hostVars
<1>6. Calls'
  BY CallsStay DEF hostVars
<1>. QED  BY <1>4, <1>5, <1>6

LEMMA SigactionKeeps ==
    ASSUME IInv, sigaction PROVE Types' /\ Quiet' /\ Calls'
<1>. USE IInvParts DEF sigaction
<1>1. job \in Job /\ action \in Actions /\ "dispatcher" \in Actions
  BY DEF Types, Actions
<1>2. job' \in Job
  BY <1>1, JobTypes
<1>3. job'.old_eh = job.old_eh /\ job'.osa = action
  BY <1>1 DEF Job
<1>4. Types'
  BY <1>1, <1>2 DEF Types, Places, tables, hostVars
<1>5. Quiet'
  BY <1>3 DEF Quiet, OldIsFree, ActionIsKnown, SaveKnowsHost, Safe, HookIsAlive, OldActionIsDone,
              tables, hostVars
<1>6. Calls'
  BY CallsStay DEF hostVars
<1>. QED  BY <1>4, <1>5, <1>6

(* The assignment after sigaction keeps or restores the program's action.  *)
LEMMA SaveKeeps ==
    ASSUME IInv, SaveOldHandler PROVE Types' /\ Quiet' /\ Calls'
<1>. USE IInvParts DEF SaveOldHandler, OldHandler
<1>1. job.osa \in Actions /\ "SIG_IGN" \in Actions
  BY JobTypes DEF Types, Actions, Choices
<1>2. Types'
  BY <1>1 DEF Types, Places, hostVars
<1>3. host # "dispatcher"
  BY SignalAssumption DEF Types, Choices
<1>4. Quiet'
  BY <1>3 DEF Quiet, OldIsFree, ActionIsKnown, SaveKnowsHost, Safe, HookIsAlive, OldActionIsDone, hostVars
<1>5. Calls'
  BY CallsStay DEF hostVars
<1>. QED  BY <1>2, <1>4, <1>5

LEMMA RemoveKeeps ==
    ASSUME IInv, NEW user \in Users, remove_handler(user)
    PROVE  Types' /\ Quiet' /\ Calls'
<1>. USE IInvParts DEF remove_handler, HandlerCleared
<1>1. d_signal_handler \in MaybeHandler /\ job \in Job /\ Null \in MaybeHandler
  BY DEF Types, MaybeHandler
<1>2. job' \in Job
  BY <1>1, JobTypes
<1>3. job'.old_eh = d_signal_handler
  BY <1>1 DEF Job
<1>4. Types'
  BY <1>1, <1>2 DEF Types, Places, hostVars
<1>5. Quiet'
  BY <1>3 DEF Quiet, OldIsFree, ActionIsKnown, SaveKnowsHost, Safe, HookIsAlive, OldActionIsDone, hostVars
<1>6. Calls'
  BY CallsStay DEF hostVars
<1>. QED  BY <1>4, <1>5, <1>6

LEMMA DeleteKeeps ==
    ASSUME IInv, DeleteOld PROVE Types' /\ Quiet' /\ Calls'
<1>. USE IInvParts DEF DeleteOld, Deleted
<1>1. Types'
  BY DEF Types, Places, tables, hostVars
<1>2. Quiet'
  BY DEF Quiet, OldIsFree, ActionIsKnown, SaveKnowsHost, Safe, HookIsAlive, OldActionIsDone, tables, hostVars
<1>3. Calls'
  BY CallsStay DEF hostVars
<1>. QED  BY <1>1, <1>2, <1>3

(* What is put back is alive and was not in the table.                     *)
LEMMA PutBackKeeps ==
    ASSUME IInv, PutBack PROVE Types' /\ Quiet' /\ Calls'
<1>. USE IInvParts DEF PutBack, Begin
<1>1. job.old_eh \in MaybeHandler /\ d_signal_handler \in MaybeHandler /\ job \in Job
  BY JobTypes DEF Types
<1>2. job' \in Job
  BY <1>1, JobTypes DEF Users
<1>3. job'.old_eh = d_signal_handler
  BY <1>1 DEF Job
<1>4. Types'
  BY <1>1, <1>2 DEF Types, Places, hostVars
<1>5. Quiet'
  BY <1>3 DEF Quiet, OldIsFree, ActionIsKnown, SaveKnowsHost, Safe, HookIsAlive, OldActionIsDone, hostVars
<1>6. Calls'
  BY CallsStay DEF hostVars
<1>. QED  BY <1>4, <1>5, <1>6

LEMMA KeepKeeps ==
    ASSUME IInv, KeepOld PROVE Types' /\ Quiet' /\ Calls'
<1>. USE IInvParts DEF KeepOld
<1>1. Types'
  BY DEF Types, Places, tables, hostVars
<1>2. Quiet'
  BY DEF Quiet, OldIsFree, ActionIsKnown, SaveKnowsHost, Safe, HookIsAlive, OldActionIsDone, tables, hostVars
<1>3. Calls'
  BY CallsStay DEF hostVars
<1>. QED  BY <1>1, <1>2, <1>3

LEMMA ExitKeeps ==
    ASSUME IInv, delete_instance PROVE Types' /\ Quiet' /\ Calls'
<1>. USE IInvParts DEF delete_instance
<1>1. Types'
  BY DEF Types, Places, MaybeHandler, Actions, Choices, hostVars
<1>2. Quiet'
  BY DEF Quiet, OldIsFree, ActionIsKnown, SaveKnowsHost, Safe, HookIsAlive, OldActionIsDone, hostVars
<1>3. Calls'
  BY CallsStay DEF hostVars
<1>. QED  BY <1>1, <1>2, <1>3

LEMMA HostKeeps ==
    ASSUME IInv, NEW a \in Choices, HostAction(a)
    PROVE  Types' /\ Quiet' /\ Calls'
<1>. USE IInvParts DEF HostAction
<1>1. Types'
  BY DEF Types, Actions, tables
<1>2. a # "dispatcher"
  BY SignalAssumption DEF Choices
<1>3. Quiet'
  BY <1>2 DEF Quiet, OldIsFree, ActionIsKnown, SaveKnowsHost, Safe, HookIsAlive, OldActionIsDone, tables
<1>4. Calls'
  BY CallsStay DEF Interrupted
<1>. QED  BY <1>1, <1>3, <1>4

(* The exception may pass between sigaction and the assignment after it.   *)
LEMMA ThrowKeeps ==
    ASSUME IInv, DispatchThrows PROVE Types' /\ Quiet' /\ Calls'
<1>. USE IInvParts DEF DispatchThrows, Throw
<1>1. Types'
  BY DEF Types, Places, tables, hostVars
<1>2. Quiet'
  BY DEF Quiet, OldIsFree, ActionIsKnown, SaveKnowsHost, Safe, HookIsAlive, OldActionIsDone, tables, hostVars
<1>3. Calls'
  BY CallsStay
<1>. QED  BY <1>1, <1>2, <1>3

(* A call adds a function that its caller may call.                        *)
LEMMA CallKeeps ==
    ASSUME Calls, NEW f, Call(f), running # <<>>,
           f = "dispatcher" => ChainedToDispatcher(running[Len(running)])
    PROVE  Calls'
<1>1. CASE f \in Callable
  <2>. DEFINE n == Len(running)
  <2>1. running \in Seq(Callable) /\ n \in Nat /\ running' = Append(running, f)
    BY <1>1 DEF Calls, Call
  <2>2. running' \in Seq(Callable)
    BY <1>1, <2>1, CallTypes
  <2>3. saved' = saved
    BY DEF Call, hostVars
  <2>4. ASSUME NEW k \in 2 .. Len(running'), running'[k] = "dispatcher"
        PROVE  running'[k - 1] \in Chaining /\ saved[running'[k - 1]] = "dispatcher"
    <3>1. CASE k = n + 1
      <4>1. running'[k] = f /\ running'[k - 1] = running[n]
        BY <2>1, <3>1
      <4>. QED  BY <2>4, <4>1 DEF ChainedToDispatcher
    <3>2. CASE k \in 2 .. n
      <4>1. running'[k] = running[k] /\ running'[k - 1] = running[k - 1]
        BY <2>1, <3>2
      <4>2. running[k] = "dispatcher" => ChainedToDispatcher(running[k - 1])
        BY <3>2 DEF Calls, CalledByHost
      <4>. QED  BY <2>4, <4>1, <4>2 DEF ChainedToDispatcher
    <3>3. k = n + 1 \/ k \in 2 .. n
      BY <2>1
    <3>. QED  BY <3>1, <3>2, <3>3
  <2>5. CalledByHost'
    BY <2>3, <2>4 DEF CalledByHost, ChainedToDispatcher
  <2>. QED  BY <2>2, <2>5 DEF Calls
<1>2. CASE f \notin Callable
  BY <1>2, CallsStay DEF Call
<1>. QED  BY <1>1, <1>2

(* The steps of a delivery change nothing else, unless they throw.         *)
LEMMA SignalKeeps ==
    ASSUME IInv, Signal \/ Dispatch \/ RunHostFunction
    PROVE  Types' /\ Quiet' /\ Calls'
<1>. USE IInvParts
<1>1. UNCHANGED <<tables, action, alive, at, job, hostVars, overridden, lost>>
  BY DEF Signal, Dispatch, RunHostFunction, Call
<1>2. Types'
  BY <1>1 DEF Types, tables, hostVars
<1>3. Quiet'
  BY <1>1 DEF Quiet, OldIsFree, ActionIsKnown, SaveKnowsHost, Safe, HookIsAlive, OldActionIsDone,
              tables, hostVars
<1>4. CASE Signal
  <2>1. running' = <<action>> /\ action \in Callable
    BY <1>4 DEF Signal
  <2>2. running' \in Seq(Callable) /\ Len(running') = 1
    BY <2>1
  <2>. QED  BY <1>2, <1>3, <2>2 DEF Calls, CalledByHost
<1>5. CASE Dispatch
  <2>1. d_old_handler # "dispatcher"
    BY DEF Quiet, Safe
  <2>. QED  BY <1>2, <1>3, <1>5, <2>1, CallKeeps DEF Dispatch, Interrupted
<1>6. CASE RunHostFunction
  <2>. DEFINE f == IF Top \in Chaining THEN saved[Top] ELSE "SIG_IGN"
  <2>1. running # <<>> /\ Call(f)
    BY <1>6 DEF RunHostFunction, Interrupted
  <2>2. f = "dispatcher" => ChainedToDispatcher(running[Len(running)])
    BY DEF ChainedToDispatcher, Top
  <2>. HIDE DEF f
  <2>. QED  BY <1>2, <1>3, <2>1, <2>2, CallKeeps
<1>. QED  BY <1>4, <1>5, <1>6

LEMMA NextIInv == IInv /\ [Next]_vars => IInv'
<1>. SUFFICES ASSUME IInv, [Next]_vars PROVE Types' /\ Quiet' /\ Calls'
  BY PrimedParts
<1>1. CASE Signal \/ Dispatch \/ RunHostFunction
  BY <1>1, SignalKeeps
<1>2. CASE DispatchThrows
  BY <1>2, ThrowKeeps
<1>3. CASE UNCHANGED vars
  <2>1. Calls'
    BY <1>3, IInvParts, CallsStay DEF vars, hostVars
  <2>2. Types'
    BY <1>3, IInvParts DEF Types, vars, tables, hostVars
  <2>3. Quiet'
    BY <1>3, IInvParts DEF Quiet, OldIsFree, ActionIsKnown, SaveKnowsHost, Safe, HookIsAlive,
                           OldActionIsDone, vars, tables, hostVars
  <2>. QED  BY <2>1, <2>2, <2>3
<1>4. ASSUME NEW a \in Choices, HostAction(a) PROVE Types' /\ Quiet' /\ Calls'
  BY <1>4, HostKeeps
<1>5. ASSUME NEW eh \in EventHandlers, NEW override \in BOOLEAN, NEW user \in Users,
             register_handler(eh, override, user)
      PROVE  Types' /\ Quiet' /\ Calls'
  BY <1>5, RegisterKeeps
<1>6. ASSUME NEW user \in {"destructor", "program"}, remove_handler(user) PROVE Types' /\ Quiet' /\ Calls'
  BY <1>6, RemoveKeeps DEF Users
<1>7. CASE sigaction \/ SaveOldHandler \/ DeleteOld \/ PutBack \/ KeepOld \/ delete_instance
  BY <1>7, SigactionKeeps, SaveKeeps, DeleteKeeps, PutBackKeeps, KeepKeeps, ExitKeeps
<1>. QED  BY <1>1, <1>2, <1>3, <1>4, <1>5, <1>6, <1>7 DEF Next

-----------------------------------------------------------------------------
(* Theorems.                                                               *)

THEOREM SpecIInv == Spec => []IInv
  BY InitIInv, NextIInv, PTL DEF Spec

(* Every variable has its type, whatever interrupts what.                  *)
THEOREM SpecTypeOK == Spec => []TypeOK
<1>1. IInv => TypeOK
  BY DEF IInv
<1>. QED  BY <1>1, SpecIInv, PTL

(* No deleted EventHandler is ever in the table for dispatcher to call.    *)
THEOREM SpecHookIsAlive == Spec => []HookIsAlive
<1>1. IInv => HookIsAlive
  BY DEF IInv, Safe
<1>. QED  BY <1>1, SpecIInv, PTL

(* The action register_handler saves is what the dispatcher does.          *)
THEOREM SpecOldActionIsDone == Spec => []OldActionIsDone
<1>1. IInv => OldActionIsDone
  BY DEF IInv, Safe
<1>. QED  BY <1>1, SpecIInv, PTL

(* Of two dispatchers in one delivery the later was called by a function   *)
(* of the program that stands between them.                                *)
THEOREM SpecDispatcherIsNotItsOwn == Spec => []DispatcherIsNotItsOwn
<1>1. IInv => DispatcherIsNotItsOwn
  <2>. SUFFICES ASSUME IInv, NEW j \in DOMAIN running, NEW k \in DOMAIN running, j < k,
                       running[j] = "dispatcher", running[k] = "dispatcher"
                PROVE  \E f \in Chaining : saved[f] = "dispatcher"
                           /\ \E l \in DOMAIN running : running[l] = f
    <3>1. IInv => d_old_handler # "dispatcher"
      BY DEF IInv, Safe
    <3>2. IInv => DOMAIN running = 1 .. Len(running) /\ Len(running) \in Nat
      BY DEF IInv, TypeOK
    <3>3. \A j, k \in Nat : j # k => j < k \/ k < j
      OBVIOUS
    <3>. QED  BY <3>1, <3>2, <3>3 DEF DispatcherIsNotItsOwn
  <2>1. running \in Seq(Callable) /\ k \in 2 .. Len(running)
    BY DEF IInv, TypeOK
  <2>2. ChainedToDispatcher(running[k - 1])
    BY <2>1 DEF IInv, CalledByHost
  <2>3. k - 1 \in DOMAIN running
    BY <2>1
  <2>. QED  BY <2>2, <2>3 DEF ChainedToDispatcher
<1>. QED  BY <1>1, SpecIInv, PTL
=============================================================================
