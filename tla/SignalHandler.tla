---------------------------- MODULE SignalHandler ----------------------------
(***************************************************************************)
(* The dispatcher of one signal (SignalHandler) in a program of one thread  *)
(* that the signal may interrupt between any two steps: EventHandlers are  *)
(* registered and removed by ResponseBuilder, HTTPCache and the program,   *)
(* and what the program had arranged with sigaction is to be done as well. *)
(* The tables have an entry for each signal; no method uses two of them,   *)
(* except delete_instance, which clears them all.                          *)
(***************************************************************************)
EXTENDS Naturals, Sequences

CONSTANTS
    EventHandlers,      \* objects
    AlarmHandlers,      \* those whose handle_signal throws
    HostFunctions,      \* functions the program gives to sigaction
    Chaining,           \* those that call what sigaction returned to them
    Null,
    MaxCalls            \* bound: functions active in one delivery

ASSUME SignalAssumption ==
    /\ AlarmHandlers \subseteq EventHandlers /\ Chaining \subseteq HostFunctions
    /\ Null \notin EventHandlers /\ MaxCalls \in Nat \ {0}
    /\ {"SIG_DFL", "SIG_IGN", "dispatcher"} \cap HostFunctions = {}

VARIABLES
    d_signal_handler,   \* d_signal_handlers[signum]
    d_old_handler,      \* d_old_handlers[signum]
    action,             \* what the system does with the signal
    alive,              \* EventHandlers that have not been deleted
    at,                 \* where the program is
    job,                \* the variables of the call
    running,            \* the functions the signal has called
    saved,              \* what sigaction returned to the program's functions
    host,               \* the program's latest choice of action
    overridden,         \* a registration since then asked for override
    lost                \* one was left by an exception before it saved that action

tables == <<d_signal_handler, d_old_handler>>
hostVars == <<saved, host>>
vars == <<tables, action, alive, at, job, running, hostVars, overridden, lost>>

Choices == {"SIG_DFL", "SIG_IGN"} \cup HostFunctions
Actions == Choices \cup {"dispatcher"}
Callable == HostFunctions \cup {"dispatcher"}
MaybeHandler == EventHandlers \cup {Null}
Users == {"builder", "destructor", "cache", "program"}
Job == [override : BOOLEAN, old_eh : MaybeHandler, osa : Actions, user : Users]
Places == {"out", "sigaction", "save", "returned", "exited"}

Init ==
    /\ d_signal_handler = Null /\ d_old_handler = "SIG_DFL"
    /\ action = "SIG_DFL" /\ host = "SIG_DFL"
    /\ saved = [f \in HostFunctions |-> "SIG_DFL"]
    /\ alive = {} /\ at = "out" /\ running = <<>>
    /\ job = [override |-> FALSE, old_eh |-> Null, osa |-> "SIG_DFL", user |-> "program"]
    /\ overridden = FALSE /\ lost = FALSE

Interrupted == running # <<>>

-----------------------------------------------------------------------------
(* register_handler, up to the call of sigaction.                          *)

Begin(eh, override, user) ==
    /\ d_signal_handler' = eh
    /\ job' = [job EXCEPT !.override = override, !.old_eh = d_signal_handler, !.user = user]
    /\ at' = "sigaction"

register_handler(eh, override, user) ==
    /\ at = "out" /\ ~Interrupted
    /\ eh \notin alive /\ alive' = alive \cup {eh}
    /\ Begin(eh, override, user)
    /\ UNCHANGED <<d_old_handler, action, running, hostVars, overridden, lost>>

sigaction ==
    /\ at = "sigaction" /\ ~Interrupted
    /\ job' = [job EXCEPT !.osa = action]
    /\ action' = "dispatcher"
    /\ at' = "save"
    /\ UNCHANGED <<tables, alive, running, hostVars, overridden, lost>>

OldOrDispatcher(override, osa) == IF override THEN "SIG_IGN" ELSE osa
FirstOldHandler(override, osa) ==
    IF override THEN "SIG_IGN" ELSE IF d_old_handler = "SIG_DFL" THEN osa ELSE d_old_handler
OldHandler(override, osa) ==
    IF override THEN "SIG_IGN" ELSE IF osa # "dispatcher" THEN osa ELSE d_old_handler

SaveOldHandler ==
    /\ at = "save" /\ ~Interrupted
    /\ d_old_handler' = OldHandler(job.override, job.osa)
    /\ overridden' = (overridden \/ job.override)
    /\ at' = "returned"
    /\ UNCHANGED <<d_signal_handler, action, alive, job, running, hostVars, lost>>

HandlerStays == d_signal_handler
HandlerCleared == Null

remove_handler(user) ==
    /\ at = "out" /\ ~Interrupted
    /\ job' = [job EXCEPT !.old_eh = d_signal_handler, !.user = user]
    /\ d_signal_handler' = HandlerCleared
    /\ at' = "returned"
    /\ UNCHANGED <<d_old_handler, action, alive, running, hostVars, overridden, lost>>

(* What the callers do with the EventHandler they get back: the server's   *)
(* alarm deletes it, its destructor only another alarm; the cache puts it  *)
(* back.  One signal is given all of them here.                            *)
Deleted == IF job.user = "builder" THEN {job.old_eh} ELSE {job.old_eh} \cap AlarmHandlers
DeleteOld ==
    /\ at = "returned" /\ ~Interrupted /\ job.user \in {"builder", "destructor"}
    /\ alive' = alive \ Deleted
    /\ at' = "out"
    /\ UNCHANGED <<tables, action, job, running, hostVars, overridden, lost>>

PutBack ==
    /\ at = "returned" /\ ~Interrupted /\ job.user = "cache" /\ job.old_eh # Null
    /\ Begin(job.old_eh, FALSE, "program")
    /\ UNCHANGED <<d_old_handler, action, alive, running, hostVars, overridden, lost>>

KeepOld ==
    /\ at = "returned" /\ ~Interrupted
    /\ job.user = "program" \/ (job.user = "cache" /\ job.old_eh = Null)
    /\ at' = "out"
    /\ UNCHANGED <<tables, action, alive, job, running, hostVars, overridden, lost>>

(* exit: delete_instance clears the tables and leaves sigaction alone.     *)
delete_instance ==
    /\ at = "out" /\ ~Interrupted
    /\ d_signal_handler' = Null /\ d_old_handler' = "SIG_DFL"
    /\ at' = "exited"
    /\ UNCHANGED <<action, alive, job, running, hostVars, overridden, lost>>

-----------------------------------------------------------------------------
(* The program, and the signal.                                            *)

HostAction(a) ==
    /\ at = "out" /\ ~Interrupted
    /\ action' = a /\ host' = a
    /\ saved' = [f \in HostFunctions |-> IF f = a THEN action ELSE saved[f]]
    /\ overridden' = FALSE /\ lost' = FALSE
    /\ UNCHANGED <<tables, alive, at, job, running>>

(* The signal is blocked while its handler runs.                           *)
Signal ==
    /\ ~Interrupted /\ action \in Callable
    /\ running' = <<action>>
    /\ UNCHANGED <<tables, action, alive, at, job, hostVars, overridden, lost>>

Top == running[Len(running)]

(* An exception leaves the handler and whatever it interrupted.            *)
Throw ==
    /\ running' = <<>>
    /\ at' = IF at = "exited" THEN "exited" ELSE "out"
    /\ lost' = (lost \/ (at = "save" /\ job.osa # "dispatcher"))
    /\ UNCHANGED <<tables, action, alive, job, hostVars, overridden>>

(* Every call is the last thing its caller does.                           *)
Call(f) ==
    /\ running' = IF f \in Callable THEN Append(running, f) ELSE <<>>
    /\ UNCHANGED <<tables, action, alive, at, job, hostVars, overridden, lost>>

(* The EventHandler throws, or else the old action is unsupported.         *)
DispatchThrows ==
    /\ Interrupted /\ Top = "dispatcher"
    /\ d_signal_handler \in AlarmHandlers \/ d_old_handler = "SIG_DFL"
    /\ Throw

Dispatch ==
    /\ Interrupted /\ Top = "dispatcher" /\ Len(running) < MaxCalls
    /\ d_signal_handler \notin AlarmHandlers /\ d_old_handler # "SIG_DFL"
    /\ Call(d_old_handler)

RunHostFunction ==
    /\ Interrupted /\ Top \in HostFunctions /\ Len(running) < MaxCalls
    /\ Call(IF Top \in Chaining THEN saved[Top] ELSE "SIG_IGN")

Next ==
    \/ \E eh \in EventHandlers, override \in BOOLEAN, user \in Users \ {"destructor"} :
           register_handler(eh, override, user)
    \/ \E user \in {"destructor", "program"} : remove_handler(user)
    \/ sigaction \/ SaveOldHandler \/ DeleteOld \/ PutBack \/ KeepOld \/ delete_instance
    \/ \E a \in Choices : HostAction(a)
    \/ Signal \/ DispatchThrows \/ Dispatch \/ RunHostFunction

Spec == Init /\ [][Next]_vars

-----------------------------------------------------------------------------
(* Properties.                                                             *)

(* Every variable has its type.                                            *)
TypeOK ==
    /\ d_signal_handler \in MaybeHandler /\ d_old_handler \in Actions
    /\ action \in Actions /\ alive \subseteq EventHandlers
    /\ at \in Places /\ job \in Job
    /\ running \in Seq(Callable)
    /\ saved \in [HostFunctions -> Actions] /\ host \in Choices
    /\ overridden \in BOOLEAN /\ lost \in BOOLEAN

(* The signal may come at any moment: what the dispatcher would call has   *)
(* not been deleted, though registering, putting back and removing hand    *)
(* EventHandlers around.                                                   *)
HookIsAlive == d_signal_handler \in alive \cup {Null}

(* "We want to make sure that the dispatcher is not installed as the 'old  *)
(* handler' because that results in an infinite loop": it calls itself     *)
(* only if a function of the program was put on top of it and calls it.    *)
DispatcherIsNotItsOwn ==
    /\ d_old_handler # "dispatcher"
    /\ \A j, k \in DOMAIN running :
           running[j] = "dispatcher" /\ running[k] = "dispatcher" /\ j # k =>
               \E f \in Chaining : saved[f] = "dispatcher" /\ \E l \in DOMAIN running : running[l] = f

(* What the program had arranged is what the dispatcher does in the end,   *)
(* until it is overridden, whoever registers and removes what and however  *)
(* often; except between sigaction and the assignment after it, after an   *)
(* exception from there, and after exit.                                   *)
OldActionIsDone ==
    action = "dispatcher" /\ at \notin {"save", "exited"} /\ ~overridden /\ ~lost =>
        d_old_handler = host
=============================================================================
