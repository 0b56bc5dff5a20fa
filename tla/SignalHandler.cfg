\* Three EventHandlers, one of which throws, and a program with two functions.
CONSTANTS
    EventHandlers = {e1, e2, alarm}
    AlarmHandlers = {alarm}
    HostFunctions = {f, chain}
    Chaining = {chain}
    Null = null
    MaxCalls = 5
SPECIFICATION Spec
\* All EventHandlers may have leaked, and a program that has exited stops.
CHECK_DEADLOCK FALSE
INVARIANTS HookIsAlive DispatcherIsNotItsOwn 
