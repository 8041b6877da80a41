\* Two functions, two calls, and addresses that can be used again.
\* CHECK_DEADLOCK is off: a process that died or was destroyed takes no step.
CONSTANTS
    Functions = {f, g}
    Addrs = {a1, a2, a3, a4}
    MaxCalls = 2
    None = None
SPECIFICATION FairSpec
CHECK_DEADLOCK FALSE
INVARIANTS TagsExact HandlersAlive AlwaysListening FaultsExplained
PROPERTIES CallsAnswered DestructorEnds
