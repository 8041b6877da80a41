\* Three clients, two of them served at a time; HandlerOutlivesUse is not assumed by any guard.
CONSTANTS
    Calls = {c1, c2, c3}
    Addrs = {a1, a2, a3}
    Writers = {t}
    ticker = t
    Ops = {"write"}
    Hooks = {}
    Targeted = FALSE
    MaxWrites = 0
    Forever = TRUE
    InOrder = FALSE
    EarlyShutdown = TRUE
    None = None
SPECIFICATION ExampleSpec
INVARIANTS HandlerOutlivesUse
PROPERTIES DeadStreamReleased QuitEnds
