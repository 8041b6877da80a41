\* Tags in any order.
CONSTANTS
    Calls = {c1, c2, c3}
    Addrs = {a1, a2}
    Writers = {w1}
    Ops <- Writes
    Hooks <- Both
    Targeted = FALSE
    MaxWrites = 1
    Forever = FALSE
    InOrder = FALSE
    EarlyShutdown = FALSE
    None = None

SPECIFICATION Spec
INVARIANTS DeletionIsLive
