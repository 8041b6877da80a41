\* Every write returns; shutdown completes.  Two writes each, so that both writers may wait at once.
CONSTANTS
    Calls = {c1, c2, c3}
    Addrs = {a1, a2}
    Writers = {w1, w2}
    Ops <- Writes
    Hooks = {}
    Targeted = FALSE
    MaxWrites = 2
    Forever = FALSE
    InOrder = FALSE
    EarlyShutdown = FALSE
    None = None

SPECIFICATION FairSpec
PROPERTIES WritesReturn ShutdownCompletes
