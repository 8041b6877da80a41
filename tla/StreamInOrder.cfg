\* Events in the order lines 294-295 assume, two streams at a time, reused addresses.
CONSTANTS
    Calls = {c1, c2, c3, c4}
    Addrs = {a1, a2, a3}
    Writers = {w1, w2}
    Ops <- WritesFinishes
    Hooks <- Both
    Targeted = TRUE
    MaxWrites = 1
    Forever = FALSE
    InOrder = TRUE
    EarlyShutdown = FALSE
    None = None
SYMMETRY Symmetry
SPECIFICATION Spec
INVARIANTS DeletionIsLive
PROPERTIES SessionSpec
