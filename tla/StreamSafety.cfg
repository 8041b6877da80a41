\* Any order of events, four calls over three addresses (so that addresses are reused), two writers.
CONSTANTS
    Calls = {c1, c2, c3, c4}
    Addrs = {a1, a2, a3}
    Writers = {w1, w2}
    Ops <- Writes
    Hooks <- Both
    Targeted = FALSE
    MaxWrites = 2
    Forever = FALSE
    InOrder = FALSE
    EarlyShutdown = FALSE
    None = None
SYMMETRY Symmetry
SPECIFICATION Spec
INVARIANTS TypeOK ProcessingExact InFlightIsLive NoMisuse NoLostWakeup KnownIsServed
