\* Two unary rpcs and a streaming one, up to four calls.
CONSTANTS
    Unary = {u1, u2}
    Stream = {s1}
    MaxCalls = 4
    None = None
SPECIFICATION FairSpec
INVARIANTS EventsHaveHandlers DestroyedEmpty
PROPERTIES CallsAnswered ShutdownEnds
