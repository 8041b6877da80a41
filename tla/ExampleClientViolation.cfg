\* Two toggles; the constructor attaches to a remote server.
CONSTANTS
    Streams = {s1, s2}
    InProcess = FALSE
    Locking = {}
    None = None
SPECIFICATION ExampleSpec
INVARIANTS OneStream
