\* Also in-process servers.
CONSTANTS
    Streams = {s1}
    InProcess = TRUE
    Locking = {"connection"}
    None = None

SPECIFICATION Spec
INVARIANTS StubForUser
