\* Two streams, a remote and an in-process server, a connection callback that uses the client.
CONSTANTS
    Streams = {s1, s2}
    InProcess = TRUE
    Locking = {"connection"}
    None = None
SPECIFICATION PairSpec
INVARIANTS TypeOK ThreadHasContext StreamsFollowState UserIsUpToDate NullStubOnlyInKill
PROPERTIES OperationsReturn StableStateReported ServerDestructorEnds
