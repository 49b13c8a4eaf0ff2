\* Two xDS streams for one type sharing the server's version map (safety only:
\* the liveness property is checked on the single-stream run).
CONSTANTS
    S1 = S1
    S2 = S2
    T1 = T1
    T2 = T2
    N1 = N1
    V1 = V1
    V2 = V2
    AnyType = AnyType
    NoType = NoType
    EmptyNode = EmptyNode
    NoVersion = NoVersion
    Nil = Nil
    RecvErr = RecvErr
    Nodes <- MCNodes
    Streams <- TwoStreams
    Types <- XdsTypes
    DefaultTypeURL = T1
    ReqTypes <- XdsReqTypes
    Versions <- OneVersion
    MaxRequests = 2
    Failures = FALSE

SPECIFICATION Spec

INVARIANTS
    TypeOK
    LegacyWatchTracked
    LegacyTeardownCancels


CHECK_DEADLOCK FALSE
