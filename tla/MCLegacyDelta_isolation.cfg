\* Two xDS streams on one server, one request each, with failures: the
\* handler keeps each stream's promise whatever the other stream does.
CONSTANTS
    S1 = S1
    S2 = S2
    T1 = T1
    T2 = T2
    N1 = N1
    V1 = V1
    V2 = V2
    AnyType = AnyType
    NoType = NoType
    EmptyNode = EmptyNode
    NoVersion = NoVersion
    Nil = Nil
    RecvErr = RecvErr
    Nodes <- MCNodes
    Streams <- TwoStreams
    Types <- XdsTypes
    DefaultTypeURL = T1
    ReqTypes <- XdsReqTypes
    Versions <- TwoVersions
    MaxRequests = 1
    Failures = TRUE

SPECIFICATION Spec

PROPERTIES
    ImplementsLegacyStream

CHECK_DEADLOCK FALSE
