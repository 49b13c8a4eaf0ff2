\* One xDS stream: does a NACK of the last response re-create the watch?
CONSTANTS
    S1 = S1
    S2 = S2
    T1 = T1
    T2 = T2
    N1 = N1
    V1 = V1
    V2 = V2
    AnyType = AnyType
    NoType = NoType
    EmptyNode = EmptyNode
    NoVersion = NoVersion
    Nil = Nil
    RecvErr = RecvErr
    Nodes <- MCNodes
    Streams <- OneStream
    Types <- XdsTypes
    DefaultTypeURL = T1
    ReqTypes <- XdsReqTypes
    Versions <- OneVersion
    MaxRequests = 3
    Failures = FALSE

SPECIFICATION Spec

INVARIANT
    NackNoRewatch

CHECK_DEADLOCK FALSE
