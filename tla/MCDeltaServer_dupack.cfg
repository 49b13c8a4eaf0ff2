\* Single-type stream: a request repeated with the same nonce.
CONSTANTS
    T1 = T1
    T2 = T2
    R1 = R1
    N1 = N1
    AnyType = AnyType
    NoType = NoType
    EmptyNode = EmptyNode
    Nil = Nil
    RecvErr = RecvErr
    Names <- MCNames
    Nodes <- MCNodes
    Types <- XdsTypes
    DefaultTypeURL = T1
    ReqTypes <- XdsReqTypes
    XdsBufferSize = 1
    MuxBufferSize = 8
    MaxRequests = 3
    LockedSend = TRUE
    Failures = FALSE

SPECIFICATION Spec

INVARIANT OneWatchPerState

CHECK_DEADLOCK FALSE
