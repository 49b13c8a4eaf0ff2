\* Single-type stream whose cache may still answer a watch after cancel
\* returned (the case WithXDSBufferSize documents), buffer raised to 2.
CONSTANTS
    T1 = T1
    T2 = T2
    R1 = R1
    N1 = N1
    AnyType = AnyType
    NoType = NoType
    EmptyNode = EmptyNode
    Nil = Nil
    RecvErr = RecvErr
    Names <- MCNames
    Nodes <- MCNodes
    Types <- XdsTypes
    DefaultTypeURL = T1
    ReqTypes <- XdsReqTypes
    XdsBufferSize = 2
    MuxBufferSize = 8
    MaxRequests = 3
    LockedSend = FALSE
    Failures = FALSE

SPECIFICATION Spec

INVARIANT LiveWatchTracked

CHECK_DEADLOCK FALSE
