\* One ADS stream over two types; callbacks, Send and GetSystemVersion may fail.
CONSTANTS
    S1 = S1
    S2 = S2
    T1 = T1
    T2 = T2
    N1 = N1
    V1 = V1
    V2 = V2
    AnyType = AnyType
    NoType = NoType
    EmptyNode = EmptyNode
    NoVersion = NoVersion
    Nil = Nil
    RecvErr = RecvErr
    Nodes <- MCNodes
    Streams <- OneStream
    Types <- AdsTypes
    DefaultTypeURL = AnyType
    ReqTypes <- AdsReqTypes
    Versions <- OneVersion
    MaxRequests = 3
    Failures = TRUE

SPECIFICATION FairSpec

INVARIANTS
    TypeOK
    LegacyWatchTracked
    LegacyTeardownCancels

PROPERTIES
    LegacyCancelTerminates
    ImplementsLegacyStream

CHECK_DEADLOCK FALSE
