\* ADS stream, two types, channel buffer of 2, cache sending under its lock.
CONSTANTS
    T1 = T1
    T2 = T2
    R1 = R1
    N1 = N1
    AnyType = AnyType
    NoType = NoType
    EmptyNode = EmptyNode
    Nil = Nil
    RecvErr = RecvErr
    Types <- AdsTypes
    DefaultTypeURL = AnyType
    ReqTypes <- AdsReqTypes
    Names <- MCNames
    Nodes <- MCNodes
    XdsBufferSize = 1
    MuxBufferSize = 2
    MaxRequests = 3
    LockedSend = TRUE
    Failures = FALSE

SPECIFICATION FairSpec

INVARIANTS
    TypeOK
    LiveWatchTracked
    NoStaleDelta
    CacheCallsReturn
    TeardownReleasesCache
    WatchRegistry
    NoncesConsistent

PROPERTIES
    HandleReleasedWhenDone
    CancelTerminates
    ImplementsStream

CHECK_DEADLOCK FALSE
