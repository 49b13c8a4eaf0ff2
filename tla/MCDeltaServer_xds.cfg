\* Single-type stream for T1, buffer of 1, cache sending under its lock;
\* callbacks, conversion and Send may fail.
CONSTANTS
    T1 = T1
    T2 = T2
    R1 = R1
    N1 = N1
    AnyType = AnyType
    NoType = NoType
    EmptyNode = EmptyNode
    Nil = Nil
    RecvErr = RecvErr
    Names <- MCNames
    Nodes <- MCNodes
    Types <- XdsTypes
    DefaultTypeURL = T1
    ReqTypes <- XdsReqTypes
    XdsBufferSize = 1
    MuxBufferSize = 8
    MaxRequests = 3
    LockedSend = TRUE
    Failures = TRUE

SPECIFICATION FairSpec

INVARIANTS
    TypeOK
    LiveWatchTracked
    NoStaleDelta
    CacheCallsReturn
    TeardownReleasesCache
    WatchRegistry
    NoncesConsistent
    MutexReleased

PROPERTIES
    HandleReleasedWhenDone
    CancelTerminates
    ImplementsStream

CHECK_DEADLOCK FALSE
