-------------------------- MODULE DeltaServerChannel --------------------------
(***************************************************************************)
(* The response channel of processDelta never starves the cache: with a   *)
(* cache that sends under its lock and a buffer of at least one slot per  *)
(* type (what the WithADSBufferSize comment asks for), a cache call the   *)
(* processor waits in always finds room for the answer it is sending      *)
(* (CacheCallsReturn), and after teardown no watch is open and every      *)
(* answer still being sent fits (TeardownReleasesCache).                  *)
(*                                                                         *)
(* The argument counts types: the answers in the channel have pairwise    *)
(* distinct types (WatchRegistry), and the one answer the cache may be    *)
(* committed to has a type none of them has.                               *)
(***************************************************************************)
EXTENDS DeltaServerRegistry, FiniteSetTheorems

(* Under its lock the cache is committed to at most one answer at a time. *)
OneCommitted ==
    LockedSend =>
        \A v, w \in DOMAIN watches :
            watches[v].status = "committed" /\ watches[w].status = "committed"
                => v = w

(* Teardown leaves no watch open, and nothing opens one afterwards.       *)
QuietAfterTeardown ==
    pc \in {"done", "returned"} =>
        \A w \in DOMAIN watches : watches[w].status # "active"

(* The strengthening of IInv the two properties rest on.                  *)
CInv == IInv /\ OneCommitted /\ QuietAfterTeardown

-----------------------------------------------------------------------------
(* The answers in the channel, having distinct types drawn from S, are no *)
(* more than S has elements.                                               *)
LEMMA QueueBound ==
  ASSUME TypeOK, WatchRegistry, NEW S, IsFiniteSet(S),
         \A i \in DOMAIN responses : responses[i].type \in S
  PROVE  Len(responses) <= Cardinality(S)
<1> DEFINE L == Len(responses)
           f == [i \in 1..L |-> responses[i].type]
<1>1. L \in Nat /\ DOMAIN responses = 1..L
  BY LenProperties DEF TypeOK
<1>2. f \in Injection(1..L, S)
  BY <1>1 DEF Injection, IsInjective, WatchRegistry
<1>3. Cardinality(1..L) <= Cardinality(S)
  BY <1>2, FS_Injection
<1>4. Cardinality(1..L) = L
  BY <1>1, FS_Interval
<1>5. QED
  BY <1>3, <1>4

(* A committed answer is not of the type of any answer in the channel:   *)
(* both hold the handle of their type, and a queued answer's watch has    *)
(* already fired.                                                          *)
LEMMA CommittedApart ==
  ASSUME WatchRegistry, NEW w \in DOMAIN watches,
         watches[w].status = "committed"
  PROVE  \A i \in DOMAIN responses : responses[i].type # watches[w].type
  BY DEF WatchRegistry

(* While the cache is committed to an answer, the channel has a free slot *)
(* per type at least for that answer's type.                              *)
LEMMA CommittedLeavesRoom ==
  ASSUME TypeOK, WatchRegistry, IsFiniteSet(Types),
         NEW w \in DOMAIN watches, watches[w].status = "committed"
  PROVE  Len(responses) < Cardinality(Types)
<1> DEFINE c == watches[w].type
<1>1. c \in Types
  BY Elements DEF Watch
<1>2. IsFiniteSet(Types \ {c}) /\ Cardinality(Types \ {c}) = Cardinality(Types) - 1
  BY <1>1, FS_RemoveElement
<1>3. \A i \in DOMAIN responses : responses[i].type \in Types \ {c}
  BY Elements, CommittedApart DEF Response
<1>4. Len(responses) <= Cardinality(Types \ {c})
  BY <1>2, <1>3, QueueBound
<1>5. Cardinality(Types) \in Nat
  BY FS_CardinalityType
<1>6. QED
  BY <1>2, <1>4, <1>5

-----------------------------------------------------------------------------
(* A step that makes no watch committed or active, keeps the watch ids    *)
(* and does not reach the end of the handler from inside it keeps both   *)
(* helper invariants.                                                      *)
LEMMA NoNewWatchStatus ==
  ASSUME OneCommitted, QuietAfterTeardown,
         DOMAIN watches' = DOMAIN watches,
         \A w \in DOMAIN watches :
            /\ watches'[w].status = "committed" => watches[w].status = "committed"
            /\ watches'[w].status = "active" => watches[w].status = "active",
         pc' \in {"done", "returned"} => pc \in {"done", "returned"}
  PROVE  OneCommitted' /\ QuietAfterTeardown'
  BY DEF OneCommitted, QuietAfterTeardown

(* process() and the steps that leave the watches alone.                  *)
LEMMA QuietChannelSteps ==
  ASSUME OneCommitted, QuietAfterTeardown,
         \/ OpenStream \/ OpenStreamFails \/ ContextDone \/ RequestsClosed
         \/ RejectRequest \/ DrainDone \/ CreateReturn \/ HandlerReturn
         \/ Respond \/ DrainOne \/ Reader \/ CancelContext \/ UNCHANGED vars
  PROVE  OneCommitted' /\ QuietAfterTeardown'
<1>1. UNCHANGED watches
  BY DEF OpenStream, OpenStreamFails, ContextDone, RequestsClosed,
         RejectRequest, DrainDone, CreateReturn, HandlerReturn, Respond,
         DrainOne, Process, Reader, ReaderRecv, ReaderRecvErr, ReaderCheck,
         CancelContext, vars
<1>2. pc' \in {"done", "returned"} => pc \in {"done", "returned"}
  BY DEF OpenStream, OpenStreamFails, ContextDone, RequestsClosed,
         RejectRequest, DrainDone, CreateReturn, HandlerReturn, Respond,
         DrainOne, Process, Reader, ReaderRecv, ReaderRecvErr, ReaderCheck,
         CancelContext, vars, procVars
<1>3. QED
  BY <1>1, <1>2, NoNewWatchStatus

(* The unsubscribe edits version maps only.                               *)
LEMMA HandleRequestChannel ==
  ASSUME TypeOK, OneCommitted, QuietAfterTeardown, HandleRequest
  PROVE  OneCommitted' /\ QuietAfterTeardown'
<1>1. DOMAIN watches' = DOMAIN watches
      /\ \A w \in DOMAIN watches : watches'[w].status = watches[w].status
  BY Elements DEF HandleRequest, Watch
<1>2. pc' \notin {"done", "returned"}
  BY DEF HandleRequest
<1>3. QED
  BY <1>1, <1>2, NoNewWatchStatus

(* cancel() only turns an active watch into a cancelled one.              *)
LEMMA CancelWatchChannel ==
  ASSUME TypeOK, OneCommitted, QuietAfterTeardown, CancelWatch
  PROVE  OneCommitted' /\ QuietAfterTeardown'
<1>1. DOMAIN watches' = DOMAIN watches
      /\ \A w \in DOMAIN watches :
            watches'[w].status \in {watches[w].status, "cancelled"}
  BY Elements DEF CancelWatch, Watch
<1>2. pc' \notin {"done", "returned"}
  BY DEF CancelWatch
<1>3. QED
  BY <1>1, <1>2, NoNewWatchStatus

(* values.Cancel() in the deferred function of processDelta: every open   *)
(* watch is the tracked one of its type (WatchRegistry), so it is          *)
(* cancelled, and none stays open once the handler is done.                *)
LEMMA TeardownChannel ==
  ASSUME TypeOK, WatchRegistry, OneCommitted, Teardown
  PROVE  OneCommitted' /\ QuietAfterTeardown'
<1>1. DOMAIN watches' = DOMAIN watches
  BY DEF Teardown
<1>2. \A w \in DOMAIN watches :
        watches[w].status = "active" => watches'[w].status = "cancelled"
  <2> TAKE w \in DOMAIN watches
  <2> HAVE watches[w].status = "active"
  <2>1. cancellations[watches[w].type] = w
    BY DEF WatchRegistry
  <2>2. watches[w] \in Watch
    BY Elements
  <2>3. QED
    BY <2>1, <2>2 DEF Teardown, Watch
<1>3. \A w \in DOMAIN watches :
        watches[w].status # "active" => watches'[w] = watches[w]
  BY DEF Teardown
<1>4. OneCommitted'
  BY <1>1, <1>2, <1>3 DEF OneCommitted
<1>5. QuietAfterTeardown'
  BY <1>1, <1>2, <1>3 DEF QuietAfterTeardown
<1>6. QED
  BY <1>4, <1>5

(* CreateDeltaWatch runs with the cache lock free, so the one watch it    *)
(* may commit to at once is the only committed one.                        *)
LEMMA CreateWatchChannel ==
  ASSUME TypeOK, CreateWatch
  PROVE  OneCommitted' /\ QuietAfterTeardown'
<1> DEFINE k == Len(watches) + 1
<1>1. Len(watches) \in Nat /\ DOMAIN watches = 1..Len(watches)
  BY LenProperties DEF TypeOK
<1>2. PICK now \in BOOLEAN, extra \in SUBSET Names :
        /\ watches' = Append(watches,
                         [type |-> curType,
                          status |-> IF now THEN "committed" ELSE "active",
                          basis |-> states[curType].nonce,
                          rv |-> states[curType].rv,
                          vm |-> states[curType].rv \cup extra])
        /\ pc' = IF now THEN "createWait" ELSE "loop"
  BY DEF CreateWatch
<1>3. /\ DOMAIN watches' = 1..k
      /\ \A v \in DOMAIN watches : watches'[v] = watches[v]
  BY <1>1, <1>2
<1>4. LockedSend => \A v \in DOMAIN watches : watches[v].status # "committed"
  BY DEF CreateWatch, CacheFree
<1>5. OneCommitted'
  BY <1>1, <1>3, <1>4 DEF OneCommitted
<1>6. QuietAfterTeardown'
  BY <1>2 DEF QuietAfterTeardown
<1>7. QED
  BY <1>5, <1>6

(* The cache commits to an answer only with its lock free.                *)
LEMMA CacheCommitChannel ==
  ASSUME TypeOK, QuietAfterTeardown, NEW w \in DOMAIN watches, CacheCommit(w)
  PROVE  OneCommitted' /\ QuietAfterTeardown'
<1>1. watches[w] \in Watch
  BY Elements
<1>2. PICK extra \in SUBSET Names :
        watches' = [watches EXCEPT ![w].status = "committed",
                                   ![w].vm = watches[w].rv \cup extra]
  BY DEF CacheCommit
<1>3. /\ DOMAIN watches' = DOMAIN watches
      /\ \A v \in DOMAIN watches :
            v # w => watches'[v].status = watches[v].status
      /\ watches'[w].status = "committed"
  BY <1>1, <1>2 DEF Watch
<1>4. LockedSend => \A v \in DOMAIN watches : watches[v].status # "committed"
  BY DEF CacheCommit, CacheFree
<1>5. UNCHANGED pc
  BY DEF CacheCommit, procVars
<1>6. OneCommitted'
  BY <1>3, <1>4 DEF OneCommitted
<1>7. QuietAfterTeardown'
  BY <1>3, <1>5 DEF QuietAfterTeardown
<1>8. QED
  BY <1>6, <1>7

(* A committed answer that enters the channel leaves its watch fired.     *)
LEMMA CacheDeliverChannel ==
  ASSUME TypeOK, OneCommitted, QuietAfterTeardown,
         NEW w \in DOMAIN watches, CacheDeliver(w)
  PROVE  OneCommitted' /\ QuietAfterTeardown'
<1>1. watches[w] \in Watch
  BY Elements
<1>2. /\ DOMAIN watches' = DOMAIN watches
      /\ \A v \in DOMAIN watches :
            watches'[v].status \in {watches[v].status, "fired"}
  BY <1>1 DEF CacheDeliver, Watch
<1>3. UNCHANGED pc
  BY DEF CacheDeliver, procVars
<1>4. QED
  BY <1>2, <1>3, NoNewWatchStatus

-----------------------------------------------------------------------------
LEMMA ChannelStep ==
  ASSUME CInv, [Next]_vars PROVE OneCommitted' /\ QuietAfterTeardown'
<1> USE DEF CInv, IInv
<1>1. CASE Processor
  BY <1>1, QuietChannelSteps, HandleRequestChannel, CancelWatchChannel,
     CreateWatchChannel, TeardownChannel
  DEF Processor
<1>2. CASE Reader \/ CancelContext \/ UNCHANGED vars
  BY <1>2, QuietChannelSteps
<1>3. CASE Cache
  BY <1>3, CacheCommitChannel, CacheDeliverChannel DEF Cache
<1>4. QED
  BY <1>1, <1>2, <1>3 DEF Next

(* With a cache that sends under its lock, the cache is committed to at  *)
(* most one answer, and no watch of a torn-down stream is open.           *)
THEOREM ChannelInvariant ==
  ASSUME LockedSend PROVE Spec => []CInv
<1>1. Init => OneCommitted /\ QuietAfterTeardown
  BY DEF Init, OneCommitted, QuietAfterTeardown
<1>2. CInv /\ [Next]_vars => OneCommitted' /\ QuietAfterTeardown'
  BY ChannelStep
<1>3. QED
  BY <1>1, <1>2, RegistryInvariant, PTL DEF Spec, CInv

-----------------------------------------------------------------------------
(* The hypothesis the WithADSBufferSize comment states: a buffer of at    *)
(* least one slot per type on the stream.                                  *)
BufferPerType == IsFiniteSet(Types) /\ BufferSize >= Cardinality(Types)

(* The channel's capacity and its length are numbers.                     *)
LEMMA SizesNat ==
  ASSUME TypeOK PROVE BufferSize \in Nat /\ Len(responses) \in Nat
  BY BufferAssumption, LenProperties DEF BufferSize, TypeOK

(* Whenever processDelta waits inside a cache call (CreateDeltaWatch's    *)
(* immediate answer, or cancel() and CreateDeltaWatch behind the cache    *)
(* lock), the answer the cache is sending finds a free slot in the        *)
(* channel: with one slot per type the deadlock the buffer comment warns  *)
(* of cannot happen, for any number of types.                              *)
THEOREM CacheCallsReturnHolds ==
  ASSUME LockedSend, BufferPerType PROVE Spec => []CacheCallsReturn
<1>1. CInv => CacheCallsReturn
  <2> SUFFICES ASSUME CInv, WaitsOnCache PROVE Len(responses) < BufferSize
    BY DEF CacheCallsReturn
  <2>1. PICK w \in DOMAIN watches : watches[w].status = "committed"
    <3>1. CASE pc = "createWait"
      BY <3>1 DEF WaitsOnCache, CInv, IInv, TypeOK
    <3>2. CASE pc # "createWait"
      BY <3>2 DEF WaitsOnCache
    <3>3. QED
      BY <3>1, <3>2
  <2>2. Len(responses) < Cardinality(Types)
    BY <2>1, CommittedLeavesRoom DEF CInv, IInv, BufferPerType
  <2>3. QED
    BY <2>2, SizesNat, FS_CardinalityType DEF BufferPerType, CInv, IInv
<1>2. QED
  BY <1>1, ChannelInvariant, PTL

(* Once processDelta has returned, the cache holds no open watch of the  *)
(* stream, and the answer it may still be committed to fits beside the    *)
(* queued ones in the channel nobody reads: no cache goroutine, and no    *)
(* cache lock, is held forever by a finished stream.                      *)
THEOREM TeardownReleasesCacheHolds ==
  ASSUME LockedSend, BufferPerType PROVE Spec => []TeardownReleasesCache
<1>1. CInv => TeardownReleasesCache
  <2> SUFFICES ASSUME CInv, pc \in {"done", "returned"}
               PROVE  /\ \A w \in DOMAIN watches : watches[w].status # "active"
                      /\ Len(responses)
                           + Cardinality({w \in DOMAIN watches :
                                            watches[w].status = "committed"})
                         <= BufferSize
    BY DEF TeardownReleasesCache
  <2> DEFINE C == {w \in DOMAIN watches : watches[w].status = "committed"}
  <2>1. \A w \in DOMAIN watches : watches[w].status # "active"
    BY DEF CInv, QuietAfterTeardown
  <2>2. /\ Cardinality(Types) \in Nat /\ Cardinality(Types) <= BufferSize
        /\ BufferSize \in Nat /\ Len(responses) \in Nat
    BY SizesNat, FS_CardinalityType DEF BufferPerType, CInv, IInv
  <2>3. CASE C = {}
    <3>1. Cardinality(C) = 0
      BY <2>3, FS_EmptySet
    <3>2. Len(responses) <= Cardinality(Types)
      <4>1. \A i \in DOMAIN responses : responses[i].type \in Types
        BY Elements DEF CInv, IInv, Response
      <4>2. QED
        BY <4>1, QueueBound DEF CInv, IInv, BufferPerType
    <3>3. QED
      BY <2>1, <2>2, <3>1, <3>2
  <2>4. CASE C # {}
    <3>1. PICK w \in C : TRUE
      BY <2>4
    <3>2. C = {w}
      BY <3>1 DEF CInv, OneCommitted
    <3>3. Cardinality(C) = 1
      BY <3>2, FS_Singleton
    <3>4. Len(responses) < Cardinality(Types)
      BY <3>1, CommittedLeavesRoom DEF CInv, IInv, BufferPerType
    <3>5. Len(responses) \in Nat
      BY LenProperties DEF CInv, IInv, TypeOK
    <3>6. QED
      BY <2>1, <2>2, <3>3, <3>4, <3>5
  <2>5. QED
    BY <2>3, <2>4
<1>2. QED
  BY <1>1, ChannelInvariant, PTL
=============================================================================
