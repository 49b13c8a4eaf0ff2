----------------------------- MODULE DeltaServer -----------------------------
(***************************************************************************)
(* One incremental (delta) xDS stream of pkg/server/delta/v2/server.go:    *)
(* the processor loop of processDelta, the reader goroutine started by     *)
(* DeltaStreamHandler, and the configuration cache seen through its        *)
(* contract (CreateDeltaWatch returns a cancel handle; a watch answers at  *)
(* most once on the stream's muxed response channel).                      *)
(*                                                                         *)
(* Data is abstracted: a nonce is the integer whose decimal form the code  *)
(* sends (strconv.FormatInt is injective, so string equality of nonces is  *)
(* integer equality; 0 stands for "" and for any string the server never  *)
(* issued); a resource-version map is the set of names it holds; a         *)
(* response carries the watch that produced it, the stream-state nonce     *)
(* that watch was created against ("basis") and the version map it         *)
(* reports.                                                                *)
(***************************************************************************)
EXTENDS Naturals, Sequences, FiniteSets

CONSTANTS
    Types,          \* the resource type URLs known to the stream state
    AnyType,        \* resource.AnyType: the stream is an ADS stream
    DefaultTypeURL, \* typeURL argument of DeltaStreamHandler
    ReqTypes,       \* type URLs the client puts in its requests
    NoType,         \* a request whose TypeUrl is ""
    Names,          \* resource names
    Nodes,          \* node identities a request may carry
    EmptyNode,      \* the &core.Node{} the processor starts with
    Nil,            \* nil (request, cancel handle)
    RecvErr,        \* the error returned by Recv
    XdsBufferSize,  \* server.xdsBufferSize
    MuxBufferSize,  \* server.muxBufferSize
    MaxRequests,    \* bound on the requests the client sends
    LockedSend,     \* the cache sends on the channel while holding its lock
    Failures        \* callbacks, response conversion and Send may fail

ASSUME TypeAssumption ==
    /\ Types # {} /\ AnyType \notin Types /\ NoType \notin Types
    /\ DefaultTypeURL \in Types \cup {AnyType}
    /\ ReqTypes \subseteq Types \cup {NoType}
    /\ Nil \notin Types \cup Nodes \cup Nat
    /\ EmptyNode \notin Nodes

ASSUME BufferAssumption ==
    /\ XdsBufferSize \in Nat \ {0}
    /\ MuxBufferSize \in Nat \ {0}

ASSUME BoundAssumption ==
    /\ MaxRequests \in Nat
    /\ LockedSend \in BOOLEAN
    /\ Failures \in BOOLEAN

VARIABLES
    \* processor (processDelta)
    pc,             \* where the processor is
    streamNonce,    \* the nonce counter of send()
    nonces,         \* values.deltaNonces; 0 = type URL not in the map
    cancellations,  \* values.deltaCancellations: a watch id or Nil
    states,         \* values.deltaStreamStates
    node,           \* the remembered node
    curType,        \* the type URL of the request being handled
    curUnsub,       \* its ResourceNamesUnsubscribe
    muHeld,         \* values.mu is locked (only processDelta takes it)
    opened,         \* OnDeltaStreamOpen returned nil
    closeCalls,     \* number of OnDeltaStreamClosed calls
    \* shared with the cache
    responses,      \* values.deltaResponses, the muxed buffered channel
    watches,        \* every watch created, indexed by id
    \* reader goroutine and transport
    rpc,            \* where the reader is
    pending,        \* what Recv returned to the reader
    reqClosed,      \* reqCh has been closed
    reqStop,        \* the reqStop flag
    ctxDone,        \* the server context is cancelled
    sent            \* requests the client has sent

procVars == <<pc, streamNonce, nonces, cancellations, states, node, curType,
              curUnsub, muHeld, opened, closeCalls>>
vars == <<procVars, responses, watches, rpc, pending, reqClosed, reqStop,
          ctxDone, sent>>

PCs == {"open", "loop", "cancel", "drain", "create", "createWait",
        "teardown", "done", "returned"}
Statuses == {"active", "committed", "fired", "cancelled"}
StreamState == [nonce : Nat, rv : SUBSET Names]
Watch == [type : Types, status : Statuses, basis : Nat,
          rv : SUBSET Names, vm : SUBSET Names]
Response == [w : Nat, type : Types, basis : Nat, vm : SUBSET Names]
Request == [type : ReqTypes, nonce : Nat, unsub : SUBSET Names,
            node : Nodes \cup {Nil}]

-----------------------------------------------------------------------------
(* Mutant: the ADS and xDS buffer sizes swapped.                         *)
BufferSizeSwapped ==
    IF DefaultTypeURL = AnyType THEN XdsBufferSize ELSE MuxBufferSize

(* The response channel's capacity, chosen by processDelta.               *)
BufferSize == IF DefaultTypeURL = AnyType THEN MuxBufferSize ELSE XdsBufferSize

(* A send on the buffered channel does not block.                         *)
ChannelHasRoom == Len(responses) < BufferSize

(* With LockedSend the cache holds its lock from deciding to answer a     *)
(* watch until the answer is in the channel; cancel and CreateDeltaWatch   *)
(* take the same lock.                                                     *)
CacheFree == LockedSend => \A w \in DOMAIN watches : watches[w].status # "committed"

Init ==
    /\ pc = "open"
    /\ streamNonce = 0
    /\ nonces = [t \in Types |-> 0]
    /\ cancellations = [t \in Types |-> Nil]
    /\ states = [t \in Types |-> [nonce |-> 0, rv |-> {}]]
    /\ node = EmptyNode
    /\ curType = Nil
    /\ curUnsub = {}
    /\ muHeld = FALSE
    /\ opened = FALSE
    /\ closeCalls = 0
    /\ responses = <<>>
    /\ watches = <<>>
    /\ rpc = "recv"
    /\ pending = Nil
    /\ reqClosed = FALSE
    /\ reqStop = FALSE
    /\ ctxDone = FALSE
    /\ sent = 0

-----------------------------------------------------------------------------
(***************************************************************************)
(* Processor.                                                              *)
(***************************************************************************)

(* OnDeltaStreamOpen succeeds and the processor enters its loop.          *)
OpenStream ==
    /\ pc = "open"
    /\ pc' = "loop"
    /\ opened' = TRUE
    /\ UNCHANGED <<streamNonce, nonces, cancellations, states, node, curType,
                   curUnsub, muHeld, closeCalls, responses, watches, rpc,
                   pending, reqClosed, reqStop, ctxDone, sent>>

(* OnDeltaStreamOpen returns an error: processDelta returns it, and the    *)
(* deferred teardown, installed before the callback, still runs.           *)
OpenStreamFails ==
    /\ pc = "open"
    /\ Failures
    /\ pc' = "teardown"
    /\ UNCHANGED <<streamNonce, nonces, cancellations, states, node, curType,
                   curUnsub, muHeld, opened, closeCalls, responses, watches,
                   rpc, pending, reqClosed, reqStop, ctxDone, sent>>

(* Mutant: update() builds the new state without ResourceVersions.      *)
UpdateWithoutVersionMap(r, n) == [nonce |-> n]

(* Mutant: update() is given the stream nonce from before send().        *)
UpdateStaleNonce(r, n) == [nonce |-> n - 1, rv |-> r.vm]

(* update(resp, nonce): the stream state a processed response installs.  *)
Update(r, n) == [nonce |-> n, rv |-> r.vm]

(* Mutant: process() keeps the handle of the watch that answered.         *)
ProcessKeepsHandle(next) ==
    LET r == Head(responses)
        n == streamNonce + 1
    IN  /\ responses' = Tail(responses)
        /\ streamNonce' = n
        /\ nonces' = [nonces EXCEPT ![r.type] = n]
        /\ states' = [states EXCEPT ![r.type] = Update(r, n)]
        /\ pc' = next
        /\ UNCHANGED <<cancellations, node, curType, curUnsub, muHeld, opened,
                       closeCalls, watches, rpc, pending, reqClosed, reqStop,
                       ctxDone, sent>>

(* Mutant: processAll() logs a failing process() and goes on draining.  *)
ProcessIgnoresError(next) ==
    LET r == Head(responses)
        n == streamNonce + 1
    IN  /\ responses' = Tail(responses)
        /\ ~muHeld
        /\ streamNonce' = n
        /\ nonces' = [nonces EXCEPT ![r.type] = n]
        /\ cancellations' = [cancellations EXCEPT ![r.type] = Nil]
        /\ \/ /\ states' = [states EXCEPT ![r.type] = Update(r, n)]
              /\ UNCHANGED muHeld
           \/ /\ Failures
              /\ states' = [states EXCEPT ![r.type] = [nonce |-> 0, rv |-> {}]]
              /\ muHeld' = TRUE
        /\ pc' = next
        /\ UNCHANGED <<node, curType, curUnsub, opened, closeCalls, watches,
                       rpc, pending, reqClosed, reqStop, ctxDone, sent>>

(* process(resp) on the response at the head of the channel: send() stamps *)
(* the next nonce and sends; the nonce is recorded, the handle of the      *)
(* type's watch is forgotten, and under values.mu the stream state is     *)
(* replaced. send() fails before the nonce is incremented (no response, a *)
(* failing conversion) or after it (str.Send); update() fails after the   *)
(* nonce and the handle were recorded, leaving the zero StreamState and   *)
(* returning with values.mu still locked. Every failure ends the stream.  *)
Process(next) ==
    LET r == Head(responses)
        n == streamNonce + 1
    IN  /\ responses' = Tail(responses)
        /\ \/ /\ ~muHeld
              /\ streamNonce' = n
              /\ nonces' = [nonces EXCEPT ![r.type] = n]
              /\ cancellations' = [cancellations EXCEPT ![r.type] = Nil]
              /\ states' = [states EXCEPT ![r.type] = Update(r, n)]
              /\ pc' = next
              /\ UNCHANGED muHeld
           \/ /\ Failures
              /\ streamNonce' \in {streamNonce, n}
              /\ pc' = "teardown"
              /\ UNCHANGED <<nonces, cancellations, states, muHeld>>
           \/ /\ Failures
              /\ ~muHeld
              /\ streamNonce' = n
              /\ nonces' = [nonces EXCEPT ![r.type] = n]
              /\ cancellations' = [cancellations EXCEPT ![r.type] = Nil]
              /\ states' = [states EXCEPT ![r.type] = [nonce |-> 0, rv |-> {}]]
              /\ muHeld' = TRUE
              /\ pc' = "teardown"
        /\ UNCHANGED <<node, curType, curUnsub, opened, closeCalls, watches,
                       rpc, pending, reqClosed, reqStop, ctxDone, sent>>

(* Mutant: ctx.Done() is logged but the loop goes on.                    *)
ContextDoneNoReturn ==
    /\ pc = "loop"
    /\ ctxDone
    /\ UNCHANGED vars

(* Case <-s.ctx.Done(): return nil.                                       *)
ContextDone ==
    /\ pc = "loop"
    /\ ctxDone
    /\ pc' = "teardown"
    /\ UNCHANGED <<streamNonce, nonces, cancellations, states, node, curType,
                   curUnsub, muHeld, opened, closeCalls, responses, watches,
                   rpc, pending, reqClosed, reqStop, ctxDone, sent>>

(* Case resp := <-values.deltaResponses.                                  *)
Respond ==
    /\ pc = "loop"
    /\ responses # <<>>
    /\ Process("loop")

(* Case req, more := <-reqCh with the channel closed: return nil.         *)
RequestsClosed ==
    /\ pc = "loop"
    /\ reqClosed
    /\ pc' = "teardown"
    /\ UNCHANGED <<streamNonce, nonces, cancellations, states, node, curType,
                   curUnsub, muHeld, opened, closeCalls, responses, watches,
                   rpc, pending, reqClosed, reqStop, ctxDone, sent>>

(* A request processDelta rejects: nil (Unavailable), or an ADS request  *)
(* without a type URL (InvalidArgument). The status code is abstracted.  *)
Malformed(r) ==
    IF r = Nil THEN TRUE ELSE DefaultTypeURL = AnyType /\ r.type = NoType

(* A malformed request taken from reqCh ends the stream.                  *)
RejectRequest ==
    /\ pc = "loop"
    /\ rpc = "push"
    /\ Malformed(pending)
    /\ rpc' = "recv"
    /\ pending' = Nil
    /\ pc' = "teardown"
    /\ UNCHANGED <<streamNonce, nonces, cancellations, states, node, curType,
                   curUnsub, muHeld, opened, closeCalls, responses, watches,
                   reqClosed, reqStop, ctxDone, sent>>

(* The type URL a request is handled under.                               *)
RequestType(r) == IF r.type = NoType THEN DefaultTypeURL ELSE r.type

(* The watches that share the version map of states[t]: CreateDeltaWatch  *)
(* receives the stream state by value, its map by reference, so an        *)
(* unsubscribe deletes from the map of every watch created since the map  *)
(* was installed and not yet answered.                                     *)
SharesMap(w, t) ==
    /\ watches[w].type = t
    /\ watches[w].status = "active"
    /\ watches[w].basis = states[t].nonce

(* Case req := <-reqCh, a well-formed request: rehydrate the node, apply   *)
(* the unsubscribe (under values.mu), run OnStreamDeltaRequest, then      *)
(* (re)create the watch iff the type is unseen or the request carries the *)
(* last nonce sent for it, cancelling and draining first when a handle is *)
(* held.                                                                   *)
HandleRequest ==
    /\ pc = "loop"
    /\ rpc = "push"
    /\ ~Malformed(pending)
    /\ pending.unsub # {} => ~muHeld
    /\ LET r == pending
           t == RequestType(r)
       IN  /\ node' = IF r.node # Nil THEN r.node ELSE node
           /\ states' = [states EXCEPT ![t].rv = @ \ r.unsub]
           /\ watches' = [w \in DOMAIN watches |->
                            IF SharesMap(w, t)
                            THEN [watches[w] EXCEPT !.rv = @ \ r.unsub]
                            ELSE watches[w]]
           /\ curType' = t
           /\ curUnsub' = r.unsub
           /\ \/ /\ Failures
                 /\ pc' = "teardown"
              \/ /\ pc' = IF nonces[t] = 0 \/ nonces[t] = r.nonce
                          THEN IF cancellations[t] # Nil THEN "cancel" ELSE "create"
                          ELSE "loop"
    /\ rpc' = "recv"
    /\ pending' = Nil
    /\ UNCHANGED <<streamNonce, nonces, cancellations, opened, closeCalls,
                   muHeld, responses, reqClosed, reqStop, ctxDone, sent>>

(* Mutant: the handle is not called before draining.                     *)
CancelOmitted ==
    /\ pc = "cancel"
    /\ CacheFree
    /\ pc' = "drain"
    /\ UNCHANGED <<streamNonce, nonces, cancellations, states, node, curType,
                   curUnsub, muHeld, opened, closeCalls, responses, watches,
                   rpc, pending, reqClosed, reqStop, ctxDone, sent>>

(* cancel() of the type's current watch. A watch the cache has already    *)
(* decided to answer is not stopped by it.                                 *)
CancelWatch ==
    /\ pc = "cancel"
    /\ CacheFree
    /\ LET w == cancellations[curType]
       IN  watches' = IF watches[w].status = "active"
                      THEN [watches EXCEPT ![w].status = "cancelled"]
                      ELSE watches
    /\ pc' = "drain"
    /\ UNCHANGED <<streamNonce, nonces, cancellations, states, node, curType,
                   curUnsub, muHeld, opened, closeCalls, responses, rpc,
                   pending, reqClosed, reqStop, ctxDone, sent>>

(* processAll: one response already in the channel is processed.          *)
DrainOne ==
    /\ pc = "drain"
    /\ responses # <<>>
    /\ Process("drain")

(* Mutant: the watch is re-created without draining the channel.         *)
DrainSkipped ==
    /\ pc = "drain"
    /\ pc' = "create"
    /\ UNCHANGED <<streamNonce, nonces, cancellations, states, node, curType,
                   curUnsub, muHeld, opened, closeCalls, responses, watches,
                   rpc, pending, reqClosed, reqStop, ctxDone, sent>>

(* processAll: the channel is empty, the non-blocking receive defaults.   *)
DrainDone ==
    /\ pc = "drain"
    /\ responses = <<>>
    /\ pc' = "create"
    /\ UNCHANGED <<streamNonce, nonces, cancellations, states, node, curType,
                   curUnsub, muHeld, opened, closeCalls, responses, watches,
                   rpc, pending, reqClosed, reqStop, ctxDone, sent>>

(* CreateDeltaWatch, under values.mu.RLock, against the current stream    *)
(* state of the type; the returned handle is stored. The cache may       *)
(* answer at once, inside the call: it then sends on the channel before   *)
(* the call returns.                                                       *)
CreateWatch ==
    /\ pc = "create"
    /\ CacheFree
    /\ ~muHeld
    /\ \E now \in BOOLEAN, extra \in SUBSET Names :
          LET s == states[curType]
          IN  /\ watches' = Append(watches,
                               [type |-> curType,
                                status |-> IF now THEN "committed" ELSE "active",
                                basis |-> s.nonce, rv |-> s.rv,
                                vm |-> s.rv \cup extra])
              /\ pc' = IF now THEN "createWait" ELSE "loop"
    /\ cancellations' = [cancellations EXCEPT ![curType] = Len(watches) + 1]
    /\ UNCHANGED <<streamNonce, nonces, states, node, curType, curUnsub,
                   muHeld, opened, closeCalls, responses, rpc, pending,
                   reqClosed, reqStop, ctxDone, sent>>

(* CreateDeltaWatch returns once its immediate answer is in the channel.  *)
CreateReturn ==
    /\ pc = "createWait"
    /\ watches[cancellations[curType]].status = "fired"
    /\ pc' = "loop"
    /\ UNCHANGED <<streamNonce, nonces, cancellations, states, node, curType,
                   curUnsub, muHeld, opened, closeCalls, responses, watches,
                   rpc, pending, reqClosed, reqStop, ctxDone, sent>>

(* Mutant: the deferred function only reports the close.                  *)
TeardownWithoutCancel ==
    /\ pc = "teardown"
    /\ closeCalls' = closeCalls + 1
    /\ pc' = "done"
    /\ UNCHANGED <<streamNonce, nonces, cancellations, states, node, curType,
                   curUnsub, muHeld, opened, responses, watches, rpc, pending,
                   reqClosed, reqStop, ctxDone, sent>>

(* The deferred function of processDelta: values.Cancel() calls every     *)
(* non-nil handle, then OnDeltaStreamClosed.                               *)
Teardown ==
    /\ pc = "teardown"
    /\ (\E t \in Types : cancellations[t] # Nil) => CacheFree
    /\ watches' = [w \in DOMAIN watches |->
                     IF /\ watches[w].status = "active"
                        /\ cancellations[watches[w].type] = w
                     THEN [watches[w] EXCEPT !.status = "cancelled"]
                     ELSE watches[w]]
    /\ closeCalls' = closeCalls + 1
    /\ pc' = "done"
    /\ UNCHANGED <<streamNonce, nonces, cancellations, states, node, curType,
                   curUnsub, muHeld, opened, responses, rpc, pending,
                   reqClosed, reqStop, ctxDone, sent>>

(* DeltaStreamHandler after processDelta returned: set reqStop.           *)
HandlerReturn ==
    /\ pc = "done"
    /\ pc' = "returned"
    /\ reqStop' = TRUE
    /\ UNCHANGED <<streamNonce, nonces, cancellations, states, node, curType,
                   curUnsub, muHeld, opened, closeCalls, responses, watches,
                   rpc, pending, reqClosed, ctxDone, sent>>

-----------------------------------------------------------------------------
(***************************************************************************)
(* Reader goroutine and transport.                                         *)
(***************************************************************************)

(* Recv returns a request the client sent; the client may echo any nonce  *)
(* issued so far, or none.                                                 *)
ReaderRecv ==
    /\ rpc = "recv"
    /\ pc # "returned"
    /\ sent < MaxRequests
    /\ \E r \in [type : ReqTypes, nonce : 0..streamNonce,
                 unsub : SUBSET Names, node : Nodes \cup {Nil}] \cup {Nil} :
          pending' = r
    /\ sent' = sent + 1
    /\ rpc' = "check"
    /\ UNCHANGED <<procVars, responses, watches, reqClosed, reqStop, ctxDone>>

(* Recv returns an error: the client hung up, or the handler has returned *)
(* and gRPC ended the stream.                                              *)
ReaderRecvErr ==
    /\ rpc = "recv"
    /\ pending' = RecvErr
    /\ rpc' = "check"
    /\ UNCHANGED <<procVars, responses, watches, reqClosed, reqStop, ctxDone,
                   sent>>

(* After Recv: exit if reqStop is set, close reqCh on an error, otherwise *)
(* go on to push the request.                                              *)
ReaderCheck ==
    /\ rpc = "check"
    /\ \/ /\ reqStop
          /\ rpc' = "done"
          /\ UNCHANGED reqClosed
       \/ /\ ~reqStop
          /\ pending = RecvErr
          /\ reqClosed' = TRUE
          /\ rpc' = "done"
       \/ /\ ~reqStop
          /\ pending # RecvErr
          /\ rpc' = "push"
          /\ UNCHANGED reqClosed
    /\ UNCHANGED <<procVars, responses, watches, pending, reqStop, ctxDone,
                   sent>>

(* The server context is cancelled.                                       *)
CancelContext ==
    /\ ~ctxDone
    /\ ctxDone' = TRUE
    /\ UNCHANGED <<procVars, responses, watches, rpc, pending, reqClosed,
                   reqStop, sent>>

-----------------------------------------------------------------------------
(***************************************************************************)
(* Cache (its contract, from the spec).                                    *)
(***************************************************************************)

(* The cache decides to answer an open watch: it computes the new version *)
(* map from the map the watch holds.                                       *)
CacheCommit(w) ==
    /\ watches[w].status = "active"
    /\ CacheFree
    /\ \E extra \in SUBSET Names :
          watches' = [watches EXCEPT ![w].status = "committed",
                                     ![w].vm = watches[w].rv \cup extra]
    /\ UNCHANGED <<procVars, responses, rpc, pending, reqClosed, reqStop,
                   ctxDone, sent>>

(* The answer is sent on the stream's channel; blocks while it is full.   *)
CacheDeliver(w) ==
    /\ watches[w].status = "committed"
    /\ ChannelHasRoom
    /\ responses' = Append(responses,
                       [w |-> w, type |-> watches[w].type,
                        basis |-> watches[w].basis, vm |-> watches[w].vm])
    /\ watches' = [watches EXCEPT ![w].status = "fired"]
    /\ UNCHANGED <<procVars, rpc, pending, reqClosed, reqStop, ctxDone, sent>>

-----------------------------------------------------------------------------
Processor ==
    \/ OpenStream \/ OpenStreamFails \/ ContextDone \/ Respond
    \/ RequestsClosed \/ RejectRequest \/ HandleRequest \/ CancelWatch
    \/ DrainOne \/ DrainDone \/ CreateWatch \/ CreateReturn \/ Teardown
    \/ HandlerReturn

Reader == ReaderRecv \/ ReaderRecvErr \/ ReaderCheck

Cache == \E w \in DOMAIN watches : CacheCommit(w) \/ CacheDeliver(w)

Next == Processor \/ Reader \/ Cache \/ CancelContext

(* The processor and reader goroutines are scheduled whenever they can    *)
(* run; a cache goroutine blocked on the channel proceeds once there is   *)
(* room; after the handler returns gRPC makes Recv fail. The client and   *)
(* the cache's decisions to answer get no fairness.                        *)
Fairness ==
    /\ WF_vars(Processor)
    /\ WF_vars(ReaderCheck)
    /\ WF_vars(pc = "returned" /\ ReaderRecvErr)
    /\ WF_vars(\E w \in DOMAIN watches : CacheDeliver(w))

Spec == Init /\ [][Next]_vars
FairSpec == Spec /\ Fairness


-----------------------------------------------------------------------------
(***************************************************************************)
(* Properties.                                                             *)
(***************************************************************************)

(* Every variable holds a value of its type, the buffered response        *)
(* channel never holds more than its capacity, what the reader pushes is  *)
(* a request (or nil), a handle names a watch that was created, and a    *)
(* watch is cancelled or awaited only through a handle that is held.      *)
TypeOK ==
    /\ pc \in PCs
    /\ streamNonce \in Nat
    /\ nonces \in [Types -> Nat]
    /\ cancellations \in [Types -> DOMAIN watches \cup {Nil}]
    /\ states \in [Types -> StreamState]
    /\ node \in Nodes \cup {EmptyNode}
    /\ curType \in Types \cup {Nil}
    /\ curUnsub \in SUBSET Names
    /\ muHeld \in BOOLEAN
    /\ opened \in BOOLEAN
    /\ closeCalls \in Nat
    /\ responses \in Seq(Response)
    /\ Len(responses) <= BufferSize
    /\ watches \in Seq(Watch)
    /\ rpc \in {"recv", "check", "push", "done"}
    /\ pending \in Request \cup {Nil, RecvErr}
    /\ rpc = "push" => pending # RecvErr
    /\ pc \in {"cancel", "drain", "create", "createWait"} => curType \in Types
    /\ pc \in {"cancel", "createWait"} => cancellations[curType] # Nil
    /\ reqClosed \in BOOLEAN
    /\ reqStop \in BOOLEAN
    /\ ctxDone \in BOOLEAN
    /\ sent \in 0..MaxRequests

(* The watch registry of processDelta never loses a watch: every watch    *)
(* the cache still holds open for this stream is the one whose handle     *)
(* deltaCancellations keeps for its type URL. So at most one watch per    *)
(* type is open, and the deferred values.Cancel() reaches all of them.    *)
(* This rests on the cancel-then-drain of the request handler: a handle   *)
(* is set to nil by process() only for the answer of that very watch.     *)
LiveWatchTracked ==
    \A w \in DOMAIN watches :
        watches[w].status = "active" => cancellations[watches[w].type] = w

(* No stale delta: every answer the cache has computed for this stream    *)
(* and not yet handed to process() (in the channel, or being sent into   *)
(* it) was computed against the stream state processDelta currently      *)
(* holds for its type URL, so the state it installs and the nonce it gets *)
(* describe what the client will really know.                              *)
NoStaleDelta ==
    /\ \A i \in DOMAIN responses :
          responses[i].basis = states[responses[i].type].nonce
    /\ \A w \in DOMAIN watches :
          watches[w].status = "committed" =>
              watches[w].basis = states[watches[w].type].nonce

(* values.mu is never needed again once a failing update() left it       *)
(* locked: while it is held the processor has left its loop for the      *)
(* teardown, which does not take it, so the Lock of process() and of the *)
(* unsubscribe and the RLock around CreateDeltaWatch never wait on it.    *)
MutexReleased ==
    muHeld => pc \in {"teardown", "done", "returned"}

(* Nonce bookkeeping of processDelta: every nonce recorded in            *)
(* deltaNonces was issued by send() (it is at most the stream nonce), no *)
(* two type URLs record the same nonce, so a request's ResponseNonce     *)
(* acknowledges the last response of at most one type; and while the     *)
(* loop runs, the stream state CreateDeltaWatch is given for a type      *)
(* carries that type's recorded nonce.                                     *)
NoncesConsistent ==
    /\ \A t \in Types : nonces[t] <= streamNonce
    /\ \A t1, t2 \in Types : t1 # t2 /\ nonces[t1] # 0 => nonces[t1] # nonces[t2]
    /\ pc \notin {"teardown", "done", "returned"} =>
          \A t \in Types : states[t].nonce = nonces[t]

(* Unsubscribe before re-watch (spec section 4.2): the names a request    *)
(* unsubscribes are gone from its type's version map when the request    *)
(* handler of processDelta passes that map to CreateDeltaWatch, after    *)
(* the cancel and the drain of processAll.                                *)
UnsubscribeBeforeWatch ==
    pc = "create" => states[curType].rv \cap curUnsub = {}

(* The registry invariant behind LiveWatchTracked and NoStaleDelta when   *)
(* the cache sends under its lock: every watch the cache may still answer *)
(* is the tracked one of its type and was created against the current    *)
(* stream state; every answer in the channel comes from the fired watch  *)
(* still tracked for its type, so there is at most one answer per type;  *)
(* and while processDelta drains and re-creates a type's watch, no watch *)
(* of that type can answer and (once drained) no answer of that type is  *)
(* queued.                                                                 *)
WatchRegistry ==
    /\ \A w \in DOMAIN watches :
          watches[w].status \in {"active", "committed"} =>
              /\ cancellations[watches[w].type] = w
              /\ watches[w].basis = states[watches[w].type].nonce
    /\ \A i \in DOMAIN responses :
          /\ responses[i].w \in DOMAIN watches
          /\ watches[responses[i].w].status = "fired"
          /\ watches[responses[i].w].type = responses[i].type
          /\ cancellations[responses[i].type] = responses[i].w
          /\ responses[i].basis = states[responses[i].type].nonce
    /\ \A i, j \in DOMAIN responses :
          responses[i].type = responses[j].type => i = j
    /\ pc \in {"drain", "create"} =>
          \A w \in DOMAIN watches :
              watches[w].type = curType =>
                  watches[w].status \notin {"active", "committed"}
    /\ pc = "create" =>
          \A i \in DOMAIN responses : responses[i].type # curType

(* The processor is blocked inside the cache: in CreateDeltaWatch until   *)
(* its immediate answer is sent, or (LockedSend) in cancel() or           *)
(* CreateDeltaWatch while a cache goroutine holds the lock to send.        *)
WaitsOnCache ==
    \/ /\ pc = "createWait"
       /\ watches[cancellations[curType]].status = "committed"
    \/ /\ LockedSend
       /\ \E w \in DOMAIN watches : watches[w].status = "committed"
       /\ \/ pc \in {"cancel", "create"}
          \/ pc = "teardown" /\ \E t \in Types : cancellations[t] # Nil

(* The channel buffer prevents the deadlock the WithADSBufferSize comment *)
(* warns of: whenever processDelta waits on a cache call, the send the    *)
(* cache is blocked on has room, so the call returns.                      *)
CacheCallsReturn == WaitsOnCache => Len(responses) < BufferSize

(* After the stream is torn down the cache holds no open watch for it, and *)
(* every answer the cache is still sending fits in the channel nobody      *)
(* reads any more (a cache goroutine, and with LockedSend the cache lock, *)
(* is not stuck forever).                                                  *)
TeardownReleasesCache ==
    pc \in {"done", "returned"} =>
        /\ \A w \in DOMAIN watches : watches[w].status # "active"
        /\ Len(responses)
             + Cardinality({w \in DOMAIN watches : watches[w].status = "committed"})
           <= BufferSize

(* No step loses a watch handle: processDelta drops the handle it keeps in *)
(* deltaCancellations for a type URL only in process(), and then only for *)
(* the answer of that very watch, and it overwrites the handle with a new *)
(* CreateDeltaWatch only after cancel() has stopped the old watch. So the *)
(* "cancellations[typeURL] = nil" of process() and the cancel-then-drain  *)
(* of the request handler never leave a watch open that values.Cancel()  *)
(* can no longer reach.                                                    *)
HandleReleased ==
    \A t \in Types :
        cancellations[t] # Nil /\ cancellations'[t] # cancellations[t] =>
            \/ /\ cancellations'[t] = Nil
               /\ responses # <<>>
               /\ Head(responses).w = cancellations[t]
            \/ /\ cancellations'[t] # Nil
               /\ watches[cancellations[t]].status = "cancelled"
HandleReleasedWhenDone == [][HandleReleased]_vars

(* Once the server context is cancelled, DeltaStreamHandler returns.      *)
CancelTerminates == ctxDone ~> (pc = "returned")

(* Spec section 8: two requests for one type URL with the same nonce     *)
(* yield exactly one new watch, i.e. no two watches of a type are created *)
(* against the same stream state.                                          *)
OneWatchPerState ==
    \A w1, w2 \in DOMAIN watches :
        /\ w1 # w2
        /\ watches[w1].type = watches[w2].type
        => watches[w1].basis # watches[w2].basis

(* Spec section 4.3.1: OnDeltaStreamClosed is owed only to a stream whose *)
(* OnDeltaStreamOpen succeeded.                                            *)
ClosedOnlyAfterOpen == closeCalls > 0 => opened

(* Spec section 4.2 and 9: the reader goroutine never blocks on a reqCh   *)
(* the processor no longer reads; once the handler returns, it exits.     *)
ReaderExits == (pc = "returned") ~> (rpc = "done")

-----------------------------------------------------------------------------
(***************************************************************************)
(* The stream as DeltaStream sees it: the processor is opening before     *)
(* OnDeltaStreamOpen returns and closed from the moment it leaves its     *)
(* loop; the stream state is deltaStreamStates; a watch is registered for *)
(* a type while deltaCancellations holds its handle.                       *)
(***************************************************************************)
StreamPhaseOf(p) ==
    CASE p = "open" -> "opening"
      [] p \in {"teardown", "done", "returned"} -> "closed"
      [] OTHER -> "serving"

AbstractStream == INSTANCE DeltaStream WITH
    phase <- StreamPhaseOf(pc),
    lastNonce <- streamNonce,
    applied <- states,
    subscribed <- [t \in Types |-> cancellations[t] # Nil]

(* processDelta implements the stream's promise: every processed response *)
(* answers the type's registered watch, takes the next nonce and becomes *)
(* the type's stream state while consuming the handle; unsubscribes only *)
(* shrink a version map; nothing changes after the loop is left.          *)
ImplementsStream == AbstractStream!Spec

=============================================================================
