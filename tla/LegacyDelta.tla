----------------------------- MODULE LegacyDelta -----------------------------
(***************************************************************************)
(* The earlier delta handler of pkg/server/v2/delta.go, for several        *)
(* streams of one server: each stream has a processor (processDelta) and  *)
(* a reader goroutine (deltaHandler); every watch answers on a channel of *)
(* its own, selected through the per-type fields of the stream's watches *)
(* value; and all streams share the server-wide s.deltaVersions map,      *)
(* guarded by s.deltaLock, that a processed response writes and a new    *)
(* watch is created against.                                               *)
(*                                                                         *)
(* A nonce is the integer whose decimal form the code sends (0 stands for *)
(* ""); a system version is a model value, NoVersion standing for "".     *)
(***************************************************************************)
EXTENDS Naturals, Sequences, FiniteSets

CONSTANTS
    Streams,        \* the streams open on the server
    Types,          \* the type URLs of the select's per-type arms
    AnyType,        \* resource.AnyType
    DefaultTypeURL, \* typeURL argument of deltaHandler
    ReqTypes,       \* type URLs the clients put in their requests
    NoType,         \* a request whose TypeUrl is ""
    Nodes,          \* node identities a request may carry
    EmptyNode,      \* the &core.Node{} a processor starts with
    Versions,       \* system versions the cache may answer with
    NoVersion,      \* the empty system version ""
    Nil,            \* nil (request, channel, cancel function)
    RecvErr,        \* the error returned by Recv
    MaxRequests,    \* bound on the requests each client sends
    Failures        \* callbacks, Send and GetSystemVersion may fail

ASSUME LegacyAssumption ==
    /\ Types # {} /\ AnyType \notin Types /\ NoType \notin Types
    /\ DefaultTypeURL \in Types \cup {AnyType}
    /\ ReqTypes \subseteq Types \cup {NoType}
    /\ NoVersion \notin Versions
    /\ Nil \notin Nat /\ EmptyNode \notin Nodes
    /\ MaxRequests \in Nat /\ Failures \in BOOLEAN

VARIABLES
    pc,            \* pc[s]: where the processor of stream s is
    streamNonce,   \* streamNonce[s]
    nonce,         \* nonce[s][t]: values.deltaXNonce, 0 = ""
    cancel,        \* cancel[s][t]: values.deltaXCancel, a watch id or Nil
    chan,          \* chan[s][t]: values.deltaX, the watch whose channel is selected, or Nil
    node,          \* node[s]
    deltaVersions, \* s.deltaVersions, shared by all streams
    watches,       \* every watch created, indexed by id
    rpc,           \* rpc[s]: where the reader of stream s is
    pending,       \* pending[s]: what Recv returned
    reqClosed,     \* reqClosed[s]: reqCh has been closed
    reqStop,       \* reqStop[s]
    ctxDone,       \* s.ctx is cancelled (one context for the server)
    sent           \* sent[s]: requests client s has sent

streamVars == <<pc, streamNonce, nonce, cancel, chan, node>>
readerVars == <<rpc, pending, reqClosed, reqStop, sent>>
vars == <<streamVars, deltaVersions, watches, readerVars, ctxDone>>

LPCs == {"open", "loop", "teardown", "done", "returned"}
(* A watch is open, has its answer waiting in its channel, has had it     *)
(* received by the processor, was cancelled, or its channel was closed.   *)
LStatuses == {"active", "sent", "received", "cancelled", "closed"}
LWatch == [stream : Streams, type : Types, version : Versions \cup {NoVersion},
           reqNonce : Nat, lastNonce : Nat, status : LStatuses,
           answer : Versions \cup {NoVersion}]
LRequest == [type : ReqTypes, nonce : Nat, node : Nodes \cup {Nil}]

Init ==
    /\ pc = [s \in Streams |-> "open"]
    /\ streamNonce = [s \in Streams |-> 0]
    /\ nonce = [s \in Streams |-> [t \in Types |-> 0]]
    /\ cancel = [s \in Streams |-> [t \in Types |-> Nil]]
    /\ chan = [s \in Streams |-> [t \in Types |-> Nil]]
    /\ node = [s \in Streams |-> EmptyNode]
    /\ deltaVersions = [t \in Types |-> NoVersion]
    /\ watches = <<>>
    /\ rpc = [s \in Streams |-> "recv"]
    /\ pending = [s \in Streams |-> Nil]
    /\ reqClosed = [s \in Streams |-> FALSE]
    /\ reqStop = [s \in Streams |-> FALSE]
    /\ ctxDone = FALSE
    /\ sent = [s \in Streams |-> 0]

-----------------------------------------------------------------------------
(***************************************************************************)
(* Processor of stream s.                                                  *)
(***************************************************************************)

(* OnStreamOpen succeeds.                                                  *)
OpenStream(s) ==
    /\ pc[s] = "open"
    /\ pc' = [pc EXCEPT ![s] = "loop"]
    /\ UNCHANGED <<streamNonce, nonce, cancel, chan, node, deltaVersions,
                   watches, readerVars, ctxDone>>

(* OnStreamOpen fails; the deferred teardown, installed first, runs.      *)
OpenStreamFails(s) ==
    /\ pc[s] = "open"
    /\ Failures
    /\ pc' = [pc EXCEPT ![s] = "teardown"]
    /\ UNCHANGED <<streamNonce, nonce, cancel, chan, node, deltaVersions,
                   watches, readerVars, ctxDone>>

(* Mutant: the select has no arm for the server context.                  *)
ContextDoneIgnored(s) == FALSE

(* Case <-s.ctx.Done(): return nil.                                       *)
ContextDone(s) ==
    /\ pc[s] = "loop"
    /\ ctxDone
    /\ pc' = [pc EXCEPT ![s] = "teardown"]
    /\ UNCHANGED <<streamNonce, nonce, cancel, chan, node, deltaVersions,
                   watches, readerVars, ctxDone>>

(* Case resp, more := <-values.deltaX with an answer: send it with the    *)
(* next nonce, record its system version in s.deltaVersions under the    *)
(* lock, then the nonce. Send fails (nothing recorded), or                 *)
(* GetSystemVersion fails after "" was stored in the shared map.          *)
(* Mutant: send() reuses the stream's last nonce.                         *)
SentNonceReused(s) == streamNonce[s]

(* send(): the stream nonce is incremented before the response goes out. *)
SentNonce(s) == streamNonce[s] + 1

Respond(s, t) ==
    LET w == chan[s][t]
        n == SentNonce(s)
    IN  /\ pc[s] = "loop"
        /\ w # Nil
        /\ watches[w].status = "sent"
        /\ watches' = [watches EXCEPT ![w].status = "received"]
        /\ streamNonce' = [streamNonce EXCEPT ![s] = n]
        /\ \/ /\ deltaVersions' = [deltaVersions EXCEPT ![t] = watches[w].answer]
              /\ nonce' = [nonce EXCEPT ![s][t] = n]
              /\ UNCHANGED pc
           \/ /\ Failures
              /\ pc' = [pc EXCEPT ![s] = "teardown"]
              /\ UNCHANGED <<deltaVersions, nonce>>
           \/ /\ Failures
              /\ deltaVersions' = [deltaVersions EXCEPT ![t] = NoVersion]
              /\ pc' = [pc EXCEPT ![s] = "teardown"]
              /\ UNCHANGED nonce
        /\ UNCHANGED <<cancel, chan, node, readerVars, ctxDone>>

(* Case resp, more := <-values.deltaX on a channel the cache closed:      *)
(* "watch failed".                                                         *)
WatchFailed(s, t) ==
    /\ pc[s] = "loop"
    /\ chan[s][t] # Nil
    /\ watches[chan[s][t]].status = "closed"
    /\ pc' = [pc EXCEPT ![s] = "teardown"]
    /\ UNCHANGED <<streamNonce, nonce, cancel, chan, node, deltaVersions,
                   watches, readerVars, ctxDone>>

(* Case req, more := <-reqCh with the channel closed: return nil.         *)
RequestsClosed(s) ==
    /\ pc[s] = "loop"
    /\ reqClosed[s]
    /\ pc' = [pc EXCEPT ![s] = "teardown"]
    /\ UNCHANGED <<streamNonce, nonce, cancel, chan, node, deltaVersions,
                   watches, readerVars, ctxDone>>

(* A nil request, or an ADS request without a type URL.                   *)
LMalformed(r) ==
    IF r = Nil THEN TRUE ELSE DefaultTypeURL = AnyType /\ r.type = NoType

(* A malformed request taken from reqCh ends the stream.                  *)
RejectRequest(s) ==
    /\ pc[s] = "loop"
    /\ rpc[s] = "push"
    /\ LMalformed(pending[s])
    /\ rpc' = [rpc EXCEPT ![s] = "recv"]
    /\ pending' = [pending EXCEPT ![s] = Nil]
    /\ pc' = [pc EXCEPT ![s] = "teardown"]
    /\ UNCHANGED <<streamNonce, nonce, cancel, chan, node, deltaVersions,
                   watches, reqClosed, reqStop, sent, ctxDone>>

(* The type URL a request is handled under.                               *)
LRequestType(r) == IF r.type = NoType THEN DefaultTypeURL ELSE r.type

(* Mutant: the nonce a request acknowledges is always the one it carries. *)
ResponseNonceCarried(s, r) == r.nonce

(* The nonce the request is taken to acknowledge: the one it carries if   *)
(* it names a node, else the last nonce sent on the stream.               *)
ResponseNonce(s, r) == IF r.node # Nil THEN r.nonce ELSE streamNonce[s]

(* Mutant: the request's node is taken even when it carries none.         *)
RehydratedNodeUnguarded(s, r) == r.node

(* The node after the request: the request's if it carries one (which is *)
(* then remembered), else the stream's (which the request is given).     *)
RehydratedNode(s, r) == IF r.node # Nil THEN r.node ELSE node[s]

(* Mutant: the previous watch is not cancelled.                           *)
CancelTrackedNoop(s, t) == watches

(* The watch list once values.deltaXCancel() has been called, if set.     *)
CancelTracked(s, t) ==
    IF cancel[s][t] # Nil /\ watches[cancel[s][t]].status = "active"
    THEN [watches EXCEPT ![cancel[s][t]].status = "cancelled"]
    ELSE watches

(* Case req := <-reqCh, a well-formed request: rehydrate the node, run    *)
(* OnStreamDeltaRequest, then for the type's arm of the switch, if no     *)
(* response was sent for it or the request acknowledges the last one,   *)
(* cancel the type's watch and create a new one against the shared       *)
(* version under the read lock.                                           *)
HandleRequest(s) ==
    /\ pc[s] = "loop"
    /\ rpc[s] = "push"
    /\ ~LMalformed(pending[s])
    /\ LET r == pending[s]
           t == LRequestType(r)
           n == ResponseNonce(s, r)
           id == Len(watches) + 1
       IN  /\ node' = [node EXCEPT ![s] = RehydratedNode(s, r)]
           /\ \/ /\ Failures
                 /\ pc' = [pc EXCEPT ![s] = "teardown"]
                 /\ UNCHANGED <<cancel, chan, watches>>
              \/ /\ nonce[s][t] = 0 \/ nonce[s][t] = n
                 /\ watches' = Append(CancelTracked(s, t),
                                      [stream |-> s, type |-> t,
                                       version |-> deltaVersions[t],
                                       reqNonce |-> r.nonce,
                                       lastNonce |-> nonce[s][t],
                                       status |-> "active",
                                       answer |-> NoVersion])
                 /\ chan' = [chan EXCEPT ![s][t] = id]
                 /\ cancel' = [cancel EXCEPT ![s][t] = id]
                 /\ UNCHANGED pc
              \/ /\ nonce[s][t] # 0 /\ nonce[s][t] # n
                 /\ UNCHANGED <<pc, cancel, chan, watches>>
    /\ rpc' = [rpc EXCEPT ![s] = "recv"]
    /\ pending' = [pending EXCEPT ![s] = Nil]
    /\ UNCHANGED <<streamNonce, nonce, deltaVersions, reqClosed, reqStop,
                   sent, ctxDone>>

(* Mutant: the deferred function only reports the close.                  *)
TeardownWithoutCancelLegacy(s) ==
    /\ pc[s] = "teardown"
    /\ pc' = [pc EXCEPT ![s] = "done"]
    /\ UNCHANGED <<streamNonce, nonce, cancel, chan, node, deltaVersions,
                   watches, readerVars, ctxDone>>

(* The deferred function: values.Cancel() calls every set cancel function *)
(* of the stream, then OnStreamClosed.                                     *)
Teardown(s) ==
    /\ pc[s] = "teardown"
    /\ watches' = [w \in DOMAIN watches |->
                     IF /\ watches[w].stream = s
                        /\ watches[w].status = "active"
                        /\ cancel[s][watches[w].type] = w
                     THEN [watches[w] EXCEPT !.status = "cancelled"]
                     ELSE watches[w]]
    /\ pc' = [pc EXCEPT ![s] = "done"]
    /\ UNCHANGED <<streamNonce, nonce, cancel, chan, node, deltaVersions,
                   readerVars, ctxDone>>

(* deltaHandler after processDelta returned: set reqStop.                 *)
HandlerReturn(s) ==
    /\ pc[s] = "done"
    /\ pc' = [pc EXCEPT ![s] = "returned"]
    /\ reqStop' = [reqStop EXCEPT ![s] = TRUE]
    /\ UNCHANGED <<streamNonce, nonce, cancel, chan, node, deltaVersions,
                   watches, rpc, pending, reqClosed, sent, ctxDone>>

-----------------------------------------------------------------------------
(***************************************************************************)
(* Reader goroutine of stream s, and the transport.                        *)
(***************************************************************************)

(* Recv returns a request; the client may echo any nonce issued so far.   *)
ReaderRecv(s) ==
    /\ rpc[s] = "recv"
    /\ pc[s] # "returned"
    /\ sent[s] < MaxRequests
    /\ \E r \in [type : ReqTypes, nonce : 0..streamNonce[s],
                 node : Nodes \cup {Nil}] \cup {Nil} :
          pending' = [pending EXCEPT ![s] = r]
    /\ sent' = [sent EXCEPT ![s] = @ + 1]
    /\ rpc' = [rpc EXCEPT ![s] = "check"]
    /\ UNCHANGED <<streamVars, deltaVersions, watches, reqClosed, reqStop,
                   ctxDone>>

(* Recv returns an error.                                                 *)
ReaderRecvErr(s) ==
    /\ rpc[s] = "recv"
    /\ pending' = [pending EXCEPT ![s] = RecvErr]
    /\ rpc' = [rpc EXCEPT ![s] = "check"]
    /\ UNCHANGED <<streamVars, deltaVersions, watches, reqClosed, reqStop,
                   sent, ctxDone>>

(* After Recv: exit on reqStop, close reqCh on an error, else push.       *)
ReaderCheck(s) ==
    /\ rpc[s] = "check"
    /\ \/ /\ reqStop[s]
          /\ rpc' = [rpc EXCEPT ![s] = "done"]
          /\ UNCHANGED reqClosed
       \/ /\ ~reqStop[s]
          /\ pending[s] = RecvErr
          /\ reqClosed' = [reqClosed EXCEPT ![s] = TRUE]
          /\ rpc' = [rpc EXCEPT ![s] = "done"]
       \/ /\ ~reqStop[s]
          /\ pending[s] # RecvErr
          /\ rpc' = [rpc EXCEPT ![s] = "push"]
          /\ UNCHANGED reqClosed
    /\ UNCHANGED <<streamVars, deltaVersions, watches, pending, reqStop,
                   sent, ctxDone>>

(* The server context is cancelled.                                       *)
CancelContext ==
    /\ ~ctxDone
    /\ ctxDone' = TRUE
    /\ UNCHANGED <<streamVars, deltaVersions, watches, readerVars>>

-----------------------------------------------------------------------------
(***************************************************************************)
(* Cache (its contract).                                                   *)
(***************************************************************************)

(* An open watch answers once with some system version.                   *)
CacheAnswer(w) ==
    /\ watches[w].status = "active"
    /\ \E v \in Versions :
          watches' = [watches EXCEPT ![w].status = "sent", ![w].answer = v]
    /\ UNCHANGED <<streamVars, deltaVersions, readerVars, ctxDone>>

(* The cache closes the channel of an open watch.                         *)
CacheClose(w) ==
    /\ watches[w].status = "active"
    /\ watches' = [watches EXCEPT ![w].status = "closed"]
    /\ UNCHANGED <<streamVars, deltaVersions, readerVars, ctxDone>>

-----------------------------------------------------------------------------
Processor(s) ==
    \/ OpenStream(s) \/ OpenStreamFails(s) \/ ContextDone(s)
    \/ \E t \in Types : Respond(s, t) \/ WatchFailed(s, t)
    \/ RequestsClosed(s) \/ RejectRequest(s) \/ HandleRequest(s)
    \/ Teardown(s) \/ HandlerReturn(s)

Reader(s) == ReaderRecv(s) \/ ReaderRecvErr(s) \/ ReaderCheck(s)

Cache == \E w \in DOMAIN watches : CacheAnswer(w) \/ CacheClose(w)

Next == (\E s \in Streams : Processor(s) \/ Reader(s)) \/ Cache \/ CancelContext

(* Processor and reader goroutines run when they can; once a handler has *)
(* returned gRPC makes its Recv fail. The clients and the cache get no    *)
(* fairness.                                                               *)
Fairness ==
    \A s \in Streams :
        /\ WF_vars(Processor(s))
        /\ WF_vars(ReaderCheck(s))
        /\ WF_vars(pc[s] = "returned" /\ ReaderRecvErr(s))

Spec == Init /\ [][Next]_vars
FairSpec == Spec /\ Fairness

-----------------------------------------------------------------------------
(***************************************************************************)
(* Properties.                                                             *)
(***************************************************************************)

(* Every variable holds a value of its type.                              *)
TypeOK ==
    /\ pc \in [Streams -> LPCs]
    /\ streamNonce \in [Streams -> Nat]
    /\ nonce \in [Streams -> [Types -> Nat]]
    /\ cancel \in [Streams -> [Types -> DOMAIN watches \cup {Nil}]]
    /\ chan \in [Streams -> [Types -> DOMAIN watches \cup {Nil}]]
    /\ node \in [Streams -> Nodes \cup {EmptyNode}]
    /\ deltaVersions \in [Types -> Versions \cup {NoVersion}]
    /\ watches \in Seq(LWatch)
    /\ rpc \in [Streams -> {"recv", "check", "push", "done"}]
    /\ pending \in [Streams -> LRequest \cup {Nil, RecvErr}]
    /\ reqClosed \in [Streams -> BOOLEAN]
    /\ reqStop \in [Streams -> BOOLEAN]
    /\ ctxDone \in BOOLEAN
    /\ sent \in [Streams -> 0..MaxRequests]

(* The versions stream s has received for type t.                         *)
Received(s, t) ==
    {watches[w].answer : w \in {v \in DOMAIN watches :
        /\ watches[v].stream = s /\ watches[v].type = t
        /\ watches[v].status = "received"}}

(* Every open watch of a stream is the one its cancel field holds for its *)
(* type, on every stream at once: re-creating a watch never leaves the    *)
(* previous one open, whatever the other streams do.                      *)
LegacyWatchTracked ==
    \A w \in DOMAIN watches :
        watches[w].status = "active" =>
            /\ cancel[watches[w].stream][watches[w].type] = w
            /\ chan[watches[w].stream][watches[w].type] = w

(* After a stream's teardown the cache holds no open watch of it.         *)
LegacyTeardownCancels ==
    \A s \in Streams :
        pc[s] \in {"done", "returned"} =>
            \A w \in DOMAIN watches :
                watches[w].stream = s => watches[w].status # "active"

(* Once the server context is cancelled, every handler returns.           *)
LegacyCancelTerminates == ctxDone ~> (\A s \in Streams : pc[s] = "returned")

(* Spec 3 and 4.1: the stream state a watch is created against is the    *)
(* stream's own: every watch is created with the empty version or with a *)
(* version that stream has received for that type.                       *)
StreamVersionOwn ==
    \A w \in DOMAIN watches :
        watches[w].version \in
            {NoVersion} \cup Received(watches[w].stream, watches[w].type)

(* Spec 4.3.2 and 7: a request whose nonce does not match the last nonce *)
(* sent for its type (a NACK or a stale ACK) creates no new watch.        *)
NackNoRewatch ==
    \A w \in DOMAIN watches :
        watches[w].lastNonce # 0 => watches[w].reqNonce = watches[w].lastNonce

-----------------------------------------------------------------------------
(***************************************************************************)
(* Refinement of LegacyStream.                                             *)
(***************************************************************************)

(* The phase of a stream, read off its processor.                          *)
LPhaseOf(p) ==
    CASE p = "open" -> "opening"
      [] p = "loop" -> "serving"
      [] OTHER -> "closed"

(* Stream s has a watch of t registered: values.deltaX is set and its     *)
(* answer has not been received yet.                                       *)
LSubscribed(s, t) == chan[s][t] # Nil /\ watches[chan[s][t]].status # "received"

AbstractLegacy == INSTANCE LegacyStream WITH
    phase <- [s \in Streams |-> LPhaseOf(pc[s])],
    lastNonce <- streamNonce,
    typeNonce <- nonce,
    subscribed <- [s \in Streams |-> [t \in Types |-> LSubscribed(s, t)]]

(* The legacy handler keeps each stream's promise: a stream's responses  *)
(* take its nonces in order, each answers a watch of that stream that the *)
(* stream registered and consumes it, a failed send ends the stream, and *)
(* no step of one stream (nor of the cache on another stream's watch)     *)
(* changes what another stream has been promised.                         *)
ImplementsLegacyStream == AbstractLegacy!Spec
=============================================================================
