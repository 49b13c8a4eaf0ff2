-------------------------- MODULE DeltaServerProofs --------------------------
(***************************************************************************)
(* Proofs about DeltaServer for every value of its constants.              *)
(***************************************************************************)
EXTENDS DeltaServer, SequenceTheorems, TLAPS

USE TypeAssumption, BufferAssumption, BoundAssumption

-----------------------------------------------------------------------------
(* Facts about the operators the model is built from.                     *)

(* A watch map rebuilt pointwise over the ids of a watch list is a watch  *)
(* list (the unsubscribe in HandleRequest and the cancel loop of         *)
(* Teardown rebuild it this way).                                          *)
LEMMA RebuildWatches ==
  ASSUME NEW ws \in Seq(Watch), NEW f \in [DOMAIN ws -> Watch]
  PROVE  f \in Seq(Watch) /\ DOMAIN f = DOMAIN ws
<1>1. DOMAIN ws = 1..Len(ws) /\ Len(ws) \in Nat
  BY LenProperties
<1>2. f \in [1..Len(ws) -> Watch]
  BY <1>1
<1>3. QED
  BY <1>1, <1>2, SeqDef

(* Changing the status of one watch keeps a watch list.                   *)
LEMMA SetStatus ==
  ASSUME NEW ws \in Seq(Watch), NEW w \in DOMAIN ws, NEW x \in Statuses
  PROVE  /\ [ws EXCEPT ![w].status = x] \in Seq(Watch)
         /\ DOMAIN [ws EXCEPT ![w].status = x] = DOMAIN ws
<1>1. ws[w] \in Watch
  BY LenProperties, ElementOfSeq
<1>2. [ws[w] EXCEPT !.status = x] \in Watch
  BY <1>1 DEF Watch
<1>3. QED
  BY <1>2, LenProperties, ExceptSeq

(* The type URL of a request that passes the checks of processDelta is a *)
(* type URL of the stream state.                                           *)
LEMMA RequestTypeOK ==
  ASSUME NEW r \in Request, ~Malformed(r)
  PROVE  RequestType(r) \in Types
<1>1. r # Nil
  BY DEF Malformed
<1>2. ~(DefaultTypeURL = AnyType /\ r.type = NoType)
  BY <1>1 DEF Malformed
<1>3. QED
  BY <1>2 DEF RequestType, Request

-----------------------------------------------------------------------------
(* One lemma per action: it keeps TypeOK.                                 *)

LEMMA OpenStreamTypeOK == TypeOK /\ OpenStream => TypeOK'
  BY DEF OpenStream, TypeOK, PCs

LEMMA OpenStreamFailsTypeOK == TypeOK /\ OpenStreamFails => TypeOK'
  BY DEF OpenStreamFails, TypeOK, PCs

LEMMA ContextDoneTypeOK == TypeOK /\ ContextDone => TypeOK'
  BY DEF ContextDone, TypeOK, PCs

LEMMA RequestsClosedTypeOK == TypeOK /\ RequestsClosed => TypeOK'
  BY DEF RequestsClosed, TypeOK, PCs

LEMMA RejectRequestTypeOK == TypeOK /\ RejectRequest => TypeOK'
  BY DEF RejectRequest, TypeOK, PCs

LEMMA DrainDoneTypeOK == TypeOK /\ DrainDone => TypeOK'
  BY DEF DrainDone, TypeOK, PCs

LEMMA CreateReturnTypeOK == TypeOK /\ CreateReturn => TypeOK'
  BY DEF CreateReturn, TypeOK, PCs

LEMMA HandlerReturnTypeOK == TypeOK /\ HandlerReturn => TypeOK'
  BY DEF HandlerReturn, TypeOK, PCs

LEMMA ReaderRecvTypeOK == TypeOK /\ ReaderRecv => TypeOK'
  BY DEF ReaderRecv, TypeOK, procVars, Request

LEMMA ReaderRecvErrTypeOK == TypeOK /\ ReaderRecvErr => TypeOK'
  BY DEF ReaderRecvErr, TypeOK, procVars

LEMMA ReaderCheckTypeOK == TypeOK /\ ReaderCheck => TypeOK'
  BY DEF ReaderCheck, TypeOK, procVars

LEMMA CancelContextTypeOK == TypeOK /\ CancelContext => TypeOK'
  BY DEF CancelContext, TypeOK, procVars

(* process(): the head of the channel is consumed and, on success, the    *)
(* type's nonce, handle and stream state are replaced.                     *)
LEMMA ProcessTypeOK ==
  ASSUME TypeOK, responses # <<>>, NEW next \in {"loop", "drain"},
         next = "drain" => curType \in Types, Process(next)
  PROVE  TypeOK'
<1> DEFINE r == Head(responses)
           n == streamNonce + 1
<1>1. r \in Response /\ Tail(responses) \in Seq(Response)
      /\ Len(Tail(responses)) = Len(responses) - 1
  BY HeadTailProperties DEF TypeOK
<1>2. r.type \in Types /\ Update(r, n) \in StreamState
  BY <1>1 DEF Response, Update, StreamState, TypeOK
<1>3. responses' \in Seq(Response) /\ Len(responses') <= BufferSize
  <2>1. responses' = Tail(responses)
    BY DEF Process
  <2>2. Len(responses) \in Nat /\ Len(responses) <= BufferSize
    BY LenProperties DEF TypeOK
  <2>3. QED
    BY <1>1, <2>1, <2>2 DEF BufferSize
<1>4. CASE /\ ~muHeld
           /\ streamNonce' = n
           /\ nonces' = [nonces EXCEPT ![r.type] = n]
           /\ cancellations' = [cancellations EXCEPT ![r.type] = Nil]
           /\ states' = [states EXCEPT ![r.type] = Update(r, n)]
           /\ pc' = next
           /\ UNCHANGED muHeld
  BY <1>2, <1>3, <1>4 DEF Process, TypeOK, PCs
<1>5. CASE /\ Failures
           /\ streamNonce' \in {streamNonce, n}
           /\ pc' = "teardown"
           /\ UNCHANGED <<nonces, cancellations, states, muHeld>>
  BY <1>3, <1>5 DEF Process, TypeOK, PCs
<1>6. CASE /\ Failures
           /\ ~muHeld
           /\ streamNonce' = n
           /\ nonces' = [nonces EXCEPT ![r.type] = n]
           /\ cancellations' = [cancellations EXCEPT ![r.type] = Nil]
           /\ states' = [states EXCEPT ![r.type] = [nonce |-> 0, rv |-> {}]]
           /\ muHeld' = TRUE
           /\ pc' = "teardown"
  <2>1. [nonce |-> 0, rv |-> {}] \in StreamState
    BY DEF StreamState
  <2>2. QED
    BY <1>2, <1>3, <1>6, <2>1 DEF Process, TypeOK, PCs
<1>7. QED
  BY <1>4, <1>5, <1>6 DEF Process

LEMMA RespondTypeOK == TypeOK /\ Respond => TypeOK'
  BY ProcessTypeOK DEF Respond

LEMMA DrainOneTypeOK == TypeOK /\ DrainOne => TypeOK'
  BY ProcessTypeOK DEF DrainOne, TypeOK

LEMMA CancelWatchTypeOK == TypeOK /\ CancelWatch => TypeOK'
<1> SUFFICES ASSUME TypeOK, CancelWatch PROVE TypeOK'
  OBVIOUS
<1>1. cancellations[curType] \in DOMAIN watches
  BY DEF TypeOK, CancelWatch
<1>2. watches' \in Seq(Watch) /\ DOMAIN watches' = DOMAIN watches
  BY <1>1, SetStatus DEF CancelWatch, TypeOK, Statuses
<1>3. curType \in Types
  BY DEF TypeOK, CancelWatch
<1>4. QED
  BY <1>2, <1>3 DEF CancelWatch, TypeOK, PCs

LEMMA HandleRequestTypeOK == TypeOK /\ HandleRequest => TypeOK'
<1> SUFFICES ASSUME TypeOK, HandleRequest PROVE TypeOK'
  OBVIOUS
<1> DEFINE r == pending
           t == RequestType(pending)
<1>1. r \in Request /\ ~Malformed(r)
  BY DEF HandleRequest, TypeOK, Malformed
<1>2. t \in Types
  BY <1>1, RequestTypeOK
<1>3. states' \in [Types -> StreamState]
  BY <1>2 DEF HandleRequest, TypeOK, StreamState
<1>4. \A w \in DOMAIN watches :
        [watches[w] EXCEPT !.rv = @ \ r.unsub] \in Watch
  <2> TAKE w \in DOMAIN watches
  <2>1. watches[w] \in Watch
    BY LenProperties, ElementOfSeq DEF TypeOK
  <2>2. watches[w].rv \ r.unsub \in SUBSET Names
    BY <2>1 DEF Watch
  <2>3. QED
    BY <2>1, <2>2 DEF Watch
<1>5. watches' \in Seq(Watch) /\ DOMAIN watches' = DOMAIN watches
  <2> DEFINE f == [w \in DOMAIN watches |->
                     IF SharesMap(w, t)
                     THEN [watches[w] EXCEPT !.rv = @ \ r.unsub]
                     ELSE watches[w]]
  <2>1. f \in [DOMAIN watches -> Watch]
    BY <1>4, LenProperties, ElementOfSeq DEF TypeOK
  <2>2. watches' = f
    BY DEF HandleRequest
  <2>3. QED
    BY <2>1, <2>2, RebuildWatches DEF TypeOK
<1>6. node' \in Nodes \cup {EmptyNode}
  BY <1>1 DEF HandleRequest, TypeOK, Request
<1>7. curUnsub' \in SUBSET Names
  BY <1>1 DEF HandleRequest, Request
<1>8. QED
  BY <1>2, <1>3, <1>5, <1>6, <1>7 DEF HandleRequest, TypeOK, PCs

LEMMA CreateWatchTypeOK == TypeOK /\ CreateWatch => TypeOK'
<1> SUFFICES ASSUME TypeOK, CreateWatch PROVE TypeOK'
  OBVIOUS
<1>1. curType \in Types /\ states[curType] \in StreamState
  BY DEF CreateWatch, TypeOK
<1>2. PICK now \in BOOLEAN, extra \in SUBSET Names :
        /\ watches' = Append(watches,
                         [type |-> curType,
                          status |-> IF now THEN "committed" ELSE "active",
                          basis |-> states[curType].nonce,
                          rv |-> states[curType].rv,
                          vm |-> states[curType].rv \cup extra])
        /\ pc' = IF now THEN "createWait" ELSE "loop"
  BY DEF CreateWatch
<1>3. watches' \in Seq(Watch) /\ Len(watches') = Len(watches) + 1
  BY <1>1, <1>2, AppendProperties DEF Watch, Statuses, StreamState, TypeOK
<1>4. DOMAIN watches' = 1..Len(watches) + 1 /\ Len(watches) \in Nat
  BY <1>3, LenProperties DEF TypeOK
<1>5. cancellations' \in [Types -> DOMAIN watches' \cup {Nil}]
  BY <1>4, LenProperties DEF CreateWatch, TypeOK
<1>6. pc' \in {"cancel", "createWait"} => cancellations'[curType'] # Nil
  <2>1. cancellations'[curType'] = Len(watches) + 1
    BY <1>1 DEF CreateWatch, TypeOK
  <2>2. QED
    BY <1>4, <2>1, TypeAssumption
<1>7. QED
  BY <1>1, <1>2, <1>3, <1>5, <1>6 DEF CreateWatch, TypeOK, PCs

LEMMA TeardownTypeOK == TypeOK /\ Teardown => TypeOK'
<1> SUFFICES ASSUME TypeOK, Teardown PROVE TypeOK'
  OBVIOUS
<1>1. watches' \in Seq(Watch) /\ DOMAIN watches' = DOMAIN watches
  <2> DEFINE f == [w \in DOMAIN watches |->
                     IF /\ watches[w].status = "active"
                        /\ cancellations[watches[w].type] = w
                     THEN [watches[w] EXCEPT !.status = "cancelled"]
                     ELSE watches[w]]
  <2>1. \A w \in DOMAIN watches : watches[w] \in Watch
    BY LenProperties, ElementOfSeq DEF TypeOK
  <2>2. f \in [DOMAIN watches -> Watch]
    BY <2>1 DEF Watch, Statuses
  <2>3. watches' = f
    BY DEF Teardown
  <2>4. QED
    BY <2>2, <2>3, RebuildWatches DEF TypeOK
<1>2. QED
  BY <1>1 DEF Teardown, TypeOK, PCs

LEMMA CacheCommitTypeOK ==
  ASSUME TypeOK, NEW w \in DOMAIN watches, CacheCommit(w) PROVE TypeOK'
<1>1. watches[w] \in Watch
  BY LenProperties, ElementOfSeq DEF TypeOK
<1>2. PICK extra \in SUBSET Names :
        watches' = [watches EXCEPT ![w].status = "committed",
                                   ![w].vm = watches[w].rv \cup extra]
  BY DEF CacheCommit
<1>3. [watches[w] EXCEPT !.status = "committed",
                         !.vm = watches[w].rv \cup extra] \in Watch
  BY <1>1 DEF Watch, Statuses
<1>4. watches' = [watches EXCEPT ![w] = [watches[w] EXCEPT
                      !.status = "committed", !.vm = watches[w].rv \cup extra]]
  BY <1>2
<1>5. watches' \in Seq(Watch) /\ DOMAIN watches' = DOMAIN watches
  BY <1>3, <1>4, LenProperties, ExceptSeq DEF TypeOK
<1>6. QED
  BY <1>5 DEF CacheCommit, TypeOK, procVars

LEMMA CacheDeliverTypeOK ==
  ASSUME TypeOK, NEW w \in DOMAIN watches, CacheDeliver(w) PROVE TypeOK'
<1>1. watches[w] \in Watch /\ w \in Nat
  BY LenProperties, ElementOfSeq DEF TypeOK
<1>2. watches' \in Seq(Watch) /\ DOMAIN watches' = DOMAIN watches
  BY <1>1, SetStatus DEF CacheDeliver, TypeOK, Statuses
<1>3. [w |-> w, type |-> watches[w].type, basis |-> watches[w].basis,
       vm |-> watches[w].vm] \in Response
  BY <1>1 DEF Watch, Response
<1>4. responses' \in Seq(Response) /\ Len(responses') = Len(responses) + 1
  BY <1>3, AppendProperties DEF CacheDeliver, TypeOK
<1>5. Len(responses') <= BufferSize
  BY <1>4, LenProperties DEF CacheDeliver, ChannelHasRoom, TypeOK, BufferSize
<1>6. QED
  BY <1>2, <1>4, <1>5 DEF CacheDeliver, TypeOK, procVars

-----------------------------------------------------------------------------
LEMMA InitTypeOK == Init => TypeOK
<1> SUFFICES ASSUME Init PROVE TypeOK
  OBVIOUS
<1>1. Len(responses) <= BufferSize
  BY DEF Init, BufferSize
<1>2. states \in [Types -> StreamState]
  BY DEF Init, StreamState
<1>3. pending \in Request \cup {Nil, RecvErr} /\ (rpc = "push" => pending # RecvErr)
  BY DEF Init
<1>4. responses \in Seq(Response) /\ watches \in Seq(Watch)
  BY DEF Init
<1>5. nonces \in [Types -> Nat] /\ cancellations \in [Types -> DOMAIN watches \cup {Nil}]
  BY DEF Init
<1>6. pc \in PCs /\ sent \in 0..MaxRequests /\ curType \in Types \cup {Nil}
  BY DEF Init, PCs
<1>7. /\ node \in Nodes \cup {EmptyNode} /\ opened \in BOOLEAN
      /\ closeCalls \in Nat /\ rpc \in {"recv", "check", "push", "done"}
  BY DEF Init
<1>8. QED
  BY <1>1, <1>2, <1>3, <1>4, <1>5, <1>6, <1>7 DEF Init, TypeOK

(* Type correctness of the stream: no step of the processor, the reader   *)
(* or the cache takes a variable out of its type, overfills the buffered *)
(* response channel of processDelta, leaves a deltaCancellations handle   *)
(* naming no watch, or hands the processor something that is not a      *)
(* request.                                                                *)
THEOREM TypeCorrect == Spec => []TypeOK
<1>1. Init => TypeOK
  BY InitTypeOK
<1>2. TypeOK /\ [Next]_vars => TypeOK'
  <2> SUFFICES ASSUME TypeOK, [Next]_vars PROVE TypeOK'
    OBVIOUS
  <2>1. CASE Processor
    BY <2>1, OpenStreamTypeOK, OpenStreamFailsTypeOK, ContextDoneTypeOK,
       RespondTypeOK, RequestsClosedTypeOK, RejectRequestTypeOK,
       HandleRequestTypeOK, CancelWatchTypeOK, DrainOneTypeOK,
       DrainDoneTypeOK, CreateWatchTypeOK, CreateReturnTypeOK,
       TeardownTypeOK, HandlerReturnTypeOK
    DEF Processor
  <2>2. CASE Reader
    BY <2>2, ReaderRecvTypeOK, ReaderRecvErrTypeOK, ReaderCheckTypeOK
    DEF Reader
  <2>3. CASE Cache
    BY <2>3, CacheCommitTypeOK, CacheDeliverTypeOK DEF Cache
  <2>4. CASE CancelContext
    BY <2>4, CancelContextTypeOK
  <2>5. CASE UNCHANGED vars
    BY <2>5 DEF vars, procVars, TypeOK
  <2>6. QED
    BY <2>1, <2>2, <2>3, <2>4, <2>5 DEF Next
<1>3. QED
  BY <1>1, <1>2, PTL DEF Spec

-----------------------------------------------------------------------------
(* values.mu, left locked only by a failing update(), is held only once  *)
(* processDelta has left its loop: every Lock and RLock of the handler   *)
(* finds it free. The invariant is inductive by itself.                   *)
LEMMA MutexStep == MutexReleased /\ [Next]_vars => MutexReleased'
<1> SUFFICES ASSUME MutexReleased, [Next]_vars PROVE MutexReleased'
  OBVIOUS
<1>1. CASE Respond \/ DrainOne
  <2>1. PICK next \in {"loop", "drain"} : Process(next)
    BY <1>1 DEF Respond, DrainOne
  <2>2. QED
    BY <2>1 DEF Process, MutexReleased
<1>2. CASE \/ OpenStream \/ OpenStreamFails \/ ContextDone \/ RequestsClosed
           \/ RejectRequest \/ HandleRequest \/ CancelWatch \/ DrainDone
           \/ CreateWatch \/ CreateReturn \/ Teardown \/ HandlerReturn
  BY <1>2 DEF OpenStream, OpenStreamFails, ContextDone, RequestsClosed,
              RejectRequest, HandleRequest, CancelWatch, DrainDone,
              CreateWatch, CreateReturn, Teardown, HandlerReturn,
              MutexReleased
<1>3. CASE Reader \/ Cache \/ CancelContext \/ UNCHANGED vars
  BY <1>3 DEF Reader, ReaderRecv, ReaderRecvErr, ReaderCheck, Cache,
              CacheCommit, CacheDeliver, CancelContext, vars, procVars,
              MutexReleased
<1>4. QED
  BY <1>1, <1>2, <1>3 DEF Next, Processor

(* No step of processDelta ever waits on values.mu: a failing update()   *)
(* leaves it locked only on the way to teardown.                          *)
THEOREM MutexNeverBlocks == Spec => []MutexReleased
<1>1. Init => MutexReleased
  BY DEF Init, MutexReleased
<1>2. QED
  BY <1>1, MutexStep, PTL DEF Spec
-----------------------------------------------------------------------------
(* The nonce bookkeeping of processDelta, inductive together with TypeOK. *)

(* Steps that leave the nonces and the stream states alone and never     *)
(* return from teardown into the loop.                                     *)
LEMMA NoncesFrame ==
  ASSUME NoncesConsistent, UNCHANGED <<streamNonce, nonces, states>>,
         pc' \notin {"teardown", "done", "returned"} =>
            pc \notin {"teardown", "done", "returned"}
  PROVE  NoncesConsistent'
  BY DEF NoncesConsistent

(* process() records the fresh nonce n = streamNonce + 1 for the head     *)
(* answer's type: n exceeds every nonce recorded so far, so it is the only *)
(* one of its value, and on success the installed state carries it.       *)
LEMMA ProcessNonces ==
  ASSUME TypeOK, NoncesConsistent, responses # <<>>,
         NEW next \in {"loop", "drain"}, pc = next, Process(next)
  PROVE  NoncesConsistent'
<1> DEFINE r == Head(responses)
           t == r.type
           n == streamNonce + 1
<1>1. t \in Types /\ streamNonce \in Nat /\ nonces \in [Types -> Nat]
  <2>1. r \in Response
    BY HeadTailProperties DEF TypeOK
  <2>2. QED
    BY <2>1 DEF Response, TypeOK
<1>2. \A u \in Types : nonces[u] < n
  BY <1>1 DEF NoncesConsistent
<1>3. ASSUME streamNonce' = n, nonces' = [nonces EXCEPT ![t] = n]
      PROVE  /\ \A u \in Types : nonces'[u] <= streamNonce'
             /\ \A t1, t2 \in Types :
                   t1 # t2 /\ nonces'[t1] # 0 => nonces'[t1] # nonces'[t2]
  <2>1. \A u \in Types : nonces'[u] = IF u = t THEN n ELSE nonces[u]
    BY <1>1, <1>3
  <2>2. \A u \in Types : nonces'[u] <= streamNonce'
    BY <1>1, <1>2, <1>3, <2>1
  <2>3. ASSUME NEW t1 \in Types, NEW t2 \in Types, t1 # t2, nonces'[t1] # 0
        PROVE  nonces'[t1] # nonces'[t2]
    <3>1. CASE t1 = t
      BY <1>1, <1>2, <2>1, <2>3, <3>1
    <3>2. CASE t2 = t
      BY <1>1, <1>2, <2>1, <2>3, <3>2
    <3>3. CASE t1 # t /\ t2 # t
      BY <2>1, <2>3, <3>3 DEF NoncesConsistent
    <3>4. QED
      BY <3>1, <3>2, <3>3
  <2>4. QED
    BY <2>2, <2>3
<1>4. CASE /\ streamNonce' = n
           /\ nonces' = [nonces EXCEPT ![t] = n]
           /\ states' = [states EXCEPT ![t] = Update(r, n)]
           /\ pc' = next
  <2>1. \A u \in Types : states'[u].nonce = nonces'[u]
    <3>1. states'[t].nonce = n /\ nonces'[t] = n
      BY <1>1, <1>4 DEF Update, TypeOK
    <3>2. \A u \in Types \ {t} :
             states'[u] = states[u] /\ nonces'[u] = nonces[u]
      BY <1>4 DEF TypeOK
    <3>3. \A u \in Types : states[u].nonce = nonces[u]
      BY DEF NoncesConsistent
    <3>4. QED
      BY <3>1, <3>2, <3>3
  <2>2. QED
    BY <1>3, <1>4, <2>1 DEF NoncesConsistent
<1>5. CASE /\ streamNonce' \in {streamNonce, n}
           /\ pc' = "teardown"
           /\ UNCHANGED nonces
  BY <1>1, <1>5 DEF NoncesConsistent
<1>6. CASE /\ streamNonce' = n
           /\ nonces' = [nonces EXCEPT ![t] = n]
           /\ pc' = "teardown"
  BY <1>3, <1>6 DEF NoncesConsistent
<1>7. QED
  BY <1>4, <1>5, <1>6 DEF Process

(* Handling a request only removes names from a version map; its nonce   *)
(* stays.                                                                  *)
LEMMA HandleRequestNonces ==
  ASSUME TypeOK, NoncesConsistent, HandleRequest PROVE NoncesConsistent'
<1>0. pending \in Request /\ ~Malformed(pending)
  BY DEF HandleRequest, TypeOK, Malformed
<1>1. RequestType(pending) \in Types
  BY <1>0, RequestTypeOK
<1>2. \A u \in Types : states'[u].nonce = states[u].nonce
  BY <1>1 DEF HandleRequest, TypeOK, StreamState
<1>3. UNCHANGED <<streamNonce, nonces>> /\ pc = "loop"
  BY DEF HandleRequest
<1>4. QED
  BY <1>2, <1>3 DEF NoncesConsistent

LEMMA NoncesStep ==
  ASSUME TypeOK, NoncesConsistent, [Next]_vars PROVE NoncesConsistent'
<1>1. CASE Respond
  BY <1>1, ProcessNonces DEF Respond
<1>2. CASE DrainOne
  BY <1>2, ProcessNonces DEF DrainOne
<1>3. CASE HandleRequest
  BY <1>3, HandleRequestNonces
<1>4. CASE \/ OpenStream \/ OpenStreamFails \/ ContextDone \/ RequestsClosed
           \/ RejectRequest \/ CancelWatch \/ DrainDone \/ CreateWatch
           \/ CreateReturn \/ Teardown \/ HandlerReturn
  <2>1. UNCHANGED <<streamNonce, nonces, states>>
    BY <1>4 DEF OpenStream, OpenStreamFails, ContextDone, RequestsClosed,
                RejectRequest, CancelWatch, DrainDone, CreateWatch,
                CreateReturn, Teardown, HandlerReturn
  <2>2. pc' \notin {"teardown", "done", "returned"} =>
           pc \notin {"teardown", "done", "returned"}
    BY <1>4 DEF OpenStream, OpenStreamFails, ContextDone, RequestsClosed,
                RejectRequest, CancelWatch, DrainDone, CreateWatch,
                CreateReturn, Teardown, HandlerReturn
  <2>3. QED
    BY <2>1, <2>2, NoncesFrame
<1>5. CASE Reader \/ Cache \/ CancelContext \/ UNCHANGED vars
  <2>1. UNCHANGED <<streamNonce, nonces, states, pc>>
    BY <1>5 DEF Reader, ReaderRecv, ReaderRecvErr, ReaderCheck, Cache,
                CacheCommit, CacheDeliver, CancelContext, vars, procVars
  <2>2. QED
    BY <2>1, NoncesFrame
<1>6. QED
  BY <1>1, <1>2, <1>3, <1>4, <1>5 DEF Next, Processor

(* For every value of the constants and either cache behaviour, a nonce  *)
(* processDelta records for a type was issued by send(), no two types    *)
(* record the same nonce, and while the loop runs the stream state       *)
(* passed to CreateDeltaWatch carries its type's recorded nonce.         *)
THEOREM NoncesTracked == Spec => []NoncesConsistent
<1>1. Init => NoncesConsistent
  BY DEF Init, NoncesConsistent
<1>2. TypeOK /\ NoncesConsistent /\ [Next]_vars => NoncesConsistent'
  BY NoncesStep
<1>3. QED
  BY <1>1, <1>2, TypeCorrect, PTL DEF Spec

=============================================================================
