------------------------- MODULE DeltaServerRegistry -------------------------
(***************************************************************************)
(* With a cache that sends under its lock, the watch registry of          *)
(* processDelta (deltaCancellations) tracks every watch the cache may     *)
(* still answer, and no answer is computed against a stale stream state: *)
(* WatchRegistry is an invariant, inductive together with TypeOK.         *)
(***************************************************************************)
EXTENDS DeltaServerProofs

(* The inductive invariant.                                               *)
IInv == TypeOK /\ WatchRegistry

(* Nil is not a watch id.                                                 *)
LEMMA NilNotWatch ==
  ASSUME TypeOK, NEW w \in DOMAIN watches PROVE w # Nil /\ w \in Nat
  BY LenProperties, TypeAssumption DEF TypeOK

(* The elements of the watch list and of the channel have their types.    *)
LEMMA Elements ==
  ASSUME TypeOK
  PROVE  /\ \A v \in DOMAIN watches : watches[v] \in Watch
         /\ \A i \in DOMAIN responses : responses[i] \in Response
<1>1. \A v \in DOMAIN watches : watches[v] \in Watch
  <2> TAKE v \in DOMAIN watches
  <2>1. v \in 1..Len(watches)
    BY LenProperties DEF TypeOK
  <2>2. QED
    BY <2>1, ElementOfSeq DEF TypeOK
<1>2. \A i \in DOMAIN responses : responses[i] \in Response
  <2> TAKE i \in DOMAIN responses
  <2>1. i \in 1..Len(responses)
    BY LenProperties DEF TypeOK
  <2>2. QED
    BY <2>1, ElementOfSeq DEF TypeOK
<1>3. QED
  BY <1>1, <1>2

-----------------------------------------------------------------------------
(* Steps that leave the registry, the channel and the stream state alone. *)

LEMMA FrameRegistry ==
  ASSUME WatchRegistry,
         UNCHANGED <<watches, responses, cancellations, states>>,
         pc' \in {"drain", "create"} => UNCHANGED <<pc, curType>>
  PROVE  WatchRegistry'
  BY DEF WatchRegistry

LEMMA QuietStepsRegistry ==
  ASSUME WatchRegistry,
         \/ OpenStream \/ OpenStreamFails \/ ContextDone \/ RequestsClosed
         \/ RejectRequest \/ CreateReturn \/ HandlerReturn
         \/ ReaderRecv \/ ReaderRecvErr \/ ReaderCheck \/ CancelContext
  PROVE  WatchRegistry'
<1>1. UNCHANGED <<watches, responses, cancellations, states>>
  BY DEF OpenStream, OpenStreamFails, ContextDone, RequestsClosed,
         RejectRequest, CreateReturn, HandlerReturn, ReaderRecv,
         ReaderRecvErr, ReaderCheck, CancelContext, procVars
<1>2. pc' \in {"drain", "create"} => UNCHANGED <<pc, curType>>
  BY DEF OpenStream, OpenStreamFails, ContextDone, RequestsClosed,
         RejectRequest, CreateReturn, HandlerReturn, ReaderRecv,
         ReaderRecvErr, ReaderCheck, CancelContext, procVars
<1>3. QED
  BY <1>1, <1>2, FrameRegistry

LEMMA DrainDoneRegistry ==
  ASSUME WatchRegistry, DrainDone PROVE WatchRegistry'
<1>1. DOMAIN responses' = {}
  BY DEF DrainDone
<1>2. QED
  BY <1>1 DEF DrainDone, WatchRegistry

(* The deferred values.Cancel() only turns open watches into cancelled   *)
(* ones.                                                                   *)
LEMMA TeardownRegistry ==
  ASSUME TypeOK, WatchRegistry, Teardown PROVE WatchRegistry'
<1>1. DOMAIN watches' = DOMAIN watches
  BY DEF Teardown
<1>2. \A w \in DOMAIN watches :
        \/ watches'[w] = watches[w]
        \/ /\ watches[w].status = "active"
           /\ watches'[w].status = "cancelled"
           /\ watches'[w].type = watches[w].type
  BY DEF Teardown
<1>3. UNCHANGED <<responses, cancellations, states>> /\ pc' = "done"
  BY DEF Teardown
<1>4. QED
  BY <1>1, <1>2, <1>3 DEF WatchRegistry

(* cancel() stops the tracked watch of the type; the cache holds no       *)
(* committed answer, so none of its watches can answer any more.          *)
LEMMA CancelWatchRegistry ==
  ASSUME LockedSend, TypeOK, WatchRegistry, CancelWatch
  PROVE  WatchRegistry'
<1> DEFINE c == cancellations[curType]
<1>1. c \in DOMAIN watches /\ curType \in Types
  BY DEF TypeOK, CancelWatch
<1>2. \A w \in DOMAIN watches : watches[w].status # "committed"
  BY DEF CancelWatch, CacheFree
<1>3. DOMAIN watches' = DOMAIN watches
  BY DEF CancelWatch
<1>4. \A w \in DOMAIN watches :
        \/ watches'[w] = watches[w]
        \/ /\ w = c
           /\ watches[w].status = "active"
           /\ watches'[w].status = "cancelled"
           /\ watches'[w].type = watches[w].type
  BY <1>1 DEF CancelWatch
<1>5. watches'[c].status \notin {"active", "committed"}
  <2>1. CASE watches[c].status = "active"
    <3>1. watches[c] \in Watch
      BY <1>1, ElementOfSeq, LenProperties DEF TypeOK
    <3>2. watches' = [watches EXCEPT ![c].status = "cancelled"]
      BY <2>1 DEF CancelWatch
    <3>3. QED
      BY <1>1, <3>1, <3>2 DEF Watch
  <2>2. CASE watches[c].status # "active"
    BY <1>1, <1>2, <2>2 DEF CancelWatch
  <2>3. QED
    BY <2>1, <2>2
<1>6. \A w \in DOMAIN watches :
        watches'[w].type = curType => watches'[w].status \notin {"active", "committed"}
  <2> SUFFICES ASSUME NEW w \in DOMAIN watches, watches'[w].type = curType
               PROVE  watches'[w].status \notin {"active", "committed"}
    OBVIOUS
  <2>1. CASE w = c
    BY <1>5, <2>1
  <2>2. CASE w # c
    <3>1. watches'[w] = watches[w]
      BY <1>4, <2>2
    <3>2. watches[w].status = "active" /\ watches[w].type = curType => w = c
      BY DEF WatchRegistry
    <3>3. QED
      BY <1>2, <2>2, <3>1, <3>2
  <2>3. QED
    BY <2>1, <2>2
<1>7. UNCHANGED <<responses, cancellations, states, curType>> /\ pc' = "drain"
  BY DEF CancelWatch
<1>8. QED
  BY <1>3, <1>4, <1>6, <1>7 DEF WatchRegistry

(* The cache commits to answering an open watch: the watch was tracked    *)
(* and current, and stays so.                                              *)
LEMMA CacheCommitRegistry ==
  ASSUME TypeOK, WatchRegistry, NEW w \in DOMAIN watches, CacheCommit(w)
  PROVE  WatchRegistry'
<1>1. watches[w] \in Watch
  BY ElementOfSeq, LenProperties DEF TypeOK
<1>2. PICK extra \in SUBSET Names :
        watches' = [watches EXCEPT ![w].status = "committed",
                                   ![w].vm = watches[w].rv \cup extra]
  BY DEF CacheCommit
<1>3. /\ DOMAIN watches' = DOMAIN watches
      /\ \A v \in DOMAIN watches :
            /\ watches'[v].type = watches[v].type
            /\ watches'[v].basis = watches[v].basis
            /\ v # w => watches'[v].status = watches[v].status
      /\ watches'[w].status = "committed"
  BY <1>1, <1>2 DEF Watch
<1>4. watches[w].status = "active"
  BY DEF CacheCommit
<1>5. UNCHANGED <<responses, cancellations, states, pc, curType>>
  BY DEF CacheCommit, procVars
<1>6. QED
  BY <1>3, <1>4, <1>5 DEF WatchRegistry

(* A committed answer enters the channel: it comes from the tracked watch *)
(* of its type, and no other answer of that type is queued.              *)
LEMMA CacheDeliverRegistry ==
  ASSUME TypeOK, WatchRegistry, NEW w \in DOMAIN watches, CacheDeliver(w)
  PROVE  WatchRegistry'
<1> DEFINE resp == [w |-> w, type |-> watches[w].type,
                    basis |-> watches[w].basis, vm |-> watches[w].vm]
<1>1. watches[w] \in Watch /\ watches[w].status = "committed"
  BY ElementOfSeq, LenProperties DEF TypeOK, CacheDeliver
<1>2. /\ DOMAIN watches' = DOMAIN watches
      /\ \A v \in DOMAIN watches :
            /\ watches'[v].type = watches[v].type
            /\ watches'[v].basis = watches[v].basis
            /\ v # w => watches'[v].status = watches[v].status
      /\ watches'[w].status = "fired"
  BY <1>1 DEF CacheDeliver, Watch
<1>3. /\ responses' = Append(responses, resp)
      /\ Len(responses) \in Nat
      /\ DOMAIN responses' = 1..Len(responses) + 1
      /\ \A i \in DOMAIN responses : responses'[i] = responses[i]
      /\ responses'[Len(responses) + 1] = resp
  BY LenProperties DEF CacheDeliver, TypeOK
<1>4. /\ cancellations[watches[w].type] = w
      /\ watches[w].basis = states[watches[w].type].nonce
  BY <1>1 DEF WatchRegistry
<1>5. \A i \in DOMAIN responses : responses[i].type # watches[w].type
  BY <1>1, <1>4 DEF WatchRegistry
<1>6. pc \in {"drain", "create"} => watches[w].type # curType
  BY <1>1 DEF WatchRegistry
<1>7. UNCHANGED <<cancellations, states, pc, curType>>
  BY DEF CacheDeliver, procVars
<1>8. DOMAIN responses = 1..Len(responses)
  BY LenProperties DEF TypeOK
<1>9. QED
  BY <1>2, <1>3, <1>4, <1>5, <1>6, <1>7, <1>8 DEF WatchRegistry

(* process() consumes the head answer: its type's handle is the fired     *)
(* watch that produced it, so no open watch of that type is lost when the *)
(* handle is cleared, and no other queued answer has that type.           *)
LEMMA ProcessRegistry ==
  ASSUME TypeOK, WatchRegistry, responses # <<>>, NEW next \in {"loop", "drain"},
         next = "drain" => pc = "drain", Process(next)
  PROVE  WatchRegistry'
<1> DEFINE r == Head(responses)
           t == r.type
           n == streamNonce + 1
<1>1. /\ Len(responses) \in Nat \ {0}
      /\ DOMAIN responses = 1..Len(responses)
      /\ r = responses[1]
      /\ responses' = Tail(responses)
      /\ DOMAIN responses' = 1..Len(responses) - 1
      /\ \A i \in DOMAIN responses' : responses'[i] = responses[i + 1]
  BY HeadTailProperties, LenProperties, EmptySeq DEF TypeOK, Process
<1>2. /\ r.w \in DOMAIN watches
      /\ watches[r.w].status = "fired"
      /\ cancellations[t] = r.w
      /\ t \in Types
  <2>1. 1 \in DOMAIN responses
    BY <1>1
  <2>2. r \in Response
    BY <1>1, <2>1, ElementOfSeq DEF TypeOK
  <2>3. QED
    BY <1>1, <2>1, <2>2 DEF WatchRegistry, Response
<1>3. \A w \in DOMAIN watches :
        watches[w].status \in {"active", "committed"} => watches[w].type # t
  BY <1>2 DEF WatchRegistry
<1>4. \A i \in DOMAIN responses' : responses'[i].type # t
  BY <1>1 DEF WatchRegistry
<1>5. UNCHANGED <<watches, curType>>
  BY DEF Process
<1>6. CASE /\ cancellations' = [cancellations EXCEPT ![t] = Nil]
           /\ \E v : states' = [states EXCEPT ![t] = v]
           /\ pc' \in {next, "teardown"}
  <2>1. \A u \in Types \ {t} :
           cancellations'[u] = cancellations[u] /\ states'[u] = states[u]
    <3>1. PICK v : states' = [states EXCEPT ![t] = v]
      BY <1>6
    <3>2. QED
      BY <1>6, <3>1 DEF TypeOK
  <2>2. pc' \in {"drain", "create"} => pc = "drain"
    BY <1>6
  <2>3. ASSUME NEW w \in DOMAIN watches,
               watches[w].status \in {"active", "committed"}
        PROVE  /\ cancellations'[watches[w].type] = w
               /\ watches[w].basis = states'[watches[w].type].nonce
    <3>0. watches[w] \in Watch
      BY ElementOfSeq, LenProperties DEF TypeOK
    <3>1. watches[w].type \in Types \ {t}
      BY <1>3, <2>3, <3>0 DEF Watch
    <3>2. QED
      BY <2>1, <2>3, <3>1 DEF WatchRegistry
  <2>4. ASSUME NEW i \in DOMAIN responses'
        PROVE  /\ responses'[i].w \in DOMAIN watches
               /\ watches[responses'[i].w].status = "fired"
               /\ watches[responses'[i].w].type = responses'[i].type
               /\ cancellations'[responses'[i].type] = responses'[i].w
               /\ responses'[i].basis = states'[responses'[i].type].nonce
    <3>1. i + 1 \in DOMAIN responses /\ responses'[i] = responses[i + 1]
      BY <1>1
    <3>0. responses[i + 1] \in Response
      BY <3>1, ElementOfSeq, LenProperties DEF TypeOK
    <3>2. responses'[i].type \in Types \ {t}
      BY <1>4, <3>0, <3>1 DEF Response
    <3>3. QED
      BY <2>1, <3>1, <3>2 DEF WatchRegistry
  <2>5. \A i, j \in DOMAIN responses' :
           responses'[i].type = responses'[j].type => i = j
    BY <1>1 DEF WatchRegistry
  <2>6. pc' \in {"drain", "create"} => pc' = "drain" /\ pc = "drain"
    BY <1>6
  <2>7. QED
    BY <1>5, <2>3, <2>4, <2>5, <2>6 DEF WatchRegistry
<1>7. CASE /\ pc' = "teardown"
           /\ UNCHANGED <<cancellations, states>>
  BY <1>1, <1>5, <1>7 DEF WatchRegistry
<1>8. QED
  <2>1. CASE /\ cancellations' = [cancellations EXCEPT ![t] = Nil]
             /\ states' = [states EXCEPT ![t] = Update(r, n)]
             /\ pc' = next
    BY <2>1, <1>6
  <2>2. CASE /\ cancellations' = [cancellations EXCEPT ![t] = Nil]
             /\ states' = [states EXCEPT ![t] = [nonce |-> 0, rv |-> {}]]
             /\ pc' = "teardown"
    BY <2>2, <1>6
  <2>3. QED
    BY <1>7, <2>1, <2>2 DEF Process

LEMMA RespondRegistry ==
  ASSUME TypeOK, WatchRegistry, Respond PROVE WatchRegistry'
  BY ProcessRegistry DEF Respond

LEMMA DrainOneRegistry ==
  ASSUME TypeOK, WatchRegistry, DrainOne PROVE WatchRegistry'
  BY ProcessRegistry DEF DrainOne

(* Handling a request only removes names from version maps; it asks for a *)
(* new watch without cancelling only when it holds no handle for the type,*)
(* and then no watch or queued answer of that type exists.                *)
LEMMA HandleRequestRegistry ==
  ASSUME TypeOK, WatchRegistry, HandleRequest PROVE WatchRegistry'
<1> DEFINE t == RequestType(pending)
<1>1. pending \in Request /\ ~Malformed(pending)
  BY DEF HandleRequest, TypeOK, Malformed
<1>2. t \in Types
  BY <1>1, RequestTypeOK
<1>3. /\ DOMAIN watches' = DOMAIN watches
      /\ \A v \in DOMAIN watches :
            /\ watches'[v].type = watches[v].type
            /\ watches'[v].status = watches[v].status
            /\ watches'[v].basis = watches[v].basis
  <2>1. \A v \in DOMAIN watches : watches[v] \in Watch
    BY ElementOfSeq, LenProperties DEF TypeOK
  <2>2. QED
    BY <2>1 DEF HandleRequest, Watch
<1>4. \A u \in Types : states'[u].nonce = states[u].nonce
  BY <1>2 DEF HandleRequest, TypeOK, StreamState
<1>5. UNCHANGED <<responses, cancellations>> /\ curType' = t
  BY DEF HandleRequest
<1>6. pc' # "drain" /\ (pc' = "create" => cancellations[t] = Nil)
  BY DEF HandleRequest
<1>7. \A v \in DOMAIN watches : v # Nil
  BY NilNotWatch
<1>8. \A v \in DOMAIN watches : watches[v].type \in Types
  BY Elements DEF Watch
<1>9. \A i \in DOMAIN responses : responses[i].type \in Types
  BY Elements DEF Response
<1>10. QED
  BY <1>3, <1>4, <1>5, <1>6, <1>7, <1>8, <1>9 DEF WatchRegistry

(* CreateDeltaWatch installs the handle of a watch current with the       *)
(* stream state, for a type with no other answering watch and no queued  *)
(* answer.                                                                 *)
LEMMA CreateWatchRegistry ==
  ASSUME TypeOK, WatchRegistry, CreateWatch PROVE WatchRegistry'
<1> DEFINE k == Len(watches) + 1
<1>1. curType \in Types /\ Len(watches) \in Nat /\ DOMAIN watches = 1..Len(watches)
  BY LenProperties DEF CreateWatch, TypeOK
<1>2. PICK now \in BOOLEAN, extra \in SUBSET Names :
        /\ watches' = Append(watches,
                         [type |-> curType,
                          status |-> IF now THEN "committed" ELSE "active",
                          basis |-> states[curType].nonce,
                          rv |-> states[curType].rv,
                          vm |-> states[curType].rv \cup extra])
        /\ pc' = IF now THEN "createWait" ELSE "loop"
  BY DEF CreateWatch
<1>3. /\ DOMAIN watches' = 1..k
      /\ \A v \in DOMAIN watches : watches'[v] = watches[v]
      /\ watches'[k].type = curType
      /\ watches'[k].basis = states[curType].nonce
  BY <1>1, <1>2
<1>4. /\ cancellations' = [cancellations EXCEPT ![curType] = k]
      /\ UNCHANGED <<responses, states, curType>>
  BY DEF CreateWatch
<1>5. \A v \in DOMAIN watches :
        watches[v].type = curType => watches[v].status \notin {"active", "committed"}
  BY DEF CreateWatch, WatchRegistry
<1>6. \A i \in DOMAIN responses : responses[i].type # curType
  BY DEF CreateWatch, WatchRegistry
<1>7. \A v \in DOMAIN watches : watches[v].type \in Types
  BY Elements DEF Watch
<1>8. \A i \in DOMAIN responses : responses[i].type \in Types
  BY Elements DEF Response
<1>9. pc' \notin {"drain", "create"}
  BY <1>2
<1>10. \A u \in Types \ {curType} : cancellations'[u] = cancellations[u]
  BY <1>4 DEF TypeOK
<1>11. cancellations'[curType] = k
  BY <1>1, <1>4 DEF TypeOK
<1>12. ASSUME NEW v \in DOMAIN watches',
              watches'[v].status \in {"active", "committed"}
       PROVE  /\ cancellations'[watches'[v].type] = v
              /\ watches'[v].basis = states'[watches'[v].type].nonce
  <2>1. CASE v = k
    BY <1>3, <1>4, <1>11, <2>1
  <2>2. CASE v \in DOMAIN watches
    <3>1. watches[v].type \in Types \ {curType}
      BY <1>3, <1>5, <1>7, <1>12, <2>2
    <3>2. QED
      BY <1>3, <1>4, <1>10, <1>12, <2>2, <3>1 DEF WatchRegistry
  <2>3. QED
    BY <1>1, <1>3, <2>1, <2>2
<1>13. ASSUME NEW i \in DOMAIN responses'
       PROVE  /\ responses'[i].w \in DOMAIN watches'
              /\ watches'[responses'[i].w].status = "fired"
              /\ watches'[responses'[i].w].type = responses'[i].type
              /\ cancellations'[responses'[i].type] = responses'[i].w
              /\ responses'[i].basis = states'[responses'[i].type].nonce
  <2>1. responses[i].type \in Types \ {curType}
    BY <1>4, <1>6, <1>8
  <2>2. responses[i].w \in DOMAIN watches
    BY <1>4 DEF WatchRegistry
  <2>3. QED
    BY <1>1, <1>3, <1>4, <1>10, <2>1, <2>2 DEF WatchRegistry
<1>14. QED
  BY <1>4, <1>9, <1>12, <1>13 DEF WatchRegistry

-----------------------------------------------------------------------------
LEMMA InitRegistry == Init => WatchRegistry
  BY DEF Init, WatchRegistry

LEMMA NextRegistry ==
  ASSUME LockedSend, TypeOK, WatchRegistry, [Next]_vars PROVE WatchRegistry'
<1>1. CASE Processor
  BY <1>1, QuietStepsRegistry, RespondRegistry, HandleRequestRegistry,
     CancelWatchRegistry, DrainOneRegistry, DrainDoneRegistry,
     CreateWatchRegistry, TeardownRegistry
  DEF Processor
<1>2. CASE Reader \/ CancelContext
  BY <1>2, QuietStepsRegistry DEF Reader
<1>3. CASE Cache
  BY <1>3, CacheCommitRegistry, CacheDeliverRegistry DEF Cache
<1>4. CASE UNCHANGED vars
  BY <1>4 DEF vars, procVars, WatchRegistry
<1>5. QED
  BY <1>1, <1>2, <1>3, <1>4 DEF Next

(* With a cache that sends under its lock, the cancel-then-drain of the   *)
(* request handler of processDelta keeps deltaCancellations exact: every *)
(* reachable state satisfies the registry invariant.                      *)
THEOREM RegistryInvariant ==
  ASSUME LockedSend PROVE Spec => []IInv
<1>1. Init => IInv
  BY InitTypeOK, InitRegistry DEF IInv
<1>2. IInv /\ [Next]_vars => IInv'
  <2> SUFFICES ASSUME IInv, [Next]_vars PROVE IInv'
    OBVIOUS
  <2>1. TypeOK'
    <3>1. CASE Processor
      BY <3>1, OpenStreamTypeOK, OpenStreamFailsTypeOK, ContextDoneTypeOK,
         RespondTypeOK, RequestsClosedTypeOK, RejectRequestTypeOK,
         HandleRequestTypeOK, CancelWatchTypeOK, DrainOneTypeOK,
         DrainDoneTypeOK, CreateWatchTypeOK, CreateReturnTypeOK,
         TeardownTypeOK, HandlerReturnTypeOK
      DEF Processor, IInv
    <3>2. CASE Reader
      BY <3>2, ReaderRecvTypeOK, ReaderRecvErrTypeOK, ReaderCheckTypeOK
      DEF Reader, IInv
    <3>3. CASE Cache
      BY <3>3, CacheCommitTypeOK, CacheDeliverTypeOK DEF Cache, IInv
    <3>4. CASE CancelContext
      BY <3>4, CancelContextTypeOK DEF IInv
    <3>5. CASE UNCHANGED vars
      BY <3>5 DEF vars, procVars, TypeOK, IInv
    <3>6. QED
      BY <3>1, <3>2, <3>3, <3>4, <3>5 DEF Next
  <2>2. WatchRegistry'
    BY NextRegistry DEF IInv
  <2>3. QED
    BY <2>1, <2>2 DEF IInv
<1>3. QED
  BY <1>1, <1>2, PTL DEF Spec

(* The registry invariant itself, for a cache sending under its lock.     *)
THEOREM RegistryHolds ==
  ASSUME LockedSend PROVE Spec => []WatchRegistry
<1>1. IInv => WatchRegistry
  BY DEF IInv
<1>2. QED
  BY <1>1, RegistryInvariant, PTL

(* Every watch the cache still holds open for the stream is the one whose *)
(* handle deltaCancellations keeps for its type (cache sending under its *)
(* lock).                                                                  *)
THEOREM WatchesTracked ==
  ASSUME LockedSend PROVE Spec => []LiveWatchTracked
<1>1. IInv => LiveWatchTracked
  BY DEF IInv, WatchRegistry, LiveWatchTracked
<1>2. QED
  BY <1>1, RegistryInvariant, PTL

(* No answer in the channel, or committed by the cache, was computed      *)
(* against a stream state processDelta has since replaced (cache sending *)
(* under its lock).                                                        *)
THEOREM NoStaleAnswers ==
  ASSUME LockedSend PROVE Spec => []NoStaleDelta
<1>1. IInv => NoStaleDelta
  BY DEF IInv, WatchRegistry, NoStaleDelta
<1>2. QED
  BY <1>1, RegistryInvariant, PTL
-----------------------------------------------------------------------------
(***************************************************************************)
(* Handles are released only when their watch is done. The strengthening  *)
(* of IInv: a handle names a watch of its own type, and while the loop    *)
(* runs, a tracked watch that has fired still has its answer queued (the  *)
(* answer's process() is what clears the handle; a failing process() may *)
(* consume it without clearing, but then the loop is left for good).      *)
(***************************************************************************)

(* deltaCancellations[t] is the handle of a watch of type t.              *)
HandleTyped ==
    \A t \in Types : cancellations[t] # Nil => watches[cancellations[t]].type = t

(* The steps after which processDelta never reads the registry again.     *)
Finished == {"teardown", "done", "returned"}

(* While processDelta runs its loop, a fired tracked watch is still       *)
(* waiting in the channel.                                                 *)
FiredQueued ==
    pc \notin Finished =>
        \A t \in Types :
            cancellations[t] # Nil /\ watches[cancellations[t]].status = "fired" =>
                \E i \in DOMAIN responses : responses[i].w = cancellations[t]

HInv == HandleTyped /\ FiredQueued

(* Steps that keep the channel and the handles, never make a watch fired, *)
(* never change a watch's type, and never leave Finished.                 *)
LEMMA HandleFrame ==
  ASSUME TypeOK, HInv,
         DOMAIN watches' = DOMAIN watches,
         \A v \in DOMAIN watches :
            /\ watches'[v].type = watches[v].type
            /\ watches'[v].status = "fired" => watches[v].status = "fired",
         UNCHANGED <<responses, cancellations>>,
         pc' \notin Finished => pc \notin Finished
  PROVE  HInv'
<1>1. \A t \in Types : cancellations[t] \in DOMAIN watches \cup {Nil}
  BY DEF TypeOK
<1>2. HandleTyped'
  BY <1>1 DEF HInv, HandleTyped
<1>3. FiredQueued'
  BY <1>1 DEF HInv, FiredQueued
<1>4. QED
  BY <1>2, <1>3 DEF HInv

LEMMA QuietStepsHandles ==
  ASSUME TypeOK, HInv,
         \/ OpenStream \/ OpenStreamFails \/ ContextDone \/ RequestsClosed
         \/ RejectRequest \/ CreateReturn \/ HandlerReturn \/ DrainDone
         \/ ReaderRecv \/ ReaderRecvErr \/ ReaderCheck \/ CancelContext
         \/ Teardown
  PROVE  HInv'
<1>1. CASE Teardown
  <2>1. pc' = "done" /\ UNCHANGED <<cancellations>> /\ DOMAIN watches' = DOMAIN watches
    BY <1>1 DEF Teardown
  <2>2. \A v \in DOMAIN watches : watches'[v].type = watches[v].type
    BY <1>1 DEF Teardown
  <2>3. HandleTyped'
    BY <2>1, <2>2 DEF TypeOK, HInv, HandleTyped
  <2>4. FiredQueued'
    BY <2>1 DEF FiredQueued, Finished
  <2>5. QED
    BY <2>3, <2>4 DEF HInv
<1>2. CASE ~Teardown
  <2>1. UNCHANGED <<watches, responses, cancellations>>
    BY <1>2 DEF OpenStream, OpenStreamFails, ContextDone, RequestsClosed,
           RejectRequest, CreateReturn, HandlerReturn, DrainDone, ReaderRecv,
           ReaderRecvErr, ReaderCheck, CancelContext, procVars
  <2>2. pc' \notin Finished => pc \notin Finished
    BY <1>2 DEF OpenStream, OpenStreamFails, ContextDone, RequestsClosed,
           RejectRequest, CreateReturn, HandlerReturn, DrainDone, ReaderRecv,
           ReaderRecvErr, ReaderCheck, CancelContext, procVars, Finished
  <2>3. QED
    BY <2>1, <2>2, HandleFrame
<1>3. QED
  BY <1>1, <1>2

(* cancel() only turns an active watch into a cancelled one.              *)
LEMMA CancelWatchHandles ==
  ASSUME TypeOK, HInv, CancelWatch PROVE HInv'
<1> DEFINE c == cancellations[curType]
<1>1. c \in DOMAIN watches /\ curType \in Types
  BY DEF TypeOK, CancelWatch
<1>2. DOMAIN watches' = DOMAIN watches
  BY DEF CancelWatch
<1>3. \A v \in DOMAIN watches :
        \/ watches'[v] = watches[v]
        \/ /\ watches[v].status = "active"
           /\ watches'[v].status = "cancelled"
           /\ watches'[v].type = watches[v].type
  BY <1>1 DEF CancelWatch
<1>4. UNCHANGED <<responses, cancellations>> /\ pc' = "drain"
  BY DEF CancelWatch
<1>5. \A v \in DOMAIN watches :
        /\ watches'[v].type = watches[v].type
        /\ watches'[v].status = "fired" => watches[v].status = "fired"
  BY <1>3
<1>6. pc \notin Finished
  BY DEF CancelWatch, Finished
<1>7. QED
  BY <1>2, <1>4, <1>5, <1>6, HandleFrame

(* Handling a request changes version maps only.                          *)
LEMMA HandleRequestHandles ==
  ASSUME TypeOK, HInv, HandleRequest PROVE HInv'
<1>1. /\ DOMAIN watches' = DOMAIN watches
      /\ \A v \in DOMAIN watches :
            /\ watches'[v].type = watches[v].type
            /\ watches'[v].status = watches[v].status
  <2>1. \A v \in DOMAIN watches : watches[v] \in Watch
    BY Elements
  <2>2. QED
    BY <2>1 DEF HandleRequest, Watch
<1>2. UNCHANGED <<responses, cancellations>> /\ pc = "loop"
  BY DEF HandleRequest
<1>3. pc \notin Finished
  BY <1>2 DEF Finished
<1>4. QED
  BY <1>1, <1>2, <1>3, HandleFrame

(* The cache commits to an answer: the watch is not yet fired.            *)
LEMMA CacheCommitHandles ==
  ASSUME TypeOK, HInv, NEW w \in DOMAIN watches, CacheCommit(w)
  PROVE  HInv'
<1>1. watches[w] \in Watch
  BY Elements
<1>2. PICK extra \in SUBSET Names :
        watches' = [watches EXCEPT ![w].status = "committed",
                                   ![w].vm = watches[w].rv \cup extra]
  BY DEF CacheCommit
<1>3. /\ DOMAIN watches' = DOMAIN watches
      /\ \A v \in DOMAIN watches :
            /\ watches'[v].type = watches[v].type
            /\ watches'[v].status = "fired" => watches[v].status = "fired"
  BY <1>1, <1>2 DEF Watch
<1>4. UNCHANGED <<responses, cancellations, pc>>
  BY DEF CacheCommit, procVars
<1>5. QED
  BY <1>3, <1>4, HandleFrame

(* A committed answer enters the channel: the watch that fires has its    *)
(* answer queued, and every answer queued before stays queued.            *)
LEMMA CacheDeliverHandles ==
  ASSUME TypeOK, HInv, NEW w \in DOMAIN watches, CacheDeliver(w)
  PROVE  HInv'
<1> DEFINE resp == [w |-> w, type |-> watches[w].type,
                    basis |-> watches[w].basis, vm |-> watches[w].vm]
<1>1. watches[w] \in Watch
  BY Elements
<1>2. /\ DOMAIN watches' = DOMAIN watches
      /\ \A v \in DOMAIN watches :
            /\ watches'[v].type = watches[v].type
            /\ v # w => watches'[v].status = watches[v].status
  BY <1>1 DEF CacheDeliver, Watch
<1>3. /\ Len(responses) \in Nat
      /\ DOMAIN responses' = 1..Len(responses) + 1
      /\ DOMAIN responses = 1..Len(responses)
      /\ \A i \in DOMAIN responses : responses'[i] = responses[i]
      /\ responses'[Len(responses) + 1].w = w
  BY LenProperties DEF CacheDeliver, TypeOK
<1>4. UNCHANGED <<cancellations, pc>>
  BY DEF CacheDeliver, procVars
<1>5. \A t \in Types : cancellations[t] \in DOMAIN watches \cup {Nil}
  BY DEF TypeOK
<1>6. HandleTyped'
  BY <1>2, <1>4, <1>5 DEF HInv, HandleTyped
<1>7. FiredQueued'
  <2> SUFFICES ASSUME pc' \notin Finished, NEW t \in Types,
                      cancellations'[t] # Nil,
                      watches'[cancellations'[t]].status = "fired"
               PROVE  \E i \in DOMAIN responses' : responses'[i].w = cancellations'[t]
    BY DEF FiredQueued
  <2>1. CASE cancellations[t] = w
    BY <1>3, <1>4, <2>1
  <2>2. CASE cancellations[t] # w
    <3>1. watches[cancellations[t]].status = "fired"
      BY <1>2, <1>4, <1>5, <2>2
    <3>2. PICK i \in DOMAIN responses : responses[i].w = cancellations[t]
      BY <1>4, <3>1 DEF HInv, FiredQueued
    <3>3. QED
      BY <1>3, <1>4, <3>2
  <2>3. QED
    BY <2>1, <2>2
<1>8. QED
  BY <1>6, <1>7 DEF HInv

(* process() of the head answer clears only the handle of the watch that  *)
(* produced it, whose answer is the one consumed.                          *)
LEMMA ProcessHandles ==
  ASSUME TypeOK, WatchRegistry, HInv, responses # <<>>,
         NEW next \in {"loop", "drain"}, pc = next, Process(next)
  PROVE  HInv'
<1> DEFINE r == Head(responses)
           t == r.type
<1>1. /\ Len(responses) \in Nat \ {0}
      /\ DOMAIN responses = 1..Len(responses)
      /\ r = responses[1]
      /\ DOMAIN responses' = 1..Len(responses) - 1
      /\ \A i \in DOMAIN responses' : responses'[i] = responses[i + 1]
  BY HeadTailProperties, LenProperties, EmptySeq DEF TypeOK, Process
<1>2. /\ r.w \in DOMAIN watches
      /\ cancellations[t] = r.w
      /\ t \in Types
  <2>1. 1 \in DOMAIN responses
    BY <1>1
  <2>2. r \in Response
    BY <1>1, <2>1, Elements
  <2>3. QED
    BY <1>1, <2>1, <2>2 DEF WatchRegistry, Response
<1>3. UNCHANGED watches
  BY DEF Process
<1>4. \/ cancellations' = [cancellations EXCEPT ![t] = Nil] /\ pc' \in {next, "teardown"}
      \/ UNCHANGED cancellations /\ pc' = "teardown"
  BY DEF Process
<1>5. \A u \in Types : cancellations[u] \in DOMAIN watches \cup {Nil}
  BY DEF TypeOK
<1>6. \A u \in Types : cancellations'[u] # Nil => cancellations'[u] = cancellations[u]
  BY <1>2, <1>4 DEF TypeOK
<1>7. HandleTyped'
  BY <1>3, <1>5, <1>6 DEF HInv, HandleTyped
<1>8. FiredQueued'
  <2> SUFFICES ASSUME pc' \notin Finished, NEW u \in Types,
                      cancellations'[u] # Nil,
                      watches'[cancellations'[u]].status = "fired"
               PROVE  \E i \in DOMAIN responses' : responses'[i].w = cancellations'[u]
    BY DEF FiredQueued
  <2>1. cancellations' = [cancellations EXCEPT ![t] = Nil] /\ pc \notin Finished
    BY <1>4 DEF Finished
  <2>0. r.w # Nil
    BY <1>2, NilNotWatch
  <2>2. u # t /\ cancellations'[u] = cancellations[u]
    BY <1>2, <2>1 DEF TypeOK
  <2>3. PICK i \in DOMAIN responses : responses[i].w = cancellations[u]
    BY <1>3, <2>1, <2>2 DEF HInv, FiredQueued
  <2>4. watches[cancellations[u]].type = u /\ watches[r.w].type = t
    BY <1>2, <2>0, <2>2 DEF HInv, HandleTyped
  <2>5. i # 1
    BY <1>1, <2>2, <2>3, <2>4
  <2>6. i - 1 \in DOMAIN responses' /\ responses'[i - 1] = responses[i]
    BY <1>1, <2>5
  <2>7. QED
    BY <2>2, <2>3, <2>6
<1>9. QED
  BY <1>7, <1>8 DEF HInv

(* CreateDeltaWatch installs the handle of a new watch of the type; the   *)
(* new watch has not fired.                                                *)
LEMMA CreateWatchHandles ==
  ASSUME TypeOK, HInv, CreateWatch PROVE HInv'
<1> DEFINE k == Len(watches) + 1
<1>1. curType \in Types /\ Len(watches) \in Nat /\ DOMAIN watches = 1..Len(watches)
  BY LenProperties DEF CreateWatch, TypeOK
<1>2. PICK now \in BOOLEAN, extra \in SUBSET Names :
        watches' = Append(watches,
                     [type |-> curType,
                      status |-> IF now THEN "committed" ELSE "active",
                      basis |-> states[curType].nonce,
                      rv |-> states[curType].rv,
                      vm |-> states[curType].rv \cup extra])
  BY DEF CreateWatch
<1>3. /\ DOMAIN watches' = 1..k
      /\ \A v \in DOMAIN watches : watches'[v] = watches[v]
      /\ watches'[k].type = curType
      /\ watches'[k].status # "fired"
  BY <1>1, <1>2
<1>4. /\ \A u \in Types \ {curType} : cancellations'[u] = cancellations[u]
      /\ cancellations'[curType] = k
  BY <1>1 DEF CreateWatch, TypeOK
<1>5. \A u \in Types : cancellations[u] \in DOMAIN watches \cup {Nil}
  BY DEF TypeOK
<1>6. UNCHANGED responses /\ pc = "create"
  BY DEF CreateWatch
<1>7. HandleTyped'
  BY <1>3, <1>4, <1>5 DEF HInv, HandleTyped
<1>8. FiredQueued'
  BY <1>3, <1>4, <1>5, <1>6 DEF HInv, FiredQueued, Finished
<1>9. QED
  BY <1>7, <1>8 DEF HInv

LEMMA InitHandles == Init => HInv
  BY DEF Init, HInv, HandleTyped, FiredQueued

LEMMA NextHandles ==
  ASSUME TypeOK, WatchRegistry, HInv, [Next]_vars PROVE HInv'
<1>1. CASE Processor
  <2>1. CASE Respond
    BY <2>1, ProcessHandles DEF Respond
  <2>2. CASE DrainOne
    BY <2>2, ProcessHandles DEF DrainOne
  <2>3. QED
    BY <1>1, <2>1, <2>2, QuietStepsHandles, HandleRequestHandles,
       CancelWatchHandles, CreateWatchHandles
    DEF Processor
<1>2. CASE Reader \/ CancelContext
  BY <1>2, QuietStepsHandles DEF Reader
<1>3. CASE Cache
  BY <1>3, CacheCommitHandles, CacheDeliverHandles DEF Cache
<1>4. CASE UNCHANGED vars
  BY <1>4 DEF vars, procVars, HInv, HandleTyped, FiredQueued
<1>5. QED
  BY <1>1, <1>2, <1>3, <1>4 DEF Next

(* process() drops the handle of exactly the watch whose answer it takes. *)
LEMMA ProcessReleases ==
  ASSUME TypeOK, WatchRegistry, responses # <<>>,
         NEW next \in {"loop", "drain"}, Process(next)
  PROVE  HandleReleased
<1> DEFINE r == Head(responses)
           t == r.type
<1>1. /\ r = responses[1]
      /\ 1 \in DOMAIN responses
  BY HeadTailProperties, LenProperties, EmptySeq DEF TypeOK
<1>2. cancellations[t] = r.w /\ t \in Types
  BY <1>1, Elements DEF WatchRegistry, Response
<1>3. \/ cancellations' = [cancellations EXCEPT ![t] = Nil]
      \/ UNCHANGED cancellations
  BY DEF Process
<1>4. SUFFICES ASSUME NEW u \in Types, cancellations[u] # Nil,
                      cancellations'[u] # cancellations[u]
               PROVE  /\ cancellations'[u] = Nil
                      /\ responses # <<>>
                      /\ Head(responses).w = cancellations[u]
  BY DEF HandleReleased
<1>5. u = t /\ cancellations'[u] = Nil
  BY <1>2, <1>3, <1>4 DEF TypeOK
<1>6. QED
  BY <1>2, <1>5

(* CreateDeltaWatch overwrites the handle of a watch that cancel() has    *)
(* stopped: the drain left no answer of the type queued, so the old watch *)
(* can be neither open nor fired.                                          *)
LEMMA CreateWatchReleases ==
  ASSUME TypeOK, WatchRegistry, HInv, CreateWatch PROVE HandleReleased
<1>1. SUFFICES ASSUME NEW u \in Types, cancellations[u] # Nil,
                      cancellations'[u] # cancellations[u]
               PROVE  /\ cancellations'[u] # Nil
                      /\ watches[cancellations[u]].status = "cancelled"
  BY DEF HandleReleased
<1> DEFINE c == cancellations[u]
<1>2. u = curType /\ cancellations'[u] = Len(watches) + 1
  BY <1>1 DEF CreateWatch, TypeOK
<1>3. cancellations'[u] # Nil
  <2>1. Len(watches) + 1 \in Nat
    BY LenProperties DEF TypeOK
  <2>2. QED
    BY <1>2, <2>1, TypeAssumption
<1>4. c \in DOMAIN watches /\ watches[c] \in Watch
  BY <1>1, Elements DEF TypeOK
<1>5. watches[c].type = curType
  BY <1>1, <1>2 DEF HInv, HandleTyped
<1>6. pc = "create"
  BY DEF CreateWatch
<1>7. watches[c].status \notin {"active", "committed"}
  BY <1>4, <1>5, <1>6 DEF WatchRegistry
<1>8. watches[c].status # "fired"
  <2> SUFFICES ASSUME watches[c].status = "fired" PROVE FALSE
    OBVIOUS
  <2>1. PICK i \in DOMAIN responses : responses[i].w = c
    BY <1>1, <1>6 DEF HInv, FiredQueued, Finished
  <2>2. watches[c].type = responses[i].type
    BY <2>1 DEF WatchRegistry
  <2>3. QED
    BY <1>5, <1>6, <2>2 DEF WatchRegistry
<1>9. QED
  BY <1>3, <1>4, <1>7, <1>8 DEF Watch, Statuses

LEMMA ReleasedStep ==
  ASSUME TypeOK, WatchRegistry, HInv, [Next]_vars PROVE [HandleReleased]_vars
<1>1. CASE Respond
  BY <1>1, ProcessReleases DEF Respond
<1>2. CASE DrainOne
  BY <1>2, ProcessReleases DEF DrainOne
<1>3. CASE CreateWatch
  BY <1>3, CreateWatchReleases
<1>4. CASE UNCHANGED cancellations
  BY <1>4 DEF HandleReleased
<1>5. QED
  <2>1. CASE Processor
    BY <1>1, <1>2, <1>3, <1>4, <2>1
    DEF Processor, OpenStream, OpenStreamFails, ContextDone, RequestsClosed,
        RejectRequest, HandleRequest, CancelWatch, DrainDone, CreateReturn,
        Teardown, HandlerReturn
  <2>2. CASE Reader \/ Cache \/ CancelContext
    BY <1>4, <2>2 DEF Reader, ReaderRecv, ReaderRecvErr, ReaderCheck, Cache,
       CacheCommit, CacheDeliver, CancelContext, procVars
  <2>3. CASE UNCHANGED vars
    BY <1>4, <2>3 DEF vars, procVars
  <2>4. QED
    BY <2>1, <2>2, <2>3 DEF Next

(* With a cache that sends under its lock, every reachable state keeps    *)
(* handles typed and fired tracked watches queued, besides IInv.          *)
THEOREM HandleInvariant ==
  ASSUME LockedSend PROVE Spec => [](IInv /\ HInv)
<1>1. Init => HInv
  BY InitHandles
<1>2. IInv /\ HInv /\ [Next]_vars => HInv'
  BY NextHandles DEF IInv
<1>3. QED
  BY <1>1, <1>2, RegistryInvariant, PTL DEF Spec

(* No step of processDelta loses a watch handle (cache sending under its  *)
(* lock): the nil assignment of process() drops only the handle of the   *)
(* watch whose answer it is processing, and a new CreateDeltaWatch        *)
(* replaces only the handle of a watch cancel() has stopped.               *)
THEOREM HandlesReleased ==
  ASSUME LockedSend PROVE Spec => HandleReleasedWhenDone
<1>1. IInv /\ HInv /\ [Next]_vars => [HandleReleased]_vars
  BY ReleasedStep DEF IInv
<1>2. QED
  BY <1>1, HandleInvariant, PTL DEF Spec, HandleReleasedWhenDone

=============================================================================
