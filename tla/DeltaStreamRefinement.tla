------------------------ MODULE DeltaStreamRefinement ------------------------
(***************************************************************************)
(* processDelta implements DeltaStream under the refinement mapping of    *)
(* DeltaServer (AbstractStream), for a cache that sends under its lock.   *)
(* Each step of the processor is a step of the abstract stream or leaves  *)
(* the mapped state alone; the registry invariant supplies the one fact   *)
(* that is not local: the response at the head of the channel answers the *)
(* watch still registered for its type.                                    *)
(***************************************************************************)
EXTENDS DeltaServerRegistry

(* The mapped state.                                                       *)
Subscribed == [t \in Types |-> cancellations[t] # Nil]
AbsVars == <<StreamPhaseOf(pc), streamNonce, states, Subscribed>>

(* A step that is the abstract Next or leaves the mapped state alone.     *)
AbsStep == [AbstractStream!Next]_AbsVars

-----------------------------------------------------------------------------
(* The phase of each value of pc.                                          *)
LEMMA PhaseOf ==
  ASSUME NEW p
  PROVE  /\ p = "open" => StreamPhaseOf(p) = "opening"
         /\ p \in {"teardown", "done", "returned"} => StreamPhaseOf(p) = "closed"
         /\ p \in {"loop", "cancel", "drain", "create", "createWait"} =>
               StreamPhaseOf(p) = "serving"
  BY DEF StreamPhaseOf

(* A step that keeps the phase, the nonce counter, the stream states and *)
(* the handles is a stuttering step of the abstract stream.               *)
LEMMA Stutter ==
  ASSUME StreamPhaseOf(pc') = StreamPhaseOf(pc),
         UNCHANGED <<streamNonce, states, cancellations>>
  PROVE  AbsStep
  BY DEF AbsStep, AbsVars, Subscribed

(* The processor steps that stay inside one phase without touching the   *)
(* mapped state.                                                           *)
LEMMA QuietRefines ==
  ASSUME TypeOK,
         \/ CancelWatch \/ DrainDone \/ CreateReturn \/ Teardown
         \/ HandlerReturn \/ Reader \/ Cache \/ CancelContext
  PROVE  AbsStep
<1>1. UNCHANGED <<streamNonce, states, cancellations>>
  BY DEF CancelWatch, DrainDone, CreateReturn, Teardown, HandlerReturn,
         Reader, ReaderRecv, ReaderRecvErr, ReaderCheck, Cache, CacheCommit,
         CacheDeliver, CancelContext, procVars
<1>2. StreamPhaseOf(pc') = StreamPhaseOf(pc)
  <2>1. CASE CancelWatch \/ DrainDone \/ CreateReturn
    <3>1. pc \in {"loop", "cancel", "drain", "create", "createWait"}
          /\ pc' \in {"loop", "cancel", "drain", "create", "createWait"}
      BY <2>1 DEF CancelWatch, DrainDone, CreateReturn
    <3>2. QED
      BY <3>1, PhaseOf
  <2>2. CASE Teardown \/ HandlerReturn
    <3>1. pc \in {"teardown", "done", "returned"}
          /\ pc' \in {"teardown", "done", "returned"}
      BY <2>2 DEF Teardown, HandlerReturn
    <3>2. QED
      BY <3>1, PhaseOf
  <2>3. CASE Reader \/ Cache \/ CancelContext
    BY <2>3 DEF Reader, ReaderRecv, ReaderRecvErr, ReaderCheck, Cache,
                CacheCommit, CacheDeliver, CancelContext, procVars
  <2>4. QED
    BY <2>1, <2>2, <2>3
<1>3. QED
  BY <1>1, <1>2, Stutter

(* OnDeltaStreamOpen returning nil opens the abstract stream.              *)
LEMMA OpenStreamRefines ==
  ASSUME OpenStream PROVE AbsStep
<1>1. StreamPhaseOf(pc) = "opening" /\ StreamPhaseOf(pc') = "serving"
  BY PhaseOf DEF OpenStream
<1>2. AbstractStream!Open
  BY <1>1 DEF OpenStream, AbstractStream!Open, Subscribed
<1>3. QED
  BY <1>2 DEF AbsStep, AbstractStream!Next

(* Leaving the loop, or failing to open, closes the abstract stream.      *)
LEMMA LeaveRefines ==
  ASSUME OpenStreamFails \/ ContextDone \/ RequestsClosed \/ RejectRequest
  PROVE  AbsStep
<1>1. StreamPhaseOf(pc) \in {"opening", "serving"}
      /\ StreamPhaseOf(pc') = "closed"
  BY PhaseOf DEF OpenStreamFails, ContextDone, RequestsClosed, RejectRequest
<1>2. UNCHANGED <<streamNonce, states, cancellations>>
  BY DEF OpenStreamFails, ContextDone, RequestsClosed, RejectRequest
<1>3. AbstractStream!Close
  BY <1>1, <1>2 DEF AbstractStream!Close, Subscribed
<1>4. QED
  BY <1>3 DEF AbsStep, AbstractStream!Next

(* CreateDeltaWatch registers a watch for the type being handled.         *)
LEMMA CreateWatchRefines ==
  ASSUME TypeOK, CreateWatch PROVE AbsStep
<1>1. curType \in Types
  BY DEF CreateWatch, TypeOK
<1>2. StreamPhaseOf(pc) = "serving" /\ StreamPhaseOf(pc') = "serving"
  <2>1. pc = "create" /\ pc' \in {"createWait", "loop"}
    BY DEF CreateWatch
  <2>2. QED
    BY <2>1, PhaseOf
<1>3. Len(watches) + 1 # Nil
  BY LenProperties, TypeAssumption DEF TypeOK
<1>4. Subscribed' = [Subscribed EXCEPT ![curType] = TRUE]
  <2>1. cancellations' = [cancellations EXCEPT ![curType] = Len(watches) + 1]
    BY DEF CreateWatch
  <2>2. QED
    BY <1>1, <1>3, <2>1 DEF Subscribed, TypeOK
<1>5. UNCHANGED <<streamNonce, states>>
  BY DEF CreateWatch
<1>6. PICK c \in Types : c = curType
  BY <1>1
<1>7. AbstractStream!Subscribe(c)
  BY <1>2, <1>4, <1>5, <1>6 DEF AbstractStream!Subscribe, Subscribed
<1>8. QED
  BY <1>7 DEF AbsStep, AbstractStream!Next

(* A well-formed request unsubscribes names of its type and goes on, or   *)
(* its callback fails and the stream ends.                                *)
LEMMA HandleRequestRefines ==
  ASSUME TypeOK, HandleRequest PROVE AbsStep
<1> DEFINE r == pending
           t == RequestType(r)
<1>1. r \in Request /\ ~Malformed(r)
  BY DEF HandleRequest, TypeOK, Malformed
<1>2. t \in Types /\ r.unsub \in SUBSET Names
  BY <1>1, RequestTypeOK DEF Request
<1>3. states' = [states EXCEPT ![t].rv = @ \ r.unsub]
  BY DEF HandleRequest
<1>4. StreamPhaseOf(pc) = "serving"
      /\ StreamPhaseOf(pc') \in {"serving", "closed"}
  <2>1. pc = "loop"
        /\ pc' \in {"teardown", "cancel", "create", "loop"}
    BY DEF HandleRequest
  <2>2. QED
    BY <2>1, PhaseOf
<1>5. UNCHANGED <<streamNonce, cancellations>>
  BY DEF HandleRequest
<1>6. AbstractStream!Request(t, r.unsub)
  BY <1>3, <1>4, <1>5 DEF AbstractStream!Request, Subscribed
<1>7. QED
  BY <1>2, <1>6 DEF AbsStep, AbstractStream!Next

(* process() sends the response at the head of the channel: the watch it  *)
(* answers is the one registered for its type, so the abstract stream     *)
(* applies it; a failing send ends the stream, touching only that type.  *)
LEMMA ProcessRefines ==
  ASSUME TypeOK, WatchRegistry, responses # <<>>,
         pc \in {"loop", "drain"}, NEW next \in {"loop", "drain"},
         Process(next)
  PROVE  AbsStep
<1> DEFINE r == Head(responses)
           n == streamNonce + 1
<1>1. r = responses[1] /\ 1 \in DOMAIN responses
  BY HeadTailProperties, LenProperties, EmptySeq DEF TypeOK
<1>2. r \in Response
  BY <1>1, ElementOfSeq DEF TypeOK
<1>3. /\ r.w \in DOMAIN watches
      /\ cancellations[r.type] = r.w
  BY <1>1 DEF WatchRegistry
<1>4. PICK t \in Types : t = r.type
  BY <1>2 DEF Response
<1>5. Subscribed[t]
  BY <1>3, <1>4, NilNotWatch DEF Subscribed
<1>6. StreamPhaseOf(pc) = "serving"
  BY PhaseOf
<1>7. CASE /\ streamNonce' = n
           /\ nonces' = [nonces EXCEPT ![r.type] = n]
           /\ cancellations' = [cancellations EXCEPT ![r.type] = Nil]
           /\ states' = [states EXCEPT ![r.type] = Update(r, n)]
           /\ pc' = next
  <2>1. StreamPhaseOf(pc') = "serving"
    BY <1>7, PhaseOf
  <2>2. states' = [states EXCEPT ![t] = [nonce |-> n, rv |-> r.vm]]
    BY <1>4, <1>7 DEF Update
  <2>3. Subscribed' = [Subscribed EXCEPT ![t] = FALSE]
    BY <1>4, <1>7 DEF Subscribed, TypeOK
  <2>4. PICK vm \in SUBSET Names : vm = r.vm
    BY <1>2 DEF Response
  <2>5. AbstractStream!Apply(t, vm)
    BY <1>5, <1>6, <1>7, <2>1, <2>2, <2>3, <2>4
    DEF AbstractStream!Apply, Subscribed
  <2>6. QED
    BY <2>4, <2>5 DEF AbsStep, AbstractStream!Next
<1>8. CASE /\ streamNonce' \in {streamNonce, n}
           /\ pc' = "teardown"
           /\ UNCHANGED <<nonces, cancellations, states>>
  <2>1. StreamPhaseOf(pc') = "closed"
    BY <1>8, PhaseOf
  <2>2. AbstractStream!FailSend(t)
    BY <1>5, <1>6, <1>8, <2>1 DEF AbstractStream!FailSend, Subscribed
  <2>3. QED
    BY <2>2 DEF AbsStep, AbstractStream!Next
<1>9. CASE /\ streamNonce' = n
           /\ cancellations' = [cancellations EXCEPT ![r.type] = Nil]
           /\ states' = [states EXCEPT ![r.type] = [nonce |-> 0, rv |-> {}]]
           /\ pc' = "teardown"
  <2>1. StreamPhaseOf(pc') = "closed"
    BY <1>9, PhaseOf
  <2>2. states' = [states EXCEPT ![t] = [nonce |-> 0, rv |-> {}]]
    BY <1>4, <1>9
  <2>3. Subscribed' = [Subscribed EXCEPT ![t] = FALSE]
    BY <1>4, <1>9 DEF Subscribed, TypeOK
  <2>4. AbstractStream!FailSend(t)
    BY <1>5, <1>6, <1>9, <2>1, <2>2, <2>3
    DEF AbstractStream!FailSend, Subscribed
  <2>5. QED
    BY <2>4 DEF AbsStep, AbstractStream!Next
<1>10. QED
  BY <1>7, <1>8, <1>9 DEF Process

-----------------------------------------------------------------------------
(* The initial state of processDelta is the initial abstract stream.     *)
LEMMA InitRefines == Init => AbstractStream!Init
<1> SUFFICES ASSUME Init PROVE AbstractStream!Init
  OBVIOUS
<1>1. StreamPhaseOf(pc) = "opening"
  BY PhaseOf DEF Init
<1>2. Subscribed = [t \in Types |-> FALSE]
  BY TypeAssumption DEF Init, Subscribed
<1>3. QED
  BY <1>1, <1>2 DEF Init, AbstractStream!Init

(* Every step of processDelta, the reader and the cache is an abstract   *)
(* step or a stutter, in a state of the inductive invariant.              *)
LEMMA NextRefines ==
  ASSUME IInv, [Next]_vars PROVE AbsStep
<1>1. TypeOK /\ WatchRegistry
  BY DEF IInv
<1>2. CASE Respond
  BY <1>1, <1>2, ProcessRefines DEF Respond
<1>3. CASE DrainOne
  BY <1>1, <1>3, ProcessRefines DEF DrainOne
<1>4. CASE OpenStream
  BY <1>4, OpenStreamRefines
<1>5. CASE OpenStreamFails \/ ContextDone \/ RequestsClosed \/ RejectRequest
  BY <1>5, LeaveRefines
<1>6. CASE CreateWatch
  BY <1>1, <1>6, CreateWatchRefines
<1>7. CASE HandleRequest
  BY <1>1, <1>7, HandleRequestRefines
<1>8. CASE \/ CancelWatch \/ DrainDone \/ CreateReturn \/ Teardown
           \/ HandlerReturn \/ Reader \/ Cache \/ CancelContext
  BY <1>1, <1>8, QuietRefines
<1>9. CASE UNCHANGED vars
  BY <1>9, Stutter DEF vars, procVars
<1>10. QED
  BY <1>2, <1>3, <1>4, <1>5, <1>6, <1>7, <1>8, <1>9 DEF Next, Processor

(* With a cache that sends under its lock, processDelta implements the   *)
(* abstract delta stream: responses are applied only to subscribed types,*)
(* consume the subscription and carry consecutive nonces, and nothing    *)
(* changes once the stream is closed.                                     *)
THEOREM StreamRefinement ==
  ASSUME LockedSend PROVE Spec => ImplementsStream
<1>1. Init => AbstractStream!Init
  BY InitRefines
<1>2. IInv /\ [Next]_vars => [AbstractStream!Next]_AbstractStream!streamVars
  BY NextRefines DEF AbsStep, AbsVars, AbstractStream!streamVars, Subscribed
<1>3. QED
  BY <1>1, <1>2, RegistryInvariant, PTL
  DEF Spec, ImplementsStream, AbstractStream!Spec
=============================================================================
