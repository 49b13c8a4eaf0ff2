----------------------- MODULE LegacyStreamRefinement -----------------------
(***************************************************************************)
(* The legacy handler of pkg/server/v2/delta.go implements LegacyStream   *)
(* under the refinement mapping of LegacyDelta (AbstractLegacy), for any  *)
(* number of streams and types and with every failure enabled. Besides   *)
(* the invariant of LegacyDeltaProofs, the one fact the proof needs is    *)
(* that the per-type channel field of a stream only ever selects a watch  *)
(* of that stream and type (ChanOwned): receiving its answer then changes *)
(* no other stream's, nor no other type's, registration.                  *)
(***************************************************************************)
EXTENDS LegacyDeltaProofs

(* values.deltaX of stream s holds a watch that s created for t.          *)
ChanOwned ==
    \A s \in Streams, t \in Types :
        chan[s][t] # Nil =>
            /\ watches[chan[s][t]].stream = s
            /\ watches[chan[s][t]].type = t

(* The invariant of the refinement proof.                                  *)
RInv == IInv /\ ChanOwned

(* The mapped state.                                                       *)
AbsPhase == [s \in Streams |-> LPhaseOf(pc[s])]
AbsSub == [s \in Streams |-> [t \in Types |-> LSubscribed(s, t)]]
AbsVars == <<AbsPhase, streamNonce, nonce, AbsSub>>

(* A step that is the abstract Next or leaves the mapped state alone.     *)
AbsStep == [AbstractLegacy!Next]_AbsVars

-----------------------------------------------------------------------------
(* Ownership of the channel fields.                                        *)

(* A step that keeps the channel fields, keeps every watch id, and keeps  *)
(* each watch's stream and type keeps the ownership.                       *)
LEMMA OwnedFrame ==
  ASSUME TypeOK, ChanOwned, UNCHANGED chan,
         \A w \in DOMAIN watches :
            /\ w \in DOMAIN watches'
            /\ watches'[w].stream = watches[w].stream
            /\ watches'[w].type = watches[w].type
  PROVE  ChanOwned'
<1> SUFFICES ASSUME NEW s \in Streams, NEW t \in Types, chan'[s][t] # Nil
             PROVE  /\ watches'[chan'[s][t]].stream = s
                    /\ watches'[chan'[s][t]].type = t
  BY DEF ChanOwned
<1>1. chan[s][t] \in DOMAIN watches /\ chan'[s][t] = chan[s][t]
  BY DEF TypeOK
<1>2. watches[chan[s][t]].stream = s /\ watches[chan[s][t]].type = t
  BY <1>1 DEF ChanOwned
<1>3. QED
  BY <1>1, <1>2

(* The status changes of a watch in the list keep its stream and type.    *)
LEMMA StatusKeepsFields ==
  ASSUME TypeOK, NEW w \in DOMAIN watches, NEW x, NEW y,
         \/ watches' = [watches EXCEPT ![w].status = x]
         \/ watches' = [watches EXCEPT ![w].status = x, ![w].answer = y]
  PROVE  \A v \in DOMAIN watches :
            /\ v \in DOMAIN watches'
            /\ watches'[v].stream = watches[v].stream
            /\ watches'[v].type = watches[v].type
<1>1. watches[w] \in LWatch
  BY WatchElement DEF TypeOK
<1>2. CASE watches' = [watches EXCEPT ![w].status = x]
  BY <1>1, <1>2 DEF LWatch
<1>3. CASE watches' = [watches EXCEPT ![w].status = x, ![w].answer = y]
  BY <1>1, <1>3 DEF LWatch
<1>4. QED
  BY <1>2, <1>3

(* Handling a request: the re-created watch is of the request's stream   *)
(* and type, and every other channel field is left alone.                 *)
LEMMA HandleRequestOwned ==
  ASSUME IInv, ChanOwned, NEW s \in Streams, HandleRequest(s)
  PROVE  ChanOwned'
<1> DEFINE r == pending[s]
           t == LRequestType(r)
           id == Len(watches) + 1
           ws == CancelTracked(s, t)
<1>1. r \in LRequest /\ t \in Types
  BY PushedRequest DEF HandleRequest
<1>2. /\ ws \in Seq(LWatch)
      /\ DOMAIN ws = DOMAIN watches /\ Len(ws) = Len(watches)
      /\ \A w \in DOMAIN watches : ws[w].stream = watches[w].stream
                                   /\ ws[w].type = watches[w].type
  BY <1>1, CancelTrackedFacts DEF IInv
<1>3. CASE UNCHANGED <<chan, watches>>
  BY <1>3, OwnedFrame DEF IInv
<1>4. CASE /\ watches' = Append(ws,
                           [stream |-> s, type |-> t,
                            version |-> deltaVersions[t],
                            reqNonce |-> r.nonce, lastNonce |-> nonce[s][t],
                            status |-> "active", answer |-> NoVersion])
           /\ chan' = [chan EXCEPT ![s][t] = id]
  <2> DEFINE e == [stream |-> s, type |-> t,
                   version |-> deltaVersions[t],
                   reqNonce |-> r.nonce, lastNonce |-> nonce[s][t],
                   status |-> "active", answer |-> NoVersion]
  <2>1. e \in LWatch
    BY <1>1 DEF IInv, TypeOK, LWatch, LRequest, LStatuses
  <2>2. /\ \A w \in DOMAIN ws : watches'[w] = ws[w]
        /\ watches'[id] = e
        /\ DOMAIN watches' = DOMAIN watches \cup {id}
    BY <1>2, <1>4, <2>1, AppendWatch
  <2>3. ASSUME NEW s2 \in Streams, NEW t2 \in Types, chan'[s2][t2] # Nil
        PROVE  /\ watches'[chan'[s2][t2]].stream = s2
               /\ watches'[chan'[s2][t2]].type = t2
    <3>1. CASE s2 = s /\ t2 = t
      <4>1. chan'[s][t] = id
        BY <1>1, <1>4 DEF IInv, TypeOK
      <4>2. watches'[id].stream = s /\ watches'[id].type = t
        BY <2>2 DEF e
      <4>3. QED
        BY <3>1, <4>1, <4>2
    <3>2. CASE ~(s2 = s /\ t2 = t)
      <4>1. chan'[s2][t2] = chan[s2][t2]
        BY <1>1, <1>4, <3>2 DEF IInv, TypeOK
      <4>2. chan[s2][t2] \in DOMAIN watches
        BY <2>3, <4>1 DEF IInv, TypeOK
      <4> DEFINE c == chan[s2][t2]
      <4>3. watches'[c] = ws[c]
        BY <1>2, <2>2, <4>2
      <4>4. ws[c].stream = watches[c].stream /\ ws[c].type = watches[c].type
        BY <1>2, <4>2
      <4>5. watches[c].stream = s2 /\ watches[c].type = t2
        BY <2>3, <4>1 DEF ChanOwned
      <4>6. QED
        BY <4>1, <4>3, <4>4, <4>5
    <3>3. QED
      BY <3>1, <3>2
  <2>4. QED
    BY <2>3 DEF ChanOwned
<1>5. QED
  BY <1>3, <1>4 DEF HandleRequest

(* Every step keeps the ownership of the channel fields.                  *)
LEMMA OwnedStep ==
  ASSUME IInv, ChanOwned, [Next]_vars PROVE ChanOwned'
<1> USE DEF IInv
<1>1. ASSUME UNCHANGED <<chan, watches>> PROVE ChanOwned'
  BY <1>1, OwnedFrame
<1>2. ASSUME NEW s \in Streams, Processor(s) PROVE ChanOwned'
  <2>1. CASE OpenStream(s) \/ OpenStreamFails(s) \/ ContextDone(s)
             \/ RequestsClosed(s) \/ RejectRequest(s) \/ HandlerReturn(s)
    BY <2>1, <1>1 DEF OpenStream, OpenStreamFails, ContextDone,
                      RequestsClosed, RejectRequest, HandlerReturn
  <2>2. ASSUME NEW t \in Types, WatchFailed(s, t) PROVE ChanOwned'
    BY <2>2, <1>1 DEF WatchFailed
  <2>3. ASSUME NEW t \in Types, Respond(s, t) PROVE ChanOwned'
    <3>1. chan[s][t] \in DOMAIN watches
      BY <2>3 DEF Respond, TypeOK
    <3>2. watches' = [watches EXCEPT ![chan[s][t]].status = "received"]
      BY <2>3 DEF Respond
    <3>3. UNCHANGED chan
      BY <2>3 DEF Respond
    <3>4. QED
      BY <3>1, <3>2, <3>3, StatusKeepsFields, OwnedFrame
  <2>4. CASE HandleRequest(s)
    BY <2>4, HandleRequestOwned
  <2>5. CASE Teardown(s)
    <3>1. \A w \in DOMAIN watches :
            /\ w \in DOMAIN watches'
            /\ watches'[w].stream = watches[w].stream
            /\ watches'[w].type = watches[w].type
      BY <2>5, WatchElement DEF Teardown, TypeOK, LWatch
    <3>2. QED
      BY <2>5, <3>1, OwnedFrame DEF Teardown
  <2>6. CASE \E t \in Types : Respond(s, t) \/ WatchFailed(s, t)
    <3>1. PICK t \in Types : Respond(s, t) \/ WatchFailed(s, t)
      BY <2>6
    <3>2. QED
      BY <3>1, <2>2, <2>3
  <2>7. QED
    BY <1>2, <2>1, <2>4, <2>5, <2>6 DEF Processor
<1>3. ASSUME NEW s \in Streams, Reader(s) PROVE ChanOwned'
  BY <1>3, <1>1 DEF Reader, ReaderRecv, ReaderRecvErr, ReaderCheck, streamVars
<1>4. ASSUME NEW w \in DOMAIN watches, CacheAnswer(w) PROVE ChanOwned'
  <2>1. PICK v \in Versions :
          watches' = [watches EXCEPT ![w].status = "sent", ![w].answer = v]
    BY <1>4 DEF CacheAnswer
  <2>2. UNCHANGED chan
    BY <1>4 DEF CacheAnswer, streamVars
  <2>3. QED
    BY <2>1, <2>2, StatusKeepsFields, OwnedFrame
<1>5. ASSUME NEW w \in DOMAIN watches, CacheClose(w) PROVE ChanOwned'
  <2>1. watches' = [watches EXCEPT ![w].status = "closed"]
    BY <1>5 DEF CacheClose
  <2>2. UNCHANGED chan
    BY <1>5 DEF CacheClose, streamVars
  <2>3. QED
    BY <2>1, <2>2, StatusKeepsFields, OwnedFrame
<1>6. CASE CancelContext \/ UNCHANGED vars
  <2>1. UNCHANGED <<chan, watches>>
    BY <1>6 DEF CancelContext, vars, streamVars
  <2>2. QED
    BY <2>1, <1>1
<1>7. QED
  BY <1>2, <1>3, <1>4, <1>5, <1>6 DEF Next, Cache

(* Every channel field of every stream only ever selects a watch of that *)
(* stream and type, in every reachable state of the legacy handler.       *)
THEOREM ChannelsOwned == Spec => []RInv
<1>1. Init => ChanOwned
  BY DEF Init, ChanOwned
<1>2. IInv /\ ChanOwned /\ [Next]_vars => ChanOwned'
  BY OwnedStep
<1>3. QED
  BY <1>1, <1>2, LegacyInvariant, PTL DEF Spec, RInv

-----------------------------------------------------------------------------
(* The mapped state under the steps.                                       *)

(* The phase of each value of a processor's pc.                            *)
LEMMA LPhases ==
  /\ LPhaseOf("open") = "opening"
  /\ LPhaseOf("loop") = "serving"
  /\ \A p \in {"teardown", "done", "returned"} : LPhaseOf(p) = "closed"
  BY DEF LPhaseOf

(* Moving one processor moves only its stream's phase.                     *)
LEMMA PhaseStep ==
  ASSUME TypeOK, NEW s \in Streams, NEW x, pc' = [pc EXCEPT ![s] = x]
  PROVE  AbsPhase' = [AbsPhase EXCEPT ![s] = LPhaseOf(x)]
  BY DEF AbsPhase, TypeOK

(* A step that keeps the channel fields and changes no watch into or out  *)
(* of "received" keeps every registration.                                 *)
LEMMA SubFrame ==
  ASSUME TypeOK, UNCHANGED chan,
         \A w \in DOMAIN watches :
            /\ w \in DOMAIN watches'
            /\ watches'[w].status = "received" <=> watches[w].status = "received"
  PROVE  AbsSub' = AbsSub
<1> SUFFICES ASSUME NEW s \in Streams, NEW t \in Types
             PROVE  LSubscribed(s, t)' = LSubscribed(s, t)
  BY DEF AbsSub
<1>1. chan[s][t] \in DOMAIN watches \cup {Nil} /\ chan'[s][t] = chan[s][t]
  BY DEF TypeOK
<1>2. QED
  BY <1>1 DEF LSubscribed

(* A step that keeps every phase, nonce and registration stutters.        *)
LEMMA Stutter ==
  ASSUME AbsPhase' = AbsPhase, UNCHANGED <<streamNonce, nonce>>,
         AbsSub' = AbsSub
  PROVE  AbsStep
  BY DEF AbsStep, AbsVars

(* Leaving processDelta, before or inside the loop, closes the stream.    *)
LEMMA CloseStep ==
  ASSUME TypeOK, NEW s \in Streams, pc[s] \in {"open", "loop"},
         pc' = [pc EXCEPT ![s] = "teardown"],
         UNCHANGED <<streamNonce, nonce, chan, watches>>
  PROVE  AbsStep
<1>1. AbsPhase' = [AbsPhase EXCEPT ![s] = "closed"]
  BY PhaseStep, LPhases
<1>2. AbsPhase[s] \in {"opening", "serving"}
  BY LPhases DEF AbsPhase
<1>3. AbsSub' = AbsSub
  BY SubFrame
<1>4. AbstractLegacy!Close(s)
  BY <1>1, <1>2, <1>3 DEF AbstractLegacy!Close, AbsPhase, AbsSub
<1>5. QED
  BY <1>4 DEF AbsStep, AbstractLegacy!Next

(* OnStreamOpen succeeding opens the stream.                              *)
LEMMA OpenRefines ==
  ASSUME TypeOK, NEW s \in Streams, OpenStream(s) PROVE AbsStep
<1>1. AbsPhase' = [AbsPhase EXCEPT ![s] = "serving"]
  BY PhaseStep, LPhases DEF OpenStream
<1>2. AbsPhase[s] = "opening"
  BY LPhases DEF AbsPhase, OpenStream
<1>3. AbsSub' = AbsSub
  BY SubFrame DEF OpenStream
<1>4. AbstractLegacy!Open(s)
  BY <1>1, <1>2, <1>3 DEF OpenStream, AbstractLegacy!Open, AbsPhase, AbsSub
<1>5. QED
  BY <1>4 DEF AbsStep, AbstractLegacy!Next

(* The ways processDelta returns from its loop, or fails to open.         *)
LEMMA LeaveRefines ==
  ASSUME TypeOK, NEW s \in Streams,
         \/ OpenStreamFails(s) \/ ContextDone(s) \/ RequestsClosed(s)
         \/ RejectRequest(s) \/ \E t \in Types : WatchFailed(s, t)
  PROVE  AbsStep
<1>1. pc[s] \in {"open", "loop"} /\ pc' = [pc EXCEPT ![s] = "teardown"]
  BY DEF OpenStreamFails, ContextDone, RequestsClosed, RejectRequest,
         WatchFailed
<1>2. UNCHANGED <<streamNonce, nonce, chan, watches>>
  BY DEF OpenStreamFails, ContextDone, RequestsClosed, RejectRequest,
         WatchFailed
<1>3. QED
  BY <1>1, <1>2, CloseStep

(* The deferred teardown, the handler's return, the reader, the context  *)
(* and the cache change no phase, nonce or registration: teardown and the *)
(* cache only turn open watches into cancelled, answered or closed ones. *)
LEMMA QuietRefines ==
  ASSUME TypeOK,
         \/ \E s \in Streams : Teardown(s) \/ HandlerReturn(s) \/ Reader(s)
         \/ Cache \/ CancelContext \/ UNCHANGED vars
  PROVE  AbsStep
<1>1. CASE \E s \in Streams : Teardown(s) \/ HandlerReturn(s)
  <2>1. PICK s \in Streams : Teardown(s) \/ HandlerReturn(s)
    BY <1>1
  <2>2. AbsPhase' = AbsPhase
    <3>1. CASE Teardown(s)
      <4>1. AbsPhase' = [AbsPhase EXCEPT ![s] = LPhaseOf("done")]
        BY <3>1, PhaseStep DEF Teardown
      <4>2. AbsPhase[s] = "closed"
        BY <3>1, LPhases DEF AbsPhase, Teardown
      <4>3. QED
        BY <4>1, <4>2, LPhases DEF AbsPhase
    <3>2. CASE HandlerReturn(s)
      <4>1. AbsPhase' = [AbsPhase EXCEPT ![s] = LPhaseOf("returned")]
        BY <3>2, PhaseStep DEF HandlerReturn
      <4>2. AbsPhase[s] = "closed"
        BY <3>2, LPhases DEF AbsPhase, HandlerReturn
      <4>3. QED
        BY <4>1, <4>2, LPhases DEF AbsPhase
    <3>3. QED
      BY <2>1, <3>1, <3>2
  <2>3. \A w \in DOMAIN watches :
          /\ w \in DOMAIN watches'
          /\ watches'[w].status = "received" <=> watches[w].status = "received"
    <3>1. CASE Teardown(s)
      <4> TAKE w \in DOMAIN watches
      <4>1. watches[w] \in LWatch
        BY WatchElement DEF TypeOK
      <4>2. QED
        BY <3>1, <4>1 DEF Teardown, LWatch
    <3>2. CASE HandlerReturn(s)
      BY <3>2 DEF HandlerReturn
    <3>3. QED
      BY <2>1, <3>1, <3>2
  <2>4. UNCHANGED <<chan, streamNonce, nonce>>
    BY <2>1 DEF Teardown, HandlerReturn
  <2>5. QED
    BY <2>2, <2>3, <2>4, SubFrame, Stutter
<1>2. CASE \E s \in Streams : Reader(s)
  BY <1>2, SubFrame, Stutter
  DEF Reader, ReaderRecv, ReaderRecvErr, ReaderCheck, streamVars, AbsPhase
<1>3. CASE Cache
  <2>1. PICK w \in DOMAIN watches : CacheAnswer(w) \/ CacheClose(w)
    BY <1>3 DEF Cache
  <2>2. watches[w] \in LWatch /\ watches[w].status = "active"
    BY <2>1, WatchElement DEF TypeOK, CacheAnswer, CacheClose
  <2>3. \A v \in DOMAIN watches :
          /\ v \in DOMAIN watches'
          /\ watches'[v].status = "received" <=> watches[v].status = "received"
    <3>1. CASE CacheAnswer(w)
      <4>1. PICK x \in Versions :
              watches' = [watches EXCEPT ![w].status = "sent", ![w].answer = x]
        BY <3>1 DEF CacheAnswer
      <4>2. QED
        BY <2>2, <4>1 DEF LWatch
    <3>2. CASE CacheClose(w)
      BY <2>2, <3>2 DEF CacheClose, LWatch
    <3>3. QED
      BY <2>1, <3>1, <3>2
  <2>4. QED
    BY <2>1, <2>3, SubFrame, Stutter
    DEF CacheAnswer, CacheClose, streamVars, AbsPhase
<1>4. CASE CancelContext \/ UNCHANGED vars
  BY <1>4, SubFrame, Stutter DEF CancelContext, vars, streamVars, AbsPhase
<1>5. QED
  BY <1>1, <1>2, <1>3, <1>4

(* Receiving the answer of values.deltaX and sending it: the stream's     *)
(* next nonce is used and the watch of (s, t), which ChanOwned says is   *)
(* the one registered for s and t, is consumed; the send and the version *)
(* lookup may fail and end the stream.                                    *)
LEMMA RespondRefines ==
  ASSUME RInv, NEW s \in Streams, NEW t \in Types, Respond(s, t)
  PROVE  AbsStep
<1> USE DEF RInv, IInv
<1> DEFINE w == chan[s][t]
           n == streamNonce[s] + 1
<1>1. /\ w # Nil /\ w \in DOMAIN watches /\ watches[w] \in LWatch
      /\ watches[w].status = "sent" /\ pc[s] = "loop"
  BY WatchElement DEF Respond, TypeOK
<1>2. /\ watches' = [watches EXCEPT ![w].status = "received"]
      /\ UNCHANGED chan
      /\ streamNonce' = [streamNonce EXCEPT ![s] = n]
  BY DEF Respond, SentNonce
<1>3. watches[w].stream = s /\ watches[w].type = t
  BY <1>1 DEF ChanOwned
<1>4. AbsSub' = [AbsSub EXCEPT ![s][t] = FALSE]
  <2>1. LSubscribed(s, t)' = FALSE
    <3>1. watches'[w].status = "received"
      BY <1>1, <1>2 DEF LWatch
    <3>2. chan'[s][t] = w
      BY <1>2
    <3>3. QED
      BY <3>1, <3>2 DEF LSubscribed
  <2>2. ASSUME NEW s2 \in Streams, NEW t2 \in Types, ~(s2 = s /\ t2 = t)
        PROVE  LSubscribed(s2, t2)' = LSubscribed(s2, t2)
    <3> DEFINE c == chan[s2][t2]
    <3>1. c \in DOMAIN watches \cup {Nil} /\ chan'[s2][t2] = c
      BY <1>2 DEF TypeOK
    <3>2. c # Nil => c # w
      BY <1>3, <2>2 DEF ChanOwned
    <3>3. c # Nil => watches'[c] = watches[c]
      BY <1>1, <1>2, <3>1, <3>2
    <3>4. QED
      BY <3>1, <3>3 DEF LSubscribed
  <2>3. QED
    BY <2>1, <2>2 DEF AbsSub
<1>5. AbsSub[s][t] /\ AbsPhase[s] = "serving"
  BY <1>1, LPhases DEF AbsSub, LSubscribed, AbsPhase
<1>6. CASE /\ nonce' = [nonce EXCEPT ![s][t] = n]
           /\ UNCHANGED pc
  <2>1. AbstractLegacy!Apply(s, t)
    BY <1>2, <1>4, <1>5, <1>6 DEF AbstractLegacy!Apply, AbsSub, AbsPhase
  <2>2. QED
    BY <2>1 DEF AbsStep, AbstractLegacy!Next
<1>7. CASE /\ pc' = [pc EXCEPT ![s] = "teardown"]
           /\ UNCHANGED nonce
  <2>1. AbsPhase' = [AbsPhase EXCEPT ![s] = "closed"]
    BY <1>7, PhaseStep, LPhases
  <2>2. AbstractLegacy!FailSend(s, t)
    BY <1>2, <1>4, <1>5, <1>7, <2>1 DEF AbstractLegacy!FailSend, AbsSub, AbsPhase
  <2>3. QED
    BY <2>2 DEF AbsStep, AbstractLegacy!Next
<1>8. QED
  BY <1>6, <1>7 DEF Respond, SentNonce

(* A well-formed request: its callback fails and the stream ends, or the *)
(* type's watch is re-created and registered, or (a stale nonce) nothing  *)
(* the stream promised changes.                                            *)
LEMMA HandleRequestRefines ==
  ASSUME RInv, NEW s \in Streams, HandleRequest(s)
  PROVE  AbsStep
<1> USE DEF RInv, IInv
<1> DEFINE r == pending[s]
           tt == LRequestType(r)
           id == Len(watches) + 1
           ws == CancelTracked(s, tt)
<1>1. r \in LRequest /\ tt \in Types /\ pc[s] = "loop"
  BY PushedRequest DEF HandleRequest
<1>2. UNCHANGED <<streamNonce, nonce>>
  BY DEF HandleRequest
<1>3. CASE /\ pc' = [pc EXCEPT ![s] = "teardown"]
           /\ UNCHANGED <<chan, watches>>
  BY <1>1, <1>2, <1>3, CloseStep
<1>4. CASE UNCHANGED <<pc, chan, watches>>
  BY <1>2, <1>4, SubFrame, Stutter DEF AbsPhase
<1>5. CASE /\ watches' = Append(ws,
                           [stream |-> s, type |-> tt,
                            version |-> deltaVersions[tt],
                            reqNonce |-> r.nonce, lastNonce |-> nonce[s][tt],
                            status |-> "active", answer |-> NoVersion])
           /\ chan' = [chan EXCEPT ![s][tt] = id]
           /\ UNCHANGED pc
  <2> DEFINE e == [stream |-> s, type |-> tt,
                   version |-> deltaVersions[tt],
                   reqNonce |-> r.nonce, lastNonce |-> nonce[s][tt],
                   status |-> "active", answer |-> NoVersion]
  <2>1. e \in LWatch
    BY <1>1 DEF TypeOK, LWatch, LRequest, LStatuses
  <2>2. /\ ws \in Seq(LWatch)
        /\ DOMAIN ws = DOMAIN watches /\ Len(ws) = Len(watches)
        /\ \A v \in DOMAIN watches :
              ws[v].status = "received" <=> watches[v].status = "received"
    BY <1>1, CancelTrackedFacts
  <2>3. /\ \A v \in DOMAIN watches : watches'[v] = ws[v]
        /\ watches'[id] = e
        /\ id \in Nat
    BY <2>1, <2>2, <1>5, AppendWatch, LenProperties DEF TypeOK
  <2>4. PICK c \in Types : c = tt
    BY <1>1
  <2>5. AbsSub' = [AbsSub EXCEPT ![s][c] = TRUE]
    <3>1. LSubscribed(s, c)' = TRUE
      <4>1. chan'[s][c] = id
        BY <1>1, <1>5, <2>4 DEF TypeOK
      <4>2. watches'[id].status = "active"
        BY <2>3 DEF e
      <4>3. QED
        BY <2>3, <4>1, <4>2, LegacyAssumption DEF LSubscribed
    <3>2. ASSUME NEW s2 \in Streams, NEW t2 \in Types, ~(s2 = s /\ t2 = c)
          PROVE  LSubscribed(s2, t2)' = LSubscribed(s2, t2)
      <4> DEFINE d == chan[s2][t2]
      <4>1. d \in DOMAIN watches \cup {Nil} /\ chan'[s2][t2] = d
        BY <1>1, <1>5, <2>4, <3>2 DEF TypeOK
      <4>2. d # Nil => (watches'[d].status = "received"
                          <=> watches[d].status = "received")
        BY <2>2, <2>3, <4>1
      <4>3. QED
        BY <4>1, <4>2 DEF LSubscribed
    <3>3. QED
      BY <3>1, <3>2 DEF AbsSub
  <2>6. AbsPhase' = AbsPhase /\ AbsPhase[s] = "serving"
    BY <1>1, <1>5, LPhases DEF AbsPhase
  <2>7. AbstractLegacy!Subscribe(s, c)
    BY <1>2, <2>5, <2>6 DEF AbstractLegacy!Subscribe, AbsSub, AbsPhase
  <2>8. QED
    BY <2>7 DEF AbsStep, AbstractLegacy!Next
<1>6. QED
  BY <1>3, <1>4, <1>5 DEF HandleRequest

-----------------------------------------------------------------------------
(* Every step of the legacy handler is a step of LegacyStream or leaves  *)
(* the mapped state alone.                                                 *)
LEMMA NextRefines ==
  ASSUME RInv, [Next]_vars PROVE AbsStep
<1> USE DEF RInv, IInv
<1>1. ASSUME NEW s \in Streams, Processor(s) PROVE AbsStep
  <2>1. CASE OpenStream(s)
    BY <2>1, OpenRefines
  <2>2. CASE \/ OpenStreamFails(s) \/ ContextDone(s) \/ RequestsClosed(s)
             \/ RejectRequest(s) \/ \E t \in Types : WatchFailed(s, t)
    BY <2>2, LeaveRefines
  <2>3. CASE \E t \in Types : Respond(s, t)
    BY <2>3, RespondRefines
  <2>4. CASE HandleRequest(s)
    BY <2>4, HandleRequestRefines
  <2>5. CASE Teardown(s) \/ HandlerReturn(s)
    BY <2>5, QuietRefines
  <2>6. QED
    BY <1>1, <2>1, <2>2, <2>3, <2>4, <2>5 DEF Processor
<1>2. CASE \E s \in Streams : Reader(s)
  BY <1>2, QuietRefines
<1>3. CASE Cache \/ CancelContext \/ UNCHANGED vars
  BY <1>3, QuietRefines
<1>4. QED
  BY <1>1, <1>2, <1>3 DEF Next

(* The legacy handler implements LegacyStream for any number of streams  *)
(* and types, with every failure enabled: each stream's responses take   *)
(* its nonces in order and answer watches that stream registered, a      *)
(* failed send ends the stream, and no step of one stream, nor of the    *)
(* cache answering another stream's watch, changes another stream's      *)
(* phase, nonces or registrations.                                         *)
THEOREM LegacyRefinement == Spec => ImplementsLegacyStream
<1>1. Init => AbstractLegacy!Init
  <2> SUFFICES ASSUME Init PROVE AbstractLegacy!Init
    OBVIOUS
  <2>1. AbsPhase = [s \in Streams |-> "opening"]
    BY LPhases DEF Init, AbsPhase
  <2>2. AbsSub = [s \in Streams |-> [t \in Types |-> FALSE]]
    BY DEF Init, AbsSub, LSubscribed
  <2>3. QED
    BY <2>1, <2>2 DEF Init, AbstractLegacy!Init, AbsPhase, AbsSub
<1>2. RInv /\ [Next]_vars => [AbstractLegacy!Next]_AbstractLegacy!lsVars
  BY NextRefines DEF AbsStep, AbsVars, AbstractLegacy!lsVars, AbsPhase, AbsSub
<1>3. QED
  BY <1>1, <1>2, ChannelsOwned, PTL
  DEF Spec, ImplementsLegacyStream, AbstractLegacy!Spec
=============================================================================
