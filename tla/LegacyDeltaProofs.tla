------------------------- MODULE LegacyDeltaProofs -------------------------
(***************************************************************************)
(* Proofs about LegacyDelta for every value of its constants: the legacy  *)
(* handler's per-type cancel and channel fields track every open watch of *)
(* every stream, and a stream's teardown leaves none of its watches open. *)
(***************************************************************************)
EXTENDS LegacyDelta, SequenceTheorems, TLAPS

USE LegacyAssumption

(* A request on its way to the processor is a request or nil, never the   *)
(* Recv error: the reader closes reqCh instead of pushing the error.      *)
ReaderPending ==
    \A s \in Streams : rpc[s] = "push" => pending[s] \in LRequest \cup {Nil}

(* The inductive invariant.                                                *)
IInv == TypeOK /\ ReaderPending /\ LegacyWatchTracked /\ LegacyTeardownCancels

-----------------------------------------------------------------------------
(* Facts about the watch list.                                            *)

(* Appending a watch keeps a watch list and gives it one fresh id.        *)
LEMMA AppendWatch ==
  ASSUME NEW ws \in Seq(LWatch), NEW e \in LWatch
  PROVE  /\ Append(ws, e) \in Seq(LWatch)
         /\ DOMAIN Append(ws, e) = DOMAIN ws \cup {Len(ws) + 1}
         /\ Len(ws) + 1 \notin DOMAIN ws
         /\ \A i \in DOMAIN ws : Append(ws, e)[i] = ws[i]
         /\ Append(ws, e)[Len(ws) + 1] = e
<1>1. DOMAIN ws = 1..Len(ws) /\ Len(ws) \in Nat
  BY LenProperties
<1>2. DOMAIN Append(ws, e) = 1..Len(ws) + 1
  BY AppendProperties, LenProperties
<1>3. QED
  BY <1>1, <1>2, AppendProperties

(* Changing the status of one watch keeps a watch list.                   *)
LEMMA SetLStatus ==
  ASSUME NEW ws \in Seq(LWatch), NEW w \in DOMAIN ws, NEW x \in LStatuses
  PROVE  /\ [ws EXCEPT ![w].status = x] \in Seq(LWatch)
         /\ DOMAIN [ws EXCEPT ![w].status = x] = DOMAIN ws
<1>1. ws[w] \in LWatch
  BY LenProperties, ElementOfSeq
<1>2. [ws[w] EXCEPT !.status = x] \in LWatch
  BY <1>1 DEF LWatch
<1>3. QED
  BY <1>2, LenProperties, ExceptSeq

(* A watch map rebuilt pointwise over the ids of a watch list is a watch  *)
(* list with the same ids (the cancel loop of Teardown rebuilds it so).  *)
LEMMA RebuildLWatches ==
  ASSUME NEW ws \in Seq(LWatch), NEW f \in [DOMAIN ws -> LWatch]
  PROVE  f \in Seq(LWatch) /\ DOMAIN f = DOMAIN ws
<1>1. DOMAIN ws = 1..Len(ws) /\ Len(ws) \in Nat
  BY LenProperties
<1>2. f \in [1..Len(ws) -> LWatch]
  BY <1>1
<1>3. QED
  BY <1>1, <1>2, SeqDef

(* Every element of a watch list is a watch.                               *)
LEMMA WatchElement ==
  ASSUME NEW ws \in Seq(LWatch), NEW w \in DOMAIN ws
  PROVE  ws[w] \in LWatch
  BY LenProperties, ElementOfSeq

(* What values.deltaXCancel() leaves: the same ids, the tracked watch     *)
(* cancelled if it was open, every other watch as it was.                  *)
LEMMA CancelTrackedFacts ==
  ASSUME TypeOK, NEW s \in Streams, NEW t \in Types
  PROVE  /\ CancelTracked(s, t) \in Seq(LWatch)
         /\ DOMAIN CancelTracked(s, t) = DOMAIN watches
         /\ Len(CancelTracked(s, t)) = Len(watches)
         /\ \A w \in DOMAIN watches :
               /\ CancelTracked(s, t)[w].stream = watches[w].stream
               /\ CancelTracked(s, t)[w].type = watches[w].type
               /\ CancelTracked(s, t)[w].status =
                     IF w = cancel[s][t] /\ watches[w].status = "active"
                     THEN "cancelled" ELSE watches[w].status
<1> DEFINE c == cancel[s][t]
<1>1. CASE c # Nil /\ watches[c].status = "active"
  <2>1. c \in DOMAIN watches
    BY <1>1 DEF TypeOK
  <2>2. watches[c] \in LWatch
    BY <2>1, WatchElement DEF TypeOK
  <2>3. CancelTracked(s, t) = [watches EXCEPT ![c].status = "cancelled"]
    BY <1>1 DEF CancelTracked
  <2>0. /\ [watches EXCEPT ![c].status = "cancelled"] \in Seq(LWatch)
        /\ DOMAIN [watches EXCEPT ![c].status = "cancelled"] = DOMAIN watches
    <3>1. "cancelled" \in LStatuses
      BY DEF LStatuses
    <3>2. watches \in Seq(LWatch)
      BY DEF TypeOK
    <3>3. QED
      BY <2>1, <3>1, <3>2, SetLStatus
  <2>4. /\ CancelTracked(s, t) \in Seq(LWatch)
        /\ DOMAIN CancelTracked(s, t) = DOMAIN watches
    BY <2>0, <2>3
  <2>5. Len(CancelTracked(s, t)) = Len(watches)
    BY <2>1, <2>3, ExceptSeq, LenProperties, <2>2 DEF TypeOK, LWatch
  <2>6. \A w \in DOMAIN watches :
               /\ CancelTracked(s, t)[w].stream = watches[w].stream
               /\ CancelTracked(s, t)[w].type = watches[w].type
               /\ CancelTracked(s, t)[w].status =
                     IF w = c /\ watches[w].status = "active"
                     THEN "cancelled" ELSE watches[w].status
    BY <1>1, <2>1, <2>2, <2>3 DEF LWatch
  <2>7. QED
    BY <2>4, <2>5, <2>6
<1>2. CASE ~(c # Nil /\ watches[c].status = "active")
  <2>1. CancelTracked(s, t) = watches
    BY <1>2 DEF CancelTracked
  <2>2. \A w \in DOMAIN watches : w = c => watches[w].status # "active"
    BY <1>2, LenProperties DEF TypeOK
  <2>3. QED
    BY <2>1, <2>2 DEF TypeOK
<1>3. QED
  BY <1>1, <1>2
-----------------------------------------------------------------------------
(* Steps that leave the watches and the per-type fields alone.            *)

(* A step that changes no watch, cancel or channel keeps the tracking.    *)
LEMMA FrameTracked ==
  ASSUME LegacyWatchTracked, UNCHANGED <<watches, cancel, chan>>
  PROVE  LegacyWatchTracked'
  BY DEF LegacyWatchTracked

(* A step that changes no watch and ends no stream keeps teardown's       *)
(* guarantee.                                                              *)
LEMMA FrameTeardown ==
  ASSUME LegacyTeardownCancels, UNCHANGED watches,
         \A s \in Streams : pc'[s] \in {"done", "returned"} =>
                               pc[s] \in {"done", "returned"}
  PROVE  LegacyTeardownCancels'
  BY DEF LegacyTeardownCancels

(* The processor steps that touch no watch: each keeps TypeOK and the    *)
(* reader's invariant, and ends no stream except by moving it on.        *)
LEMMA OpenStreamInv ==
  ASSUME IInv, NEW s \in Streams, OpenStream(s)
  PROVE  IInv'
<1>1. UNCHANGED <<watches, cancel, chan>>
  BY DEF OpenStream
<1>2. \A x \in Streams : pc'[x] \in {"done", "returned"} =>
                            pc[x] \in {"done", "returned"}
  BY DEF OpenStream, IInv, TypeOK
<1>3. TypeOK'
  BY DEF OpenStream, readerVars, IInv, TypeOK, LPCs
<1>4. ReaderPending'
  BY DEF OpenStream, readerVars, IInv, ReaderPending
<1>5. QED
  BY <1>1, <1>2, <1>3, <1>4, FrameTracked, FrameTeardown DEF IInv

LEMMA OpenStreamFailsInv ==
  ASSUME IInv, NEW s \in Streams, OpenStreamFails(s)
  PROVE  IInv'
<1>1. UNCHANGED <<watches, cancel, chan>>
  BY DEF OpenStreamFails
<1>2. \A x \in Streams : pc'[x] \in {"done", "returned"} =>
                            pc[x] \in {"done", "returned"}
  BY DEF OpenStreamFails, IInv, TypeOK
<1>3. TypeOK'
  BY DEF OpenStreamFails, readerVars, IInv, TypeOK, LPCs
<1>4. ReaderPending'
  BY DEF OpenStreamFails, readerVars, IInv, ReaderPending
<1>5. QED
  BY <1>1, <1>2, <1>3, <1>4, FrameTracked, FrameTeardown DEF IInv

LEMMA ContextDoneInv ==
  ASSUME IInv, NEW s \in Streams, ContextDone(s)
  PROVE  IInv'
<1>1. UNCHANGED <<watches, cancel, chan>>
  BY DEF ContextDone
<1>2. \A x \in Streams : pc'[x] \in {"done", "returned"} =>
                            pc[x] \in {"done", "returned"}
  BY DEF ContextDone, IInv, TypeOK
<1>3. TypeOK'
  BY DEF ContextDone, readerVars, IInv, TypeOK, LPCs
<1>4. ReaderPending'
  BY DEF ContextDone, readerVars, IInv, ReaderPending
<1>5. QED
  BY <1>1, <1>2, <1>3, <1>4, FrameTracked, FrameTeardown DEF IInv

LEMMA RequestsClosedInv ==
  ASSUME IInv, NEW s \in Streams, RequestsClosed(s)
  PROVE  IInv'
<1>1. UNCHANGED <<watches, cancel, chan>>
  BY DEF RequestsClosed
<1>2. \A x \in Streams : pc'[x] \in {"done", "returned"} =>
                            pc[x] \in {"done", "returned"}
  BY DEF RequestsClosed, IInv, TypeOK
<1>3. TypeOK'
  BY DEF RequestsClosed, readerVars, IInv, TypeOK, LPCs
<1>4. ReaderPending'
  BY DEF RequestsClosed, readerVars, IInv, ReaderPending
<1>5. QED
  BY <1>1, <1>2, <1>3, <1>4, FrameTracked, FrameTeardown DEF IInv

LEMMA RejectRequestInv ==
  ASSUME IInv, NEW s \in Streams, RejectRequest(s)
  PROVE  IInv'
<1>1. UNCHANGED <<watches, cancel, chan>>
  BY DEF RejectRequest
<1>2. \A x \in Streams : pc'[x] \in {"done", "returned"} =>
                            pc[x] \in {"done", "returned"}
  BY DEF RejectRequest, IInv, TypeOK
<1>3. TypeOK'
  BY DEF RejectRequest, readerVars, IInv, TypeOK, LPCs
<1>4. ReaderPending'
  BY DEF RejectRequest, readerVars, IInv, ReaderPending
<1>5. QED
  BY <1>1, <1>2, <1>3, <1>4, FrameTracked, FrameTeardown DEF IInv

LEMMA HandlerReturnInv ==
  ASSUME IInv, NEW s \in Streams, HandlerReturn(s)
  PROVE  IInv'
<1>1. UNCHANGED <<watches, cancel, chan>>
  BY DEF HandlerReturn
<1>2. \A x \in Streams : pc'[x] \in {"done", "returned"} =>
                            pc[x] \in {"done", "returned"}
  BY DEF HandlerReturn, IInv, TypeOK
<1>3. TypeOK'
  BY DEF HandlerReturn, readerVars, IInv, TypeOK, LPCs
<1>4. ReaderPending'
  BY DEF HandlerReturn, readerVars, IInv, ReaderPending
<1>5. QED
  BY <1>1, <1>2, <1>3, <1>4, FrameTracked, FrameTeardown DEF IInv

(* A closed channel of a watch ends the stream.                           *)
LEMMA WatchFailedInv ==
  ASSUME IInv, NEW s \in Streams, NEW t \in Types, WatchFailed(s, t)
  PROVE  IInv'
<1>1. UNCHANGED <<watches, cancel, chan>>
  BY DEF WatchFailed
<1>2. \A x \in Streams : pc'[x] \in {"done", "returned"} =>
                            pc[x] \in {"done", "returned"}
  BY DEF WatchFailed, IInv, TypeOK
<1>3. TypeOK'
  BY DEF WatchFailed, readerVars, IInv, TypeOK, LPCs
<1>4. ReaderPending'
  BY DEF WatchFailed, readerVars, IInv, ReaderPending
<1>5. QED
  BY <1>1, <1>2, <1>3, <1>4, FrameTracked, FrameTeardown DEF IInv

LEMMA ReaderRecvInv ==
  ASSUME IInv, NEW s \in Streams, ReaderRecv(s)
  PROVE  IInv'
<1>1. UNCHANGED <<watches, cancel, chan, pc>>
  BY DEF ReaderRecv, streamVars
<1>2. TypeOK'
  BY DEF ReaderRecv, streamVars, readerVars, IInv, TypeOK, LRequest
<1>3. ReaderPending'
  BY DEF ReaderRecv, streamVars, readerVars, IInv, TypeOK, ReaderPending
<1>4. QED
  BY <1>1, <1>2, <1>3, FrameTracked, FrameTeardown DEF IInv

LEMMA ReaderRecvErrInv ==
  ASSUME IInv, NEW s \in Streams, ReaderRecvErr(s)
  PROVE  IInv'
<1>1. UNCHANGED <<watches, cancel, chan, pc>>
  BY DEF ReaderRecvErr, streamVars
<1>2. TypeOK'
  BY DEF ReaderRecvErr, streamVars, readerVars, IInv, TypeOK, LRequest
<1>3. ReaderPending'
  BY DEF ReaderRecvErr, streamVars, readerVars, IInv, TypeOK, ReaderPending
<1>4. QED
  BY <1>1, <1>2, <1>3, FrameTracked, FrameTeardown DEF IInv

LEMMA ReaderCheckInv ==
  ASSUME IInv, NEW s \in Streams, ReaderCheck(s)
  PROVE  IInv'
<1>1. UNCHANGED <<watches, cancel, chan, pc>>
  BY DEF ReaderCheck, streamVars
<1>2. TypeOK'
  BY DEF ReaderCheck, streamVars, readerVars, IInv, TypeOK, LRequest
<1>3. ReaderPending'
  BY DEF ReaderCheck, streamVars, readerVars, IInv, TypeOK, ReaderPending
<1>4. QED
  BY <1>1, <1>2, <1>3, FrameTracked, FrameTeardown DEF IInv

LEMMA CancelContextInv ==
  ASSUME IInv, CancelContext
  PROVE  IInv'
<1>1. UNCHANGED <<watches, cancel, chan, pc>>
  BY DEF CancelContext, streamVars
<1>2. TypeOK'
  BY DEF CancelContext, streamVars, readerVars, IInv, TypeOK, LRequest
<1>3. ReaderPending'
  BY DEF CancelContext, streamVars, readerVars, IInv, TypeOK, ReaderPending
<1>4. QED
  BY <1>1, <1>2, <1>3, FrameTracked, FrameTeardown DEF IInv

-----------------------------------------------------------------------------
(* Steps that change the status of one watch.                             *)

(* A status change that opens no watch, made by a step that changes no    *)
(* per-type field and ends no stream, keeps both watch properties.         *)
LEMMA StatusStep ==
  ASSUME IInv, NEW w \in DOMAIN watches, NEW x \in LStatuses \ {"active"},
         watches' = [watches EXCEPT ![w].status = x],
         UNCHANGED <<cancel, chan>>,
         \A y \in Streams : pc'[y] \in {"done", "returned"} =>
                               pc[y] \in {"done", "returned"}
  PROVE  /\ watches' \in Seq(LWatch)
         /\ DOMAIN watches' = DOMAIN watches
         /\ LegacyWatchTracked'
         /\ LegacyTeardownCancels'
<1>1. watches[w] \in LWatch
  BY WatchElement DEF IInv, TypeOK
<1>2. /\ watches' \in Seq(LWatch)
      /\ DOMAIN watches' = DOMAIN watches
  BY SetLStatus DEF IInv, TypeOK
<1>3. \A v \in DOMAIN watches :
        /\ watches'[v].stream = watches[v].stream
        /\ watches'[v].type = watches[v].type
        /\ watches'[v].status = "active" => watches[v].status = "active"
  BY <1>1, <1>2 DEF LWatch
<1>4. LegacyWatchTracked'
  BY <1>2, <1>3 DEF IInv, LegacyWatchTracked
<1>5. LegacyTeardownCancels'
  BY <1>2, <1>3 DEF IInv, LegacyTeardownCancels
<1>6. QED
  BY <1>2, <1>4, <1>5

(* Receiving an answer: the watch goes from sent to received.             *)
LEMMA RespondInv ==
  ASSUME IInv, NEW s \in Streams, NEW t \in Types, Respond(s, t)
  PROVE  IInv'
<1> DEFINE w == chan[s][t]
<1>1. w \in DOMAIN watches /\ watches[w] \in LWatch
  BY WatchElement DEF Respond, IInv, TypeOK
<1>2. \A y \in Streams : pc'[y] \in {"done", "returned"} =>
                            pc[y] \in {"done", "returned"}
  BY DEF Respond, IInv, TypeOK
<1>3. /\ watches' \in Seq(LWatch)
      /\ DOMAIN watches' = DOMAIN watches
      /\ LegacyWatchTracked'
      /\ LegacyTeardownCancels'
  <2>1. "received" \in LStatuses \ {"active"}
    BY DEF LStatuses
  <2>2. watches' = [watches EXCEPT ![w].status = "received"]
    BY DEF Respond
  <2>3. UNCHANGED <<cancel, chan>>
    BY DEF Respond
  <2>4. QED
    BY <1>1, <1>2, <2>1, <2>2, <2>3, StatusStep
<1>4. watches[w].answer \in Versions \cup {NoVersion}
  BY <1>1 DEF LWatch
<1>5. TypeOK'
  <2>1. pc' \in [Streams -> LPCs]
    BY DEF Respond, IInv, TypeOK, LPCs
  <2>2. streamNonce' \in [Streams -> Nat] /\ nonce' \in [Streams -> [Types -> Nat]]
    <3>1. streamNonce[s] + 1 \in Nat
      BY DEF IInv, TypeOK
    <3>2. streamNonce' = [streamNonce EXCEPT ![s] = streamNonce[s] + 1]
      BY DEF Respond, SentNonce
    <3>3. \/ nonce' = nonce
          \/ nonce' = [nonce EXCEPT ![s][t] = streamNonce[s] + 1]
      BY DEF Respond, SentNonce
    <3>4. [nonce EXCEPT ![s][t] = streamNonce[s] + 1] \in [Streams -> [Types -> Nat]]
      BY <3>1 DEF IInv, TypeOK
    <3>5. streamNonce' \in [Streams -> Nat]
      BY <3>1, <3>2 DEF IInv, TypeOK
    <3>6. QED
      BY <3>3, <3>4, <3>5 DEF IInv, TypeOK
  <2>3. deltaVersions' \in [Types -> Versions \cup {NoVersion}]
    BY <1>4 DEF Respond, IInv, TypeOK
  <2>4. /\ cancel' \in [Streams -> [Types -> DOMAIN watches' \cup {Nil}]]
        /\ chan' \in [Streams -> [Types -> DOMAIN watches' \cup {Nil}]]
    BY <1>3 DEF Respond, IInv, TypeOK
  <2>5. UNCHANGED <<node, rpc, pending, reqClosed, reqStop, ctxDone, sent>>
    BY DEF Respond, readerVars
  <2>6. QED
    BY <1>3, <2>1, <2>2, <2>3, <2>4, <2>5 DEF IInv, TypeOK
<1>6. ReaderPending'
  BY DEF Respond, readerVars, IInv, ReaderPending
<1>7. QED
  BY <1>3, <1>5, <1>6 DEF IInv

(* The cache answers an open watch, or closes its channel.                *)
LEMMA CacheInv ==
  ASSUME IInv, Cache
  PROVE  IInv'
<1>1. PICK w \in DOMAIN watches : CacheAnswer(w) \/ CacheClose(w)
  BY DEF Cache
<1>2. UNCHANGED <<pc, cancel, chan, streamNonce, nonce, node, deltaVersions,
                  rpc, pending, reqClosed, reqStop, ctxDone, sent>>
  BY <1>1 DEF CacheAnswer, CacheClose, streamVars, readerVars
<1>3. watches[w] \in LWatch
  BY WatchElement DEF IInv, TypeOK
<1>4. /\ watches' \in Seq(LWatch)
      /\ DOMAIN watches' = DOMAIN watches
      /\ LegacyWatchTracked'
      /\ LegacyTeardownCancels'
  <2>1. CASE CacheAnswer(w)
    <3>1. PICK v \in Versions :
            watches' = [watches EXCEPT ![w].status = "sent", ![w].answer = v]
      BY <2>1 DEF CacheAnswer
    <3>2. [watches[w] EXCEPT !.status = "sent", !.answer = v] \in LWatch
      BY <1>3 DEF LWatch, LStatuses
    <3>3. watches' = [watches EXCEPT ![w] = [watches[w] EXCEPT !.status = "sent",
                                                              !.answer = v]]
      BY <1>1, <3>1
    <3>4. watches' \in Seq(LWatch) /\ DOMAIN watches' = DOMAIN watches
      BY <3>2, <3>3, ExceptSeq, LenProperties DEF IInv, TypeOK
    <3>5. \A u \in DOMAIN watches :
            /\ watches'[u].stream = watches[u].stream
            /\ watches'[u].type = watches[u].type
            /\ watches'[u].status = "active" => watches[u].status = "active"
      BY <1>3, <3>3, <3>4 DEF LWatch
    <3>6. QED
      BY <1>2, <3>4, <3>5 DEF IInv, LegacyWatchTracked, LegacyTeardownCancels
  <2>2. CASE CacheClose(w)
    <3>1. "closed" \in LStatuses \ {"active"}
      BY DEF LStatuses
    <3>2. QED
      BY <1>2, <2>2, <3>1, StatusStep DEF CacheClose
  <2>3. QED
    BY <1>1, <2>1, <2>2
<1>5. TypeOK'
  BY <1>2, <1>4 DEF IInv, TypeOK
<1>6. ReaderPending'
  BY <1>2 DEF IInv, ReaderPending
<1>7. QED
  BY <1>4, <1>5, <1>6 DEF IInv

(* The deferred function: every open watch the stream tracks is          *)
(* cancelled, and by the tracking that is every open watch of the stream. *)
LEMMA TeardownInv ==
  ASSUME IInv, NEW s \in Streams, Teardown(s)
  PROVE  IInv'
<1> DEFINE Cond(w) == /\ watches[w].stream = s
                      /\ watches[w].status = "active"
                      /\ cancel[s][watches[w].type] = w
<1>1. \A w \in DOMAIN watches : watches[w] \in LWatch
  BY WatchElement DEF IInv, TypeOK
<1>2. \A w \in DOMAIN watches :
        watches'[w] = IF Cond(w)
                      THEN [watches[w] EXCEPT !.status = "cancelled"]
                      ELSE watches[w]
  BY DEF Teardown
<1>3. watches' \in [DOMAIN watches -> LWatch]
  <2>1. DOMAIN watches' = DOMAIN watches
    BY DEF Teardown
  <2>2. \A w \in DOMAIN watches : watches'[w] \in LWatch
    <3> SUFFICES ASSUME NEW w \in DOMAIN watches PROVE watches'[w] \in LWatch
      OBVIOUS
    <3>1. [watches[w] EXCEPT !.status = "cancelled"] \in LWatch
      BY <1>1 DEF LWatch, LStatuses
    <3>2. QED
      BY <1>1, <1>2, <3>1
  <2>3. watches' = [w \in DOMAIN watches |-> watches'[w]]
    BY DEF Teardown
  <2>4. QED
    BY <2>2, <2>3
<1>4. watches' \in Seq(LWatch) /\ DOMAIN watches' = DOMAIN watches
  BY <1>3, RebuildLWatches DEF IInv, TypeOK
<1>5. \A w \in DOMAIN watches :
        /\ watches'[w].stream = watches[w].stream
        /\ watches'[w].type = watches[w].type
        /\ watches'[w].status = "active" =>
              watches[w].status = "active" /\ ~Cond(w)
  BY <1>1, <1>2 DEF LWatch
<1>6. UNCHANGED <<cancel, chan>>
  BY DEF Teardown
<1>7. LegacyWatchTracked'
  BY <1>4, <1>5, <1>6 DEF IInv, LegacyWatchTracked
<1>8. LegacyTeardownCancels'
  <2> SUFFICES ASSUME NEW y \in Streams, pc'[y] \in {"done", "returned"},
                      NEW w \in DOMAIN watches', watches'[w].stream = y,
                      watches'[w].status = "active"
               PROVE  FALSE
    BY DEF LegacyTeardownCancels
  <2>1. w \in DOMAIN watches /\ watches[w].status = "active" /\ ~Cond(w)
    BY <1>4, <1>5
  <2>2. CASE y = s
    <3>1. watches[w].stream = s
      BY <1>4, <1>5, <2>2
    <3>2. cancel[s][watches[w].type] = w
      BY <2>1, <3>1 DEF IInv, LegacyWatchTracked
    <3>3. QED
      BY <2>1, <3>1, <3>2
  <2>3. CASE y # s
    <3>1. pc[y] \in {"done", "returned"}
      BY <2>3 DEF Teardown, IInv, TypeOK
    <3>2. watches[w].stream = y
      BY <1>4, <1>5
    <3>3. QED
      BY <2>1, <3>1, <3>2 DEF IInv, LegacyTeardownCancels
  <2>4. QED
    BY <2>2, <2>3
<1>9. TypeOK'
  BY <1>4, <1>6 DEF Teardown, readerVars, IInv, TypeOK, LPCs
<1>10. ReaderPending'
  BY DEF Teardown, readerVars, IInv, ReaderPending
<1>11. QED
  BY <1>7, <1>8, <1>9, <1>10 DEF IInv

(* The request the processor takes is a request whose type URL is one of *)
(* the stream's types.                                                     *)
LEMMA PushedRequest ==
  ASSUME IInv, NEW s \in Streams, rpc[s] = "push", ~LMalformed(pending[s])
  PROVE  /\ pending[s] \in LRequest
         /\ LRequestType(pending[s]) \in Types
<1>1. pending[s] # Nil
  BY DEF LMalformed
<1>2. pending[s] \in LRequest
  BY <1>1 DEF IInv, ReaderPending
<1>3. ~(DefaultTypeURL = AnyType /\ pending[s].type = NoType)
  BY <1>1 DEF LMalformed
<1>4. QED
  BY <1>2, <1>3 DEF LRequestType, LRequest

(* Handling a well-formed request: the callback fails, or the type's      *)
(* watch is cancelled and re-created, or the request is ignored.          *)
LEMMA HandleRequestInv ==
  ASSUME IInv, NEW s \in Streams, HandleRequest(s)
  PROVE  IInv'
<1> DEFINE r == pending[s]
           t == LRequestType(r)
           id == Len(watches) + 1
           CT == CancelTracked(s, t)
           e == [stream |-> s, type |-> t, version |-> deltaVersions[t],
                 reqNonce |-> r.nonce, lastNonce |-> nonce[s][t],
                 status |-> "active", answer |-> NoVersion]
<1>1. /\ pc[s] = "loop" /\ rpc[s] = "push" /\ ~LMalformed(r)
      /\ node' = [node EXCEPT ![s] = RehydratedNode(s, r)]
      /\ rpc' = [rpc EXCEPT ![s] = "recv"]
      /\ pending' = [pending EXCEPT ![s] = Nil]
      /\ UNCHANGED <<streamNonce, nonce, deltaVersions, reqClosed, reqStop,
                     sent, ctxDone>>
      /\ \/ /\ pc' = [pc EXCEPT ![s] = "teardown"]
            /\ UNCHANGED <<cancel, chan, watches>>
         \/ /\ watches' = Append(CT, e)
            /\ chan' = [chan EXCEPT ![s][t] = id]
            /\ cancel' = [cancel EXCEPT ![s][t] = id]
            /\ UNCHANGED pc
         \/ UNCHANGED <<pc, cancel, chan, watches>>
  BY DEF HandleRequest
<1>2. r \in LRequest /\ t \in Types
  BY <1>1, PushedRequest
<1>3. RehydratedNode(s, r) \in Nodes \cup {EmptyNode}
  BY <1>2 DEF RehydratedNode, IInv, TypeOK, LRequest
<1>4. /\ node' \in [Streams -> Nodes \cup {EmptyNode}]
      /\ rpc' \in [Streams -> {"recv", "check", "push", "done"}]
      /\ pending' \in [Streams -> LRequest \cup {Nil, RecvErr}]
      /\ ReaderPending'
  BY <1>1, <1>3 DEF IInv, TypeOK, ReaderPending
<1>5. CASE /\ pc' = [pc EXCEPT ![s] = "teardown"]
           /\ UNCHANGED <<cancel, chan, watches>>
  <2>1. TypeOK'
    BY <1>1, <1>4, <1>5 DEF IInv, TypeOK, LPCs
  <2>2. \A y \in Streams : pc'[y] \in {"done", "returned"} =>
                              pc[y] \in {"done", "returned"}
    BY <1>5 DEF IInv, TypeOK
  <2>3. QED
    BY <1>4, <1>5, <2>1, <2>2, FrameTracked, FrameTeardown DEF IInv
<1>6. CASE UNCHANGED <<pc, cancel, chan, watches>>
  <2>1. TypeOK'
    BY <1>1, <1>4, <1>6 DEF IInv, TypeOK
  <2>2. QED
    BY <1>4, <1>6, <2>1, FrameTracked, FrameTeardown DEF IInv
<1>7. CASE /\ watches' = Append(CT, e)
           /\ chan' = [chan EXCEPT ![s][t] = id]
           /\ cancel' = [cancel EXCEPT ![s][t] = id]
           /\ UNCHANGED pc
  <2>1. e \in LWatch
    BY <1>2 DEF IInv, TypeOK, LWatch, LRequest, LStatuses
  <2>2. /\ CT \in Seq(LWatch)
        /\ DOMAIN CT = DOMAIN watches
        /\ Len(CT) = Len(watches)
        /\ \A w \in DOMAIN watches :
              /\ CT[w].stream = watches[w].stream
              /\ CT[w].type = watches[w].type
              /\ CT[w].status =
                    IF w = cancel[s][t] /\ watches[w].status = "active"
                    THEN "cancelled" ELSE watches[w].status
    BY <1>2, CancelTrackedFacts DEF IInv
  <2>3. /\ watches' \in Seq(LWatch)
        /\ DOMAIN watches' = DOMAIN watches \cup {id}
        /\ id \notin DOMAIN watches
        /\ \A i \in DOMAIN watches : watches'[i] = CT[i]
        /\ watches'[id] = e
    <3>1. /\ Append(CT, e) \in Seq(LWatch)
          /\ DOMAIN Append(CT, e) = DOMAIN CT \cup {Len(CT) + 1}
          /\ Len(CT) + 1 \notin DOMAIN CT
          /\ \A i \in DOMAIN CT : Append(CT, e)[i] = CT[i]
          /\ Append(CT, e)[Len(CT) + 1] = e
      BY <2>1, <2>2, AppendWatch
    <3>2. QED
      BY <1>7, <2>2, <3>1
  <2>4. TypeOK'
    <3>0. /\ cancel \in [Streams -> [Types -> DOMAIN watches \cup {Nil}]]
          /\ chan \in [Streams -> [Types -> DOMAIN watches \cup {Nil}]]
          /\ DOMAIN watches \cup {Nil} \subseteq DOMAIN watches' \cup {Nil}
          /\ id \in DOMAIN watches'
      BY <2>3 DEF IInv, TypeOK
    <3>a. cancel' \in [Streams -> [Types -> DOMAIN watches' \cup {Nil}]]
      BY <1>2, <1>7, <3>0
    <3>b. chan' \in [Streams -> [Types -> DOMAIN watches' \cup {Nil}]]
      BY <1>2, <1>7, <3>0
    <3>1. /\ cancel' \in [Streams -> [Types -> DOMAIN watches' \cup {Nil}]]
          /\ chan' \in [Streams -> [Types -> DOMAIN watches' \cup {Nil}]]
      BY <3>a, <3>b
    <3>2. QED
      BY <1>1, <1>4, <1>7, <2>3, <3>1 DEF IInv, TypeOK
  <2>5. LegacyWatchTracked'
    <3> SUFFICES ASSUME NEW w \in DOMAIN watches', watches'[w].status = "active"
                 PROVE  /\ cancel'[watches'[w].stream][watches'[w].type] = w
                        /\ chan'[watches'[w].stream][watches'[w].type] = w
      BY DEF LegacyWatchTracked
    <3>1. CASE w = id
      BY <1>2, <1>7, <2>3, <3>1 DEF IInv, TypeOK
    <3>2. CASE w # id
      <4>1. w \in DOMAIN watches
        BY <2>3, <3>2
      <4>2. /\ watches[w].status = "active"
            /\ w # cancel[s][t]
            /\ watches'[w].stream = watches[w].stream
            /\ watches'[w].type = watches[w].type
        BY <2>2, <2>3, <4>1
      <4>3. /\ cancel[watches[w].stream][watches[w].type] = w
            /\ chan[watches[w].stream][watches[w].type] = w
        BY <4>1, <4>2 DEF IInv, LegacyWatchTracked
      <4>4. watches[w] \in LWatch
        BY <4>1, WatchElement DEF IInv, TypeOK
      <4>5. <<watches[w].stream, watches[w].type>> # <<s, t>>
        BY <4>2, <4>3
      <4>6. watches[w].stream \in Streams /\ watches[w].type \in Types
        BY <4>4 DEF LWatch
      <4>7. /\ cancel'[watches[w].stream][watches[w].type]
                 = cancel[watches[w].stream][watches[w].type]
            /\ chan'[watches[w].stream][watches[w].type]
                 = chan[watches[w].stream][watches[w].type]
        <5>1. CASE watches[w].stream = s
          <6>1. watches[w].type # t
            BY <4>5, <5>1
          <6>2. QED
            BY <1>2, <1>7, <4>6, <5>1, <6>1 DEF IInv, TypeOK
        <5>2. CASE watches[w].stream # s
          BY <1>2, <1>7, <4>6, <5>2 DEF IInv, TypeOK
        <5>3. QED
          BY <5>1, <5>2
      <4>8. QED
        BY <4>2, <4>3, <4>7
    <3>3. QED
      BY <3>1, <3>2
  <2>6. LegacyTeardownCancels'
    <3> SUFFICES ASSUME NEW y \in Streams, pc'[y] \in {"done", "returned"},
                        NEW w \in DOMAIN watches', watches'[w].stream = y,
                        watches'[w].status = "active"
                 PROVE  FALSE
      BY DEF LegacyTeardownCancels
    <3>1. y # s
      BY <1>1, <1>7
    <3>2. w # id
      BY <2>3, <3>1
    <3>3. w \in DOMAIN watches
      BY <2>3, <3>2
    <3>4. watches[w].stream = y /\ watches[w].status = "active"
      BY <2>2, <2>3, <3>3
    <3>5. QED
      BY <1>7, <3>3, <3>4 DEF IInv, LegacyTeardownCancels
  <2>7. QED
    BY <1>4, <2>4, <2>5, <2>6 DEF IInv
<1>8. QED
  BY <1>1, <1>5, <1>6, <1>7

-----------------------------------------------------------------------------
(* The invariant holds initially and is kept by every step.               *)

LEMMA InitInv == Init => IInv
<1> SUFFICES ASSUME Init PROVE IInv
  OBVIOUS
<1>1. watches = <<>> /\ DOMAIN watches = {} /\ watches \in Seq(LWatch)
  BY EmptySeq DEF Init
<1>2. TypeOK
  <2>1. /\ pc \in [Streams -> LPCs]
        /\ streamNonce \in [Streams -> Nat]
        /\ nonce \in [Streams -> [Types -> Nat]]
        /\ node \in [Streams -> Nodes \cup {EmptyNode}]
        /\ deltaVersions \in [Types -> Versions \cup {NoVersion}]
    BY DEF Init, LPCs
  <2>2. /\ cancel \in [Streams -> [Types -> DOMAIN watches \cup {Nil}]]
        /\ chan \in [Streams -> [Types -> DOMAIN watches \cup {Nil}]]
    BY DEF Init
  <2>3. /\ rpc \in [Streams -> {"recv", "check", "push", "done"}]
        /\ pending \in [Streams -> LRequest \cup {Nil, RecvErr}]
    BY DEF Init
  <2>4. /\ reqClosed \in [Streams -> BOOLEAN]
        /\ reqStop \in [Streams -> BOOLEAN]
        /\ ctxDone \in BOOLEAN
    BY DEF Init
  <2>5. sent \in [Streams -> 0..MaxRequests]
    BY DEF Init
  <2>6. QED
    BY <1>1, <2>1, <2>2, <2>3, <2>4, <2>5 DEF TypeOK
<1>3. ReaderPending
  BY DEF Init, ReaderPending
<1>4. LegacyWatchTracked /\ LegacyTeardownCancels
  BY <1>1 DEF LegacyWatchTracked, LegacyTeardownCancels
<1>5. QED
  BY <1>2, <1>3, <1>4 DEF IInv

LEMMA NextInv == IInv /\ [Next]_vars => IInv'
<1> SUFFICES ASSUME IInv, [Next]_vars PROVE IInv'
  OBVIOUS
<1>1. CASE \E s \in Streams : Processor(s)
  <2>1. PICK s \in Streams : Processor(s)
    BY <1>1
  <2>2. CASE OpenStream(s) \/ OpenStreamFails(s) \/ ContextDone(s)
    BY <2>2, OpenStreamInv, OpenStreamFailsInv, ContextDoneInv
  <2>3. CASE \E t \in Types : Respond(s, t) \/ WatchFailed(s, t)
    BY <2>3, RespondInv, WatchFailedInv
  <2>4. CASE RequestsClosed(s) \/ RejectRequest(s) \/ HandleRequest(s)
    BY <2>4, RequestsClosedInv, RejectRequestInv, HandleRequestInv
  <2>5. CASE Teardown(s) \/ HandlerReturn(s)
    BY <2>5, TeardownInv, HandlerReturnInv
  <2>6. QED
    BY <2>1, <2>2, <2>3, <2>4, <2>5 DEF Processor
<1>2. CASE \E s \in Streams : Reader(s)
  BY <1>2, ReaderRecvInv, ReaderRecvErrInv, ReaderCheckInv DEF Reader
<1>3. CASE Cache
  BY <1>3, CacheInv
<1>4. CASE CancelContext
  BY <1>4, CancelContextInv
<1>5. CASE UNCHANGED vars
  BY <1>5 DEF vars, streamVars, readerVars, IInv, TypeOK, ReaderPending,
              LegacyWatchTracked, LegacyTeardownCancels
<1>6. QED
  BY <1>1, <1>2, <1>3, <1>4, <1>5 DEF Next

-----------------------------------------------------------------------------
(* Theorems.                                                               *)

(* The legacy handler's bookkeeping for every number of streams, types   *)
(* and requests: TypeOK, the reader's invariant, the tracking of every   *)
(* open watch by its stream's per-type cancel and channel fields, and    *)
(* teardown leaving no open watch hold in every reachable state.         *)
THEOREM LegacyInvariant == Spec => []IInv
<1>1. Init => IInv
  BY InitInv
<1>2. IInv /\ [Next]_vars => IInv'
  BY NextInv
<1>3. QED
  BY <1>1, <1>2, PTL DEF Spec

(* Every variable of the legacy model keeps its type.                     *)
THEOREM LegacyTypeCorrect == Spec => []TypeOK
<1>1. IInv => TypeOK
  BY DEF IInv
<1>2. QED
  BY <1>1, LegacyInvariant, PTL

(* Every open watch of every stream is the one held by the cancel and    *)
(* channel fields of its stream and type (processDelta, lines 270-313):  *)
(* re-creating a watch never leaves the previous one open.               *)
THEOREM LegacyWatchesTracked == Spec => []LegacyWatchTracked
<1>1. IInv => LegacyWatchTracked
  BY DEF IInv
<1>2. QED
  BY <1>1, LegacyInvariant, PTL

(* After the deferred values.Cancel() of a stream (lines 90-95), none of *)
(* its watches is open in the cache.                                      *)
THEOREM LegacyTeardownReleases == Spec => []LegacyTeardownCancels
<1>1. IInv => LegacyTeardownCancels
  BY DEF IInv
<1>2. QED
  BY <1>1, LegacyInvariant, PTL
=============================================================================
