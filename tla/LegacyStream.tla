----------------------------- MODULE LegacyStream -----------------------------
(***************************************************************************)
(* What the legacy delta handler promises each of its streams, without    *)
(* channels, cancel functions, the reader or the shared version map:      *)
(*   - a stream opens once and ends once; after it ends nothing about it  *)
(*     changes;                                                            *)
(*   - a response for type t is sent only while the stream has a watch of *)
(*     t registered, and sending it consumes that watch;                  *)
(*   - the responses of a stream carry the nonces 1, 2, 3, ... in order,  *)
(*     and t's last nonce is the nonce of the last response for t that    *)
(*     went out whole;                                                     *)
(*   - a response that fails to go out ends the stream, its nonce used;   *)
(*   - every step is the step of one stream and touches no other stream.  *)
(***************************************************************************)
EXTENDS Naturals

CONSTANTS Streams, Types

VARIABLES
    phase,       \* phase[s]: "opening", "serving" or "closed"
    lastNonce,   \* lastNonce[s]: the nonce of the last response of s
    typeNonce,   \* typeNonce[s][t]: the nonce recorded for t, 0 if none
    subscribed   \* subscribed[s][t]: s has a watch of t registered

lsVars == <<phase, lastNonce, typeNonce, subscribed>>

Init ==
    /\ phase = [s \in Streams |-> "opening"]
    /\ lastNonce = [s \in Streams |-> 0]
    /\ typeNonce = [s \in Streams |-> [t \in Types |-> 0]]
    /\ subscribed = [s \in Streams |-> [t \in Types |-> FALSE]]

(* Stream s opens.                                                         *)
Open(s) ==
    /\ phase[s] = "opening"
    /\ phase' = [phase EXCEPT ![s] = "serving"]
    /\ UNCHANGED <<lastNonce, typeNonce, subscribed>>

(* Stream s ends, before or after opening.                                 *)
Close(s) ==
    /\ phase[s] \in {"opening", "serving"}
    /\ phase' = [phase EXCEPT ![s] = "closed"]
    /\ UNCHANGED <<lastNonce, typeNonce, subscribed>>

(* A request of s registers a watch of t.                                  *)
Subscribe(s, t) ==
    /\ phase[s] = "serving"
    /\ subscribed' = [subscribed EXCEPT ![s][t] = TRUE]
    /\ UNCHANGED <<phase, lastNonce, typeNonce>>

(* The answer of s's watch of t goes out with the stream's next nonce.    *)
Apply(s, t) ==
    /\ phase[s] = "serving"
    /\ subscribed[s][t]
    /\ lastNonce' = [lastNonce EXCEPT ![s] = @ + 1]
    /\ typeNonce' = [typeNonce EXCEPT ![s][t] = lastNonce[s] + 1]
    /\ subscribed' = [subscribed EXCEPT ![s][t] = FALSE]
    /\ UNCHANGED phase

(* The answer of s's watch of t takes the next nonce but does not go out  *)
(* whole: the stream ends and t keeps the nonce it had.                   *)
FailSend(s, t) ==
    /\ phase[s] = "serving"
    /\ subscribed[s][t]
    /\ phase' = [phase EXCEPT ![s] = "closed"]
    /\ lastNonce' = [lastNonce EXCEPT ![s] = @ + 1]
    /\ subscribed' = [subscribed EXCEPT ![s][t] = FALSE]
    /\ UNCHANGED typeNonce

Next ==
    \E s \in Streams :
        \/ Open(s)
        \/ Close(s)
        \/ \E t \in Types : Subscribe(s, t) \/ Apply(s, t) \/ FailSend(s, t)

Spec == Init /\ [][Next]_lsVars
=============================================================================
