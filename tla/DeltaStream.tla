----------------------------- MODULE DeltaStream -----------------------------
(***************************************************************************)
(* What one delta stream promises, seen from the client and the cache,    *)
(* without channels, handles or the reader (spec sections 3, 4.2 and 4.3): *)
(*   - a response is applied only for a type that has a registered watch, *)
(*     and applying it consumes that watch;                                *)
(*   - the n-th response applied carries nonce n, and the type's stream   *)
(*     state becomes that nonce and the response's version map;           *)
(*   - a request may remove names from its type's version map, and may    *)
(*     end the stream;                                                     *)
(*   - a send that fails ends the stream, touching only its own type;      *)
(*   - once the stream is closed nothing changes.                          *)
(***************************************************************************)
EXTENDS Naturals

CONSTANTS Types, Names

VARIABLES
    phase,       \* "opening", "serving" or "closed"
    lastNonce,   \* the nonce of the last response sent
    applied,     \* applied[t]: the stream state of type t
    subscribed   \* subscribed[t]: a watch is registered for t

streamVars == <<phase, lastNonce, applied, subscribed>>

SState == [nonce : Nat, rv : SUBSET Names]

Init ==
    /\ phase = "opening"
    /\ lastNonce = 0
    /\ applied = [t \in Types |-> [nonce |-> 0, rv |-> {}]]
    /\ subscribed = [t \in Types |-> FALSE]

(* The stream opens.                                                       *)
Open ==
    /\ phase = "opening"
    /\ phase' = "serving"
    /\ UNCHANGED <<lastNonce, applied, subscribed>>

(* A request for t unsubscribes the names u, and may end the stream.      *)
Request(t, u) ==
    /\ phase = "serving"
    /\ applied' = [applied EXCEPT ![t].rv = @ \ u]
    /\ phase' \in {"serving", "closed"}
    /\ UNCHANGED <<lastNonce, subscribed>>

(* A watch is registered for t.                                            *)
Subscribe(t) ==
    /\ phase = "serving"
    /\ subscribed' = [subscribed EXCEPT ![t] = TRUE]
    /\ UNCHANGED <<phase, lastNonce, applied>>

(* The answer of t's watch, with version map vm, is sent and applied.     *)
Apply(t, vm) ==
    /\ phase = "serving"
    /\ subscribed[t]
    /\ lastNonce' = lastNonce + 1
    /\ applied' = [applied EXCEPT ![t] = [nonce |-> lastNonce + 1, rv |-> vm]]
    /\ subscribed' = [subscribed EXCEPT ![t] = FALSE]
    /\ UNCHANGED phase

(* The stream ends, before or after opening.                               *)
Close ==
    /\ phase \in {"opening", "serving"}
    /\ phase' = "closed"
    /\ UNCHANGED <<lastNonce, applied, subscribed>>

(* Sending the answer of t's watch fails and ends the stream: its nonce  *)
(* may already be used, and t's state may be reset with its registration *)
(* gone. Every other type keeps what it had.                             *)
FailSend(t) ==
    /\ phase = "serving"
    /\ subscribed[t]
    /\ phase' = "closed"
    /\ lastNonce' \in {lastNonce, lastNonce + 1}
    /\ \/ UNCHANGED <<applied, subscribed>>
       \/ /\ applied' = [applied EXCEPT ![t] = [nonce |-> 0, rv |-> {}]]
          /\ subscribed' = [subscribed EXCEPT ![t] = FALSE]

Next ==
    \/ Open
    \/ Close
    \/ \E t \in Types :
          \/ Subscribe(t)
          \/ FailSend(t)
          \/ \E u \in SUBSET Names : Request(t, u) \/ Apply(t, u)

Spec == Init /\ [][Next]_streamVars
=============================================================================
