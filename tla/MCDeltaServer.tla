---------------------------- MODULE MCDeltaServer ----------------------------
(* Small instances of DeltaServer for TLC.                                 *)
EXTENDS DeltaServer

CONSTANTS T1, T2, R1, N1

(* An ADS stream multiplexing two resource types.                         *)
AdsTypes == {T1, T2}
AdsReqTypes == {T1, T2, NoType}

(* A single-type (xDS) stream for T1; the client omits or repeats the     *)
(* type URL.                                                               *)
XdsTypes == {T1}
XdsReqTypes == {T1, NoType}

MCNames == {R1}
MCNodes == {N1}
=============================================================================
