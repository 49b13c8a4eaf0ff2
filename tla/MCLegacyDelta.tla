---------------------------- MODULE MCLegacyDelta ----------------------------
(* Small instances of LegacyDelta for TLC.                                 *)
EXTENDS LegacyDelta

CONSTANTS S1, S2, T1, T2, N1, V1, V2

(* One ADS stream multiplexing two resource types.                        *)
OneStream == {S1}
AdsTypes == {T1, T2}
AdsReqTypes == {T1, T2, NoType}

(* Two single-type (xDS) streams for T1 on the same server.               *)
TwoStreams == {S1, S2}
XdsTypes == {T1}
XdsReqTypes == {T1, NoType}

MCNodes == {N1}
OneVersion == {V1}
TwoVersions == {V1, V2}
=============================================================================
