------------------------- MODULE MC_PeerConnection -------------------------
(* Model-checking instances of PeerConnection.                              *)
EXTENDS PeerConnection

CONSTANTS p1, p2, f1, f2, f3

\* Two peers with one forwarded response each.
MC_TwoPeers == {p1, p2}
MC_TwoFwd == {f1, f2}
MC_TargetTwo == (f1 :> p1) @@ (f2 :> p2)
\* One peer receiving three forwarded responses: batches, acknowledgements
\* and reconnection of a single connection.
MC_OnePeer == {p1}
MC_ThreeFwd == {f1, f2, f3}
MC_TargetOne == (f1 :> p1) @@ (f2 :> p1) @@ (f3 :> p1)
\* One peer receiving two forwarded responses: small enough for liveness.
MC_TwoFwdOnePeer == (f1 :> p1) @@ (f2 :> p1)
=============================================================================
