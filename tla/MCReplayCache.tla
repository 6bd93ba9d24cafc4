--------------------------- MODULE MCReplayCache ---------------------------
(* Four grants: three are live at the same time in a cache with room for    *)
(* two, and the fourth carries the nonce of the first.                      *)
EXTENDS ReplayCache, TLC

CONSTANTS g1, g2, g3, g4

MCGrants == {g1, g2, g3, g4}
MCNonce == g1 :> 1 @@ g2 :> 2 @@ g3 :> 3 @@ g4 :> 1
MCIssuedAt == g1 :> 0 @@ g2 :> 0 @@ g3 :> 0 @@ g4 :> 2
MCExpiresAt == g1 :> 1 @@ g2 :> 1 @@ g3 :> 2 @@ g4 :> 3
=============================================================================
