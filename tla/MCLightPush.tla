------------------------------ MODULE MCLightPush ------------------------------
(* Three peers with a connection each.                                      *)
EXTENDS LightPush

CONSTANTS p1, p2, p3, c1, c2, c3, r1

MCPeerOf == c1 :> p1 @@ c2 :> p2 @@ c3 :> p3
=============================================================================
