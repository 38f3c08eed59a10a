------------------------------ MODULE MCReadiness ------------------------------
(* Two peers of both health protocols, one of which serves Store as well.  *)
EXTENDS Readiness, TLC

CONSTANTS a, b, c1, c2, w1

MCPeerOf == [c \in Conn |-> IF c = c1 THEN a ELSE b]
MCServes == [p \in Peer |-> IF p = a THEN {"filter", "lightpush", "store"}
                                     ELSE {"filter", "lightpush"}]
=============================================================================
