--------------------------- MODULE MCStreamManager ---------------------------
(* Instances of StreamManager: two calls of getStream and up to two          *)
(* scheduled creations, over one or two connections to the peer.             *)
EXTENDS StreamManager

CONSTANTS c1, c2, j1, j2, k1, k2
=============================================================================
