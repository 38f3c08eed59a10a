--------------------------- MODULE MCSingleDiscovery ---------------------------
(* A tree with circles: two branches that lead to each other and to a third, *)
(* and a second root below a branch, which leads by a third one back up.     *)
(* One of the nodes has no peer id.  The cache hears of two peers, at two    *)
(* addresses in turn.                                                        *)
EXTENDS SingleDiscovery

CONSTANTS p, q, r, a, b

TxtRecord(kind, next, peer, caps) ==
    [kind |-> kind, next |-> next, peer |-> peer, info |-> peer # r, caps |-> caps, shards |-> {}]

MCEntry == [s \in Subdomain |->
    CASE s = "domain" -> TxtRecord("root", {"b1"}, "none", {})
      [] s = "b1" -> TxtRecord("branch", {"b2", "b3", "root2", "leaf1"}, "none", {})
      [] s = "b2" -> TxtRecord("branch", {"b1", "leaf2"}, "none", {})
      [] s = "b3" -> TxtRecord("branch", {"b1", "b2", "leaf3"}, "none", {})
      [] s = "root2" -> TxtRecord("root", {"root3"}, "none", {})
      [] s = "root3" -> TxtRecord("root", {"b1"}, "none", {})
      [] s = "leaf1" -> TxtRecord("leaf", {}, p, {"filter"})
      [] s = "leaf2" -> TxtRecord("leaf", {}, q, {"filter", "store"})
      [] s = "leaf3" -> TxtRecord("leaf", {}, r, {"filter"})]

MCWanted == [c \in Capability |-> 1]
=============================================================================
