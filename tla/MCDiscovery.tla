------------------------------ MODULE MCDiscovery ------------------------------
(* A peer that serves peer exchange and tells of another one, which the DNS *)
(* tree has too.                                                            *)
EXTENDS Discovery

CONSTANTS p1, p2, a, k1, k2

MCEntry == [s \in Subdomain |->
    IF s = "domain"
      THEN [kind |-> "root", next |-> {"leaf"}, peer |-> "none", info |-> FALSE, caps |-> {}, shards |-> {}]
      ELSE [kind |-> "leaf", next |-> {}, peer |-> p1, info |-> TRUE, caps |-> {"filter"}, shards |-> {1}]]

MCWanted == [c \in Capability |-> 1]

MCAnswer == {[peer |-> p1, addrs |-> {}, shards |-> {2}]}
=============================================================================
