---------------------------- MODULE SingleDiscovery ----------------------------
(***************************************************************************)
(* A node whose options enable one discovery, DNS or the local peer cache, *)
(* beside the connection manager, which gives up peers.                    *)
(***************************************************************************)
EXTENDS DnsDiscovery, LocalPeerCache

CONSTANT Met   \* the peers that are identified

ASSUME MetAssumption == Met \subseteq Peer

VARIABLE enabled

dnsPart    == <<dnsStarted, dns>>
singleVars == <<enabled, peerStore, announced, dnsPart, lcVars>>

SingleInit ==
    /\ enabled \in {"dns", "local"}
    /\ StoreInit /\ DnsInit /\ LcInit

LocalNext ==
    \/ LcStart \/ LcStep \/ LcStop
    \/ \E p \in Met, addrs \in SUBSET Addr : StoreIdentified(p, addrs) /\ HandleNewPeer(p, addrs)
    \/ LcRestart /\ StoreCloses

SingleNext ==
    /\ UNCHANGED enabled
    /\ \/ enabled = "dns" /\ DnsNext /\ UNCHANGED lcVars
       \/ enabled = "local" /\ LocalNext /\ UNCHANGED dnsPart
       \/ \E p \in Peer : Forget(p) /\ UNCHANGED <<dnsPart, lcVars>>

\* Every query of a resolver and every promise of the peer store settles.
SingleSpec ==
    /\ SingleInit
    /\ [][SingleNext]_singleVars
    /\ WF_singleVars(enabled = "dns" /\ DnsStep /\ UNCHANGED <<enabled, lcVars>>)
=============================================================================
