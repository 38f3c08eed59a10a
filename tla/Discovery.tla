------------------------------- MODULE Discovery -------------------------------
(***************************************************************************)
(* The discoveries of a node at work on one peer store: DNS, peer exchange *)
(* and the local peer cache, beside identify and the connection manager,   *)
(* which gives up peers.                                                   *)
(***************************************************************************)
EXTENDS DnsDiscovery, PeerExchange, LocalPeerCache

CONSTANTS Identified   \* the addresses with which a peer may be identified

ASSUME DiscoveryAssumption == Identified \subseteq SUBSET Addr

vars == <<peerStore, announced, dnsVars, pxVars, lcVars>>

Init == StoreInit /\ DnsInit /\ PxInit /\ LcInit

\* The listeners of peer:identify, in the order in which they were added or not:
\* they do not share state.
Identify(p, addrs) ==
    /\ StoreIdentified(p, addrs)
    /\ IF p \in Server THEN HandleDiscoveredPeer(p) ELSE UNCHANGED pxVars
    /\ HandleNewPeer(p, addrs)
    /\ UNCHANGED dnsVars

\* The page is closed: the store and all that is in memory are gone.
Restart ==
    /\ LcRestart
    /\ StoreCloses
    /\ dnsStarted' = FALSE /\ dns' = Idle
    /\ listening' = FALSE /\ queryingPeers' = {}
    /\ queryAttempts' = [p \in Server |-> 0]
    /\ chains' = [k \in Chain |-> NoChain]

Next ==
    \/ DnsNext /\ UNCHANGED <<pxVars, lcVars>>
    \/ (\E k \in Chain : ChainStep(k)) /\ UNCHANGED <<dnsVars, lcVars>>
    \/ PxStart /\ UNCHANGED <<dnsVars, lcVars, peerStore, announced>>
    \/ (LcStart \/ LcStep \/ LcStop) /\ UNCHANGED <<dnsVars, pxVars>>
    \/ \E p \in Peer, addrs \in Identified : Identify(p, addrs)
    \/ (\E p \in Peer : Forget(p)) /\ UNCHANGED <<dnsVars, pxVars, lcVars>>
    \/ Restart

\* Every request is answered or fails, and every timer fires.
Fairness ==
    /\ WF_vars(DnsStep /\ UNCHANGED <<pxVars, lcVars>>)
    /\ \A k \in Chain : WF_vars(ChainStep(k) /\ UNCHANGED <<dnsVars, lcVars>>)

Spec == Init /\ [][Next]_vars /\ Fairness

-----------------------------------------------------------------------------
\* A peer in the store is one that the node has met, that the connection manager
\* was told of, or that a discovery is about to announce.
StoredIsAnnounced ==
    \A p \in Peer : Has(p) =>
      \/ p \in announced
      \/ dns.pc = "dispatch" /\ Told = p
      \/ loop.pc = "dispatch" /\ loop.peer = p
      \/ \E k \in Chain : chains[k].pc = "enr" /\ chains[k].enr.peer = p
                            /\ chains[k].todo = <<"dispatch">>
=============================================================================
