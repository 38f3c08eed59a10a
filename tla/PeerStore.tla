------------------------------- MODULE PeerStore -------------------------------
(***************************************************************************)
(* The peer store of libp2p, as @waku/discovery uses it, and the "peer"    *)
(* events that its parts dispatch.  A set of shards that is empty stands   *)
(* for a peer without shard info.                                          *)
(***************************************************************************)
EXTENDS FiniteSets, Integers, Sequences

CONSTANTS
    Peer,
    Addr,    \* multiaddrs
    Shard

VARIABLES
    peerStore,  \* what the store has of each peer
    announced   \* history: the peers of "peer" and "peer:identify" events

Tag == {"bootstrap", "local", "peer-exchange"}

Data == [known : BOOLEAN, addrs : SUBSET Addr, shards : SUBSET Shard, tags : SUBSET Tag]

Unknown == [known |-> FALSE, addrs |-> {}, shards |-> {}, tags |-> {}]

StoreTypes ==
    /\ peerStore \in [Peer -> Data]
    /\ announced \subseteq Peer

StoreInit ==
    /\ peerStore = [p \in Peer |-> Unknown]
    /\ announced = {}

Has(p) == peerStore[p].known

\* save overwrites all there is of a peer, patch and merge only what is given.
Save(p, addrs, shards, tags) ==
    peerStore' = [peerStore EXCEPT
      ![p] = [known |-> TRUE, addrs |-> addrs, shards |-> shards, tags |-> tags]]

PatchAddrs(p, addrs)   == peerStore' = [peerStore EXCEPT ![p].known = TRUE, ![p].addrs = addrs]
MergeShards(p, shards) == peerStore' = [peerStore EXCEPT ![p].known = TRUE, ![p].shards = shards]
MergeTag(p, tag)       == peerStore' = [peerStore EXCEPT ![p].known = TRUE, ![p].tags = @ \cup {tag}]

\* identify of libp2p stores the addresses of a connected peer.
StoreIdentified(p, addrs) ==
    /\ PatchAddrs(p, addrs)
    /\ announced' = announced \cup {p}

Announce(p) ==
    /\ announced' = announced \cup {p}
    /\ UNCHANGED peerStore

\* The connection manager gives up a peer.
Forget(p) ==
    /\ Has(p)
    /\ peerStore' = [peerStore EXCEPT ![p] = Unknown]
    /\ UNCHANGED announced

\* The page is closed: the store is in memory.
StoreCloses ==
    /\ peerStore' = [p \in Peer |-> Unknown]
    /\ announced' = {}
=============================================================================
