----------------------------- MODULE PeerManager -----------------------------
(***************************************************************************)
(* The peer manager of @waku/sdk: it keeps numPeersToUse connections       *)
(* "locked" for the protocols to use.  The lock is a tag on libp2p's       *)
(* connection object, so it goes when the connection goes.                 *)
(*                                                                         *)
(* A peer can have several connections.  libp2p emits "peer:connect" for   *)
(* the first one of a peer and "peer:disconnect" when the last one is      *)
(* gone; a connection that is closing is still listed by getConnections,   *)
(* with another status.  The handlers run to their end in the same stretch *)
(* as the event, so each is one action with the change it announces.       *)
(***************************************************************************)
EXTENDS Integers, FiniteSets

CONSTANTS
    Conn,           \* the connections
    Peer,           \* the peers
    PeerOf,         \* the remote peer of each connection
    NumPeersToUse   \* config.numPeersToUse

ASSUME ConnAssumption ==
    /\ IsFiniteSet(Conn)
    /\ PeerOf \in [Conn -> Peer]

ASSUME SizeAssumption == NumPeersToUse \in Nat \ {0}

VARIABLES
    state,      \* "absent" (not listed by getConnections), "open" or "closing"
    locked,     \* the listed connections with the lock tag
    listening   \* stop() was not called

vars == <<state, locked, listening>>

Open      == {c \in Conn : state[c] = "open"}
Listed(p) == {c \in Conn : PeerOf[c] = p /\ state[c] # "absent"}

\* getLockedConnections; getPeers returns their peers.
Pool == Open \cap locked

TypeOK ==
    /\ state \in [Conn -> {"absent", "open", "closing"}]
    /\ locked \subseteq {c \in Conn : state[c] # "absent"}
    /\ listening \in BOOLEAN

Init ==
    /\ state = [c \in Conn |-> "absent"]
    /\ locked = {}
    /\ listening = TRUE

-----------------------------------------------------------------------------
\* Mutant: one connection more than the pool lacks.
RenewOneMore(p, open, tagged) ==
    LET needed == NumPeersToUse - Cardinality(open \cap tagged)
        others == {c \in open \ tagged : PeerOf[c] # p}
    IN IF needed = 0
         THEN locked' = tagged
         ELSE \E new \in SUBSET others :
                /\ Cardinality(new) <= needed + 1
                /\ locked' = tagged \cup new

\* requestRenew for peer p, on the connections (open) and the locks (tagged)
\* that it finds: the first unlocked connections of other peers are locked, as
\* many as the pool lacks.  The order of getConnections is left open.
Renew(p, open, tagged) ==
    LET needed == NumPeersToUse - Cardinality(open \cap tagged)
        others == {c \in open \ tagged : PeerOf[c] # p}
    IN IF needed = 0
         THEN locked' = tagged
         ELSE \E new \in SUBSET others :
                /\ IF Cardinality(others) >= needed
                     THEN Cardinality(new) = needed ELSE new = others
                /\ locked' = tagged \cup new

\* Mutant: the pool's size is not looked at.
LockAlways(c) == locked' = locked \cup {c}

\* lockPeerIfNeeded, when connection c of its peer has opened: every unlocked
\* open connection of the peer is locked, and c is the only one there is.
LockIfNeeded(c) ==
    locked' = IF NumPeersToUse - Cardinality(Pool) = 0
                THEN locked ELSE locked \cup {c}

\* A connection opens; "peer:connect" if it is its peer's first.
ConnectionOpens(c) ==
    /\ state[c] = "absent"
    /\ state' = [state EXCEPT ![c] = "open"]
    /\ IF listening /\ Listed(PeerOf[c]) = {}
         THEN LockIfNeeded(c)
         ELSE UNCHANGED locked
    /\ UNCHANGED listening

\* close() was called, or the other side closes: not open any more, but listed.
ConnectionCloses(c) ==
    /\ state[c] = "open"
    /\ state' = [state EXCEPT ![c] = "closing"]
    /\ UNCHANGED <<locked, listening>>

\* Mutants: a peer that disconnects is not replaced; the lock outlives the
\* connection.
ConnectionGoneUnseen(c) ==
    /\ state[c] # "absent"
    /\ state' = [state EXCEPT ![c] = "absent"]
    /\ locked' = locked \ {c}
    /\ UNCHANGED listening

ConnectionGoneLocked(c) ==
    /\ state[c] # "absent"
    /\ state' = [state EXCEPT ![c] = "absent"]
    /\ UNCHANGED <<locked, listening>>

\* The connection is gone; "peer:disconnect" if it was its peer's last.
ConnectionGone(c) ==
    /\ state[c] # "absent"
    /\ state' = [state EXCEPT ![c] = "absent"]
    /\ IF listening /\ Listed(PeerOf[c]) = {c}
         THEN Renew(PeerOf[c], Open \ {c}, locked \ {c})
         ELSE locked' = locked \ {c}
    /\ UNCHANGED listening

\* A user of the pool (the filter's subscription monitor, when p fails its
\* pings or rejects a subscription) asks for another peer than p.
RequestRenew(p) ==
    /\ Renew(p, Open, locked)
    /\ UNCHANGED <<state, listening>>

Stop ==
    /\ listening
    /\ listening' = FALSE
    /\ UNCHANGED <<state, locked>>

Next ==
    \/ \E c \in Conn :
         ConnectionOpens(c) \/ ConnectionCloses(c) \/ ConnectionGone(c)
    \/ \E p \in Peer : RequestRenew(p)
    \/ Stop

Spec == Init /\ [][Next]_vars

-----------------------------------------------------------------------------
(* What the peer manager keeps true.                                       *)

\* However connections of several peers open and close between the calls, the
\* pool never holds more than numPeersToUse connections.
LockedWithinBudget == Cardinality(Pool) <= NumPeersToUse

\* If no peer ever has two connections, no open connection is left unused
\* while the pool is short, but for the time a locked one takes to close.
PoolSaturated ==
    (listening /\ \A c, d \in Conn : PeerOf[c] = PeerOf[d] => c = d) =>
        Open \subseteq locked \/ Cardinality(locked) >= NumPeersToUse

\* The peer manager implements the pool.
AbstractPool == INSTANCE PeerPool WITH Size <- NumPeersToUse, open <- Open, pool <- Pool

ImplementsPool == AbstractPool!Spec
=============================================================================
