------------------------------- MODULE Readiness -------------------------------
(***************************************************************************)
(* A light node's view of its peers: the health indicator and the calls of *)
(* waitForRemotePeer, over the same connections and the same peer store.   *)
(***************************************************************************)
EXTENDS HealthIndicator

CONSTANTS Peer, Protocol, Wait, MaxQueries, HasMetadata

\* Every connection has a remote peer.  A handshake of the scan is not taken for one
\* of a listener.
ASSUME ReadyAssumption == PeerOf \in [Conn -> Peer] /\ "scan" \notin Protocol

VARIABLES confirmed, waits, queries

connected == {PeerOf[c] : c \in open}

W == INSTANCE WaitForPeers

vars == <<open, identified, healthVars, confirmed, waits, queries>>

TypeOK == HealthTypes /\ W!WaitTypes

Init == HealthInit /\ W!WaitInit

Next ==
    \/ HealthNext /\ UNCHANGED <<identified, confirmed, waits, queries>>
    \/ W!WaitNext /\ UNCHANGED <<open, healthVars>>

Spec == Init /\ [][Next]_vars

-----------------------------------------------------------------------------
\* See WaitForPeers.
ColdWaitServed   == W!ColdWaitServed
ScanConfirms     == W!ScanConfirms
=============================================================================
