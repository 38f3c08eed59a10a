---------------------------- MODULE HealthIndicator ----------------------------
(***************************************************************************)
(* The health indicator of @waku/sdk.  A peer's first connection and its   *)
(* last one's end are events; the handler of each takes the connections of *)
(* that moment, reads their peers from the peer store and sets the value.  *)
(* Handlers end in any order.                                              *)
(***************************************************************************)
EXTENDS Integers, FiniteSets

CONSTANTS
    Conn,    \* connections
    PeerOf,  \* the remote peer of each
    Serves,  \* the protocols of each peer
    MaxChecks \* bound: suspended handlers

VARIABLES
    open,        \* libp2p's connections
    identified,  \* peers whose protocols are in the peer store
    watching,    \* the listeners are attached
    checking,    \* what suspended handlers saw of "open"; alike count as one
    value,       \* the health
    paired       \* history: two connections to Filter peers at one time

healthVars == <<watching, checking, value, paired>>

Status == {"Unhealthy", "MinimallyHealthy", "SufficientlyHealthy"}

HealthTypes ==
    /\ open \subseteq Conn
    /\ watching \in BOOLEAN
    /\ checking \subseteq SUBSET Conn
    /\ value \in Status
    /\ paired \in BOOLEAN

HealthInit ==
    /\ open = {}
    /\ watching = FALSE
    /\ checking = {}
    /\ value = "Unhealthy"
    /\ paired = FALSE

\* Connections among s to peers that serve the protocol, whether known or not.
To(protocol, s) == {c \in s : protocol \in Serves[PeerOf[c]]}

\* What the peer store says of s: connections are counted, not their peers.
Count(protocol, s) ==
    Cardinality({c \in To(protocol, s) : PeerOf[c] \in identified})

\* The connections of c's peer.
Same(c) == {d \in open : PeerOf[d] = PeerOf[c]}

-----------------------------------------------------------------------------
StartHealth ==
    /\ watching' = TRUE
    /\ UNCHANGED <<open, checking, value, paired>>

StopHealth ==
    /\ watching' = FALSE
    /\ UNCHANGED <<open, checking, value, paired>>

\* Up to the handler's await.
PeerChange(isEvent) ==
    /\ watching /\ isEvent => Cardinality(checking) < MaxChecks
    /\ checking' = IF watching /\ isEvent THEN checking \cup {open'} ELSE checking
    /\ paired' = (paired \/ Cardinality(To("filter", open')) > 1)
    /\ UNCHANGED <<watching, value>>

ConnectionOpens(c) ==
    /\ c \notin open
    /\ open' = open \cup {c}
    /\ PeerChange(Same(c) = {})

ConnectionCloses(c) ==
    /\ c \in open
    /\ open' = open \ {c}
    /\ PeerChange(Same(c) = {c})

\* Mutant: one Filter peer is enough.
AssessLow(s) ==
    /\ s \in checking
    /\ checking' = checking \ {s}
    /\ value' = IF s = {} THEN "Unhealthy"
                ELSE IF Count("filter", s) >= 1 /\ Count("lightpush", s) >= 1
                  THEN "SufficientlyHealthy" ELSE value
    /\ UNCHANGED <<open, watching, paired>>

\* The rest of the handler that saw s.  The value stays with one Filter peer and
\* two of Light Push, for example.
Assess(s) ==
    LET filterPeers    == Count("filter", s)
        lightPushPeers == Count("lightpush", s)
    IN /\ s \in checking
       /\ checking' = checking \ {s}
       /\ value' =
            IF s = {} THEN "Unhealthy"
            ELSE IF filterPeers >= 2 /\ lightPushPeers >= 2 THEN "SufficientlyHealthy"
            ELSE IF filterPeers = 1 /\ lightPushPeers = 1 THEN "MinimallyHealthy"
            ELSE value
       /\ UNCHANGED <<open, watching, paired>>

HealthNext ==
    \/ StartHealth \/ StopHealth
    \/ \E c \in Conn : ConnectionOpens(c) \/ ConnectionCloses(c)
    \/ \E s \in checking : Assess(s)

-----------------------------------------------------------------------------
\* "SufficientlyHealthy" is said only of a node that had two connections to
\* Filter peers at one time, however late the handlers end and whatever they saw.
SufficientEarned == value = "SufficientlyHealthy" => paired

\* "Unhealthy: No peer connections" (the class's comment): a node that has none,
\* and whose handlers have ended, says so.  The code does not keep it, and no run
\* checks it: see the README.
AloneIsUnhealthy == watching /\ open = {} /\ checking = {} => value = "Unhealthy"
=============================================================================
