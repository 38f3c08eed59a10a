----------------------------- MODULE LocalPeerCache -----------------------------
(***************************************************************************)
(* The local peer cache: the peers that were identified are kept in the    *)
(* browser's storage, and are discovered again at the next start.          *)
(* An address stands for a WebSocket multiaddr.                            *)
(*                                                                         *)
(* A page may have no storage; with one, a write may exceed the quota.     *)
(* What fails is logged and no more.                                       *)
(***************************************************************************)
EXTENDS PeerStore

CONSTANT MayFail   \* bound: if not, there is a storage, and it has room

VARIABLES
    lcStarted,    \* isStarted
    lcListening,  \* the listener is attached
    cache,        \* this.peers
    stored,       \* localStorage
    usable,       \* the page may use it
    loop,         \* start(): the peer at hand and those that are left
    heard,        \* history: the last address of each peer heard of
    unwritten     \* history: the peers of which it could not be written

lcVars == <<lcStarted, lcListening, cache, stored, usable, loop, heard, unwritten>>
history == <<heard, unwritten>>

\* A partial function from peers to addresses.
NoPeers == <<>>

\* Whether a page may have a storage.
Pages == IF MayFail THEN BOOLEAN ELSE {TRUE}

NotStarting == [pc |-> "idle", left |-> NoPeers, peer |-> "none"]

LcInit ==
    /\ lcStarted = FALSE
    /\ lcListening = FALSE
    /\ cache = NoPeers
    /\ stored = NoPeers
    /\ usable \in Pages
    /\ loop = NotStarting
    /\ heard = NoPeers
    /\ unwritten = {}

Without(f, p) == [q \in DOMAIN f \ {p} |-> f[q]]
With(f, p, a) == [q \in DOMAIN f \cup {p} |-> IF q = p THEN a ELSE f[q]]

\* getPeersFromLocalStorage: none when it throws.
Reading(may) == IF may THEN stored ELSE NoPeers

\* savePeersToLocalStorage
StorePeers(peers) ==
    \/ usable /\ stored' = peers
    \/ MayFail /\ stored' = stored

-----------------------------------------------------------------------------
LcStart ==
    /\ ~lcStarted
    /\ loop.pc = "idle"
    /\ lcListening' = TRUE
    /\ loop' = [pc |-> "has", left |-> cache, peer |-> "none"]
    /\ UNCHANGED <<lcStarted, cache, stored, usable, history, peerStore, announced>>

\* The peers in turn; one that the store has is skipped.
LcNext ==
    /\ loop.pc = "has"
    /\ IF DOMAIN loop.left = {}
         THEN lcStarted' = TRUE /\ loop' = NotStarting
         ELSE /\ \E p \in DOMAIN loop.left :
                   loop' = [loop EXCEPT !.pc = IF Has(p) THEN "has" ELSE "save", !.peer = p,
                              !.left = IF Has(p) THEN Without(@, p) ELSE @]
              /\ UNCHANGED lcStarted
    /\ UNCHANGED <<lcListening, cache, stored, usable, history, peerStore, announced>>

LcSave ==
    /\ loop.pc = "save"
    /\ Save(loop.peer, {loop.left[loop.peer]}, {}, {"local"})
    /\ loop' = [loop EXCEPT !.pc = "dispatch"]
    /\ UNCHANGED <<lcStarted, lcListening, cache, stored, usable, history, announced>>

LcDispatch ==
    /\ loop.pc = "dispatch"
    /\ Announce(loop.peer)
    /\ loop' = [loop EXCEPT !.pc = "has", !.left = Without(@, loop.peer)]
    /\ UNCHANGED <<lcStarted, lcListening, cache, stored, usable, history>>

\* Of no effect until start() has ended.
LcStop ==
    /\ lcStarted
    /\ lcStarted' = FALSE
    /\ lcListening' = FALSE
    /\ StorePeers(cache)
    /\ UNCHANGED <<cache, usable, loop, history, peerStore, announced>>

\* What is said of p is known from now on, and written or not.
Hear(p, a) ==
    /\ heard' = With(heard, p, a)
    /\ unwritten' = IF stored' = cache' THEN unwritten \ {p} ELSE unwritten \cup {p}

\* Mutant: the peers of this start are added to, not those in storage, and stop()
\* saves them.
HandleNewPeerInMemory(p, addrs) ==
    /\ IF lcListening /\ addrs # {}
         THEN \E a \in addrs :
                /\ cache' = With(cache, p, a)
                /\ heard' = With(heard, p, a)
         ELSE UNCHANGED <<cache, heard>>
    /\ UNCHANGED <<lcStarted, lcListening, usable, loop, stored, unwritten>>

\* handleNewPeers; without a WebSocket address it throws.
HandleNewPeer(p, addrs) ==
    /\ IF lcListening /\ addrs # {}
         THEN \E a \in addrs :
                /\ cache' = With(Reading(usable), p, a)
                /\ StorePeers(cache')
                /\ Hear(p, a)
         ELSE UNCHANGED <<cache, stored, history>>
    /\ UNCHANGED <<lcStarted, lcListening, usable, loop>>

\* Mutant: the constructor does not read the storage.
LcRestartEmpty ==
    /\ lcStarted' = FALSE
    /\ lcListening' = FALSE
    /\ loop' = NotStarting
    /\ usable' \in Pages
    /\ cache' = NoPeers
    /\ UNCHANGED <<stored, history>>

\* The page is closed and opened again: the storage is what is left.
LcRestart ==
    /\ lcStarted' = FALSE
    /\ lcListening' = FALSE
    /\ loop' = NotStarting
    /\ usable' \in Pages
    /\ cache' = Reading(usable')
    /\ UNCHANGED <<stored, history>>

LcStep == LcNext \/ LcSave \/ LcDispatch

-----------------------------------------------------------------------------
\* Whatever is restarted or stopped, at any point, the storage has the last address
\* of every peer heard of, but for those whose address could not be written when it came.
HeardIsStored ==
    \A p \in DOMAIN heard \ unwritten : p \in DOMAIN stored /\ stored[p] = heard[p]

\* Nothing that was stored is lost, whichever writes fail: a peer of an earlier page is
\* still there after a stop() or an event of a later one, whose write is of all peers.
StorageLosesNone == [][DOMAIN stored \subseteq DOMAIN stored']_stored
=============================================================================
