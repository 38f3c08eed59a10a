-------------------------- MODULE ConnectionManager --------------------------
(***************************************************************************)
(* The connection manager of @waku/core for a light node (no relay): which *)
(* peers it dials, how many at once, what it does when libp2p says that a  *)
(* peer connected or disconnected, and when it falls back on DNS           *)
(* discovery.                                                              *)
(*                                                                         *)
(* JavaScript runs a handler to its next await without interruption, so    *)
(* an action is one such stretch.  pc[r] says at which await the r-th call *)
(* of attemptDial (or of dialPeer, for the calls the application makes)    *)
(* is suspended.  A call queued in pendingPeerDialQueue keeps its name: the*)
(* call that takes the peer out of the queue is a new attemptDial for the  *)
(* same peer, and starts over.                                             *)
(*                                                                         *)
(* libp2p is modelled by what this code sees of it: its connections (one   *)
(* for each peer; PeerManager has several), the outcome of a dial or of a  *)
(* hang up, and the events, whose handlers run in the same stretch as the  *)
(* change of the connection that they announce.                            *)
(***************************************************************************)
EXTENDS Integers, Sequences, FiniteSets

CONSTANTS
    Peer,              \* the peers of the network
    Bootstrap,         \* those with the bootstrap tag in the peer store
    OnShard,           \* those with no shard info, or on a configured topic
    Request,           \* the calls that dial a peer
    Target,            \* the peer of each call
    Stored,            \* the calls of dialPeerStorePeers (constructor)
    Direct,            \* the calls of dialPeer by the application
    MaxParallelDials,  \* options.maxParallelDials
    MaxDialAttempts,   \* options.maxDialAttemptsForPeer
    MaxBootstrap,      \* options.maxBootstrapPeersAllowed
    MaxGreetings       \* bound: suspended "peer:connect" handlers of one peer

ASSUME PeersAssumption ==
    /\ Bootstrap \subseteq Peer
    /\ OnShard \subseteq Peer

ASSUME RequestsAssumption ==
    /\ IsFiniteSet(Request)
    /\ Target \in [Request -> Peer]
    /\ Stored \subseteq Request
    /\ Direct \subseteq Request
    /\ Stored \cap Direct = {}

ASSUME LimitsAssumption ==
    /\ MaxParallelDials \in Nat \ {0}
    /\ MaxDialAttempts \in Nat \ {0}
    /\ MaxBootstrap \in Nat
    /\ MaxGreetings \in Nat \ {0}

VARIABLES
    pc,            \* where each call is suspended, or how it ended
    dialAttempt,   \* failed tries of the call's loop in dialPeer
    activeDials,   \* currentActiveParallelDialCount
    dialQueue,     \* pendingPeerDialQueue
    dialed,        \* the keys of dialAttemptsForPeer
    peerStore,     \* the peers with a record in libp2p's peer store
    connected,     \* the peers with an open connection
    bootTagged,    \* those whose connection carries the bootstrap tag
    pingTimers,    \* the keys of pingKeepAliveTimers
    intervals,     \* the ping intervals that tick, for each peer
    dropped,       \* history: the connected peers whose hang up was asked for
    greeting,      \* "peer:connect" handlers that wait for the peer's tags
    dropping,      \* "peer:connect" handlers that wait for hangUp
    online,        \* isP2PNetworkConnected
    browserOnline, \* navigator.onLine
    announced,     \* the detail of the last CONNECTION_STATUS event
    listening,     \* the listeners are attached: stop() was not called
    dnsQueried     \* dnsDiscovery.findPeers() was called

dialVars == <<pc, dialAttempt, activeDials, dialQueue, dialed, dnsQueried>>
netVars  == <<peerStore, connected, bootTagged>>
timers   == <<pingTimers, intervals, dropped>>
handlers == <<greeting, dropping>>
status   == <<online, browserOnline, announced>>
vars     == <<dialVars, netVars, timers, handlers, status, listening>>

-----------------------------------------------------------------------------
(* The places where a call can be.                                         *)

Dialing == {"dialing", "tagging"}   \* between count += 1 and count -= 1
Ended   == {"skipped", "connected", "failed"}
Places  == {"idle", "discovered", "checking", "preferred", "admitted",
            "queued", "fallback"} \cup Dialing \cup Ended

Active == {r \in Request : pc[r] \in Dialing}

TypeOK ==
    /\ pc \in [Request -> Places]
    /\ dialAttempt \in [Request -> 0 .. MaxDialAttempts]
    /\ activeDials \in Int
    /\ dialQueue \in Seq(Request)
    /\ dialed \subseteq Peer
    /\ peerStore \subseteq Peer
    /\ connected \subseteq Peer
    /\ bootTagged \subseteq connected
    /\ pingTimers \subseteq Peer
    /\ intervals \in [Peer -> Int]
    /\ dropped \subseteq connected
    /\ greeting \in [Peer -> Nat]
    /\ dropping \in [Peer -> Nat]
    /\ online \in BOOLEAN
    /\ browserOnline \in BOOLEAN
    /\ announced \in BOOLEAN
    /\ listening \in BOOLEAN
    /\ dnsQueried \in BOOLEAN

Init ==
    /\ pc = [r \in Request |-> "idle"]
    /\ dialAttempt = [r \in Request |-> 0]
    /\ activeDials = 0
    /\ dialQueue = <<>>
    /\ dialed = {}
    /\ peerStore = {Target[r] : r \in Stored}
    /\ connected = {}
    /\ bootTagged = {}
    /\ pingTimers = {}
    /\ intervals = [p \in Peer |-> 0]
    /\ dropped = {}
    /\ greeting = [p \in Peer |-> 0]
    /\ dropping = [p \in Peer |-> 0]
    /\ online = FALSE
    /\ browserOnline = TRUE
    /\ announced = FALSE
    /\ listening = TRUE
    /\ dnsQueried = FALSE

-----------------------------------------------------------------------------
(* The keep alive manager: one ping interval for each recorded peer.       *)

\* Mutant: the old interval is not cleared.
StartPingTwice(p) ==
    /\ pingTimers' = pingTimers \cup {p}
    /\ intervals' = [intervals EXCEPT ![p] = @ + 1]
    /\ dropped' = dropped \ {p}

\* Mutant: the old interval is cleared after the new one was recorded.
StartPingClearLast(p) ==
    /\ pingTimers' = pingTimers \ {p}
    /\ dropped' = dropped \ {p}
    /\ UNCHANGED intervals

StartPing(p) ==
    /\ pingTimers' = pingTimers \cup {p}
    /\ dropped' = dropped \ {p}
    /\ intervals' = IF p \in pingTimers
                      THEN intervals    \* the old one is cleared, a new one set
                      ELSE [intervals EXCEPT ![p] = @ + 1]

StopPing(p) ==
    /\ pingTimers' = pingTimers \ {p}
    /\ intervals' = IF p \in pingTimers
                      THEN [intervals EXCEPT ![p] = @ - 1]
                      ELSE intervals

\* dropConnection(p), up to hangUp.
Drop(p) ==
    /\ StopPing(p)
    /\ dropped' = dropped \cup ({p} \cap connected)

(* isConnected(), and the event that tells it to the listeners whenever    *)
(* the flag flips.                                                         *)

IsConnected == browserOnline /\ online

\* Mutant: the flag flips without an event.
SetOnlineSilently(b) == online' = b /\ UNCHANGED <<announced, browserOnline>>

SetOnline(b) ==
    /\ online' = b
    /\ announced' = IF online = b THEN announced ELSE browserOnline /\ b
    /\ UNCHANGED browserOnline

-----------------------------------------------------------------------------
(* How a call of attemptDial starts.                                       *)

\* shouldDialPeer up to its first await: a connected peer is not dialed.
Entry(r) == IF Target[r] \in connected THEN "skipped" ELSE "checking"

\* dialPeerStorePeers: one call for each peer that peerStore.all() returned.
\* (Its own test compares PeerId objects and finds no connection; Entry does.)
DialStoredPeers ==
    /\ Stored # {}
    /\ \A r \in Stored : pc[r] = "idle"
    /\ pc' = [r \in Request |-> IF r \in Stored THEN Entry(r) ELSE pc[r]]
    /\ UNCHANGED <<dialAttempt, activeDials, dialQueue, dialed, dnsQueried,
                   netVars, timers, handlers, status, listening>>

\* "peer:discovery": libp2p has stored the peer; the handler reads its tags.
Discover(r) ==
    /\ r \notin Stored \cup Direct
    /\ listening
    /\ pc[r] = "idle"
    /\ pc' = [pc EXCEPT ![r] = "discovered"]
    /\ peerStore' = peerStore \cup {Target[r]}
    /\ UNCHANGED <<dialAttempt, activeDials, dialQueue, dialed, dnsQueried,
                   connected, bootTagged, timers, handlers, status, listening>>

\* dispatchDiscoveryEvent is over: the handler calls attemptDial.
AttemptDiscovered(r) ==
    /\ pc[r] = "discovered"
    /\ pc' = [pc EXCEPT ![r] = Entry(r)]
    /\ UNCHANGED <<dialAttempt, activeDials, dialQueue, dialed, dnsQueried,
                   netVars, timers, handlers, status, listening>>

-----------------------------------------------------------------------------
(* shouldDialPeer after its awaits.  Each read takes the state of its own  *)
(* moment, so what an earlier test saw may no longer hold.                 *)

BootstrapHasRoom(p) ==
    p \in Bootstrap => Cardinality(bootTagged) < MaxBootstrap

CheckTopicAndBootstrap(r) ==
    /\ pc[r] = "checking"
    /\ pc' = [pc EXCEPT ![r] =
                IF Target[r] \in OnShard /\ BootstrapHasRoom(Target[r])
                  THEN "preferred" ELSE "skipped"]
    /\ UNCHANGED <<dialAttempt, activeDials, dialQueue, dialed, dnsQueried,
                   netVars, timers, handlers, status, listening>>

CheckDialedBefore(r) ==
    /\ pc[r] = "preferred"
    /\ pc' = [pc EXCEPT ![r] =
                IF Target[r] \in dialed THEN "skipped" ELSE "admitted"]
    /\ UNCHANGED <<dialAttempt, activeDials, dialQueue, dialed, dnsQueried,
                   netVars, timers, handlers, status, listening>>

-----------------------------------------------------------------------------
(* dialPeer.                                                               *)

\* Up to the first await: the slot is counted and libp2p.dial is called.
StartDial(r) ==
    /\ pc' = [pc EXCEPT ![r] = "dialing"]
    /\ activeDials' = activeDials + 1
    /\ UNCHANGED <<dialAttempt, dialQueue, dialed, dnsQueried>>

\* Mutant: one slot too many.
TakeExtraSlot(r) ==
    /\ pc[r] = "admitted"
    /\ activeDials <= MaxParallelDials
    /\ StartDial(r)
    /\ UNCHANGED <<netVars, timers, handlers, status, listening>>

\* attemptDial after shouldDialPeer, when a slot is free ...
TakeSlot(r) ==
    /\ pc[r] = "admitted"
    /\ activeDials < MaxParallelDials
    /\ StartDial(r)
    /\ UNCHANGED <<netVars, timers, handlers, status, listening>>

\* ... and when none is.
Enqueue(r) ==
    /\ pc[r] = "admitted"
    /\ activeDials >= MaxParallelDials
    /\ pc' = [pc EXCEPT ![r] = "queued"]
    /\ dialQueue' = Append(dialQueue, r)
    /\ UNCHANGED <<dialAttempt, activeDials, dialed, dnsQueried,
                   netVars, timers, handlers, status, listening>>

\* The application calls dialPeer, a public method that looks at no limit.
\* (Waku.dial goes to libp2p instead: a PeerConnects.)
DialDirectly(r) ==
    /\ r \in Direct
    /\ pc[r] = "idle"
    /\ StartDial(r)
    /\ UNCHANGED <<netVars, timers, handlers, status, listening>>

\* Mutants: the slot is kept; the queue is read but not shifted.
ReleaseNoSlot(r, q) ==
    /\ pc' = [pc EXCEPT ![r] = q]
    /\ UNCHANGED <<activeDials, dialQueue>>

ReleaseSlotPeeking(r, q) ==
    LET free == dialQueue # <<>> /\ activeDials - 1 < MaxParallelDials
        next == Head(dialQueue)
    IN /\ activeDials' = activeDials - 1
       /\ pc' = IF free THEN [pc EXCEPT ![r] = q, ![next] = Entry(next)]
                        ELSE [pc EXCEPT ![r] = q]
       /\ UNCHANGED dialQueue

\* The end of dialPeer's loop: call r gives its slot back and goes on to
\* place q; processDialQueue starts attemptDial for the first queued peer.
ReleaseSlot(r, q) ==
    LET free == dialQueue # <<>> /\ activeDials - 1 < MaxParallelDials
        next == Head(dialQueue)
    IN /\ activeDials' = activeDials - 1
       /\ dialQueue' = IF free THEN Tail(dialQueue) ELSE dialQueue
       /\ pc' = IF free THEN [pc EXCEPT ![r] = q, ![next] = Entry(next)]
                        ELSE [pc EXCEPT ![r] = q]

\* Mutant: the failed try is not counted.
RetryDialForever(r) ==
    /\ pc[r] = "dialing"
    /\ dialed' = dialed \cup {Target[r]}
    /\ UNCHANGED <<pc, dialAttempt, activeDials, dialQueue, dnsQueried,
                   netVars, timers, handlers, status, listening>>

\* libp2p.dial rejects and tries are left: the loop dials again at once.
RetryDial(r) ==
    /\ pc[r] = "dialing"
    /\ dialAttempt[r] + 1 < MaxDialAttempts
    /\ dialAttempt' = [dialAttempt EXCEPT ![r] = @ + 1]
    /\ dialed' = dialed \cup {Target[r]}
    /\ UNCHANGED <<pc, activeDials, dialQueue, dnsQueried,
                   netVars, timers, handlers, status, listening>>

\* libp2p.dial rejects for the last time.  peerId is only assigned by a dial
\* that succeeds, so nothing is deleted from the peer store; then comes
\* attemptDnsDiscovery, which returns if there is any connection.
GiveUpDial(r) ==
    /\ pc[r] = "dialing"
    /\ dialAttempt[r] + 1 = MaxDialAttempts
    /\ dialAttempt' = [dialAttempt EXCEPT ![r] = MaxDialAttempts]
    /\ dialed' = dialed \cup {Target[r]}
    /\ ReleaseSlot(r, IF connected # {} THEN "failed" ELSE "fallback")
    /\ UNCHANGED <<dnsQueried, netVars, timers, handlers, status, listening>>

\* attemptDnsDiscovery after peerStore.all().
FallBackToDns(r) ==
    /\ pc[r] = "fallback"
    /\ pc' = [pc EXCEPT ![r] = "failed"]
    /\ dnsQueried' = (dnsQueried \/ peerStore = {})
    /\ UNCHANGED <<dialAttempt, activeDials, dialQueue, dialed,
                   netVars, timers, handlers, status, listening>>

\* Mutant: the tag is kept for a connection that is gone.
TagAnyConnection(p) ==
    bootTagged' = IF p \in Bootstrap THEN bootTagged \cup {p} ELSE bootTagged

\* The peer's tags go to its connection, if it is still there.
TagConnection(p) ==
    bootTagged' = IF p \in Bootstrap \cap connected
                    THEN bootTagged \cup {p} ELSE bootTagged

\* The tags are read: the dial has succeeded.
FinishDial(r) ==
    LET p == Target[r] IN
    /\ pc[r] = "tagging"
    /\ TagConnection(p)
    /\ dialed' = dialed \cup {p}
    /\ StartPing(p)
    /\ ReleaseSlot(r, "connected")
    /\ UNCHANGED <<dialAttempt, dnsQueried, peerStore, connected,
                   handlers, status, listening>>

-----------------------------------------------------------------------------
(* Connections come and go; the events run the handlers' first stretch.    *)

\* A connection to p opens; if the listener is attached, "peer:connect"
\* starts the ping and then waits for the tags of p.
OpenConnection(p) ==
    /\ p \notin connected
    /\ connected' = connected \cup {p}
    /\ peerStore' = peerStore \cup {p}
    /\ IF listening
         THEN /\ greeting[p] + dropping[p] < MaxGreetings
              /\ greeting' = [greeting EXCEPT ![p] = @ + 1]
              /\ StartPing(p)
         ELSE UNCHANGED <<greeting, timers>>
    /\ UNCHANGED <<bootTagged, dropping, status, listening>>

\* The connection to p closes; "peer:disconnect" stops the ping, and says
\* that the node is offline if this was the last connection.
CloseConnection(p) ==
    /\ p \in connected
    /\ connected' = connected \ {p}
    /\ bootTagged' = bootTagged \ {p}
    /\ dropped' = dropped \ {p}
    /\ IF listening
         THEN /\ StopPing(p)
              /\ SetOnline(online /\ connected' # {})
         ELSE UNCHANGED <<pingTimers, intervals, status>>
    /\ UNCHANGED <<peerStore, greeting, listening>>

\* libp2p.dial resolves: with a new connection, or with the one there is.
DialSucceeds(r) ==
    /\ pc[r] = "dialing"
    /\ pc' = [pc EXCEPT ![r] = "tagging"]
    /\ IF Target[r] \in connected
         THEN UNCHANGED <<netVars, timers, handlers, status, listening>>
         ELSE OpenConnection(Target[r])
    /\ UNCHANGED <<dialAttempt, activeDials, dialQueue, dialed, dnsQueried>>

\* The other side dials, or another part of the node does.
PeerConnects(p) ==
    /\ OpenConnection(p)
    /\ UNCHANGED dialVars

\* The connection is lost, the other side closes it, or a hang up does that the
\* application asked for.
PeerDisconnects(p) ==
    /\ CloseConnection(p)
    /\ UNCHANGED <<dialVars, dropping>>

-----------------------------------------------------------------------------
(* The rest of the "peer:connect" handler, for p.                          *)

\* "If we have too many bootstrap connections, drop one".
IsSurplus(p) == p \in Bootstrap /\ Cardinality(bootTagged) > MaxBootstrap

\* Mutant: only a bootstrap peer brings the node online.
WelcomeBootstrap(p) ==
    /\ greeting[p] > 0
    /\ ~IsSurplus(p)
    /\ greeting' = [greeting EXCEPT ![p] = @ - 1]
    /\ SetOnline(online \/ p \in Bootstrap)
    /\ UNCHANGED <<dialVars, netVars, timers, dropping, listening>>

\* The tags are read and there is room: the node is online, whether or not
\* the peer is still connected.
Welcome(p) ==
    /\ greeting[p] > 0
    /\ ~IsSurplus(p)
    /\ greeting' = [greeting EXCEPT ![p] = @ - 1]
    /\ SetOnline(TRUE)
    /\ UNCHANGED <<dialVars, netVars, timers, dropping, listening>>

\* Too many bootstrap connections: dropConnection(p) up to hangUp.
DropConnection(p) ==
    /\ greeting[p] > 0
    /\ IsSurplus(p)
    /\ greeting' = [greeting EXCEPT ![p] = @ - 1]
    /\ dropping' = [dropping EXCEPT ![p] = @ + 1]
    /\ Drop(p)
    /\ UNCHANGED <<dialVars, netVars, status, listening>>

\* The application calls dropConnection, which is public.  The hang up closes the
\* connection (PeerDisconnects), or fails and is logged.
DropDirectly(p) ==
    /\ Drop(p)
    /\ UNCHANGED <<dialVars, netVars, handlers, status, listening>>

\* hangUp closes the connection; its promise resolves later.
HangUp(p) ==
    /\ dropping[p] > 0
    /\ CloseConnection(p)
    /\ UNCHANGED <<dialVars, dropping>>

\* Mutant: the handler ends with the hang up.
AfterHangUpOffline(p) ==
    /\ dropping[p] > 0
    /\ dropping' = [dropping EXCEPT ![p] = @ - 1]
    /\ UNCHANGED <<dialVars, netVars, timers, greeting, status, listening>>

\* hangUp resolved, or rejected and the error was logged: the handler goes on
\* to say that the node is online.
AfterHangUp(p) ==
    /\ dropping[p] > 0
    /\ dropping' = [dropping EXCEPT ![p] = @ - 1]
    /\ SetOnline(TRUE)
    /\ UNCHANGED <<dialVars, netVars, timers, greeting, listening>>

-----------------------------------------------------------------------------
(* The browser's "online" and "offline" events, and stop().                *)

BrowserNetworkChanges ==
    /\ browserOnline' = ~browserOnline
    /\ announced' = IF listening THEN browserOnline' /\ online ELSE announced
    /\ UNCHANGED <<dialVars, netVars, timers, handlers, online, listening>>

\* stopAll forgets every timer; it looks for their intervals among the
\* properties of the Map object, where there are none, and clears nothing.
Stop ==
    /\ listening
    /\ listening' = FALSE
    /\ pingTimers' = {}
    /\ UNCHANGED <<dialVars, netVars, intervals, dropped, handlers, status>>

-----------------------------------------------------------------------------
ShouldDial(r) == CheckTopicAndBootstrap(r) \/ CheckDialedBefore(r)
Admitted(r)   == TakeSlot(r) \/ Enqueue(r)
DialFails(r)  == RetryDial(r) \/ GiveUpDial(r)
Handler(p)    == Welcome(p) \/ DropConnection(p) \/ AfterHangUp(p)

Next ==
    \/ DialStoredPeers
    \/ \E r \in Request :
         \/ Discover(r)
         \/ AttemptDiscovered(r)
         \/ ShouldDial(r)
         \/ Admitted(r)
         \/ DialDirectly(r)
         \/ DialSucceeds(r)
         \/ DialFails(r)
         \/ FinishDial(r)
         \/ FallBackToDns(r)
    \/ \E p \in Peer :
         \/ PeerConnects(p)
         \/ PeerDisconnects(p)
         \/ Handler(p)
         \/ DropDirectly(p)
         \/ HangUp(p)
    \/ BrowserNetworkChanges
    \/ Stop

Spec == Init /\ [][Next]_vars

(***************************************************************************)
(* Fairness.  A promise that is settled resumes its function: the event    *)
(* loop runs every continuation.  libp2p settles every dial (it has a dial *)
(* timeout) and every hang up.  Nothing is assumed of the peers, of the    *)
(* application, of the discoveries or of the browser.                      *)
(***************************************************************************)
Fairness ==
    /\ WF_vars(DialStoredPeers)
    /\ \A r \in Request :
         /\ WF_vars(AttemptDiscovered(r))
         /\ WF_vars(ShouldDial(r))
         /\ WF_vars(Admitted(r))
         /\ WF_vars(DialSucceeds(r) \/ DialFails(r))
         /\ WF_vars(FinishDial(r))
         /\ WF_vars(FallBackToDns(r))
    /\ \A p \in Peer : WF_vars(Handler(p))

FairSpec == Spec /\ Fairness

-----------------------------------------------------------------------------
(* What the connection manager keeps true.                                 *)

\* currentActiveParallelDialCount is the number of calls between its ++ and
\* its --: no path out of dialPeer's loop loses or returns a slot twice.
DialSlotsExact == activeDials = Cardinality(Active)

\* attemptDial never has more than maxParallelDials dials under way, whatever
\* the application dials on its own meanwhile.
ParallelDialsBounded == Cardinality(Active \ Direct) <= MaxParallelDials

\* A call waits in pendingPeerDialQueue once, and whatever is in the queue
\* waits: processDialQueue never starts a dial that is under way or over.
QueueExact ==
    /\ \A i, j \in DOMAIN dialQueue : dialQueue[i] = dialQueue[j] => i = j
    /\ {dialQueue[i] : i \in DOMAIN dialQueue}
         = {r \in Request : pc[r] = "queued"}

\* While a peer is connected, isP2PNetworkConnected is true or a "peer:connect"
\* handler that will set it is suspended, however connections and hang ups
\* interleave with the awaits of the handlers.
OnlineNotMissed ==
    listening /\ connected # {} =>
        online \/ \E p \in Peer : greeting[p] + dropping[p] > 0

\* A connected peer is pinged, however dials, hang ups and the events of its
\* connections interleave, unless since its last ping was set the bootstrap limit or the
\* application had it dropped: if that hang up fails it stays connected, and unpinged.
ConnectedIsPinged == listening => connected \ dropped \subseteq pingTimers

\* Until stop(), the keep alive manager can clear every interval that ticks:
\* each has its entry in pingKeepAliveTimers, and no peer has two.
IntervalsRecorded ==
    listening => \A p \in Peer : intervals[p] = IF p \in pingTimers THEN 1 ELSE 0

\* Who followed the CONNECTION_STATUS events knows what isConnected() returns,
\* across the flips of the node's flag and of the browser's.
StatusAnnounced == listening => announced = IsConnected

\* A dial that started comes to an end and gives its slot back.
DialsEnd == \A r \in Request : (r \in Active) ~> (r \notin Active)

\* A connection that lasts is noticed: the node comes online.
ConnectionsNoticed ==
    (listening /\ connected # {}) ~> (online \/ connected = {} \/ ~listening)

-----------------------------------------------------------------------------
(* What the repository's comments say of the code, and the code does not do.*)

\* shouldDialPeer: "If the peer is already has an active dial attempt, or has
\* been dialed before, don't dial it".
NoConcurrentDial ==
    \A r, s \in Active \ Direct : Target[r] = Target[s] => r = s

\* dialPeer: "Always decrease the active dial count and process the dial
\* queue": a queued peer is not left behind.  No run checks it: see the README.
QueueDrains ==
    \A r \in Request : (pc[r] = "queued") ~> (pc[r] # "queued" \/ ~listening)

=============================================================================
