-------------------------- MODULE FilterSubscription --------------------------
(***************************************************************************)
(* A filter subscription of @waku/sdk (one pubsub topic) with its monitor, *)
(* over the peer manager whose peers it uses.                              *)
(*                                                                         *)
(* The application's calls ask every peer in use and end when all have     *)
(* answered.  The monitor pings the peers in use, and subscribes to others *)
(* when one fails or goes.  All of these are suspended while a peer takes  *)
(* its time; awaits on a value that is there already (getPeers,            *)
(* requestRenew) are no suspension here.                                   *)
(*                                                                         *)
(* A peer has one connection here, so every connection that opens or goes  *)
(* is an event for the peer manager and then for the monitor, whose        *)
(* listeners were attached later.                                          *)
(***************************************************************************)
EXTENDS Integers, FiniteSets

CONSTANTS
    Peer,                    \* the peers
    NumPeersToUse,           \* of the peer manager
    Topic,                   \* content topics of the pubsub topic
    Message,                 \* messages, up to their hash
    TopicOf,                 \* the content topic of each message
    Call,                    \* bound: calls of the application at one time
    PingsBeforePeerRenewed,  \* config.pingsBeforePeerRenewed
    MaxSubscribeAttempts,    \* MAX_SUBSCRIBE_ATTEMPTS
    None                     \* no peer

ASSUME PeersAssumption ==
    /\ IsFiniteSet(Peer)
    /\ None \notin Peer
    /\ NumPeersToUse \in Nat \ {0}

ASSUME TopicsAssumption == TopicOf \in [Message -> Topic]

ASSUME LimitsAssumption ==
    /\ PingsBeforePeerRenewed \in Nat \ {0}
    /\ MaxSubscribeAttempts \in Nat \ {0}

VARIABLES
    state, locked, listening,  \* of PeerManager
    created,     \* the pubsub topic is in activeSubscriptions
    callbacks,   \* the keys of subscriptionCallbacks
    calls,       \* the application's calls under way
    bare,        \* history: the monitor was started by a subscribe of no topics
    started,     \* isStarted: the monitor's listeners are attached
    peerIds,     \* the peers in use
    ticking,     \* keepAliveIntervalId is set
    failed,      \* pingFailedAttempts, while below PingsBeforePeerRenewed
    tasks,       \* the monitor's requests that wait for an answer
    resuming,    \* onConnectionChange waits for its pings
    online,      \* the detail of the last CONNECTION_STATUS event
    received,    \* receivedMessages
    decoding,    \* pushMessage suspended, for each message
    deliveries   \* calls of the application's callback with each message

PM == INSTANCE PeerManager WITH Conn <- Peer, PeerOf <- [p \in Peer |-> p]

poolVars == <<state, locked, listening>>
callVars == <<created, callbacks, calls, bare>>
monVars  == <<started, peerIds, ticking, failed, tasks, resuming, online>>
msgVars  == <<received, decoding, deliveries>>
vars     == <<poolVars, callVars, monVars, msgVars>>

(***************************************************************************)
(* A request of the monitor: the ping of a peer (attempt 0), or an attempt *)
(* to subscribe.  The handler of an "online" event awaits its requests;    *)
(* those of a tick or of a connection's event are on their own.            *)
(* Bound: requests that are alike count as one.                            *)
(***************************************************************************)
Request == [peer : Peer, attempt : 0 .. MaxSubscribeAttempts, awaited : BOOLEAN]

Requests(ps, attempt, awaited) ==
    {[peer |-> p, attempt |-> attempt, awaited |-> awaited] : p \in ps}

NoCall == [op |-> "none", topics |-> {}, waiting |-> {}]

TypeOK ==
    /\ PM!TypeOK
    /\ created \in BOOLEAN
    /\ callbacks \subseteq Topic
    /\ calls \in [Call -> [op : {"none", "subscribe", "unsubscribe", "unsubscribeAll"},
                           topics : SUBSET Topic, waiting : SUBSET Peer]]
    /\ bare \in BOOLEAN
    /\ started \in BOOLEAN
    /\ peerIds \subseteq Peer
    /\ ticking \in BOOLEAN
    /\ failed \in [Peer -> 0 .. PingsBeforePeerRenewed - 1]
    /\ tasks \subseteq Request
    /\ resuming \in BOOLEAN
    /\ online \in BOOLEAN
    /\ received \subseteq Message
    /\ decoding \in [Message -> Nat]
    /\ deliveries \in [Message -> Nat]

Init ==
    /\ PM!Init
    /\ created = FALSE
    /\ callbacks = {}
    /\ calls = [u \in Call |-> NoCall]
    /\ bare = FALSE
    /\ started = FALSE
    /\ peerIds = {}
    /\ ticking = FALSE
    /\ failed = [p \in Peer |-> 0]
    /\ tasks = {}
    /\ resuming = FALSE
    /\ online = FALSE
    /\ received = {}
    /\ decoding = [m \in Message |-> 0]
    /\ deliveries = [m \in Message |-> 0]

-----------------------------------------------------------------------------
(* The monitor's start, stop and getPeers.                                 *)

StartMonitor ==
    /\ started' = TRUE
    /\ ticking' = (ticking \/ ~started)
    /\ UNCHANGED <<peerIds, failed, tasks, resuming, online>>

StopMonitor ==
    /\ started' = FALSE
    /\ ticking' = (ticking /\ ~started)
    /\ UNCHANGED <<peerIds, failed, tasks, resuming, online>>

\* getPeers: until it is started, the monitor has the peers of the pool.
PeersToUse == IF started THEN peerIds ELSE PM!Pool

GetPeers ==
    /\ peerIds' = PeersToUse
    /\ UNCHANGED <<started, ticking, failed, tasks, resuming, online>>

-----------------------------------------------------------------------------
(* The application's calls.                                                *)

Begin(u, op, topics, waiting) ==
    /\ calls[u] = NoCall
    /\ calls' = [calls EXCEPT ![u] =
                   [op |-> op, topics |-> topics, waiting |-> waiting]]
    /\ GetPeers
    /\ UNCHANGED bare

\* Filter.subscribe, which needs a decoder to tell the pubsub topic and a peer to
\* create the subscription, or subscribe of the subscription it created.
Subscribe(u, topics) ==
    /\ created \/ (topics # {} /\ PM!Pool # {})
    /\ Begin(u, "subscribe", topics, {})
    /\ created' = TRUE
    /\ UNCHANGED <<callbacks, poolVars, msgVars>>

\* All peers have answered, or failed: the callbacks are set in any case.
FinishSubscribe(u) ==
    /\ calls[u].op = "subscribe"
    /\ calls' = [calls EXCEPT ![u] = NoCall]
    /\ callbacks' = callbacks \cup calls[u].topics
    /\ bare' = (callbacks' = {})
    /\ StartMonitor
    /\ UNCHANGED <<created, poolVars, msgVars>>

Unsubscribe(u, topics) ==
    /\ created
    /\ Begin(u, "unsubscribe", topics, PeersToUse)
    /\ UNCHANGED <<created, callbacks, poolVars, msgVars>>

\* A peer's answer, or failure, takes the callbacks away.
UnsubscribeAnswered(u, p) ==
    /\ calls[u].op = "unsubscribe"
    /\ p \in calls[u].waiting
    /\ calls' = [calls EXCEPT ![u].waiting = @ \ {p}]
    /\ callbacks' = callbacks \ calls[u].topics
    /\ UNCHANGED <<created, bare, poolVars, monVars, msgVars>>

\* Mutant: the monitor is stopped whatever other topics there are.
FinishUnsubscribeAnyway(u) ==
    /\ calls[u].op = "unsubscribe"
    /\ calls[u].waiting = {}
    /\ calls' = [calls EXCEPT ![u] = NoCall]
    /\ bare' = FALSE
    /\ StopMonitor
    /\ UNCHANGED <<created, callbacks, poolVars, msgVars>>

FinishUnsubscribe(u) ==
    /\ calls[u].op = "unsubscribe"
    /\ calls[u].waiting = {}
    /\ calls' = [calls EXCEPT ![u] = NoCall]
    /\ bare' = FALSE
    /\ IF callbacks = {} THEN StopMonitor ELSE UNCHANGED monVars
    /\ UNCHANGED <<created, callbacks, poolVars, msgVars>>

UnsubscribeAll(u) ==
    /\ created
    /\ Begin(u, "unsubscribeAll", {}, {})
    /\ UNCHANGED <<created, callbacks, poolVars, msgVars>>

FinishUnsubscribeAll(u) ==
    /\ calls[u].op = "unsubscribeAll"
    /\ calls' = [calls EXCEPT ![u] = NoCall]
    /\ callbacks' = {}
    /\ bare' = FALSE
    /\ StopMonitor
    /\ UNCHANGED <<created, poolVars, msgVars>>

\* ping of the subscription: the answers change nothing.
PingPeers ==
    /\ created
    /\ GetPeers
    /\ UNCHANGED <<callVars, poolVars, msgVars>>

-----------------------------------------------------------------------------
(* The connections: the peer manager's handler, then the monitor's.        *)

\* The peers in use are those of the pool from now on, with a subscription.
UsePool ==
    /\ peerIds' = PM!Pool'
    /\ tasks' = tasks \cup Requests(PM!Pool', 1, FALSE)
    /\ UNCHANGED <<started, ticking, failed, resuming, online>>

PeerConnects(p) ==
    /\ PM!ConnectionOpens(p)
    /\ IF started /\ peerIds = {} THEN UsePool ELSE UNCHANGED monVars
    /\ UNCHANGED <<callVars, msgVars>>

PeerCloses(p) ==
    /\ PM!ConnectionCloses(p)
    /\ UNCHANGED <<callVars, monVars, msgVars>>

\* Mutant: the monitor's handler runs before the peer manager's.
PeerGoneMonitorFirst(p) ==
    /\ PM!ConnectionGone(p)
    /\ IF started /\ p \in peerIds
         THEN /\ peerIds' = PM!Pool \ {p}
              /\ tasks' = tasks \cup Requests(PM!Pool \ {p}, 1, FALSE)
              /\ UNCHANGED <<started, ticking, failed, resuming, online>>
         ELSE UNCHANGED monVars
    /\ UNCHANGED <<callVars, msgVars>>

PeerGone(p) ==
    /\ PM!ConnectionGone(p)
    /\ IF started /\ p \in peerIds THEN UsePool ELSE UNCHANGED monVars
    /\ UNCHANGED <<callVars, msgVars>>

\* Waku.stop ends the peer manager; the subscription is not told.
NodeStops ==
    /\ PM!Stop
    /\ UNCHANGED <<callVars, monVars, msgVars>>

-----------------------------------------------------------------------------
(* The monitor's pings and subscriptions.                                  *)

\* The interval.  Bound: it finds no ping of the last tick under way.
Tick ==
    /\ ticking
    /\ \A t \in tasks : t.attempt = 0 => t.awaited
    /\ tasks' = tasks \cup Requests(peerIds, 0, FALSE)
    /\ UNCHANGED <<started, peerIds, ticking, failed, resuming, online,
                   poolVars, callVars, msgVars>>

\* A CONNECTION_STATUS event that says offline ...
GoesOffline ==
    /\ online
    /\ online' = FALSE
    /\ ticking' = (ticking /\ ~started)
    /\ UNCHANGED <<started, peerIds, failed, tasks, resuming,
                   poolVars, callVars, msgVars>>

\* ... and one that says online.  Bound: one handler of it at a time.
GoesOnline ==
    /\ ~online
    /\ online' = TRUE
    /\ ~resuming /\ \A t \in tasks : ~t.awaited
    /\ IF started
         THEN /\ resuming' = TRUE
              /\ tasks' = tasks \cup Requests(peerIds, 0, TRUE)
         ELSE UNCHANGED <<resuming, tasks>>
    /\ UNCHANGED <<started, peerIds, ticking, failed,
                   poolVars, callVars, msgVars>>

\* All its pings, and what they led to, are over.
ResumeKeepAlive ==
    /\ resuming
    /\ \A t \in tasks : ~t.awaited
    /\ resuming' = FALSE
    /\ ticking' = TRUE
    /\ UNCHANGED <<started, peerIds, failed, tasks, online,
                   poolVars, callVars, msgVars>>

\* Mutant: one attempt too many.
RenewAndSubscribeMore(t, attempt) ==
    LET new == locked' \ locked
    IN /\ PM!RequestRenew(t.peer)
       /\ \E q \in IF new = {} THEN {None} ELSE new :
            tasks' = (tasks \ {t}) \cup
                       IF q = None THEN {} ELSE Requests({q}, attempt, t.awaited)

\* requestRenew(t.peer), then, as number "attempt", a subscription to the first
\* of the peers it locked, if there is one and the attempt is allowed.
RenewAndSubscribe(t, attempt) ==
    LET new == locked' \ locked
    IN /\ PM!RequestRenew(t.peer)
       /\ \E q \in IF new = {} THEN {None} ELSE new :
            tasks' = (tasks \ {t}) \cup
                       IF q = None \/ attempt > MaxSubscribeAttempts THEN {}
                         ELSE Requests({q}, attempt, t.awaited)

PingSucceeds(t) ==
    /\ t \in tasks /\ t.attempt = 0
    /\ state[t.peer] = "open"
    /\ tasks' = tasks \ {t}
    /\ failed' = [failed EXCEPT ![t.peer] = 0]
    /\ UNCHANGED <<started, peerIds, ticking, resuming, online,
                   poolVars, callVars, msgVars>>

\* From the limit on, every further failure renews, whatever is counted: there
\* the count stays below the limit (bound).
PingFails(t) ==
    LET count == failed[t.peer] + 1 IN
    /\ t \in tasks /\ t.attempt = 0
    /\ IF t.awaited \/ count >= PingsBeforePeerRenewed
         THEN RenewAndSubscribe(t, 1)
         ELSE tasks' = tasks \ {t} /\ UNCHANGED poolVars
    /\ failed' = IF t.awaited \/ count >= PingsBeforePeerRenewed
                   THEN failed ELSE [failed EXCEPT ![t.peer] = count]
    /\ UNCHANGED <<started, peerIds, ticking, resuming, online,
                   callVars, msgVars>>

\* The answer cannot be decoded: FilterCore.ping throws, and with it the handler that
\* waits for it.
PingThrows(t) ==
    /\ t \in tasks /\ t.attempt = 0
    /\ tasks' = tasks \ {t}
    /\ resuming' = (resuming /\ ~t.awaited)
    /\ UNCHANGED <<started, peerIds, ticking, failed, online,
                   poolVars, callVars, msgVars>>

SubscribeSucceeds(t) ==
    /\ t \in tasks /\ t.attempt > 0
    /\ state[t.peer] = "open"
    /\ tasks' = tasks \ {t}
    /\ UNCHANGED <<started, peerIds, ticking, failed, resuming, online,
                   poolVars, callVars, msgVars>>

\* The peer rejects, or the request cannot be sent.
SubscribeFails(t) ==
    /\ t \in tasks /\ t.attempt > 0
    /\ RenewAndSubscribe(t, t.attempt + 1)
    /\ UNCHANGED <<started, peerIds, ticking, failed, resuming, online,
                   callVars, msgVars>>

\* There is no stream to the peer, no answer, or a bad one: FilterCore.subscribe throws,
\* and with it the handler that waits for it.
SubscribeThrows(t) ==
    /\ t \in tasks /\ t.attempt > 0
    /\ tasks' = tasks \ {t}
    /\ resuming' = (resuming /\ ~t.awaited)
    /\ UNCHANGED <<started, peerIds, ticking, failed, online,
                   poolVars, callVars, msgVars>>

-----------------------------------------------------------------------------
(* Messages.                                                               *)

\* Mutant: whether the message is known is not looked at.
PushAgain(m) ==
    /\ created
    /\ received' = received \cup {m}
    /\ decoding' = IF TopicOf[m] \in callbacks
                     THEN [decoding EXCEPT ![m] = @ + 1] ELSE decoding
    /\ UNCHANGED <<deliveries, poolVars, callVars, monVars>>

\* A peer pushes a message.  Its hash is kept even if there is no callback.
Push(m) ==
    /\ created
    /\ received' = received \cup {m}
    /\ decoding' = IF m \notin received /\ TopicOf[m] \in callbacks
                     THEN [decoding EXCEPT ![m] = @ + 1] ELSE decoding
    /\ UNCHANGED <<deliveries, poolVars, callVars, monVars>>

\* The callback that was there when the message came is called, or the message
\* could not be decoded.
Deliver(m) ==
    /\ decoding[m] > 0
    /\ decoding' = [decoding EXCEPT ![m] = @ - 1]
    /\ \/ deliveries' = [deliveries EXCEPT ![m] = @ + 1]
       \/ UNCHANGED deliveries
    /\ UNCHANGED <<received, poolVars, callVars, monVars>>

-----------------------------------------------------------------------------
PingAnswered(t)      == PingSucceeds(t) \/ PingFails(t) \/ PingThrows(t)
SubscribeAnswered(t) == SubscribeSucceeds(t) \/ SubscribeFails(t) \/ SubscribeThrows(t)

Next ==
    \/ \E u \in Call :
         \/ \E topics \in SUBSET Topic :
              Subscribe(u, topics) \/ Unsubscribe(u, topics)
         \/ FinishSubscribe(u)
         \/ \E p \in Peer : UnsubscribeAnswered(u, p)
         \/ FinishUnsubscribe(u)
         \/ UnsubscribeAll(u)
         \/ FinishUnsubscribeAll(u)
    \/ PingPeers
    \/ \E p \in Peer : PeerConnects(p) \/ PeerCloses(p) \/ PeerGone(p)
    \/ NodeStops
    \/ Tick \/ GoesOffline \/ GoesOnline \/ ResumeKeepAlive
    \/ \E t \in tasks : PingAnswered(t) \/ SubscribeAnswered(t)
    \/ \E m \in Message : Push(m) \/ Deliver(m)

Spec == Init /\ [][Next]_vars

-----------------------------------------------------------------------------
(* What the subscription keeps true.                                       *)

\* The monitor runs as long as there are callbacks, however calls overlap; it
\* runs without any only until an unsubscribe that is under way ends, or where the
\* application subscribed to nothing.
MonitorFollowsCallbacks ==
    /\ callbacks # {} => started
    /\ started /\ callbacks = {} => bare \/ \E u \in Call : calls[u].op = "unsubscribe"

\* The monitor has a peer to work with, or waits for the first to connect.
Served ==
    \/ \E p \in peerIds : state[p] # "absent"
    \/ peerIds = {} /\ PM!Open = {}

\* While the monitor runs beside a running peer manager, it does not lose its
\* last peer as long as there is another open connection to go on with.
StaysServed ==
    [][listening' /\ started /\ started' /\ Served => Served']_vars

\* The callback gets a message once at most, whoever pushes it, how often, and
\* whatever subscriptions come and go.
DeliveredOnce == \A m \in Message : decoding[m] + deliveries[m] <= 1

\* The subscription uses the peer manager as its own specification says.
UsesPeerManager == PM!Spec

-----------------------------------------------------------------------------
(* What the repository's comments say of the code, and the code does not do.*)
(* No run checks them: see the README.                                      *)

\* peerIds: "Cached peers that are in use by subscription. Needed to understand
\* if they disconnect later or not".
StartedIsServed == started /\ listening => Served

\* stop(): "Stops all recurring queries, event listeners or timers".
StopEndsPings == ticking => started
=============================================================================
