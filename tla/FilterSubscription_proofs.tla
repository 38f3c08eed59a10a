---------------------- MODULE FilterSubscription_proofs ----------------------
(* Theorems about FilterSubscription, for every finite set of peers, every  *)
(* set of topics, messages and calls, and every limit.                      *)
EXTENDS FilterSubscription, FiniteSetTheorems, TLAPS

\* The peer manager counts as this module does.
LEMMA SameCardinality == \A S : PM!Cardinality(S) = Cardinality(S)
  BY DEF PM!Cardinality, Cardinality

LEMMA CountOfPeers ==
    \A S : S \subseteq Peer =>
             /\ Cardinality(S) \in Nat
             /\ Cardinality(S) = 0 <=> S = {}
  BY PeersAssumption, FS_Subset, FS_CardinalityType, FS_EmptySet

-----------------------------------------------------------------------------
(***************************************************************************)
(* The peer manager's part of a step: every action of this module makes a  *)
(* step of PeerManager or leaves its variables alone.                      *)
(***************************************************************************)
LEMMA RenewTypes ==
    ASSUME NEW p, NEW open, NEW tagged, PM!Renew(p, open, tagged)
    PROVE  locked' \subseteq tagged \cup open
  BY DEF PM!Renew

LEMMA PoolTypeStep ==
    ASSUME PM!TypeOK, [PM!Next]_poolVars
    PROVE  PM!TypeOK'
  <1>1. ASSUME NEW p \in Peer, PM!ConnectionOpens(p) PROVE PM!TypeOK'
    BY <1>1 DEF PM!TypeOK, PM!ConnectionOpens, PM!LockIfNeeded
  <1>2. ASSUME NEW p \in Peer, PM!ConnectionCloses(p) PROVE PM!TypeOK'
    BY <1>2 DEF PM!TypeOK, PM!ConnectionCloses
  <1>3. ASSUME NEW p \in Peer, PM!ConnectionGone(p) PROVE PM!TypeOK'
    <2>1. locked' \subseteq (locked \ {p}) \cup (PM!Open \ {p})
      BY <1>3, RenewTypes DEF PM!ConnectionGone
    <2>2. QED BY <1>3, <2>1 DEF PM!TypeOK, PM!ConnectionGone, PM!Open
  <1>4. ASSUME NEW p \in Peer, PM!RequestRenew(p) PROVE PM!TypeOK'
    <2>1. locked' \subseteq locked \cup PM!Open
      BY <1>4, RenewTypes DEF PM!RequestRenew
    <2>2. QED BY <1>4, <2>1 DEF PM!TypeOK, PM!RequestRenew, PM!Open
  <1>5. ASSUME PM!Stop PROVE PM!TypeOK'
    BY <1>5 DEF PM!TypeOK, PM!Stop
  <1>6. ASSUME UNCHANGED poolVars PROVE PM!TypeOK'
    BY <1>6 DEF PM!TypeOK, poolVars
  <1>7. QED BY <1>1, <1>2, <1>3, <1>4, <1>5, <1>6 DEF PM!Next

LEMMA RenewStep ==
    ASSUME TypeOK, NEW t \in tasks, NEW n, RenewAndSubscribe(t, n)
    PROVE  PM!Next
  <1>1. t.peer \in Peer
    BY DEF TypeOK, Request
  <1>2. QED BY <1>1 DEF RenewAndSubscribe, PM!Next

LEMMA PoolStep ==
    ASSUME TypeOK, [Next]_vars
    PROVE  [PM!Next]_poolVars
  <1>1. ASSUME NEW u \in Call, NEW topics,
               Subscribe(u, topics) \/ Unsubscribe(u, topics)
        PROVE  UNCHANGED poolVars
    BY <1>1 DEF Subscribe, Unsubscribe
  <1>2. ASSUME NEW u \in Call,
               \/ FinishSubscribe(u) \/ FinishUnsubscribe(u)
               \/ UnsubscribeAll(u) \/ FinishUnsubscribeAll(u)
               \/ \E p \in Peer : UnsubscribeAnswered(u, p)
        PROVE  UNCHANGED poolVars
    BY <1>2 DEF FinishSubscribe, FinishUnsubscribe, UnsubscribeAll,
                FinishUnsubscribeAll, UnsubscribeAnswered
  <1>3. ASSUME PingPeers \/ Tick \/ GoesOffline \/ GoesOnline \/ ResumeKeepAlive
        PROVE  UNCHANGED poolVars
    BY <1>3 DEF PingPeers, Tick, GoesOffline, GoesOnline, ResumeKeepAlive
  <1>4. ASSUME NEW p \in Peer, PeerConnects(p) \/ PeerCloses(p) \/ PeerGone(p)
        PROVE  PM!Next
    BY <1>4 DEF PeerConnects, PeerCloses, PeerGone, PM!Next
  <1>5. ASSUME NodeStops PROVE PM!Next
    BY <1>5 DEF NodeStops, PM!Next
  <1>6. ASSUME NEW t \in tasks, PingAnswered(t) PROVE [PM!Next]_poolVars
    BY <1>6, RenewStep DEF PingAnswered, PingSucceeds, PingFails, PingThrows
  <1>7. ASSUME NEW t \in tasks, SubscribeAnswered(t) PROVE [PM!Next]_poolVars
    BY <1>7, RenewStep
       DEF SubscribeAnswered, SubscribeSucceeds, SubscribeFails, SubscribeThrows
  <1>8. ASSUME NEW m \in Message, Push(m) \/ Deliver(m)
        PROVE  UNCHANGED poolVars
    BY <1>8 DEF Push, Deliver
  <1>9. ASSUME UNCHANGED vars PROVE UNCHANGED poolVars
    BY <1>9 DEF vars
  <1>10. QED
    BY <1>1, <1>2, <1>3, <1>4, <1>5, <1>6, <1>7, <1>8, <1>9 DEF Next

-----------------------------------------------------------------------------
(* Types.                                                                  *)

LEMMA TypeInit == Init => TypeOK
  <1> SUFFICES ASSUME Init PROVE TypeOK
    OBVIOUS
  <1>1. PM!TypeOK
    BY DEF Init, PM!Init, PM!TypeOK
  <1>2. NoCall \in [op : {"none", "subscribe", "unsubscribe", "unsubscribeAll"},
                    topics : SUBSET Topic, waiting : SUBSET Peer]
    BY DEF NoCall
  <1>3. failed \in [Peer -> 0 .. PingsBeforePeerRenewed - 1]
    BY LimitsAssumption DEF Init
  <1>4. QED BY <1>1, <1>2, <1>3 DEF Init, TypeOK

LEMMA RequestsType ==
    ASSUME NEW ps, ps \subseteq Peer, NEW n \in 0 .. MaxSubscribeAttempts,
           NEW b \in BOOLEAN
    PROVE  Requests(ps, n, b) \subseteq Request
  BY DEF Requests, Request

LEMMA PoolOfPeers == PM!Pool \subseteq Peer /\ PM!Pool' \subseteq Peer
  BY DEF PM!Pool, PM!Open

\* The variables of the calls, of the monitor and of the messages.
CallTypes ==
    /\ created \in BOOLEAN
    /\ callbacks \subseteq Topic
    /\ calls \in [Call -> [op : {"none", "subscribe", "unsubscribe", "unsubscribeAll"},
                           topics : SUBSET Topic, waiting : SUBSET Peer]]
    /\ bare \in BOOLEAN

MonitorTypes ==
    /\ started \in BOOLEAN
    /\ peerIds \subseteq Peer
    /\ ticking \in BOOLEAN
    /\ failed \in [Peer -> 0 .. PingsBeforePeerRenewed - 1]
    /\ tasks \subseteq Request
    /\ resuming \in BOOLEAN
    /\ online \in BOOLEAN

MessageTypes ==
    /\ received \subseteq Message
    /\ decoding \in [Message -> Nat]
    /\ deliveries \in [Message -> Nat]

LEMMA TypeParts ==
    /\ TypeOK <=> PM!TypeOK /\ CallTypes /\ MonitorTypes /\ MessageTypes
    /\ TypeOK' <=> PM!TypeOK' /\ CallTypes' /\ MonitorTypes' /\ MessageTypes'
  BY DEF TypeOK, CallTypes, MonitorTypes, MessageTypes

LEMMA Untouched ==
    /\ CallTypes /\ UNCHANGED callVars => CallTypes'
    /\ MonitorTypes /\ UNCHANGED monVars => MonitorTypes'
    /\ MessageTypes /\ UNCHANGED msgVars => MessageTypes'
  BY DEF CallTypes, MonitorTypes, MessageTypes, callVars, monVars, msgVars

LEMMA RenewTypesTasks ==
    ASSUME TypeOK, NEW t \in tasks, NEW n \in Nat \ {0}, RenewAndSubscribe(t, n)
    PROVE  tasks' \subseteq Request
  <1>1. locked' \ locked \subseteq Peer
    BY RenewTypes DEF RenewAndSubscribe, PM!RequestRenew, PM!Open
  <1>2. t.awaited \in BOOLEAN
    BY DEF TypeOK, Request
  <1>3. PICK q \in IF locked' \ locked = {} THEN {None} ELSE locked' \ locked :
          tasks' = (tasks \ {t}) \cup
                     IF q = None \/ n > MaxSubscribeAttempts THEN {}
                       ELSE Requests({q}, n, t.awaited)
    BY DEF RenewAndSubscribe
  <1>4. CASE q = None \/ n > MaxSubscribeAttempts
    BY <1>3, <1>4 DEF TypeOK
  <1>5. CASE ~(q = None \/ n > MaxSubscribeAttempts)
    <2>1. q \in Peer
      BY <1>1, <1>3, <1>5
    <2>2. n \in 0 .. MaxSubscribeAttempts
      BY <1>5, LimitsAssumption
    <2>3. Requests({q}, n, t.awaited) \subseteq Request
      BY <1>2, <2>1, <2>2, RequestsType
    <2>4. QED BY <1>3, <1>5, <2>3 DEF TypeOK
  <1>6. QED BY <1>4, <1>5

LEMMA CallStep ==
    ASSUME TypeOK, NEW u \in Call, NEW topics \in SUBSET Topic,
           \/ Subscribe(u, topics) \/ Unsubscribe(u, topics)
           \/ FinishSubscribe(u) \/ FinishUnsubscribe(u)
           \/ UnsubscribeAll(u) \/ FinishUnsubscribeAll(u)
           \/ \E p \in Peer : UnsubscribeAnswered(u, p)
    PROVE  CallTypes' /\ MonitorTypes' /\ MessageTypes'
  <1>0. CallTypes /\ MonitorTypes /\ MessageTypes
    BY TypeParts
  <1>1. PeersToUse \subseteq Peer
    BY <1>0, PoolOfPeers DEF PeersToUse, MonitorTypes
  <1>2. GetPeers => MonitorTypes'
    BY <1>0, <1>1 DEF GetPeers, MonitorTypes
  <1>3. StartMonitor \/ StopMonitor => MonitorTypes'
    BY <1>0 DEF StartMonitor, StopMonitor, MonitorTypes
  <1>4. CASE Subscribe(u, topics)
    BY <1>0, <1>2, <1>4, Untouched DEF Subscribe, Begin, CallTypes
  <1>5. CASE Unsubscribe(u, topics)
    BY <1>0, <1>1, <1>2, <1>5, Untouched DEF Unsubscribe, Begin, CallTypes
  <1>6. CASE FinishSubscribe(u)
    BY <1>0, <1>3, <1>6, Untouched DEF FinishSubscribe, NoCall, CallTypes
  <1>7. CASE FinishUnsubscribe(u)
    BY <1>0, <1>3, <1>7, Untouched DEF FinishUnsubscribe, NoCall, CallTypes
  <1>8. CASE UnsubscribeAll(u)
    BY <1>0, <1>2, <1>8, Untouched DEF UnsubscribeAll, Begin, CallTypes
  <1>9. CASE FinishUnsubscribeAll(u)
    BY <1>0, <1>3, <1>9, Untouched DEF FinishUnsubscribeAll, NoCall, CallTypes
  <1>10. ASSUME NEW p \in Peer, UnsubscribeAnswered(u, p)
         PROVE  CallTypes' /\ MonitorTypes' /\ MessageTypes'
    BY <1>0, <1>10, Untouched DEF UnsubscribeAnswered, CallTypes
  <1>11. QED
    BY <1>4, <1>5, <1>6, <1>7, <1>8, <1>9, <1>10

LEMMA EventStep ==
    ASSUME TypeOK,
           \/ PingPeers \/ NodeStops
           \/ Tick \/ GoesOffline \/ GoesOnline \/ ResumeKeepAlive
           \/ \E p \in Peer : PeerConnects(p) \/ PeerCloses(p) \/ PeerGone(p)
    PROVE  CallTypes' /\ MonitorTypes' /\ MessageTypes'
  <1>0. CallTypes /\ MonitorTypes /\ MessageTypes
    BY TypeParts
  <1>1. UsePool => MonitorTypes'
    <2>1. PICK used \in SUBSET Peer : used = PM!Pool'
      BY PoolOfPeers
    <2>2. 1 \in 0 .. MaxSubscribeAttempts
      BY LimitsAssumption
    <2>3. Requests(used, 1, FALSE) \subseteq Request
      BY <2>2, RequestsType
    <2>4. QED BY <1>0, <2>1, <2>3 DEF UsePool, MonitorTypes
  <1>2. \A b \in BOOLEAN : Requests(peerIds, 0, b) \subseteq Request
    BY <1>0, RequestsType, LimitsAssumption DEF MonitorTypes
  <1>3. CASE PingPeers
    BY <1>0, <1>3, PoolOfPeers, Untouched DEF PingPeers, GetPeers, PeersToUse, MonitorTypes
  <1>4. CASE NodeStops
    BY <1>0, <1>4, Untouched DEF NodeStops
  <1>5. CASE Tick
    BY <1>0, <1>2, <1>5, Untouched DEF Tick, MonitorTypes
  <1>6. CASE GoesOffline
    BY <1>0, <1>6, Untouched DEF GoesOffline, MonitorTypes
  <1>7. CASE GoesOnline
    BY <1>0, <1>2, <1>7, Untouched DEF GoesOnline, MonitorTypes
  <1>8. CASE ResumeKeepAlive
    BY <1>0, <1>8, Untouched DEF ResumeKeepAlive, MonitorTypes
  <1>9. ASSUME NEW p \in Peer, PeerConnects(p) \/ PeerCloses(p) \/ PeerGone(p)
        PROVE  CallTypes' /\ MonitorTypes' /\ MessageTypes'
    BY <1>0, <1>1, <1>9, Untouched DEF PeerConnects, PeerCloses, PeerGone
  <1>10. QED
    BY <1>3, <1>4, <1>5, <1>6, <1>7, <1>8, <1>9

LEMMA TaskStep ==
    ASSUME TypeOK, NEW t \in tasks, PingAnswered(t) \/ SubscribeAnswered(t)
    PROVE  CallTypes' /\ MonitorTypes' /\ MessageTypes'
  <1>0. /\ CallTypes /\ MonitorTypes /\ MessageTypes
        /\ t.peer \in Peer /\ t.attempt \in Nat
    BY TypeParts DEF TypeOK, Request
  <1>1. CASE PingSucceeds(t)
    BY <1>0, <1>1, Untouched, LimitsAssumption DEF PingSucceeds, MonitorTypes
  <1>2. CASE PingFails(t)
    <2>1. tasks' \subseteq Request
      BY <1>0, <1>2, RenewTypesTasks DEF PingFails, MonitorTypes
    <2>2. \/ failed[t.peer] + 1 >= PingsBeforePeerRenewed
          \/ failed[t.peer] + 1 \in 0 .. PingsBeforePeerRenewed - 1
      BY <1>0, LimitsAssumption DEF MonitorTypes
    <2>3. failed' \in [Peer -> 0 .. PingsBeforePeerRenewed - 1]
      BY <1>0, <1>2, <2>2 DEF PingFails, MonitorTypes
    <2>4. QED BY <1>0, <1>2, <2>1, <2>3, Untouched DEF PingFails, MonitorTypes
  <1>3. CASE SubscribeSucceeds(t)
    BY <1>0, <1>3, Untouched DEF SubscribeSucceeds, MonitorTypes
  <1>4. CASE SubscribeFails(t)
    <2>1. tasks' \subseteq Request
      BY <1>0, <1>4, RenewTypesTasks DEF SubscribeFails
    <2>2. QED BY <1>0, <1>4, <2>1, Untouched DEF SubscribeFails, MonitorTypes
  <1>5. CASE SubscribeThrows(t)
    BY <1>0, <1>5, Untouched DEF SubscribeThrows, MonitorTypes
  <1>6. CASE PingThrows(t)
    BY <1>0, <1>6, Untouched DEF PingThrows, MonitorTypes
  <1>7. QED
    BY <1>1, <1>2, <1>3, <1>4, <1>5, <1>6 DEF PingAnswered, SubscribeAnswered

LEMMA MessageStep ==
    ASSUME TypeOK, NEW m \in Message, Push(m) \/ Deliver(m)
    PROVE  CallTypes' /\ MonitorTypes' /\ MessageTypes'
  <1>0. CallTypes /\ MonitorTypes /\ MessageTypes
    BY TypeParts
  <1>1. CASE Push(m)
    BY <1>0, <1>1, Untouched DEF Push, MessageTypes
  <1>2. CASE Deliver(m)
    BY <1>0, <1>2, Untouched DEF Deliver, MessageTypes
  <1>3. QED BY <1>1, <1>2

LEMMA TypeStep == TypeOK /\ [Next]_vars => TypeOK'
  <1> SUFFICES ASSUME TypeOK, [Next]_vars PROVE TypeOK'
    OBVIOUS
  <1>1. PM!TypeOK'
    BY PoolStep, PoolTypeStep DEF TypeOK
  <1>2. CASE UNCHANGED vars
    BY <1>1, <1>2, TypeParts, Untouched DEF vars
  <1>3. CASE Next
    <2>1. {} \in SUBSET Topic
      OBVIOUS
    <2>2. QED
      BY <1>1, <1>3, <2>1, TypeParts, CallStep, EventStep, TaskStep, MessageStep
         DEF Next
  <1>4. QED BY <1>2, <1>3

\* Every variable stays in its type; no request is for "no peer" or beyond the
\* allowed attempts.
THEOREM TypeCorrect == Spec => []TypeOK
  BY TypeInit, TypeStep, PTL DEF Spec

\* The subscription uses the peer manager as its specification says, so what
\* is proved of the peer manager holds here as well.
THEOREM PeerManagerUsed == Spec => UsesPeerManager
  <1>1. Init => PM!Init
    BY DEF Init
  <1>2. TypeOK /\ [Next]_vars => [PM!Next]_poolVars
    BY PoolStep
  <1>3. poolVars = PM!vars
    BY DEF poolVars, PM!vars
  <1>4. QED
    BY <1>1, <1>2, <1>3, TypeCorrect, PTL DEF Spec, UsesPeerManager, PM!Spec, poolVars, PM!vars

-----------------------------------------------------------------------------
(***************************************************************************)
(* The calls.  Only FinishSubscribe adds callbacks, and it starts the      *)
(* monitor, which stops where there are seen to be none.                   *)
(***************************************************************************)
LEMMA MonitorStep ==
    ASSUME TypeOK, MonitorFollowsCallbacks, [Next]_vars
    PROVE  MonitorFollowsCallbacks'
  <1>1. ASSUME NEW u \in Call, NEW topics, Subscribe(u, topics)
        PROVE  MonitorFollowsCallbacks'
    <2>1. \A v \in Call : calls[v].op = "unsubscribe" => calls'[v] = calls[v]
      BY <1>1 DEF Subscribe, Begin, NoCall, TypeOK
    <2>2. QED BY <1>1, <2>1 DEF MonitorFollowsCallbacks, Subscribe, Begin, GetPeers
  <1>2. ASSUME NEW u \in Call, NEW topics, Unsubscribe(u, topics)
        PROVE  MonitorFollowsCallbacks'
    <2>1. \A v \in Call : calls[v].op = "unsubscribe" => calls'[v] = calls[v]
      BY <1>2 DEF Unsubscribe, Begin, NoCall, TypeOK
    <2>2. QED BY <1>2, <2>1 DEF MonitorFollowsCallbacks, Unsubscribe, Begin, GetPeers
  <1>3. ASSUME NEW u \in Call, FinishSubscribe(u)
        PROVE  MonitorFollowsCallbacks'
    <2>1. \A v \in Call : calls[v].op = "unsubscribe" => calls'[v] = calls[v]
      BY <1>3 DEF FinishSubscribe, TypeOK
    <2>2. started' /\ (callbacks' = {} => bare')
      BY <1>3 DEF FinishSubscribe, StartMonitor
    <2>3. QED
      BY <2>1, <2>2 DEF MonitorFollowsCallbacks
  <1>4. ASSUME NEW u \in Call, NEW p \in Peer, UnsubscribeAnswered(u, p)
        PROVE  MonitorFollowsCallbacks'
    <2>1. calls'[u].op = "unsubscribe"
      BY <1>4 DEF UnsubscribeAnswered, TypeOK
    <2>2. callbacks' \subseteq callbacks
      BY <1>4 DEF UnsubscribeAnswered
    <2>3. QED
      BY <1>4, <2>1, <2>2 DEF MonitorFollowsCallbacks, UnsubscribeAnswered, monVars
  <1>5. ASSUME NEW u \in Call, FinishUnsubscribe(u)
        PROVE  MonitorFollowsCallbacks'
    BY <1>5 DEF MonitorFollowsCallbacks, FinishUnsubscribe, StopMonitor, monVars
  <1>6. ASSUME NEW u \in Call, UnsubscribeAll(u)
        PROVE  MonitorFollowsCallbacks'
    <2>1. \A v \in Call : calls[v].op = "unsubscribe" => calls'[v] = calls[v]
      BY <1>6 DEF UnsubscribeAll, Begin, NoCall, TypeOK
    <2>2. QED BY <1>6, <2>1 DEF MonitorFollowsCallbacks, UnsubscribeAll, Begin, GetPeers
  <1>7. ASSUME NEW u \in Call, FinishUnsubscribeAll(u)
        PROVE  MonitorFollowsCallbacks'
    BY <1>7 DEF MonitorFollowsCallbacks, FinishUnsubscribeAll, StopMonitor
  <1>8. (UNCHANGED callVars /\ started' = started) => MonitorFollowsCallbacks'
    BY DEF MonitorFollowsCallbacks, callVars
  <1>9. ASSUME \/ PingPeers \/ NodeStops
               \/ Tick \/ GoesOffline \/ GoesOnline \/ ResumeKeepAlive
               \/ \E p \in Peer : PeerConnects(p) \/ PeerCloses(p) \/ PeerGone(p)
        PROVE  UNCHANGED callVars /\ started' = started
    BY <1>9
       DEF PingPeers, GetPeers, NodeStops, Tick, GoesOffline, GoesOnline,
           ResumeKeepAlive, PeerConnects, PeerCloses, PeerGone, UsePool, monVars
  <1>10. ASSUME NEW t \in tasks, PingAnswered(t) \/ SubscribeAnswered(t)
         PROVE  UNCHANGED callVars /\ started' = started
    BY <1>10
       DEF PingAnswered, SubscribeAnswered, PingSucceeds, PingFails, PingThrows,
           SubscribeSucceeds, SubscribeFails, SubscribeThrows
  <1>11. ASSUME NEW m \in Message, Push(m) \/ Deliver(m)
         PROVE  UNCHANGED callVars /\ started' = started
    BY <1>11 DEF Push, Deliver, monVars
  <1>12. ASSUME UNCHANGED vars PROVE UNCHANGED callVars /\ started' = started
    BY <1>12 DEF vars, monVars
  <1>13. QED
    BY <1>1, <1>2, <1>3, <1>4, <1>5, <1>6, <1>7, <1>8, <1>9, <1>10, <1>11, <1>12
       DEF Next

\* The monitor runs exactly while there are callbacks, whatever calls overlap, but
\* for the end of an unsubscribe and for a subscribe of no topics.
THEOREM MonitorCorrect == Spec => []MonitorFollowsCallbacks
  <1>1. Init => MonitorFollowsCallbacks
    BY DEF Init, MonitorFollowsCallbacks
  <1>2. TypeOK /\ MonitorFollowsCallbacks /\ [Next]_vars => MonitorFollowsCallbacks'
    BY MonitorStep
  <1>3. QED BY <1>1, <1>2, TypeCorrect, PTL DEF Spec

-----------------------------------------------------------------------------
(***************************************************************************)
(* Connections.  The peer manager fills its pool before the monitor takes  *)
(* the pool's peers, so a pool that can have a peer has one then.          *)
(***************************************************************************)
LEMMA RenewFills ==
    ASSUME NEW p \in Peer, NEW open, NEW tagged,
           open \subseteq Peer \ {p}, open # {},
           PM!Renew(p, open, tagged)
    PROVE  open \cap locked' # {}
  <1> DEFINE kept   == open \cap tagged
             needed == NumPeersToUse - Cardinality(kept)
             others == {c \in open \ tagged : c # p}
  <1>1. /\ Cardinality(kept) \in Nat /\ (Cardinality(kept) = 0 <=> kept = {})
        /\ NumPeersToUse \in Nat /\ NumPeersToUse > 0
    BY CountOfPeers, PeersAssumption
  <1>2. \/ locked' = tagged /\ needed = 0
        \/ \E new \in SUBSET others :
             /\ IF Cardinality(others) >= needed
                  THEN Cardinality(new) = needed ELSE new = others
             /\ locked' = tagged \cup new
    BY SameCardinality DEF PM!Renew
  <1>3. CASE kept # {}
    BY <1>2, <1>3
  <1>4. CASE kept = {}
    <2>1. needed = NumPeersToUse /\ needed > 0
      BY <1>1, <1>4
    <2>2. others = open
      BY <1>4
    <2>3. PICK new \in SUBSET others :
             /\ IF Cardinality(others) >= needed
                  THEN Cardinality(new) = needed ELSE new = others
             /\ locked' = tagged \cup new
      BY <1>2, <2>1
    <2>4. new # {}
      <3>1. CASE new = others
        BY <2>2, <3>1
      <3>2. CASE Cardinality(new) = needed
        <4>1. Cardinality(new) = 0 <=> new = {}
          BY <2>2, CountOfPeers
        <4>2. QED BY <2>1, <3>2, <4>1
      <3>3. QED BY <2>3, <3>1, <3>2
    <2>5. QED BY <2>2, <2>3, <2>4
  <1>5. QED BY <1>3, <1>4

LEMMA ServedStep ==
    ASSUME TypeOK, [Next]_vars, listening', started, started', Served
    PROVE  Served'
  <1>1. ASSUME UNCHANGED <<state, peerIds>> PROVE Served'
    BY <1>1 DEF Served, PM!Open
  <1>2. ASSUME NEW p \in Peer, PeerConnects(p) PROVE Served'
    <2>1. state[p] = "absent" /\ state' = [state EXCEPT ![p] = "open"]
      BY <1>2 DEF PeerConnects, PM!ConnectionOpens
    <2>2. ASSUME NEW q \in peerIds, state[q] # "absent"
          PROVE  q \in peerIds' /\ state'[q] # "absent"
      BY <1>2, <2>1, <2>2 DEF PeerConnects, monVars, TypeOK, PM!TypeOK
    <2>3. CASE peerIds = {} /\ PM!Open = {}
      <3>1. PM!Pool = {} /\ PM!Cardinality(PM!Pool) = 0
        BY <2>3, SameCardinality, CountOfPeers DEF PM!Pool
      <3>2. listening /\ PM!Listed(p) = {}
        BY <1>2, <2>1 DEF PeerConnects, PM!ConnectionOpens, PM!Listed
      <3>3. p \in locked'
        BY <1>2, <3>1, <3>2, PeersAssumption
           DEF PeerConnects, PM!ConnectionOpens, PM!LockIfNeeded
      <3>4. p \in PM!Pool' /\ peerIds' = PM!Pool'
        BY <1>2, <2>1, <2>3, <3>3
           DEF PeerConnects, UsePool, PM!Pool, PM!Open, TypeOK, PM!TypeOK
      <3>5. QED BY <2>1, <3>4 DEF Served, TypeOK, PM!TypeOK
    <2>4. QED BY <2>2, <2>3 DEF Served
  <1>3. ASSUME NEW p \in Peer, PeerCloses(p) PROVE Served'
    BY <1>3
       DEF PeerCloses, PM!ConnectionCloses, monVars, Served, PM!Open, TypeOK, PM!TypeOK
  <1>4. ASSUME NEW p \in Peer, PeerGone(p) PROVE Served'
    <2>1. /\ state' = [state EXCEPT ![p] = "absent"]
          /\ PM!Open' = PM!Open \ {p} /\ PM!Open' \subseteq Peer \ {p}
      BY <1>4 DEF PeerGone, PM!ConnectionGone, PM!Open, TypeOK, PM!TypeOK
    <2>2. CASE p \notin peerIds
      <3>1. peerIds' = peerIds
        BY <1>4, <2>2 DEF PeerGone, monVars
      <3>2. ASSUME NEW q \in peerIds, state[q] # "absent"
            PROVE  state'[q] # "absent"
        BY <2>1, <2>2, <3>2 DEF TypeOK, PM!TypeOK
      <3>3. QED BY <2>1, <3>1, <3>2 DEF Served
    <2>3. CASE p \in peerIds
      <3>1. peerIds' = PM!Pool'
        BY <1>4, <2>3 DEF PeerGone, UsePool
      <3>2. CASE PM!Open' = {}
        BY <3>1, <3>2 DEF Served, PM!Pool
      <3>3. CASE PM!Open' # {}
        <4>1. listening /\ PM!Listed(p) = {p}
          BY <1>4 DEF PeerGone, PM!ConnectionGone, PM!Listed
        <4>2. PM!Renew(p, PM!Open \ {p}, locked \ {p})
          BY <1>4, <4>1 DEF PeerGone, PM!ConnectionGone
        <4>3. (PM!Open \ {p}) \cap locked' # {}
          BY <2>1, <3>3, <4>2, RenewFills
        <4>4. PICK q \in PM!Open' : q \in PM!Pool'
          BY <2>1, <4>3 DEF PM!Pool
        <4>5. state'[q] # "absent"
          BY <4>4 DEF PM!Open
        <4>6. QED BY <3>1, <4>4, <4>5 DEF Served
      <3>4. QED BY <3>2, <3>3
    <2>4. QED BY <2>2, <2>3
  <1>5. ASSUME NEW u \in Call, NEW topics,
               \/ Subscribe(u, topics) \/ Unsubscribe(u, topics)
               \/ FinishSubscribe(u) \/ FinishUnsubscribe(u)
               \/ UnsubscribeAll(u) \/ FinishUnsubscribeAll(u)
               \/ \E p \in Peer : UnsubscribeAnswered(u, p)
        PROVE  UNCHANGED <<state, peerIds>>
    BY <1>5
       DEF Subscribe, Unsubscribe, FinishSubscribe, FinishUnsubscribe,
           UnsubscribeAll, FinishUnsubscribeAll, UnsubscribeAnswered, Begin,
           GetPeers, PeersToUse, StartMonitor, StopMonitor, monVars, poolVars
  <1>6. ASSUME PingPeers \/ NodeStops \/ Tick \/ GoesOffline \/ GoesOnline \/ ResumeKeepAlive
        PROVE  UNCHANGED <<state, peerIds>>
    BY <1>6
       DEF PingPeers, NodeStops, PM!Stop, Tick, GoesOffline, GoesOnline,
           ResumeKeepAlive, GetPeers, PeersToUse, monVars, poolVars
  <1>7. ASSUME NEW t \in tasks, PingAnswered(t) \/ SubscribeAnswered(t)
        PROVE  UNCHANGED <<state, peerIds>>
    BY <1>7
       DEF PingAnswered, SubscribeAnswered, PingSucceeds, PingFails, PingThrows,
           SubscribeSucceeds, SubscribeFails, SubscribeThrows,
           RenewAndSubscribe, PM!RequestRenew, poolVars
  <1>8. ASSUME NEW m \in Message, Push(m) \/ Deliver(m)
        PROVE  UNCHANGED <<state, peerIds>>
    BY <1>8 DEF Push, Deliver, poolVars, monVars
  <1>9. ASSUME UNCHANGED vars PROVE UNCHANGED <<state, peerIds>>
    BY <1>9 DEF vars, poolVars, monVars
  <1>10. QED
    BY <1>1, <1>2, <1>3, <1>4, <1>5, <1>6, <1>7, <1>8, <1>9 DEF Next

\* A running monitor that has a connected peer goes on having one as long as
\* there is an open connection.
THEOREM StaysServedCorrect == Spec => StaysServed
  <1>1. TypeOK /\ [Next]_vars
          => [listening' /\ started /\ started' /\ Served => Served']_vars
    BY ServedStep
  <1>2. QED BY <1>1, TypeCorrect, PTL DEF Spec, StaysServed

-----------------------------------------------------------------------------
(***************************************************************************)
(* Messages.  DeliveredOnce is inductive with the fact that a message that *)
(* is being decoded, or was delivered, is among those received.            *)
(***************************************************************************)
DeliveryInv ==
    \A m \in Message :
      /\ decoding[m] + deliveries[m] <= 1
      /\ m \notin received => decoding[m] + deliveries[m] = 0

LEMMA DeliveryStep ==
    ASSUME TypeOK, DeliveryInv, [Next]_vars
    PROVE  DeliveryInv'
  <1>0. \A m \in Message : decoding[m] \in Nat /\ deliveries[m] \in Nat
    BY DEF TypeOK
  <1>1. ASSUME NEW m \in Message, Push(m) PROVE DeliveryInv'
    <2>1. \A n \in Message : n # m => decoding'[n] = decoding[n]
      BY <1>1 DEF Push, TypeOK
    <2>2. \/ decoding'[m] = decoding[m]
          \/ m \notin received /\ decoding'[m] = decoding[m] + 1
      BY <1>1 DEF Push, TypeOK
    <2>3. QED BY <1>0, <1>1, <2>1, <2>2 DEF Push, DeliveryInv
  <1>2. ASSUME NEW m \in Message, Deliver(m) PROVE DeliveryInv'
    <2>1. \A n \in Message : n # m => decoding'[n] = decoding[n] /\ deliveries'[n] = deliveries[n]
      BY <1>2 DEF Deliver, TypeOK
    <2>2. /\ decoding[m] > 0 /\ decoding'[m] = decoding[m] - 1
          /\ deliveries'[m] = deliveries[m] \/ deliveries'[m] = deliveries[m] + 1
      BY <1>2 DEF Deliver, TypeOK
    <2>3. QED BY <1>0, <1>2, <2>1, <2>2 DEF Deliver, DeliveryInv
  <1>3. UNCHANGED msgVars => DeliveryInv'
    BY DEF DeliveryInv, msgVars
  <1>4. ASSUME NEW u \in Call, NEW topics,
               \/ Subscribe(u, topics) \/ Unsubscribe(u, topics)
               \/ FinishSubscribe(u) \/ FinishUnsubscribe(u)
               \/ UnsubscribeAll(u) \/ FinishUnsubscribeAll(u)
               \/ \E p \in Peer : UnsubscribeAnswered(u, p)
        PROVE  UNCHANGED msgVars
    BY <1>4
       DEF Subscribe, Unsubscribe, FinishSubscribe, FinishUnsubscribe,
           UnsubscribeAll, FinishUnsubscribeAll, UnsubscribeAnswered
  <1>5. ASSUME \/ PingPeers \/ NodeStops
               \/ Tick \/ GoesOffline \/ GoesOnline \/ ResumeKeepAlive
               \/ \E p \in Peer : PeerConnects(p) \/ PeerCloses(p) \/ PeerGone(p)
        PROVE  UNCHANGED msgVars
    BY <1>5
       DEF PingPeers, NodeStops, Tick, GoesOffline, GoesOnline,
           ResumeKeepAlive, PeerConnects, PeerCloses, PeerGone
  <1>6. ASSUME NEW t \in tasks, PingAnswered(t) \/ SubscribeAnswered(t)
        PROVE  UNCHANGED msgVars
    BY <1>6
       DEF PingAnswered, SubscribeAnswered, PingSucceeds, PingFails, PingThrows,
           SubscribeSucceeds, SubscribeFails, SubscribeThrows
  <1>7. ASSUME UNCHANGED vars PROVE UNCHANGED msgVars
    BY <1>7 DEF vars
  <1>8. QED BY <1>1, <1>2, <1>3, <1>4, <1>5, <1>6, <1>7 DEF Next

\* No message is given to the callback twice.
THEOREM DeliveryCorrect == Spec => []DeliveredOnce
  <1>1. Init => DeliveryInv
    BY DEF Init, DeliveryInv
  <1>2. TypeOK /\ DeliveryInv /\ [Next]_vars => DeliveryInv'
    BY DeliveryStep
  <1>3. DeliveryInv => DeliveredOnce
    BY DEF DeliveryInv, DeliveredOnce
  <1>4. QED BY <1>1, <1>2, <1>3, TypeCorrect, PTL DEF Spec
=============================================================================
