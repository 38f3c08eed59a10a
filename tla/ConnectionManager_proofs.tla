----------------------- MODULE ConnectionManager_proofs -----------------------
(* Theorems about ConnectionManager, for every set of peers, every finite   *)
(* set of calls and every value of the limits.                              *)
EXTENDS ConnectionManager, FiniteSetTheorems, TLAPS

(***************************************************************************)
(* A step of the next-state relation is a step of one of its actions: the  *)
(* form in which the proofs below take it.                                 *)
(***************************************************************************)
LEMMA NextCases ==
    ASSUME Next
    PROVE  \/ DialStoredPeers
           \/ \E r \in Request :
                \/ Discover(r)
                \/ AttemptDiscovered(r)
                \/ CheckTopicAndBootstrap(r)
                \/ CheckDialedBefore(r)
                \/ TakeSlot(r)
                \/ Enqueue(r)
                \/ DialDirectly(r)
                \/ DialSucceeds(r)
                \/ RetryDial(r)
                \/ GiveUpDial(r)
                \/ FinishDial(r)
                \/ FallBackToDns(r)
           \/ \E p \in Peer :
                \/ PeerConnects(p)
                \/ PeerDisconnects(p)
                \/ Welcome(p)
                \/ DropConnection(p)
                \/ DropDirectly(p)
                \/ AfterHangUp(p)
                \/ HangUp(p)
           \/ BrowserNetworkChanges
           \/ Stop
  BY DEF Next, ShouldDial, Admitted, DialFails, Handler

-----------------------------------------------------------------------------
(* Lemmas on the operators that several actions share.                     *)

\* A call that starts is either skipped or suspended at its first await.
LEMMA EntryType == \A r : Entry(r) \in {"skipped", "checking"}
  BY DEF Entry

\* Starting and stopping a ping keeps the two records of the keep alive
\* manager well-typed, and in step with each other.
LEMMA PingRecords ==
    ASSUME NEW p \in Peer, pingTimers \subseteq Peer,
           intervals \in [Peer -> Int],
           StartPing(p) \/ StopPing(p)
    PROVE  /\ pingTimers' \subseteq Peer
           /\ intervals' \in [Peer -> Int]
           /\ (\A q \in Peer : intervals[q] = IF q \in pingTimers THEN 1 ELSE 0)
                => \A q \in Peer : intervals'[q] = IF q \in pingTimers' THEN 1 ELSE 0
  <1>1. CASE StartPing(p)
    BY <1>1 DEF StartPing
  <1>2. CASE StopPing(p)
    BY <1>2 DEF StopPing
  <1>3. QED BY <1>1, <1>2

\* Setting the flag keeps the last event in step with isConnected().
LEMMA StatusType ==
    ASSUME NEW b \in BOOLEAN, SetOnline(b),
           online \in BOOLEAN, browserOnline \in BOOLEAN, announced \in BOOLEAN
    PROVE  /\ online' \in BOOLEAN /\ browserOnline' \in BOOLEAN
           /\ announced' \in BOOLEAN
           /\ announced = IsConnected => announced' = IsConnected'
  BY DEF SetOnline, IsConnected

\* The end of a dial: r goes to q, the first queued call may leave the queue,
\* and nothing else moves.
LEMMA ReleaseSlotType ==
    ASSUME TypeOK, NEW r \in Request, NEW q \in Places, ReleaseSlot(r, q)
    PROVE  /\ pc' \in [Request -> Places]
           /\ activeDials' \in Int
           /\ dialQueue' \in Seq(Request)
  <1> DEFINE free == dialQueue # <<>> /\ activeDials - 1 < MaxParallelDials
  <1>1. CASE free
    <2>1. Head(dialQueue) \in Request /\ Tail(dialQueue) \in Seq(Request)
      BY <1>1 DEF TypeOK
    <2>2. Entry(Head(dialQueue)) \in Places
      BY EntryType DEF Places, Ended
    <2> DEFINE next == Head(dialQueue)
    <2>3. /\ pc' = [pc EXCEPT ![r] = q, ![next] = Entry(next)]
          /\ activeDials' = activeDials - 1
          /\ dialQueue' = Tail(dialQueue)
      BY <1>1 DEF ReleaseSlot
    <2> HIDE DEF next
    <2>4. next \in Request /\ Entry(next) \in Places
      BY <2>1, <2>2 DEF next
    <2>5. pc' \in [Request -> Places]
      BY <2>3, <2>4 DEF TypeOK
    <2>6. activeDials' \in Int
      BY <2>3 DEF TypeOK
    <2>7. dialQueue' \in Seq(Request)
      BY <2>1, <2>3
    <2>8. QED BY <2>5, <2>6, <2>7
  <1>2. CASE ~free
    BY <1>2 DEF ReleaseSlot, TypeOK
  <1>3. QED BY <1>1, <1>2

-----------------------------------------------------------------------------
(***************************************************************************)
(* Type correctness.                                                       *)
(***************************************************************************)
LEMMA TypeInit == Init => TypeOK
  <1> SUFFICES ASSUME Init PROVE TypeOK
    OBVIOUS
  <1>1. pc \in [Request -> Places]
    BY DEF Init, Places
  <1>2. dialAttempt \in [Request -> 0 .. MaxDialAttempts]
    BY LimitsAssumption DEF Init
  <1>3. dialQueue \in Seq(Request)
    BY DEF Init
  <1>4. peerStore \subseteq Peer
    BY RequestsAssumption DEF Init
  <1>5. /\ intervals \in [Peer -> Int]
        /\ greeting \in [Peer -> Nat]
        /\ dropping \in [Peer -> Nat]
    BY DEF Init
  <1>6. /\ activeDials \in Int /\ dialed \subseteq Peer
        /\ connected \subseteq Peer /\ bootTagged \subseteq connected
        /\ pingTimers \subseteq Peer /\ dropped \subseteq connected
    BY DEF Init
  <1>7. /\ online \in BOOLEAN /\ browserOnline \in BOOLEAN
        /\ announced \in BOOLEAN /\ listening \in BOOLEAN
        /\ dnsQueried \in BOOLEAN
    BY DEF Init
  <1>8. QED BY <1>1, <1>2, <1>3, <1>4, <1>5, <1>6, <1>7 DEF TypeOK

LEMMA OpenConnectionType ==
    ASSUME TypeOK, NEW p \in Peer, OpenConnection(p)
    PROVE  /\ connected' \subseteq Peer /\ bootTagged' \subseteq connected'
           /\ dropped' \subseteq connected'
           /\ peerStore' \subseteq Peer
           /\ pingTimers' \subseteq Peer /\ intervals' \in [Peer -> Int]
           /\ greeting' \in [Peer -> Nat] /\ dropping' \in [Peer -> Nat]
           /\ online' \in BOOLEAN /\ browserOnline' \in BOOLEAN
           /\ announced' \in BOOLEAN /\ listening' \in BOOLEAN
  <1>1. pingTimers' \subseteq Peer /\ intervals' \in [Peer -> Int]
    <2>1. CASE listening
      BY <2>1, PingRecords DEF TypeOK, OpenConnection
    <2>2. CASE ~listening
      BY <2>2 DEF TypeOK, OpenConnection, timers
    <2>3. QED BY <2>1, <2>2
  <1>2. greeting' \in [Peer -> Nat]
    <2>1. CASE listening
      <3>1. greeting' = [greeting EXCEPT ![p] = @ + 1] /\ greeting \in [Peer -> Nat]
        BY <2>1 DEF TypeOK, OpenConnection
      <3>2. QED BY <3>1
    <2>2. CASE ~listening
      BY <2>2 DEF TypeOK, OpenConnection
    <2>3. QED BY <2>1, <2>2
  <1>3. dropping' \in [Peer -> Nat]
    BY DEF TypeOK, OpenConnection
  <1>4. /\ connected' \subseteq Peer /\ bootTagged' \subseteq connected'
        /\ peerStore' \subseteq Peer /\ dropped' \subseteq connected'
    BY DEF TypeOK, OpenConnection, StartPing, timers
  <1>5. /\ online' \in BOOLEAN /\ browserOnline' \in BOOLEAN
        /\ announced' \in BOOLEAN /\ listening' \in BOOLEAN
    BY DEF TypeOK, OpenConnection, status
  <1>6. QED BY <1>1, <1>2, <1>3, <1>4, <1>5

LEMMA CloseConnectionType ==
    ASSUME TypeOK, NEW p \in Peer, CloseConnection(p)
    PROVE  /\ connected' \subseteq Peer /\ bootTagged' \subseteq connected'
           /\ dropped' \subseteq connected'
           /\ peerStore' \subseteq Peer
           /\ pingTimers' \subseteq Peer /\ intervals' \in [Peer -> Int]
           /\ greeting' \in [Peer -> Nat]
           /\ online' \in BOOLEAN /\ browserOnline' \in BOOLEAN
           /\ announced' \in BOOLEAN /\ listening' \in BOOLEAN
  <1>1. pingTimers' \subseteq Peer /\ intervals' \in [Peer -> Int]
    BY PingRecords DEF TypeOK, CloseConnection, timers
  <1>2. (online /\ connected' # {}) \in BOOLEAN
    OBVIOUS
  <1>3. online' \in BOOLEAN /\ browserOnline' \in BOOLEAN /\ announced' \in BOOLEAN
    BY <1>2, StatusType DEF TypeOK, CloseConnection, status
  <1>4. QED BY <1>1, <1>3 DEF TypeOK, CloseConnection
LEMMA TypeStep == TypeOK /\ [Next]_vars => TypeOK'
  <1> SUFFICES ASSUME TypeOK, [Next]_vars PROVE TypeOK'
    OBVIOUS
  <1> USE RequestsAssumption, LimitsAssumption
      DEF dialVars, netVars, timers, handlers, status
  <1>p. \A q \in {"discovered", "checking", "preferred", "admitted", "queued",
                  "dialing", "tagging", "fallback", "skipped", "connected",
                  "failed"} : q \in Places
    BY DEF Places, Dialing, Ended
  <1>1. CASE DialStoredPeers
    <2>1. \A r \in Request : Entry(r) \in Places
      BY <1>p, EntryType
    <2>2. QED BY <1>1, <2>1 DEF DialStoredPeers, TypeOK
  <1>2. ASSUME NEW r \in Request, Discover(r) PROVE TypeOK'
    BY <1>2, <1>p DEF Discover, TypeOK
  <1>3. ASSUME NEW r \in Request, AttemptDiscovered(r) PROVE TypeOK'
    BY <1>3, <1>p, EntryType DEF AttemptDiscovered, TypeOK
  <1>4. ASSUME NEW r \in Request, CheckTopicAndBootstrap(r) PROVE TypeOK'
    BY <1>4, <1>p DEF CheckTopicAndBootstrap, TypeOK
  <1>5. ASSUME NEW r \in Request, CheckDialedBefore(r) PROVE TypeOK'
    BY <1>5, <1>p DEF CheckDialedBefore, TypeOK
  <1>6. ASSUME NEW r \in Request, TakeSlot(r) \/ DialDirectly(r) PROVE TypeOK'
    <2>1. pc' \in [Request -> Places]
      BY <1>6, <1>p DEF TakeSlot, DialDirectly, StartDial, TypeOK
    <2>2. activeDials' \in Int
      BY <1>6 DEF TakeSlot, DialDirectly, StartDial, TypeOK
    <2>3. QED
      BY <1>6, <2>1, <2>2 DEF TakeSlot, DialDirectly, StartDial, TypeOK
  <1>7. ASSUME NEW r \in Request, Enqueue(r) PROVE TypeOK'
    BY <1>7, <1>p DEF Enqueue, TypeOK
  <1>8. ASSUME NEW r \in Request, DialSucceeds(r) PROVE TypeOK'
    <2>1. pc' \in [Request -> Places]
      BY <1>8, <1>p DEF DialSucceeds, TypeOK
    <2>2. CASE Target[r] \in connected
      BY <1>8, <2>1, <2>2 DEF DialSucceeds, TypeOK
    <2>3. CASE Target[r] \notin connected
      BY <1>8, <2>1, <2>3, OpenConnectionType DEF DialSucceeds, TypeOK
    <2>4. QED BY <2>2, <2>3
  <1>9. ASSUME NEW r \in Request, RetryDial(r) PROVE TypeOK'
    BY <1>9 DEF RetryDial, TypeOK
  <1>10. ASSUME NEW r \in Request, GiveUpDial(r) PROVE TypeOK'
    <2>1. /\ pc' \in [Request -> Places]
          /\ activeDials' \in Int
          /\ dialQueue' \in Seq(Request)
      BY <1>10, <1>p, ReleaseSlotType DEF GiveUpDial
    <2>2. dialAttempt' \in [Request -> 0 .. MaxDialAttempts]
      BY <1>10 DEF GiveUpDial, TypeOK
    <2>3. dialed' \subseteq Peer
      BY <1>10 DEF GiveUpDial, TypeOK
    <2>4. QED BY <1>10, <2>1, <2>2, <2>3 DEF GiveUpDial, TypeOK
  <1>11. ASSUME NEW r \in Request, FinishDial(r) PROVE TypeOK'
    <2>1. /\ pc' \in [Request -> Places]
          /\ activeDials' \in Int
          /\ dialQueue' \in Seq(Request)
      BY <1>11, <1>p, ReleaseSlotType DEF FinishDial
    <2>2. pingTimers' \subseteq Peer /\ intervals' \in [Peer -> Int]
      BY <1>11, PingRecords DEF FinishDial, TypeOK
    <2>3. /\ dialed' \subseteq Peer /\ bootTagged' \subseteq connected'
          /\ dropped' \subseteq connected'
      BY <1>11 DEF FinishDial, TagConnection, StartPing, TypeOK
    <2>4. QED BY <1>11, <2>1, <2>2, <2>3 DEF FinishDial, TypeOK
  <1>12. ASSUME NEW r \in Request, FallBackToDns(r) PROVE TypeOK'
    BY <1>12, <1>p DEF FallBackToDns, TypeOK
  <1>13. ASSUME NEW p \in Peer, PeerConnects(p) PROVE TypeOK'
    BY <1>13, OpenConnectionType DEF PeerConnects, TypeOK
  <1>14. ASSUME NEW p \in Peer, PeerDisconnects(p) PROVE TypeOK'
    BY <1>14, CloseConnectionType DEF PeerDisconnects, TypeOK
  <1>15. ASSUME NEW p \in Peer, Welcome(p) PROVE TypeOK'
    <2>1. online' \in BOOLEAN /\ browserOnline' \in BOOLEAN /\ announced' \in BOOLEAN
      BY <1>15, StatusType DEF Welcome, TypeOK
    <2>2. QED BY <1>15, <2>1 DEF Welcome, TypeOK
  <1>16. ASSUME NEW p \in Peer, DropConnection(p) PROVE TypeOK'
    <2>1. pingTimers' \subseteq Peer /\ intervals' \in [Peer -> Int]
      BY <1>16, PingRecords DEF DropConnection, Drop, TypeOK
    <2>2. greeting' \in [Peer -> Nat]
      BY <1>16 DEF DropConnection, TypeOK
    <2>3. dropping' \in [Peer -> Nat]
      BY <1>16 DEF DropConnection, TypeOK
    <2>4. dropped' \subseteq connected'
      BY <1>16 DEF DropConnection, Drop, TypeOK
    <2>5. QED BY <1>16, <2>1, <2>2, <2>3, <2>4 DEF DropConnection, TypeOK
  <1>17. ASSUME NEW p \in Peer, AfterHangUp(p) PROVE TypeOK'
    <2>1. online' \in BOOLEAN /\ browserOnline' \in BOOLEAN /\ announced' \in BOOLEAN
      BY <1>17, StatusType DEF AfterHangUp, TypeOK
    <2>2. QED BY <1>17, <2>1 DEF AfterHangUp, TypeOK
  <1>18. ASSUME NEW p \in Peer, HangUp(p) PROVE TypeOK'
    BY <1>18, CloseConnectionType DEF HangUp, TypeOK
  <1>19. CASE BrowserNetworkChanges
    BY <1>19 DEF BrowserNetworkChanges, TypeOK
  <1>20. CASE Stop
    BY <1>20 DEF Stop, TypeOK
  <1>21. CASE UNCHANGED vars
    BY <1>21 DEF vars, TypeOK
  <1>22. ASSUME NEW p \in Peer, DropDirectly(p) PROVE TypeOK'
    <2>1. pingTimers' \subseteq Peer /\ intervals' \in [Peer -> Int]
      BY <1>22, PingRecords DEF DropDirectly, Drop, TypeOK
    <2>2. dropped' \subseteq connected'
      BY <1>22 DEF DropDirectly, Drop, TypeOK
    <2>3. QED BY <1>22, <2>1, <2>2 DEF DropDirectly, TypeOK
  <1>23. QED
    BY NextCases, <1>1, <1>2, <1>3, <1>4, <1>5, <1>6, <1>7, <1>8, <1>9, <1>10,
       <1>11, <1>12, <1>13, <1>14, <1>15, <1>16, <1>17, <1>18, <1>19, <1>20,
       <1>21, <1>22

\* Every variable of the connection manager keeps its type; a tagged
\* connection is an open one.
THEOREM TypeCorrect == Spec => []TypeOK
  BY TypeInit, TypeStep, PTL DEF Spec

-----------------------------------------------------------------------------
(***************************************************************************)
(* The queue.  QueueExact is inductive on its own: a call enters the queue *)
(* at the place "queued", and only ReleaseSlot moves a call from there.    *)
(***************************************************************************)
\* What the actions other than Enqueue, ReleaseSlot and the scan of the peer
\* store do: one call moves between two places outside the queue.
LEMMA QueueKept ==
    ASSUME TypeOK, QueueExact, NEW r \in Request, NEW q,
           pc[r] # "queued", q # "queued",
           pc' = [pc EXCEPT ![r] = q], dialQueue' = dialQueue
    PROVE  QueueExact'
  <1>1. \A s \in Request : pc'[s] = "queued" <=> pc[s] = "queued"
    BY DEF TypeOK
  <1>2. QED BY <1>1 DEF QueueExact

LEMMA QueueReleased ==
    ASSUME TypeOK, QueueExact, NEW r \in Request, NEW q,
           pc[r] # "queued", q # "queued", ReleaseSlot(r, q)
    PROVE  QueueExact'
  <1> DEFINE free == dialQueue # <<>> /\ activeDials - 1 < MaxParallelDials
             next == Head(dialQueue)
  <1>1. CASE free
    <2>1. /\ pc' = [pc EXCEPT ![r] = q, ![next] = Entry(next)]
          /\ dialQueue' = Tail(dialQueue)
      BY <1>1 DEF ReleaseSlot
    <2>2. /\ Len(dialQueue) \in Nat \ {0}
          /\ DOMAIN dialQueue = 1 .. Len(dialQueue)
          /\ \A i \in 1 .. Len(dialQueue) : dialQueue[i] \in Request
          /\ next = dialQueue[1]
      BY <1>1 DEF TypeOK
    <2>3. /\ DOMAIN dialQueue' = 1 .. Len(dialQueue) - 1
          /\ \A i \in 1 .. Len(dialQueue) - 1 : dialQueue'[i] = dialQueue[i + 1]
      BY <1>1, <2>1, <2>2 DEF TypeOK
    <2>4. next \in Request /\ pc[next] = "queued" /\ next # r
      BY <2>2 DEF QueueExact
    <2>5. Entry(next) # "queued"
      BY EntryType
    <2> HIDE DEF next
    <2>6. \A s \in Request : pc'[s] = "queued" <=> pc[s] = "queued" /\ s # next
      BY <2>1, <2>4, <2>5 DEF TypeOK
    <2>7. \A i, j \in DOMAIN dialQueue' : dialQueue'[i] = dialQueue'[j] => i = j
      BY <2>2, <2>3 DEF QueueExact
    <2>8. \A i \in DOMAIN dialQueue' :
             dialQueue'[i] \in Request /\ pc'[dialQueue'[i]] = "queued"
      <3> SUFFICES ASSUME NEW i \in 1 .. Len(dialQueue) - 1
                   PROVE  /\ dialQueue'[i] \in Request
                          /\ pc'[dialQueue'[i]] = "queued"
        BY <2>3
      <3>1. i + 1 \in 1 .. Len(dialQueue) /\ i + 1 # 1 /\ 1 \in 1 .. Len(dialQueue)
        BY <2>2
      <3>2. dialQueue[i + 1] \in Request /\ pc[dialQueue[i + 1]] = "queued"
        BY <2>2, <3>1 DEF QueueExact
      <3>3. dialQueue[i + 1] # next
        BY <2>2, <3>1 DEF QueueExact
      <3>4. QED BY <2>3, <2>6, <3>2, <3>3
    <2>9. \A s \in Request : pc'[s] = "queued" =>
             \E i \in DOMAIN dialQueue' : dialQueue'[i] = s
      <3> SUFFICES ASSUME NEW s \in Request, pc'[s] = "queued"
                   PROVE  \E i \in DOMAIN dialQueue' : dialQueue'[i] = s
        OBVIOUS
      <3>1. pc[s] = "queued" /\ s # next
        BY <2>6
      <3>2. PICK k \in 1 .. Len(dialQueue) : dialQueue[k] = s
        BY <2>2, <3>1 DEF QueueExact
      <3>3. k - 1 \in 1 .. Len(dialQueue) - 1 /\ (k - 1) + 1 = k
        BY <2>2, <3>1, <3>2
      <3>4. QED BY <2>3, <3>2, <3>3
    <2>10. QED BY <2>7, <2>8, <2>9 DEF QueueExact
  <1>2. CASE ~free
    <2>1. pc' = [pc EXCEPT ![r] = q] /\ dialQueue' = dialQueue
      BY <1>2 DEF ReleaseSlot
    <2>2. QED BY <2>1, QueueKept
  <1>3. QED BY <1>1, <1>2

LEMMA QueueStep == TypeOK /\ QueueExact /\ [Next]_vars => QueueExact'
  <1> SUFFICES ASSUME TypeOK, QueueExact, [Next]_vars PROVE QueueExact'
    OBVIOUS
  <1>0. ASSUME UNCHANGED <<pc, dialQueue>> PROVE QueueExact'
    BY <1>0 DEF QueueExact
  <1>1. CASE DialStoredPeers
    <2>1. \A s \in Request : pc'[s] = "queued" <=> pc[s] = "queued"
      BY <1>1, EntryType DEF DialStoredPeers, TypeOK
    <2>2. dialQueue' = dialQueue
      BY <1>1 DEF DialStoredPeers
    <2>3. QED BY <2>1, <2>2 DEF QueueExact
  <1>2. ASSUME NEW r \in Request,
               \/ Discover(r) \/ AttemptDiscovered(r)
               \/ CheckTopicAndBootstrap(r) \/ CheckDialedBefore(r)
               \/ TakeSlot(r) \/ DialDirectly(r)
               \/ DialSucceeds(r) \/ FallBackToDns(r)
        PROVE  QueueExact'
    <2>1. PICK q : q # "queued" /\ pc' = [pc EXCEPT ![r] = q]
      BY <1>2, EntryType
         DEF Discover, AttemptDiscovered, CheckTopicAndBootstrap,
             CheckDialedBefore, TakeSlot, DialDirectly, StartDial,
             DialSucceeds, FallBackToDns
    <2>2. pc[r] # "queued" /\ dialQueue' = dialQueue
      BY <1>2
         DEF Discover, AttemptDiscovered, CheckTopicAndBootstrap,
             CheckDialedBefore, TakeSlot, DialDirectly, StartDial,
             DialSucceeds, FallBackToDns
    <2>3. QED BY <2>1, <2>2, QueueKept
  <1>3. ASSUME NEW r \in Request, Enqueue(r) PROVE QueueExact'
    <2>1. /\ pc[r] = "admitted"
          /\ pc' = [pc EXCEPT ![r] = "queued"]
          /\ dialQueue' = Append(dialQueue, r)
      BY <1>3 DEF Enqueue
    <2>2. /\ Len(dialQueue) \in Nat
          /\ DOMAIN dialQueue = 1 .. Len(dialQueue)
          /\ DOMAIN dialQueue' = 1 .. Len(dialQueue) + 1
          /\ \A i \in 1 .. Len(dialQueue) : dialQueue'[i] = dialQueue[i]
          /\ dialQueue'[Len(dialQueue) + 1] = r
      BY <2>1 DEF TypeOK
    <2>3. \A i \in 1 .. Len(dialQueue) :
             dialQueue[i] \in Request /\ pc[dialQueue[i]] = "queued" /\ dialQueue[i] # r
      BY <2>1, <2>2 DEF QueueExact
    <2>4. \A s \in Request : pc'[s] = "queued" <=> pc[s] = "queued" \/ s = r
      BY <2>1 DEF TypeOK
    <2>5. \A i, j \in DOMAIN dialQueue' : dialQueue'[i] = dialQueue'[j] => i = j
      BY <2>2, <2>3 DEF QueueExact
    <2>6. \A i \in DOMAIN dialQueue' :
             dialQueue'[i] \in Request /\ pc'[dialQueue'[i]] = "queued"
      BY <2>2, <2>3, <2>4
    <2>7. \A s \in Request : pc'[s] = "queued" =>
             \E i \in DOMAIN dialQueue' : dialQueue'[i] = s
      <3>1. \A s \in Request : pc[s] = "queued" =>
               \E i \in 1 .. Len(dialQueue) : dialQueue[i] = s
        BY <2>2 DEF QueueExact
      <3>2. QED BY <2>2, <2>4, <3>1
    <2>8. QED BY <2>5, <2>6, <2>7 DEF QueueExact
  <1>4. ASSUME NEW r \in Request, GiveUpDial(r) \/ FinishDial(r)
        PROVE  QueueExact'
    <2>1. PICK q : q # "queued" /\ ReleaseSlot(r, q)
      BY <1>4 DEF GiveUpDial, FinishDial
    <2>2. pc[r] # "queued"
      BY <1>4 DEF GiveUpDial, FinishDial
    <2>3. QED BY <2>1, <2>2, QueueReleased
  <1>5. ASSUME NEW r \in Request, RetryDial(r) PROVE QueueExact'
    BY <1>0, <1>5 DEF RetryDial
  <1>6. ASSUME NEW p \in Peer,
               \/ PeerConnects(p) \/ PeerDisconnects(p) \/ Welcome(p)
               \/ DropConnection(p) \/ DropDirectly(p) \/ AfterHangUp(p) \/ HangUp(p)
        PROVE  QueueExact'
    BY <1>0, <1>6 DEF PeerConnects, PeerDisconnects, Welcome, DropConnection,
                      DropDirectly, AfterHangUp, HangUp, dialVars
  <1>7. CASE BrowserNetworkChanges \/ Stop \/ UNCHANGED vars
    BY <1>0, <1>7 DEF BrowserNetworkChanges, Stop, vars, dialVars
  <1>8. QED
    BY NextCases, <1>1, <1>2, <1>3, <1>4, <1>5, <1>6, <1>7

\* pendingPeerDialQueue holds every waiting call once and no other: a peer
\* taken out of it is never one whose dial is under way.
THEOREM QueueCorrect == Spec => []QueueExact
  <1>1. Init => QueueExact
    BY DEF Init, QueueExact
  <1>2. QED BY <1>1, QueueStep, TypeCorrect, PTL DEF Spec

-----------------------------------------------------------------------------
(***************************************************************************)
(* The slots.  The counter moves only with a call that enters or leaves    *)
(* the loop of dialPeer; that ReleaseSlot restarts no call of the loop is  *)
(* what QueueExact is needed for.                                          *)
(***************************************************************************)
LEMMA ActiveFinite == IsFiniteSet(Active) /\ Cardinality(Active) \in Nat
  BY RequestsAssumption, FS_Subset, FS_CardinalityType DEF Active

LEMMA SlotTaken ==
    ASSUME TypeOK, DialSlotsExact, NEW r \in Request, r \notin Active,
           StartDial(r)
    PROVE  DialSlotsExact' /\ Active' = Active \cup {r}
  <1>1. Active' = Active \cup {r}
    BY DEF TypeOK, StartDial, Active, Dialing
  <1>2. Cardinality(Active \cup {r}) = Cardinality(Active) + 1
    BY ActiveFinite, FS_AddElement
  <1>3. QED BY <1>1, <1>2 DEF DialSlotsExact, StartDial

LEMMA SlotReleased ==
    ASSUME TypeOK, QueueExact, DialSlotsExact, NEW r \in Active,
           NEW q \in Places \ Dialing, ReleaseSlot(r, q)
    PROVE  DialSlotsExact' /\ Active' = Active \ {r}
  <1> DEFINE free == dialQueue # <<>> /\ activeDials - 1 < MaxParallelDials
             next == Head(dialQueue)
  <1>r. r \in Request
    BY DEF Active
  <1>1. Active' = Active \ {r}
    <2>1. CASE free
      <3>1. pc' = [pc EXCEPT ![r] = q, ![next] = Entry(next)]
        BY <2>1 DEF ReleaseSlot
      <3>2. 1 \in DOMAIN dialQueue /\ next = dialQueue[1]
        BY <2>1 DEF TypeOK
      <3>3. next \in Request /\ pc[next] = "queued"
        BY <3>2 DEF QueueExact
      <3>4. next \notin Active /\ Entry(next) \notin Dialing
        BY <3>3, EntryType DEF Active, Dialing
      <3> HIDE DEF next
      <3>5. \A s \in Request : pc'[s] \in Dialing <=> pc[s] \in Dialing /\ s # r
        BY <1>r, <3>1, <3>3, <3>4 DEF TypeOK, Active
      <3>6. QED BY <3>5 DEF Active
    <2>2. CASE ~free
      <3>1. pc' = [pc EXCEPT ![r] = q]
        BY <2>2 DEF ReleaseSlot
      <3>2. QED BY <1>r, <3>1 DEF TypeOK, Active
    <2>3. QED BY <2>1, <2>2
  <1>2. Cardinality(Active \ {r}) = Cardinality(Active) - 1
    BY ActiveFinite, FS_RemoveElement
  <1>3. activeDials' = activeDials - 1
    BY DEF ReleaseSlot
  <1>4. QED BY <1>1, <1>2, <1>3 DEF DialSlotsExact

\* A call that moves between two places on the same side of the loop.
LEMMA SlotKept ==
    ASSUME TypeOK, DialSlotsExact, NEW r \in Request, NEW q,
           q \in Dialing <=> pc[r] \in Dialing,
           pc' = [pc EXCEPT ![r] = q], activeDials' = activeDials
    PROVE  DialSlotsExact' /\ Active' = Active
  <1>1. Active' = Active
    BY DEF TypeOK, Active
  <1>2. QED BY <1>1 DEF DialSlotsExact

LEMMA SlotStep ==
    TypeOK /\ QueueExact /\ DialSlotsExact /\ [Next]_vars
      => /\ DialSlotsExact'
         /\ \/ Active' \subseteq Active
            \/ \E r \in Direct : Active' = Active \cup {r}
            \/ \E r \in Request : /\ activeDials < MaxParallelDials
                                  /\ Active' = Active \cup {r}
  <1> DEFINE Goal ==
         /\ DialSlotsExact'
         /\ \/ Active' \subseteq Active
            \/ \E r \in Direct : Active' = Active \cup {r}
            \/ \E r \in Request : /\ activeDials < MaxParallelDials
                                  /\ Active' = Active \cup {r}
  <1> SUFFICES ASSUME TypeOK, QueueExact, DialSlotsExact, [Next]_vars PROVE Goal
    OBVIOUS
  <1>0. ASSUME UNCHANGED <<pc, activeDials>> PROVE Goal
    BY <1>0 DEF DialSlotsExact, Active
  <1>1. CASE DialStoredPeers
    <2>1. \A s \in Request : pc'[s] \in Dialing <=> pc[s] \in Dialing
      BY <1>1, EntryType DEF DialStoredPeers, TypeOK, Dialing
    <2>2. Active' = Active
      BY <2>1 DEF Active
    <2>3. QED BY <1>1, <2>2 DEF DialStoredPeers, DialSlotsExact
  <1>2. ASSUME NEW r \in Request,
               \/ Discover(r) \/ AttemptDiscovered(r)
               \/ CheckTopicAndBootstrap(r) \/ CheckDialedBefore(r)
               \/ Enqueue(r) \/ DialSucceeds(r) \/ FallBackToDns(r)
        PROVE  Goal
    <2>1. PICK q : /\ q \in Dialing <=> pc[r] \in Dialing
                   /\ pc' = [pc EXCEPT ![r] = q]
      BY <1>2, EntryType
         DEF Discover, AttemptDiscovered, CheckTopicAndBootstrap,
             CheckDialedBefore, Enqueue, DialSucceeds, FallBackToDns, Dialing
    <2>2. activeDials' = activeDials
      BY <1>2
         DEF Discover, AttemptDiscovered, CheckTopicAndBootstrap,
             CheckDialedBefore, Enqueue, DialSucceeds, FallBackToDns
    <2>3. DialSlotsExact' /\ Active' = Active
      BY <2>1, <2>2, SlotKept
    <2>4. QED BY <2>3
  <1>3. ASSUME NEW r \in Request, TakeSlot(r) \/ DialDirectly(r) PROVE Goal
    <2>1. r \notin Active /\ StartDial(r)
      BY <1>3 DEF TakeSlot, DialDirectly, Active, Dialing
    <2>2. r \in Direct \/ activeDials < MaxParallelDials
      BY <1>3 DEF TakeSlot, DialDirectly
    <2>3. QED BY <2>1, <2>2, SlotTaken
  <1>4. ASSUME NEW r \in Request, GiveUpDial(r) \/ FinishDial(r) PROVE Goal
    <2>1. PICK q \in Places \ Dialing : ReleaseSlot(r, q)
      BY <1>4 DEF GiveUpDial, FinishDial, Places, Dialing, Ended
    <2>2. r \in Active
      BY <1>4 DEF GiveUpDial, FinishDial, Active, Dialing
    <2>3. QED BY <2>1, <2>2, SlotReleased
  <1>5. ASSUME NEW r \in Request, RetryDial(r) PROVE Goal
    BY <1>0, <1>5 DEF RetryDial
  <1>6. ASSUME NEW p \in Peer,
               \/ PeerConnects(p) \/ PeerDisconnects(p) \/ Welcome(p)
               \/ DropConnection(p) \/ DropDirectly(p) \/ AfterHangUp(p) \/ HangUp(p)
        PROVE  Goal
    BY <1>0, <1>6 DEF PeerConnects, PeerDisconnects, Welcome, DropConnection,
                      DropDirectly, AfterHangUp, HangUp, dialVars
  <1>7. CASE BrowserNetworkChanges \/ Stop \/ UNCHANGED vars
    BY <1>0, <1>7 DEF BrowserNetworkChanges, Stop, vars, dialVars
  <1>8. QED
    BY NextCases, <1>1, <1>2, <1>3, <1>4, <1>5, <1>6, <1>7

\* currentActiveParallelDialCount counts the dials under way exactly: every
\* way out of dialPeer's loop gives back the slot that the call took.
THEOREM SlotsCorrect == Spec => []DialSlotsExact
  <1>1. Init => DialSlotsExact
    <2>1. Init => Active = {}
      BY DEF Init, Active, Dialing
    <2>2. QED BY <2>1, FS_EmptySet DEF Init, DialSlotsExact
  <1>2. QED BY <1>1, SlotStep, TypeCorrect, QueueCorrect, PTL DEF Spec

\* However the awaits of shouldDialPeer interleave, attemptDial keeps to
\* maxParallelDials: it reads the counter and takes the slot in one stretch.
THEOREM LimitKept == Spec => []ParallelDialsBounded
  <1>1. Init => ParallelDialsBounded
    <2>1. Init => Active \ Direct = {}
      BY DEF Init, Active, Dialing
    <2>2. QED BY <2>1, FS_EmptySet, LimitsAssumption DEF ParallelDialsBounded
  <1>2. TypeOK /\ QueueExact /\ DialSlotsExact /\ ParallelDialsBounded /\ [Next]_vars
           => ParallelDialsBounded'
    <2> SUFFICES ASSUME TypeOK, QueueExact, DialSlotsExact, ParallelDialsBounded,
                        [Next]_vars
                 PROVE  ParallelDialsBounded'
      OBVIOUS
    <2>f. \A S : S \subseteq Active =>
             /\ IsFiniteSet(S) /\ Cardinality(S) \in Nat
             /\ Cardinality(S) <= Cardinality(Active)
      BY ActiveFinite, FS_Subset, FS_CardinalityType
    <2>1. CASE Active' \subseteq Active
      <3>1. Active' \ Direct \subseteq Active \ Direct
        BY <2>1
      <3>2. Cardinality(Active' \ Direct) <= Cardinality(Active \ Direct)
        BY <3>1, <2>f, FS_Subset
      <3>3. Cardinality(Active' \ Direct) \in Nat /\ Cardinality(Active \ Direct) \in Nat
        BY <2>1, <2>f
      <3>4. QED BY <3>2, <3>3, LimitsAssumption DEF ParallelDialsBounded
    <2>2. CASE \E r \in Direct : Active' = Active \cup {r}
      <3>1. Active' \ Direct = Active \ Direct
        BY <2>2
      <3>2. QED BY <3>1 DEF ParallelDialsBounded
    <2>3. ASSUME NEW r \in Request, activeDials < MaxParallelDials,
                 Active' = Active \cup {r}
          PROVE  ParallelDialsBounded'
      <3>1. Cardinality(Active) < MaxParallelDials
        BY <2>3 DEF DialSlotsExact
      <3>2. /\ IsFiniteSet(Active')
            /\ Cardinality(Active') \in Nat
            /\ Cardinality(Active') <= Cardinality(Active) + 1
        BY <2>3, ActiveFinite, FS_AddElement
      <3>3. /\ Cardinality(Active' \ Direct) <= Cardinality(Active')
            /\ Cardinality(Active' \ Direct) \in Nat
        BY <3>2, FS_Subset, FS_CardinalityType
      <3>4. QED BY <3>1, <3>2, <3>3, ActiveFinite, LimitsAssumption
                DEF ParallelDialsBounded
    <2>4. QED BY SlotStep, <2>1, <2>2, <2>3
  <1>3. QED
    BY <1>1, <1>2, TypeCorrect, QueueCorrect, SlotsCorrect, PTL DEF Spec

-----------------------------------------------------------------------------
(***************************************************************************)
(* The connection handlers.  Each of the four invariants is inductive with *)
(* TypeOK; their conjunction is taken through the actions once.            *)
(***************************************************************************)
HandlersInv ==
    /\ OnlineNotMissed
    /\ ConnectedIsPinged
    /\ IntervalsRecorded
    /\ StatusAnnounced

LEMMA OpenConnectionKeeps ==
    ASSUME TypeOK, HandlersInv, NEW p \in Peer, OpenConnection(p)
    PROVE  HandlersInv'
  <1>1. OnlineNotMissed'
    <2> SUFFICES ASSUME listening' PROVE \E q \in Peer : greeting'[q] + dropping'[q] > 0
      BY DEF OnlineNotMissed
    <2>1. listening
      BY DEF OpenConnection
    <2>2. greeting'[p] = greeting[p] + 1 /\ dropping'[p] = dropping[p]
      BY <2>1 DEF OpenConnection, TypeOK
    <2>3. greeting[p] \in Nat /\ dropping[p] \in Nat
      BY DEF TypeOK
    <2>4. QED BY <2>2, <2>3
  <1>2. ConnectedIsPinged'
    BY DEF OpenConnection, HandlersInv, ConnectedIsPinged, StartPing, timers
  <1>3. IntervalsRecorded'
    BY PingRecords DEF OpenConnection, HandlersInv, IntervalsRecorded, TypeOK
  <1>4. StatusAnnounced'
    BY DEF OpenConnection, HandlersInv, StatusAnnounced, IsConnected, status
  <1>5. QED BY <1>1, <1>2, <1>3, <1>4 DEF HandlersInv

LEMMA CloseConnectionKeeps ==
    ASSUME TypeOK, HandlersInv, NEW p \in Peer, CloseConnection(p),
           dropping' = dropping
    PROVE  HandlersInv'
  <1>1. OnlineNotMissed'
    BY DEF CloseConnection, HandlersInv, OnlineNotMissed, SetOnline
  <1>2. ConnectedIsPinged'
    BY DEF CloseConnection, HandlersInv, ConnectedIsPinged, StopPing
  <1>3. IntervalsRecorded'
    BY PingRecords DEF CloseConnection, HandlersInv, IntervalsRecorded, TypeOK
  <1>4. StatusAnnounced'
    <2>1. (online /\ connected' # {}) \in BOOLEAN
      OBVIOUS
    <2>2. QED
      BY <2>1, StatusType
         DEF CloseConnection, HandlersInv, StatusAnnounced, TypeOK
  <1>5. QED BY <1>1, <1>2, <1>3, <1>4 DEF HandlersInv

\* The flag is set: whatever the handler was, the node is online.
LEMMA SetOnlineKeeps ==
    ASSUME TypeOK, HandlersInv, SetOnline(TRUE),
           UNCHANGED <<netVars, timers, listening>>
    PROVE  HandlersInv'
  <1>1. OnlineNotMissed'
    BY DEF SetOnline, OnlineNotMissed
  <1>2. ConnectedIsPinged' /\ IntervalsRecorded'
    BY DEF HandlersInv, ConnectedIsPinged, IntervalsRecorded, netVars, timers
  <1>3. StatusAnnounced'
    BY StatusType DEF HandlersInv, StatusAnnounced, TypeOK
  <1>4. QED BY <1>1, <1>2, <1>3 DEF HandlersInv

LEMMA HandlersStep == TypeOK /\ HandlersInv /\ [Next]_vars => HandlersInv'
  <1> SUFFICES ASSUME TypeOK, HandlersInv, [Next]_vars PROVE HandlersInv'
    OBVIOUS
  <1>0. ASSUME UNCHANGED <<connected, timers, handlers, status, listening>>
        PROVE  HandlersInv'
    BY <1>0 DEF HandlersInv, OnlineNotMissed, ConnectedIsPinged,
                IntervalsRecorded, StatusAnnounced, IsConnected,
                timers, handlers, status
  <1>1. CASE DialStoredPeers
    BY <1>0, <1>1 DEF DialStoredPeers, netVars
  <1>2. ASSUME NEW r \in Request,
               \/ Discover(r) \/ AttemptDiscovered(r)
               \/ CheckTopicAndBootstrap(r) \/ CheckDialedBefore(r)
               \/ TakeSlot(r) \/ DialDirectly(r) \/ Enqueue(r)
               \/ RetryDial(r) \/ GiveUpDial(r) \/ FallBackToDns(r)
        PROVE  HandlersInv'
    BY <1>0, <1>2
       DEF Discover, AttemptDiscovered, CheckTopicAndBootstrap,
           CheckDialedBefore, TakeSlot, DialDirectly, Enqueue, RetryDial,
           GiveUpDial, FallBackToDns, netVars
  <1>3. ASSUME NEW r \in Request, DialSucceeds(r) PROVE HandlersInv'
    <2>1. CASE Target[r] \in connected
      BY <1>0, <1>3, <2>1 DEF DialSucceeds, netVars
    <2>2. CASE Target[r] \notin connected
      BY <1>3, <2>2, OpenConnectionKeeps, RequestsAssumption DEF DialSucceeds
    <2>3. QED BY <2>1, <2>2
  <1>4. ASSUME NEW r \in Request, FinishDial(r) PROVE HandlersInv'
    <2>1. Target[r] \in Peer
      BY RequestsAssumption
    <2>2. OnlineNotMissed'
      BY <1>4 DEF FinishDial, HandlersInv, OnlineNotMissed, handlers, status
    <2>3. ConnectedIsPinged'
      BY <1>4 DEF FinishDial, HandlersInv, ConnectedIsPinged, StartPing
    <2>4. IntervalsRecorded'
      BY <1>4, <2>1, PingRecords
         DEF FinishDial, HandlersInv, IntervalsRecorded, TypeOK
    <2>5. StatusAnnounced'
      BY <1>4 DEF FinishDial, HandlersInv, StatusAnnounced, IsConnected, status
    <2>6. QED BY <2>2, <2>3, <2>4, <2>5 DEF HandlersInv
  <1>5. ASSUME NEW p \in Peer, PeerConnects(p) PROVE HandlersInv'
    BY <1>5, OpenConnectionKeeps DEF PeerConnects
  <1>6. ASSUME NEW p \in Peer, PeerDisconnects(p) \/ HangUp(p)
        PROVE  HandlersInv'
    BY <1>6, CloseConnectionKeeps DEF PeerDisconnects, HangUp
  <1>7. ASSUME NEW p \in Peer, Welcome(p) \/ AfterHangUp(p)
        PROVE  HandlersInv'
    BY <1>7, SetOnlineKeeps DEF Welcome, AfterHangUp
  <1>8. ASSUME NEW p \in Peer, DropConnection(p) PROVE HandlersInv'
    <2>1. OnlineNotMissed'
      <3>1. dropping'[p] = dropping[p] + 1 /\ greeting'[p] = greeting[p] - 1
        BY <1>8 DEF DropConnection, TypeOK
      <3>2. greeting[p] \in Nat /\ dropping[p] \in Nat /\ greeting[p] > 0
        BY <1>8 DEF DropConnection, TypeOK
      <3>3. greeting'[p] + dropping'[p] > 0
        BY <3>1, <3>2
      <3>4. QED BY <3>3 DEF OnlineNotMissed
    <2>2. ConnectedIsPinged'
      BY <1>8 DEF DropConnection, Drop, HandlersInv, ConnectedIsPinged,
                  StopPing, netVars
    <2>3. IntervalsRecorded'
      BY <1>8, PingRecords
         DEF DropConnection, Drop, HandlersInv, IntervalsRecorded, TypeOK
    <2>4. StatusAnnounced'
      BY <1>8 DEF DropConnection, HandlersInv, StatusAnnounced, IsConnected, status
    <2>5. QED BY <2>1, <2>2, <2>3, <2>4 DEF HandlersInv
  <1>9. CASE BrowserNetworkChanges
    <2>1. OnlineNotMissed' /\ ConnectedIsPinged' /\ IntervalsRecorded'
      BY <1>9 DEF BrowserNetworkChanges, HandlersInv, OnlineNotMissed,
                  ConnectedIsPinged, IntervalsRecorded, netVars, timers, handlers
    <2>2. StatusAnnounced'
      BY <1>9 DEF BrowserNetworkChanges, StatusAnnounced, IsConnected, TypeOK
    <2>3. QED BY <2>1, <2>2 DEF HandlersInv
  <1>10. CASE Stop
    BY <1>10 DEF Stop, HandlersInv, OnlineNotMissed, ConnectedIsPinged,
                 IntervalsRecorded, StatusAnnounced
  <1>11. CASE UNCHANGED vars
    BY <1>0, <1>11 DEF vars, netVars
  <1>12. ASSUME NEW p \in Peer, DropDirectly(p) PROVE HandlersInv'
    <2>1. OnlineNotMissed' /\ StatusAnnounced'
      BY <1>12 DEF DropDirectly, HandlersInv, OnlineNotMissed, StatusAnnounced, IsConnected,
                   netVars, handlers, status
    <2>2. ConnectedIsPinged'
      BY <1>12 DEF DropDirectly, Drop, HandlersInv, ConnectedIsPinged, StopPing, netVars
    <2>3. IntervalsRecorded'
      BY <1>12, PingRecords
         DEF DropDirectly, Drop, HandlersInv, IntervalsRecorded, TypeOK
    <2>4. QED BY <2>1, <2>2, <2>3 DEF HandlersInv
  <1>13. QED
    BY NextCases, <1>1, <1>2, <1>3, <1>4, <1>5, <1>6, <1>7, <1>8, <1>9, <1>10,
       <1>11, <1>12

LEMMA HandlersCorrect == Spec => []HandlersInv
  <1>1. Init => HandlersInv
    BY DEF Init, HandlersInv, OnlineNotMissed, ConnectedIsPinged,
           IntervalsRecorded, StatusAnnounced, IsConnected
  <1>2. QED BY <1>1, HandlersStep, TypeCorrect, PTL DEF Spec

\* isP2PNetworkConnected misses no connection: while one is open, the flag is
\* set or a suspended "peer:connect" handler is going to set it.
THEOREM OnlineCorrect == Spec => []OnlineNotMissed
  BY HandlersCorrect, PTL DEF HandlersInv

\* Every connected peer has a ping interval, unless a hang up of it was asked for, by
\* the bootstrap limit or the application, since its last one was set.
THEOREM PingedCorrect == Spec => []ConnectedIsPinged
  BY HandlersCorrect, PTL DEF HandlersInv

\* Until stop(), every ping interval that ticks can be cleared.
THEOREM IntervalsCorrect == Spec => []IntervalsRecorded
  BY HandlersCorrect, PTL DEF HandlersInv

\* The CONNECTION_STATUS events tell what isConnected() returns.
THEOREM StatusCorrect == Spec => []StatusAnnounced
  BY HandlersCorrect, PTL DEF HandlersInv

=============================================================================
