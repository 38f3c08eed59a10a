--------------------------- MODULE Readiness_proofs ---------------------------
(***************************************************************************)
(* What the health indicator and waitForRemotePeer say of a light node's   *)
(* peers is true of some moment, whatever the number of connections, of    *)
(* suspended handlers, of calls and of handshakes under way.               *)
(***************************************************************************)
EXTENDS Readiness, FiniteSetTheorems, TLAPS

(***************************************************************************)
(* The health indicator: a handler that saw two connections to Filter      *)
(* peers can be suspended for any time, but they were there when it began. *)
(***************************************************************************)
HealthInv ==
    /\ HealthTypes
    /\ IsFiniteSet(open)
    /\ \A s \in checking : IsFiniteSet(s) /\ (Cardinality(To("filter", s)) > 1 => paired)
    /\ SufficientEarned

(***************************************************************************)
(* A call of waitForRemotePeer.  Without a connection it does not scan: a  *)
(* protocol that it waits for no more is one of an identified peer, and it *)
(* is resolved only when there is none left.                               *)
(***************************************************************************)
CallOK(call, ident, conf) ==
    /\ call \in W!Call
    /\ call.pc = "idle" => call.pending = {} /\ call.scan = "none"
    /\ call.scan = "none" =>
         \A b \in call.wanted \ call.pending : \E p \in ident : b \in Serves[p]
    /\ call.pc = "resolved" /\ call.scan = "none" => call.pending = {}
    /\ \A b \in call.wanted \ call.codes : \E p \in conf : b \in Serves[p]

\* A handshake is with an identified peer, for a call that was made.
QueryOK(q, ident, ws) ==
    /\ q \in W!Query
    /\ q.peer \in ident
    /\ ws[q.wait].pc # "idle"
    /\ IF q.by = "scan" THEN ws[q.wait].scan # "none" ELSE q.by \in Serves[q.peer]

WaitInv ==
    /\ identified \subseteq Peer
    /\ confirmed \subseteq Peer
    /\ waits \in [Wait -> W!Call]
    /\ \A w \in Wait : CallOK(waits[w], identified, confirmed)
    /\ \A q \in queries : QueryOK(q, identified, waits)

Inv == HealthInv /\ WaitInv

-----------------------------------------------------------------------------
\* Of the connections that a handler saw, it counts some.
LEMMA CountedAreThere ==
    ASSUME NEW s, IsFiniteSet(s), NEW protocol
    PROVE  /\ Count(protocol, s) \in Nat
           /\ Cardinality(To(protocol, s)) \in Nat
           /\ Count(protocol, s) <= Cardinality(To(protocol, s))
<1>1. IsFiniteSet(To(protocol, s))
    BY FS_Subset DEF To
<1>2. {c \in To(protocol, s) : PeerOf[c] \in identified} \subseteq To(protocol, s)
    OBVIOUS
<1> QED
    BY <1>1, <1>2, FS_Subset, FS_CardinalityType DEF Count

LEMMA InitHealth == HealthInit => HealthInv
BY FS_EmptySet DEF HealthInit, HealthInv, HealthTypes, Status, SufficientEarned

\* A connection comes or goes: the handler sees what is there, and the history as well.
LEMMA ChangeHealth ==
    ASSUME HealthInv, NEW isEvent \in BOOLEAN, PeerChange(isEvent),
           open' \subseteq Conn, IsFiniteSet(open')
    PROVE  HealthInv'
<1> USE DEF HealthInv, HealthTypes, PeerChange
<1>1. checking' \subseteq SUBSET Conn
    OBVIOUS
<1>2. watching' \in BOOLEAN /\ value' \in Status /\ paired' \in BOOLEAN
    OBVIOUS
<1>3. ASSUME NEW s \in checking'
      PROVE  IsFiniteSet(s) /\ (Cardinality(To("filter", s)) > 1 => paired')
    <2>1. CASE s \in checking
        BY <2>1
    <2>2. CASE s = open'
        BY <2>2
    <2> QED
        BY <1>3, <2>1, <2>2
<1>4. SufficientEarned'
    BY DEF SufficientEarned
<1> QED
    BY <1>1, <1>2, <1>3, <1>4 DEF To

LEMMA AssessHealth ==
    ASSUME HealthInv, NEW s \in checking, Assess(s)
    PROVE  HealthInv'
<1> USE DEF HealthInv, HealthTypes
<1>1. Count("filter", s) >= 2 => paired
    BY CountedAreThere
<1>2. value' = "SufficientlyHealthy" => paired
    BY <1>1 DEF Assess, SufficientEarned
<1>3. value' \in Status
    BY DEF Assess, Status
<1>4. checking' \subseteq checking /\ UNCHANGED <<open, watching, paired>>
    BY DEF Assess
<1> QED
    BY <1>2, <1>3, <1>4 DEF SufficientEarned, To

LEMMA StepHealth ==
    ASSUME HealthInv, HealthNext
    PROVE  HealthInv'
<1>1. CASE StartHealth
    BY <1>1 DEF StartHealth, HealthInv, HealthTypes, SufficientEarned, To
<1>2. CASE StopHealth
    BY <1>2 DEF StopHealth, HealthInv, HealthTypes, SufficientEarned, To
<1>3. ASSUME NEW c \in Conn, ConnectionOpens(c)
      PROVE  HealthInv'
    <2>1. open' \subseteq Conn /\ IsFiniteSet(open')
        BY <1>3, FS_AddElement DEF ConnectionOpens, HealthInv, HealthTypes
    <2> QED
        BY <1>3, <2>1, ChangeHealth DEF ConnectionOpens
<1>4. ASSUME NEW c \in Conn, ConnectionCloses(c)
      PROVE  HealthInv'
    <2>1. open' \subseteq Conn /\ IsFiniteSet(open')
        BY <1>4, FS_RemoveElement DEF ConnectionCloses, HealthInv, HealthTypes
    <2> QED
        BY <1>4, <2>1, ChangeHealth DEF ConnectionCloses
<1>5. ASSUME NEW s \in checking, Assess(s)
      PROVE  HealthInv'
    BY <1>5, AssessHealth
<1> QED
    BY <1>1, <1>2, <1>3, <1>4, <1>5 DEF HealthNext

-----------------------------------------------------------------------------
\* What a call was told stays told, as no peer is taken back.
LEMMA MoreIsKnown ==
    ASSUME NEW call, NEW ident, NEW conf, CallOK(call, ident, conf),
           NEW ident2, ident \subseteq ident2, NEW conf2, conf \subseteq conf2
    PROVE  CallOK(call, ident2, conf2)
BY DEF CallOK

\* To settle a call changes nothing else of it.
LEMMA SettledCall ==
    ASSUME NEW call \in W!Call
    PROVE  /\ W!Settle(call) \in W!Call
           /\ W!Settle(call).wanted = call.wanted /\ W!Settle(call).pending = call.pending
           /\ W!Settle(call).scan = call.scan /\ W!Settle(call).codes = call.codes
           /\ \/ W!Settle(call).pc = call.pc
              \/ /\ call.pc = "waiting" /\ W!Settle(call).pc = "resolved"
                 /\ call.pending = {} \/ call.scan = "over"
BY DEF W!Settle, W!Call

LEMMA SettledOK ==
    ASSUME NEW call, NEW ident, NEW conf, CallOK(call, ident, conf)
    PROVE  CallOK(W!Settle(call), ident, conf)
BY SettledCall DEF CallOK

\* A step of one call: the others and all the handshakes are as they were.
LEMMA UpdateKeeps ==
    ASSUME WaitInv, NEW w \in Wait, NEW call \in W!Call, W!Update(w, call),
           identified' = identified, confirmed \subseteq confirmed', confirmed' \subseteq Peer,
           CallOK(call, identified, confirmed'),
           call.pc # "idle", waits[w].scan # "none" => call.scan # "none",
           \A q \in queries' : q \in queries \/ (q \in W!Query /\ q.wait = w /\ q.by = "scan"
                                                /\ call.scan # "none" /\ q.peer \in identified)
    PROVE  WaitInv'
<1> USE DEF WaitInv
<1>1. waits' = [waits EXCEPT ![w] = W!Settle(call)]
    BY DEF W!Update
<1>2. waits' \in [Wait -> W!Call]
    BY <1>1, SettledCall
<1>3. ASSUME NEW v \in Wait
      PROVE  CallOK(waits'[v], identified', confirmed')
    <2>1. CASE v = w
        BY <1>1, <2>1, SettledOK
    <2>2. CASE v # w
        <3>1. waits'[v] = waits[v]
            BY <1>1, <2>2
        <3> QED
            BY <3>1, MoreIsKnown
    <2> QED
        BY <2>1, <2>2
<1>4. ASSUME NEW q \in queries'
      PROVE  QueryOK(q, identified', waits')
    <2>1. W!Settle(call).pc # "idle" /\ W!Settle(call).scan = call.scan
        BY SettledCall
    <2>2. CASE q \in queries
        <3>1. QueryOK(q, identified, waits) /\ q.wait \in Wait
            BY <2>2 DEF QueryOK, W!Query
        <3> QED
            BY <1>1, <2>1, <3>1 DEF QueryOK
    <2>3. CASE q \in W!Query /\ q.wait = w /\ q.by = "scan" /\ call.scan # "none"
                 /\ q.peer \in identified
        BY <1>1, <2>1, <2>3 DEF QueryOK
    <2> QED
        BY <1>4, <2>2, <2>3
<1> QED
    BY <1>2, <1>3, <1>4

LEMMA InitWait == W!WaitInit => WaitInv
BY DEF W!WaitInit, W!Call, WaitInv, CallOK

LEMMA StepStartWait ==
    ASSUME WaitInv, open \subseteq Conn, NEW w \in Wait, NEW wanted \in SUBSET Protocol,
           W!StartWait(w, wanted)
    PROVE  WaitInv'
<1> DEFINE call == [pc |-> "waiting", wanted |-> wanted, pending |-> wanted,
                    scan |-> IF connected = {} THEN "none"
                             ELSE IF HasMetadata THEN "next" ELSE "over",
                    codes |-> wanted, left |-> connected]
<1>1. connected \subseteq Peer
    BY ReadyAssumption DEF connected
<1>2. call \in W!Call
    BY <1>1 DEF W!Call
<1>3. CallOK(call, identified, confirmed')
    BY <1>2 DEF CallOK
<1>4. waits[w].scan = "none" /\ UNCHANGED <<identified, confirmed, queries>>
    BY DEF WaitInv, CallOK, W!StartWait
<1>5. W!Update(w, call)
    BY DEF W!StartWait
<1>6. call.pc # "idle"
    OBVIOUS
<1> HIDE DEF call
<1> QED
    BY <1>2, <1>3, <1>4, <1>5, <1>6, UpdateKeeps DEF WaitInv

LEMMA StepTimeOut ==
    ASSUME WaitInv, NEW w \in Wait, W!TimeOut(w)
    PROVE  WaitInv'
<1> USE DEF WaitInv
<1>1. waits' = [waits EXCEPT ![w].pc = "rejected"] /\ UNCHANGED <<identified, confirmed, queries>>
    BY DEF W!TimeOut
<1>2. waits' \in [Wait -> W!Call]
    BY <1>1 DEF W!Call
<1>3. \A v \in Wait : CallOK(waits'[v], identified, confirmed)
    BY <1>1 DEF CallOK, W!Call
<1>4. \A q \in queries : QueryOK(q, identified, waits')
    BY <1>1 DEF QueryOK, W!Query, W!Call
<1> QED
    BY <1>1, <1>2, <1>3, <1>4

\* A listener hears of a peer: it shakes hands, or, without a metadata service, is
\* content.
LEMMA StepIdentify ==
    ASSUME WaitInv, NEW p \in Peer, W!Identify(p)
    PROVE  WaitInv'
<1> USE DEF WaitInv
<1> DEFINE wants(w) == waits[w].pending \cap Serves[p]
<1>1. identified' = identified \cup {p} /\ UNCHANGED confirmed
    BY DEF W!Identify
<1>2. \A w \in Wait : CallOK(waits[w], identified', confirmed')
    BY <1>1, MoreIsKnown
<1>3. CASE HasMetadata
    <2>1. /\ queries' = queries \cup UNION {{W!Handshake(w, b, p) : b \in wants(w)} : w \in Wait}
          /\ UNCHANGED waits
        BY <1>3 DEF W!Identify
    <2>2. ASSUME NEW q \in queries
          PROVE  QueryOK(q, identified', waits')
        BY <1>1, <2>1, <2>2 DEF QueryOK
    <2>3. ASSUME NEW w \in Wait, NEW b \in wants(w)
          PROVE  QueryOK(W!Handshake(w, b, p), identified', waits')
        <3>1. b \in Protocol /\ b # "scan" /\ waits[w].pc # "idle"
            BY <2>3, ReadyAssumption DEF CallOK, W!Call
        <3>2. (p \in confirmed) \in BOOLEAN
            OBVIOUS
        <3>3. W!Handshake(w, b, p) \in W!Query
            BY <3>1, <3>2 DEF W!Query, W!Handshake
        <3> QED
            BY <1>1, <2>1, <2>3, <3>1, <3>3 DEF QueryOK, W!Handshake
    <2>4. ASSUME NEW q \in queries'
          PROVE  QueryOK(q, identified', waits')
        <3>1. CASE q \in queries
            BY <3>1, <2>2
        <3>2. CASE q \notin queries
            <4>1. PICK w \in Wait : \E b \in wants(w) : q = W!Handshake(w, b, p)
                BY <2>1, <2>4, <3>2
            <4>2. PICK b \in wants(w) : q = W!Handshake(w, b, p)
                BY <4>1
            <4> QED
                BY <2>3, <4>2
        <3> QED
            BY <3>1, <3>2
    <2>5. identified' \subseteq Peer /\ confirmed' \subseteq Peer
        BY <1>1
    <2> HIDE DEF wants
    <2> QED
        BY <1>2, <2>1, <2>4, <2>5
<1>4. CASE ~HasMetadata
    <2> DEFINE heard(w) == [waits[w] EXCEPT !.pending = @ \ wants(w)]
    <2>1. waits' = [w \in Wait |-> W!Settle(heard(w))] /\ UNCHANGED queries
        BY <1>4 DEF W!Identify
    <2>2. ASSUME NEW w \in Wait
          PROVE  CallOK(heard(w), identified', confirmed')
        <3>1. heard(w) \in W!Call
            BY DEF W!Call
        <3>2. heard(w).pending = waits[w].pending \ wants(w)
            BY DEF W!Call
        <3>3. /\ heard(w).pc = waits[w].pc /\ heard(w).scan = waits[w].scan
              /\ heard(w).wanted = waits[w].wanted /\ heard(w).codes = waits[w].codes
            BY DEF W!Call
        <3>4. p \in identified'
            BY <1>1
        <3> HIDE DEF heard
        <3> QED
            BY <1>2, <2>2, <3>1, <3>2, <3>3, <3>4 DEF CallOK
    <2>3. ASSUME NEW w \in Wait
          PROVE  /\ CallOK(waits'[w], identified', confirmed')
                 /\ waits[w].pc # "idle" => waits'[w].pc # "idle"
                 /\ waits'[w].scan = waits[w].scan
        <3>1. heard(w) \in W!Call /\ heard(w).pc = waits[w].pc /\ heard(w).scan = waits[w].scan
            BY <2>3 DEF W!Call
        <3>2. waits'[w] = W!Settle(heard(w))
            BY <2>1, <2>3
        <3> HIDE DEF heard
        <3> QED
            BY <2>2, <2>3, <3>1, <3>2, SettledCall, SettledOK
    <2>4. waits' \in [Wait -> W!Call]
        BY <2>1, <2>3 DEF CallOK
    <2>5. ASSUME NEW q \in queries
          PROVE  QueryOK(q, identified', waits')
        BY <1>1, <2>3, <2>5 DEF QueryOK, W!Query
    <2> QED
        BY <1>1, <2>1, <2>3, <2>4, <2>5
<1> QED
    BY <1>3, <1>4

LEMMA StepScanNext ==
    ASSUME WaitInv, NEW w \in Wait, W!ScanNext(w)
    PROVE  WaitInv'
<1> USE DEF WaitInv
<1> DEFINE call == waits[w]
<1>1. call \in W!Call /\ CallOK(call, identified, confirmed) /\ call.scan = "next"
    BY DEF W!ScanNext
<1>2. call.pc # "idle" /\ UNCHANGED <<identified, confirmed>>
    BY <1>1 DEF CallOK, W!ScanNext
<1>3. CASE W!Update(w, [call EXCEPT !.scan = "over"]) /\ UNCHANGED queries
    <2> DEFINE next == [call EXCEPT !.scan = "over"]
    <2>1. next \in W!Call /\ CallOK(next, identified, confirmed) /\ next.pc # "idle"
          /\ next.scan # "none"
        BY <1>1, <1>2 DEF W!Call, CallOK
    <2> HIDE DEF next
    <2> QED
        BY <1>2, <1>3, <2>1, UpdateKeeps DEF next
<1>4. ASSUME NEW p \in call.left, p \in identified,
             W!Update(w, [call EXCEPT !.left = @ \ {p}, !.scan = "query"]),
             queries' = queries \cup {W!Handshake(w, "scan", p)}
      PROVE  WaitInv'
    <2> DEFINE next == [call EXCEPT !.left = @ \ {p}, !.scan = "query"]
    <2>1. next \in W!Call /\ CallOK(next, identified, confirmed) /\ next.pc # "idle"
          /\ next.scan # "none"
        BY <1>1, <1>2 DEF W!Call, CallOK
    <2>2. (p \in confirmed) \in BOOLEAN /\ p \in Peer
        BY <1>4
    <2>3. W!Handshake(w, "scan", p) \in W!Query
        BY <2>2 DEF W!Handshake, W!Query
    <2>4. /\ W!Handshake(w, "scan", p).wait = w /\ W!Handshake(w, "scan", p).by = "scan"
          /\ W!Handshake(w, "scan", p).peer = p
        BY DEF W!Handshake
    <2>5. W!Update(w, next)
        BY <1>4
    <2> HIDE DEF next
    <2>6. \A q \in queries' : q \in queries \/ (q \in W!Query /\ q.wait = w /\ q.by = "scan"
                                            /\ next.scan # "none" /\ q.peer \in identified)
        BY <1>4, <2>1, <2>3, <2>4
    <2> HIDE DEF call
    <2> QED
        BY <1>2, <2>1, <2>5, <2>6, UpdateKeeps
<1>5. ASSUME NEW p \in call.left, W!Update(w, [call EXCEPT !.left = @ \ {p}]), UNCHANGED queries
      PROVE  WaitInv'
    <2> DEFINE next == [call EXCEPT !.left = @ \ {p}]
    <2>1. next \in W!Call /\ CallOK(next, identified, confirmed) /\ next.pc # "idle"
          /\ next.scan # "none"
        BY <1>1, <1>2 DEF W!Call, CallOK
    <2> HIDE DEF next
    <2> QED
        BY <1>2, <1>5, <2>1, UpdateKeeps DEF next
<1> QED
    BY <1>3, <1>4, <1>5 DEF W!ScanNext

\* A handshake ends: only one that is confirmed takes protocols from the scan, and a
\* listener is content with a protocol of the peer that it asked.
LEMMA StepQueryEnds ==
    ASSUME WaitInv, NEW q \in queries, NEW outcome \in {"ok", "error", "throws"},
           W!QueryEnds(q, outcome)
    PROVE  WaitInv'
<1> USE DEF WaitInv
<1> DEFINE w == q.wait
           call == waits[w]
           codes == IF outcome = "ok" THEN call.codes \ Serves[q.peer] ELSE call.codes
<1>1. w \in Wait /\ q.peer \in identified /\ q.peer \in Peer /\ QueryOK(q, identified, waits)
    BY DEF QueryOK, W!Query
<1>2. call \in W!Call /\ call.pc # "idle"
    BY <1>1 DEF QueryOK
<1>3. /\ queries' \subseteq queries /\ identified' = identified
      /\ confirmed' = IF outcome = "ok" THEN confirmed \cup {q.peer} ELSE confirmed
    BY DEF W!QueryEnds
<1>4. confirmed \subseteq confirmed' /\ confirmed' \subseteq Peer
    BY <1>1, <1>3
<1>5. CallOK(call, identified, confirmed')
    BY <1>1, <1>4, MoreIsKnown
<1>6. CASE q.by = "scan"
    <2> DEFINE next == [call EXCEPT !.codes = codes,
                          !.scan = IF codes = {} THEN "over" ELSE "next"]
    <2>1. next \in W!Call
        BY <1>2 DEF W!Call
    <2>2. next.pc # "idle" /\ next.scan # "none"
        BY <1>2 DEF W!Call
    <2>3. /\ next.pc = call.pc /\ next.wanted = call.wanted /\ next.pending = call.pending
          /\ next.codes = codes
        BY <1>2 DEF W!Call
    <2>4. W!Update(w, next)
        BY <1>6 DEF W!QueryEnds, W!Answered
    <2> HIDE DEF next
    <2>5. \A b \in next.wanted \ next.codes : \E p \in confirmed' : b \in Serves[p]
        BY <1>3, <1>5, <2>3 DEF CallOK
    <2>6. CallOK(next, identified, confirmed')
        BY <1>5, <2>1, <2>2, <2>5 DEF CallOK
    <2> QED
        BY <1>1, <1>3, <1>4, <2>1, <2>2, <2>4, <2>6, UpdateKeeps
<1>7. CASE q.by # "scan"
    <2> DEFINE next == IF outcome = "throws" THEN call ELSE [call EXCEPT !.pending = @ \ {q.by}]
    <2>1. next \in W!Call
        BY <1>2 DEF W!Call
    <2>2. /\ next.pc = call.pc /\ next.wanted = call.wanted /\ next.scan = call.scan
          /\ next.codes = call.codes
          /\ next.pending \subseteq call.pending /\ call.pending \subseteq next.pending \cup {q.by}
        BY <1>2 DEF W!Call
    <2>3. W!Update(w, next)
        BY <1>7 DEF W!QueryEnds, W!Answered
    <2> HIDE DEF next
    <2>4. q.by \in Serves[q.peer]
        BY <1>1, <1>7 DEF QueryOK
    <2>5. next.scan = "none" =>
            \A b \in next.wanted \ next.pending : \E p \in identified : b \in Serves[p]
        BY <1>1, <1>5, <2>2, <2>4 DEF CallOK
    <2>6. CallOK(next, identified, confirmed')
        BY <1>5, <2>1, <2>2, <2>5 DEF CallOK
    <2> QED
        BY <1>1, <1>2, <1>3, <1>4, <2>1, <2>2, <2>3, <2>6, UpdateKeeps
<1> QED
    BY <1>6, <1>7

LEMMA StepPeerAsks ==
    ASSUME WaitInv, NEW p \in Peer, W!PeerAsks(p)
    PROVE  WaitInv'
BY MoreIsKnown DEF WaitInv, W!PeerAsks, QueryOK

LEMMA StepWait ==
    ASSUME WaitInv, open \subseteq Conn, W!WaitNext
    PROVE  WaitInv'
BY StepStartWait, StepTimeOut, StepIdentify, StepScanNext, StepQueryEnds, StepPeerAsks
   DEF W!WaitNext, W!WaitStep

-----------------------------------------------------------------------------
LEMMA Inductive ==
    /\ Init => Inv
    /\ Inv /\ [Next]_vars => Inv'
<1>1. Init => Inv
    BY InitHealth, InitWait DEF Init, Inv
<1>2. ASSUME Inv, [Next]_vars
      PROVE  Inv'
    <2> USE DEF Inv
    <2>1. CASE HealthNext /\ UNCHANGED <<identified, confirmed, waits, queries>>
        BY <1>2, <2>1, StepHealth DEF WaitInv
    <2>2. CASE W!WaitNext /\ UNCHANGED <<open, healthVars>>
        <3>1. HealthInv'
            BY <1>2, <2>2 DEF healthVars, HealthInv, HealthTypes, SufficientEarned, To
        <3>2. WaitInv'
            BY <1>2, <2>2, StepWait DEF HealthInv, HealthTypes
        <3> QED
            BY <3>1, <3>2
    <2>3. CASE UNCHANGED vars
        BY <1>2, <2>3 DEF vars, healthVars, HealthInv, HealthTypes, SufficientEarned, To, WaitInv
    <2> QED
        BY <1>2, <2>1, <2>2, <2>3 DEF Next
<1> QED
    BY <1>1, <1>2

\* The inductive invariant of the health indicator and of a waitForRemotePeer at work:
\* what each has read of the connections and still owes an answer for.
THEOREM Invariant == Spec => []Inv
BY Inductive, PTL DEF Spec

\* Every variable has its type.
THEOREM TypesHold == Spec => []TypeOK
<1>1. Inv => TypeOK
    BY DEF Inv, HealthInv, WaitInv, TypeOK, W!WaitTypes, QueryOK
<1> QED
    BY <1>1, Invariant, PTL

\* "SufficientlyHealthy" is said only of a node that had two connections to Filter
\* peers at one time, however many handlers are suspended and whatever they saw.
THEOREM HealthIsEarned == Spec => []SufficientEarned
<1>1. Inv => SufficientEarned
    BY DEF Inv, HealthInv
<1> QED
    BY <1>1, Invariant, PTL

\* A call that began without a connection is resolved only when a peer of each
\* protocol it wants has been identified.
THEOREM ColdWaitIsServed == Spec => []ColdWaitServed
<1>1. Inv => ColdWaitServed
    BY DEF Inv, WaitInv, CallOK, ColdWaitServed, W!ColdWaitServed, W!Known
<1> QED
    BY <1>1, Invariant, PTL

\* A protocol that the scan has ticked off is one of a confirmed peer.
THEOREM ScanIsConfirmed == Spec => []ScanConfirms
<1>1. Inv => ScanConfirms
    BY DEF Inv, WaitInv, CallOK, ScanConfirms, W!ScanConfirms
<1> QED
    BY <1>1, Invariant, PTL
=============================================================================
