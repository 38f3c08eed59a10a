------------------------------ MODULE WaitForPeers ------------------------------
(***************************************************************************)
(* waitForRemotePeer of @waku/sdk, with the metadata service it asks.      *)
(*                                                                         *)
(* A call waits for an identified peer of each protocol it wants; if there *)
(* are connections when it begins, it also scans their peers, and what     *)
(* ends first ends the call.  Both ways shake hands: the metadata service  *)
(* asks a peer for its shard info, unless it has it.                       *)
(*                                                                         *)
(* For a node without relay, whose peers Relay waits for itself.           *)
(***************************************************************************)
EXTENDS Integers, FiniteSets

CONSTANTS
    Peer, Protocol,
    Serves,       \* the protocols of each peer
    Wait,         \* bound: calls
    MaxQueries,   \* bound: handshakes under way
    HasMetadata   \* whether the node has the metadata service

VARIABLES
    connected,   \* libp2p.getPeers
    identified,  \* peers whose protocols are in the peer store
    confirmed,   \* handshakesConfirmed
    waits,       \* the calls
    queries      \* handshakes that callers wait for; alike count as one

waitVars == <<identified, confirmed, waits, queries>>

(***************************************************************************)
(* A call: "pending" are the protocols whose listener is attached, "codes" *)
(* those that the scan has not confirmed, "left" the peers it has to visit.*)
(***************************************************************************)
Call == [pc : {"idle", "waiting", "resolved", "rejected"},
         wanted : SUBSET Protocol, pending : SUBSET Protocol,
         scan : {"none", "next", "query", "over"},
         codes : SUBSET Protocol, left : SUBSET Peer]

\* A handshake for a listener ("by" its protocol) or for the scan.
Query == [wait : Wait, by : Protocol \cup {"scan"}, peer : Peer, known : BOOLEAN]

WaitTypes ==
    /\ identified \subseteq Peer
    /\ confirmed \subseteq Peer
    /\ waits \in [Wait -> Call]
    /\ queries \subseteq Query

WaitInit ==
    /\ identified = {}
    /\ confirmed = {}
    /\ waits = [w \in Wait |-> [pc |-> "idle", wanted |-> {}, pending |-> {},
                                scan |-> "none", codes |-> {}, left |-> {}]]
    /\ queries = {}

-----------------------------------------------------------------------------
\* The first of the two ways ends the call, if the time out has not.
Settle(call) ==
    IF call.pc = "waiting" /\ (call.pending = {} \/ call.scan = "over")
      THEN [call EXCEPT !.pc = "resolved"] ELSE call

Update(w, call) == waits' = [waits EXCEPT ![w] = Settle(call)]

\* confirmOrAttemptHandshake, up to its await.
Handshake(w, by, p) == [wait |-> w, by |-> by, peer |-> p, known |-> p \in confirmed]

\* Without a metadata service there is nothing to scan for.
StartWait(w, wanted) ==
    /\ waits[w].pc = "idle"
    /\ Update(w, [pc |-> "waiting", wanted |-> wanted, pending |-> wanted,
                  scan |-> IF connected = {} THEN "none"
                           ELSE IF HasMetadata THEN "next" ELSE "over",
                  codes |-> wanted, left |-> connected])
    /\ UNCHANGED <<identified, confirmed, queries>>

TimeOut(w) ==
    /\ waits[w].pc = "waiting"
    /\ waits' = [waits EXCEPT ![w].pc = "rejected"]
    /\ UNCHANGED <<identified, confirmed, queries>>

\* Mutant: the listener takes any identified peer.
IdentifyAny(p) ==
    /\ p \in connected
    /\ identified' = identified \cup {p}
    /\ waits' = waits
    /\ queries' = queries \cup
         {Handshake(w, b, p) : w \in Wait, b \in UNION {waits[v].pending : v \in Wait}}
    /\ UNCHANGED confirmed

\* A peer:identify event and every listener that wants one of its protocols,
\* those of calls that are over included.
Identify(p) ==
    LET wants(w) == waits[w].pending \cap Serves[p]
    IN /\ p \in connected
       /\ identified' = identified \cup {p}
       /\ IF HasMetadata
            THEN /\ queries' = queries \cup
                       UNION {{Handshake(w, b, p) : b \in wants(w)} : w \in Wait}
                 /\ UNCHANGED waits
            ELSE /\ waits' = [w \in Wait |->
                       Settle([waits[w] EXCEPT !.pending = @ \ wants(w)])]
                 /\ UNCHANGED queries
       /\ UNCHANGED confirmed

\* The scan comes to a peer: there is nothing to ask if the peer store has no
\* protocol of it that is wanted.  After the last one the call is resolved.
ScanNext(w) ==
    LET call == waits[w]
    IN /\ call.scan = "next"
       /\ \/ /\ call.left = {}
             /\ Update(w, [call EXCEPT !.scan = "over"])
             /\ UNCHANGED queries
          \/ \E p \in call.left :
               IF p \in identified /\ Serves[p] \cap call.wanted # {}
                 THEN /\ Update(w, [call EXCEPT !.left = @ \ {p}, !.scan = "query"])
                      /\ queries' = queries \cup {Handshake(w, "scan", p)}
                 ELSE /\ Update(w, [call EXCEPT !.left = @ \ {p}])
                      /\ UNCHANGED queries
       /\ UNCHANGED <<identified, confirmed>>

\* Mutant: the scan takes an error for a confirmation.
AnsweredAnyway(q, outcome) ==
    LET call == waits[q.wait]
        codes == call.codes \ Serves[q.peer]
    IN IF q.by = "scan"
         THEN Update(q.wait, [call EXCEPT !.codes = codes,
                                !.scan = IF codes = {} THEN "over" ELSE "next"])
         ELSE Update(q.wait, [call EXCEPT !.pending = @ \ {q.by}])

\* What the caller makes of the outcome.  A listener does not look at the error
\* of an answer; an exception leaves it attached.
Answered(q, outcome) ==
    LET call == waits[q.wait]
        codes == IF outcome = "ok" THEN call.codes \ Serves[q.peer] ELSE call.codes
    IN IF q.by = "scan"
         THEN Update(q.wait, [call EXCEPT !.codes = codes,
                                !.scan = IF codes = {} THEN "over" ELSE "next"])
         ELSE Update(q.wait, IF outcome = "throws" THEN call
                             ELSE [call EXCEPT !.pending = @ \ {q.by}])

\* query: no stream is an error, a broken one an exception.
QueryEnds(q, outcome) ==
    /\ q \in queries
    /\ q.known => outcome = "ok"
    /\ queries' = queries \ {q}
    /\ confirmed' = IF outcome = "ok" THEN confirmed \cup {q.peer} ELSE confirmed
    /\ Answered(q, outcome)
    /\ UNCHANGED identified

\* onRequest: a peer asks, and its own shard info comes with the request.
PeerAsks(p) ==
    /\ HasMetadata
    /\ p \in connected
    /\ confirmed' = confirmed \cup {p}
    /\ UNCHANGED <<identified, waits, queries>>

WaitStep ==
    \/ \E w \in Wait :
         \/ \E wanted \in (SUBSET Protocol) \ {{}} : StartWait(w, wanted)
         \/ TimeOut(w)
         \/ ScanNext(w)
    \/ \E p \in Peer : Identify(p) \/ PeerAsks(p)
    \/ \E q \in queries, outcome \in {"ok", "error", "throws"} : QueryEnds(q, outcome)

WaitNext == WaitStep /\ Cardinality(queries') <= MaxQueries

-----------------------------------------------------------------------------
Known(protocol) == \E p \in identified : protocol \in Serves[p]

\* A call that began without a connection ends well only when a peer of each
\* protocol it wants has been identified.
ColdWaitServed ==
    \A w \in Wait :
      waits[w].pc = "resolved" /\ waits[w].scan = "none"
        => \A b \in waits[w].wanted : Known(b)

\* What the scan takes for confirmed was confirmed by a peer that serves it,
\* whoever asked that peer.
ScanConfirms ==
    \A w \in Wait : \A b \in waits[w].wanted \ waits[w].codes :
      \E p \in confirmed : b \in Serves[p]

\* "resolves if all desired protocols are fulfilled by remote nodes" (the
\* function's comment).  The code does not keep it, and no run checks it: see the
\* README.
ResolvedIsServed ==
    \A w \in Wait :
      waits[w].pc = "resolved" => \A b \in waits[w].wanted : Known(b)
=============================================================================
