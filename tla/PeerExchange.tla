------------------------------ MODULE PeerExchange ------------------------------
(***************************************************************************)
(* Peer exchange: a peer that serves the protocol and is identified is     *)
(* asked for peers, again and again after growing intervals, until the     *)
(* attempts are used up.  What it tells goes to the peer store.            *)
(*                                                                         *)
(* stop() returns at once, as isStarted is never set, and is no action.    *)
(***************************************************************************)
EXTENDS PeerStore

CONSTANTS
    Server,      \* peers that serve PeerExchangeCodec
    Chain,       \* bound: recurring queries
    MaxRetries,
    Answer,      \* the ENRs that peers tell of: [peer, addrs, shards]
    MaxAnswers   \* bound: ENRs in one answer

ASSUME PxAssumption ==
    /\ Server \subseteq Peer
    /\ Answer \subseteq [peer : Peer, addrs : SUBSET Addr, shards : SUBSET Shard]

VARIABLES
    listening,       \* start() has attached the listener
    queryingPeers,
    queryAttempts,   \* 0 stands for no entry
    chains           \* the calls of startRecurringQueries and their timers

pxVars == <<listening, queryingPeers, queryAttempts, chains>>

(***************************************************************************)
(* A chain waits for an answer, for its timer, or is at work on an ENR     *)
(* ("enr") of the answer: what it has yet to do with it is "todo".         *)
(***************************************************************************)
NoChain == [pc |-> "idle", peer |-> "none", told |-> 0, enr |-> "none", todo |-> <<>>]

PxInit ==
    /\ listening = FALSE
    /\ queryingPeers = {}
    /\ queryAttempts = [p \in Server |-> 0]
    /\ chains = [k \in Chain |-> NoChain]

Active(p) == {k \in Chain : chains[k].pc # "idle" /\ chains[k].peer = p}

Query(p) == [NoChain EXCEPT !.pc = "query", !.peer = p]

\* queryAttempts.get(p) ?? 1
CurrentAttempt(p) == IF queryAttempts[p] = 0 THEN 1 ELSE queryAttempts[p]

-----------------------------------------------------------------------------
PxStart ==
    /\ listening' = TRUE
    /\ UNCHANGED <<queryingPeers, queryAttempts, chains>>

StartRecurringQueries(p) ==
    LET free == {k \in Chain : chains[k].pc = "idle"}
    IN free # {} /\ chains' = [chains EXCEPT ![CHOOSE k \in free : TRUE] = Query(p)]

\* Mutant: a peer that is being queried is queried once more.
HandleAnyPeer(p) ==
    /\ IF listening
         THEN /\ queryingPeers' = queryingPeers \cup {p}
              /\ StartRecurringQueries(p)
         ELSE UNCHANGED <<queryingPeers, chains>>
    /\ UNCHANGED <<listening, queryAttempts>>

\* The peer:identify event of a peer that serves the protocol.
HandleDiscoveredPeer(p) ==
    /\ IF listening /\ p \notin queryingPeers
         THEN /\ queryingPeers' = queryingPeers \cup {p}
              /\ StartRecurringQueries(p)
         ELSE UNCHANGED <<queryingPeers, chains>>
    /\ UNCHANGED <<listening, queryAttempts>>

\* The query is over: the next one is scheduled, or there is none.
EndQuery(k) ==
    LET p == chains[k].peer
    IN /\ IF CurrentAttempt(p) > MaxRetries
            THEN /\ queryingPeers' = queryingPeers \ {p}
                 /\ queryAttempts' = [queryAttempts EXCEPT ![p] = 0]
                 /\ chains' = [chains EXCEPT ![k] = NoChain]
            ELSE /\ chains' = [chains EXCEPT ![k] = [NoChain EXCEPT !.pc = "timer", !.peer = p]]
                 /\ UNCHANGED <<queryingPeers, queryAttempts>>
       /\ UNCHANGED listening

\* An exception ends the queries; the peer stays among those that are queried.
QueryThrows(k) ==
    /\ chains' = [chains EXCEPT ![k] = NoChain]
    /\ UNCHANGED <<listening, queryingPeers, queryAttempts>>

\* Mutant: the attempts are not counted.
TimerFiresUncounted(k) ==
    /\ chains[k].pc = "timer"
    /\ chains' = [chains EXCEPT ![k] = Query(chains[k].peer)]
    /\ UNCHANGED <<listening, queryingPeers, queryAttempts, peerStore, announced>>

TimerFires(k) ==
    /\ chains[k].pc = "timer"
    /\ queryAttempts' = [queryAttempts EXCEPT
                           ![chains[k].peer] = CurrentAttempt(chains[k].peer) + 1]
    /\ chains' = [chains EXCEPT ![k] = Query(chains[k].peer)]
    /\ UNCHANGED <<listening, queryingPeers, peerStore, announced>>

\* No stream or an answer that cannot be decoded is an error, a broken stream or
\* a peer that the store has not an exception.
QueryFails(k) ==
    /\ chains[k].pc = "query"
    /\ EndQuery(k) \/ QueryThrows(k)
    /\ UNCHANGED <<peerStore, announced>>

Goto(k, chain) ==
    /\ chains' = [chains EXCEPT ![k] = chain]
    /\ UNCHANGED <<listening, queryingPeers, queryAttempts>>

\* The answer and its ENRs, one after the other.
NextEnr(k) ==
    /\ chains[k].pc \in {"query", "next"}
    /\ \/ EndQuery(k)
       \/ /\ Has(chains[k].peer) \/ chains[k].pc = "next"
          /\ chains[k].told < MaxAnswers
          /\ \E e \in Answer :
               Goto(k, [chains[k] EXCEPT !.pc = "enr", !.enr = e, !.told = @ + 1,
                          !.todo = IF Has(e.peer) THEN <<"diff">> ELSE <<"save", "dispatch">>])
    /\ UNCHANGED <<peerStore, announced>>

Then(k, todo) ==
    Goto(k, [chains[k] EXCEPT !.pc = IF todo = <<>> THEN "next" ELSE "enr",
               !.enr = IF todo = <<>> THEN "none" ELSE @, !.todo = todo])

\* checkPeerInfoDiff: addresses or shards that the ENR has no more.  A node of the
\* store without shard info never differs in it.
Diff(p, enr) ==
    LET addrs  == ~(peerStore[p].addrs \subseteq enr.addrs)
        shards == peerStore[p].shards # {} /\ ~(peerStore[p].shards \subseteq enr.shards)
    IN IF ~addrs /\ ~shards THEN <<"save", "dispatch">>
       ELSE (IF addrs THEN <<"patch">> ELSE <<>>)
            \o (IF shards /\ enr.shards # {} THEN <<"merge", "dispatch">> ELSE <<>>)

\* The next operation on the ENR's peer; one that is gone cannot be compared.
ApplyEnr(k) ==
    LET chain == chains[k]
        e == chain.enr
        op == Head(chain.todo)
        rest == Tail(chain.todo)
    IN /\ chain.pc = "enr"
       /\ \/ /\ op = "diff"
             /\ IF Has(e.peer) THEN Then(k, Diff(e.peer, e)) ELSE QueryThrows(k)
             /\ UNCHANGED <<peerStore, announced>>
          \/ /\ op = "patch" /\ PatchAddrs(e.peer, e.addrs)
             /\ UNCHANGED announced
             /\ Then(k, rest)
          \/ /\ op = "merge" /\ MergeShards(e.peer, e.shards)
             /\ UNCHANGED announced
             /\ Then(k, rest)
          \/ /\ op = "save" /\ Save(e.peer, e.addrs, e.shards, {"peer-exchange"})
             /\ UNCHANGED announced
             /\ Then(k, rest)
          \/ /\ op = "dispatch" /\ Announce(e.peer)
             /\ Then(k, rest)

ChainStep(k) == TimerFires(k) \/ QueryFails(k) \/ NextEnr(k) \/ ApplyEnr(k)

-----------------------------------------------------------------------------
\* However often a peer is identified and whatever fails, one chain at a time queries
\* it, and a peer that is given up starts afresh when it is identified again.
QueriesTracked ==
    \A p \in Server :
      IF p \in queryingPeers THEN Cardinality(Active(p)) <= 1
                             ELSE Active(p) = {} /\ queryAttempts[p] = 0

\* The queries to a peer end: the attempts are counted over all of them.
QueriesEnd == \A k \in Chain : chains[k].pc # "idle" ~> chains[k].pc = "idle"
=============================================================================
