------------------------------ MODULE DnsDiscovery ------------------------------
(***************************************************************************)
(* DNS discovery: findPeers takes nodes from getNextPeer, which descends   *)
(* the ENR tree at random, a TXT record at a time, until the nodes it has  *)
(* yielded have the capabilities that are wanted.                          *)
(*                                                                         *)
(* One findPeers at a time; a later one starts a new search context.       *)
(***************************************************************************)
EXTENDS PeerStore

CONSTANTS
    Subdomain,
    Domain,          \* where a search begins
    Entry,           \* the TXT record of each subdomain
    Capability,
    Wanted,          \* wantedNodeCapabilityCount
    ErrorTolerance   \* _errorTolerance

VARIABLES
    dnsStarted,  \* _started
    dns          \* the findPeers under way

dnsVars == <<dnsStarted, dns>>

(***************************************************************************)
(* "at" is the subdomain that is resolved, "visits" are those of all the   *)
(* searches, "taken" counts the nodes that were yielded, a history.  What  *)
(* findPeers does with the node "told" is "pc".                            *)
(***************************************************************************)
None == "none"

\* A TXT record that can be had is of the domain of the tree, and a leaf tells of a
\* node; "info" is whether its key makes a peer id.
Record == [kind : {"root", "branch", "leaf"}, next : SUBSET Subdomain, peer : Peer \cup {None},
           info : BOOLEAN, caps : SUBSET Capability, shards : SUBSET Shard]

ASSUME DnsAssumption ==
    /\ IsFiniteSet(Capability) /\ Wanted \in [Capability -> Nat]
    /\ Domain \in Subdomain
    /\ Entry \in [Subdomain -> Record]
    /\ \A s \in Subdomain : Entry[s].kind = "leaf" => Entry[s].peer \in Peer

Idle == [pc |-> "idle", at |-> Domain, visits |-> {}, searches |-> 0,
         seen |-> {}, actual |-> [c \in Capability |-> 0], told |-> None, taken |-> 0,
         collect |-> FALSE]

DnsInit == dnsStarted = FALSE /\ dns = Idle

\* The sum of counts is the number of what they count.
Units(count) == UNION {{c} \X (1 .. count[c]) : c \in DOMAIN count}

Sum(count) == Cardinality(Units(count))

IsSatisfied(actual) == \A c \in Capability : actual[c] >= Wanted[c]

\* Mutant: what is wanted helps, though there is enough of it.
HelpsWanted(caps, actual) == \E c \in caps : Wanted[c] > 0

HelpsSatisfy(caps, actual) == \E c \in caps : actual[c] < Wanted[c]

-----------------------------------------------------------------------------
\* The test of the loop that takes nodes; a descent begins at the domain.
Turn(d) ==
    IF ~IsSatisfied(d.actual) /\ d.searches < Sum(Wanted) + ErrorTolerance
      THEN [d EXCEPT !.pc = "resolve", !.at = Domain, !.told = None]
      ELSE Idle

\* A search ends without a node.
Nothing(d) == Turn([d EXCEPT !.searches = @ + 1])

\* start(), or the connection manager, which does not set _started.
FindPeers ==
    /\ dns.pc = "idle"
    /\ dnsStarted' \in {dnsStarted, TRUE}
    /\ dns' = Turn(Idle)
    /\ UNCHANGED <<peerStore, announced>>

\* getPeers, of an application: the nodes are collected and not stored.
GetPeers ==
    /\ dns.pc = "idle"
    /\ dns' = Turn([Idle EXCEPT !.collect = TRUE])
    /\ UNCHANGED <<dnsStarted, peerStore, announced>>

DnsStop ==
    /\ dnsStarted
    /\ dnsStarted' = FALSE
    /\ UNCHANGED <<dns, peerStore, announced>>

Descend(d, next) ==
    [d EXCEPT !.at = next, !.visits = @ \cup {d.at}]

\* A leaf: an ENR helps if it is new, has a waku2 entry and serves what is missing.
\* The generator remembers those that do not help as well, the collector does not.
Candidate(d, leaf) ==
    LET helps   == leaf.peer \notin d.seen /\ HelpsSatisfy(leaf.caps, d.actual)
        visited == [d EXCEPT !.visits = @ \cup {d.at},
                      !.seen = IF helps \/ ~d.collect THEN @ \cup {leaf.peer} ELSE @]
        taken   == [visited EXCEPT !.taken = @ + 1,
                      !.actual = [c \in Capability |-> @[c] + (IF c \in leaf.caps THEN 1 ELSE 0)]]
    IN IF ~helps THEN Nothing(visited)
       ELSE IF d.collect THEN Nothing(taken)
       ELSE [taken EXCEPT !.pc = "yield", !.told = d.at]

\* Mutant: a branch may lead anywhere.
SelectAnyPath(branches, visits) == branches

SelectRandomPath(branches, visits) == branches \ visits

\* A TXT record: a step down, or an end of the search, as the record cannot be had,
\* is not what it should be, or all its branches were visited.  A root is followed
\* wherever it leads.
Resolve ==
    LET entry == Entry[dns.at]
        paths == SelectRandomPath(entry.next, dns.visits \cup {dns.at})
    IN /\ dns.pc = "resolve"
       /\ \/ \E v \in {{}, {dns.at}} : dns' = Nothing([dns EXCEPT !.visits = @ \cup v])
          \/ /\ entry.kind = "root"
             /\ \E s \in entry.next : dns' = Descend(dns, s)
          \/ /\ entry.kind = "branch"
             /\ \E s \in paths : dns' = Descend(dns, s)
          \/ /\ entry.kind = "leaf"
             /\ dns' = Candidate(dns, entry)
       /\ UNCHANGED <<dnsStarted, peerStore, announced>>

-----------------------------------------------------------------------------
Told == Entry[dns.told].peer

\* The node of a turn is done with.
NextTurn(d) == Turn([d EXCEPT !.searches = @ + 1])

TakeNode ==
    /\ dns.pc = "yield"
    /\ dns' = IF ~dnsStarted THEN Idle
              ELSE IF ~Entry[dns.told].info THEN NextTurn(dns)
              ELSE [dns EXCEPT !.pc = IF Has(Told) THEN "get" ELSE "save"]
    /\ UNCHANGED <<dnsStarted, peerStore, announced>>

\* A peer that is gone from the store again is an exception.
GetTags ==
    /\ dns.pc = "get"
    /\ dns' = IF ~Has(Told) THEN Idle
              ELSE IF "bootstrap" \in peerStore[Told].tags THEN NextTurn(dns)
              ELSE [dns EXCEPT !.pc = "merge"]
    /\ UNCHANGED <<dnsStarted, peerStore, announced>>

\* Mutant: only a new peer is news.
StoreNodeQuietly ==
    /\ \/ dns.pc = "merge" /\ MergeTag(Told, "bootstrap") /\ dns' = [dns EXCEPT !.pc = "dispatch"]
       \/ dns.pc = "save" /\ Save(Told, {}, Entry[dns.told].shards, {"bootstrap"})
                          /\ dns' = NextTurn(dns)
    /\ UNCHANGED <<dnsStarted, announced>>

\* No addresses are stored: they go out with the event.
StoreNode ==
    /\ \/ dns.pc = "merge" /\ MergeTag(Told, "bootstrap")
       \/ dns.pc = "save"  /\ Save(Told, {}, Entry[dns.told].shards, {"bootstrap"})
    /\ dns' = [dns EXCEPT !.pc = "dispatch"]
    /\ UNCHANGED <<dnsStarted, announced>>

DispatchNode ==
    /\ dns.pc = "dispatch"
    /\ Announce(Told)
    /\ dns' = NextTurn(dns)
    /\ UNCHANGED dnsStarted

DnsStep == Resolve \/ TakeNode \/ GetTags \/ StoreNode \/ DispatchNode

DnsNext == FindPeers \/ GetPeers \/ DnsStop \/ DnsStep

DnsAloneInit == StoreInit /\ DnsInit

dnsAll == <<peerStore, announced, dnsStarted, dns>>

ForgetPeer == (\E p \in Peer : Forget(p)) /\ UNCHANGED <<dnsStarted, dns>>

\* Every query of a resolver and every promise of the peer store settles.
DnsSpec ==
    DnsAloneInit /\ [][DnsNext \/ ForgetPeer]_dnsAll /\ WF_dnsAll(DnsStep)

-----------------------------------------------------------------------------
Roots == {s \in Subdomain : Entry[s].kind = "root"}

\* Roots do not lead to each other in a circle: some root of any of them leads away.
RootsEnd == \A S \in (SUBSET Roots) \ {{}} : \E s \in S : Entry[s].next \cap S = {}

\* However the branches of the tree lead to each other, and to roots, and whatever cannot
\* be resolved, a descent does not go round in it and findPeers ends.  Only branches
\* are compared with the visits: roots that lead to each other are followed for ever.
FindPeersEnds == RootsEnd => (dns.pc # "idle" ~> dns.pc = "idle")

\* No more nodes are taken than are wanted: each one serves something missing.
NodesBounded == dns.taken <= Sum(Wanted)
=============================================================================
