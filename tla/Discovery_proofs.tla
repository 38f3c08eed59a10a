---------------------------- MODULE Discovery_proofs ----------------------------
(***************************************************************************)
(* What the discoveries keep, whatever the DNS tree, the answers of peers, *)
(* the number of queries and the size of the cache: peer exchange tracks   *)
(* its queries, the storage of the local cache loses no peer and keeps     *)
(* each address that could be written, and what is put into the peer store *)
(* is announced.                                                           *)
(***************************************************************************)
EXTENDS Discovery, FiniteSetTheorems, SequenceTheorems, TLAPS

(***************************************************************************)
(* Types.  What is yet to be done with an ENR is one of a few lists.       *)
(***************************************************************************)
DnsBusy == {"yield", "get", "save", "merge", "dispatch"}

Search ==
    [pc : {"idle", "resolve"} \cup DnsBusy, at : Subdomain, visits : SUBSET Subdomain,
     searches : Nat, seen : SUBSET Peer, actual : [Capability -> Nat],
     told : Subdomain \cup {None}, taken : Nat, collect : BOOLEAN]

\* findPeers is at work on the node of a leaf.
SearchOK(d) ==
    /\ d \in Search
    /\ d.pc \in DnsBusy => d.told \in Subdomain /\ Entry[d.told].kind = "leaf"

DnsTypes == dnsStarted \in BOOLEAN /\ SearchOK(dns)

Todos == {<<"diff">>, <<"save", "dispatch">>, <<"dispatch">>, <<"patch">>,
          <<"patch", "merge", "dispatch">>, <<"merge", "dispatch">>}

ChainRecord ==
    [pc : {"idle", "query", "timer", "next", "enr"}, peer : Server \cup {"none"},
     told : Nat, enr : Answer \cup {"none"}, todo : Todos \cup {<<>>}]

\* An active chain has a peer to query, and one at work has an ENR.
ChainOK(chain) ==
    /\ chain \in ChainRecord
    /\ chain.pc # "idle" => chain.peer \in Server
    /\ chain.pc = "enr" => chain.enr \in Answer /\ chain.todo \in Todos

PxTypes ==
    /\ listening \in BOOLEAN
    /\ queryingPeers \subseteq Server
    /\ queryAttempts \in [Server -> Nat]
    /\ chains \in [Chain -> ChainRecord]
    /\ \A k \in Chain : ChainOK(chains[k])

Addresses == UNION {[S -> Addr] : S \in SUBSET Peer}

Loop == [pc : {"idle", "has", "save", "dispatch"}, left : Addresses, peer : Peer \cup {"none"}]

LcTypes ==
    /\ lcStarted \in BOOLEAN /\ lcListening \in BOOLEAN
    /\ cache \in Addresses /\ stored \in Addresses /\ heard \in Addresses
    /\ usable \in BOOLEAN /\ unwritten \subseteq Peer
    /\ loop \in Loop
    /\ loop.pc \in {"save", "dispatch"} => loop.peer \in DOMAIN loop.left

TypeOK == StoreTypes /\ DnsTypes /\ PxTypes /\ LcTypes

-----------------------------------------------------------------------------
\* What is in storage is in memory, on a page that may use the storage, so that stop()
\* may overwrite it.
HeardIsKept ==
    /\ HeardIsStored
    /\ usable => /\ DOMAIN stored \subseteq DOMAIN cache
                 /\ \A p \in DOMAIN heard \ unwritten : cache[p] = heard[p]

\* The chain of a peer that is being queried is the only one, and attempts are counted
\* for such a peer only.
OneChainEach ==
    /\ \A k \in Chain : chains[k].pc # "idle" => chains[k].peer \in queryingPeers
    /\ \A j, k \in Chain :
         chains[j].pc # "idle" /\ chains[k].pc # "idle" /\ chains[j].peer = chains[k].peer => j = k
    /\ \A p \in Server \ queryingPeers : queryAttempts[p] = 0

\* The peer was announced, or a discovery is about to announce it.
DnsOwes(p)      == dns.pc = "dispatch" /\ Told = p
LoopOwes(p)     == loop.pc = "dispatch" /\ loop.peer = p
ChainOwes(k, p) == chains[k].pc = "enr" /\ chains[k].enr.peer = p /\ chains[k].todo = <<"dispatch">>

Promised(p) ==
    p \in announced \/ DnsOwes(p) \/ LoopOwes(p) \/ \E k \in Chain : ChainOwes(k, p)

\* A patch puts a peer back that was given up since it was compared; it was in the
\* store then.
Patching(k) ==
    chains[k].pc = "enr" /\ chains[k].todo \in {<<"patch">>, <<"patch", "merge", "dispatch">>}

PromisesKept ==
    /\ \A p \in Peer : Has(p) => Promised(p)
    /\ \A k \in Chain : Patching(k) => Promised(chains[k].enr.peer)

Inv == TypeOK /\ HeardIsKept /\ OneChainEach /\ PromisesKept

-----------------------------------------------------------------------------
\* An operation of the store: its types, and who is in it afterwards.
StoresAtMost(p) ==
    /\ peerStore' \in [Peer -> Data]
    /\ \A q \in Peer : Has(q)' => Has(q) \/ q = p

LEMMA SaveStores ==
    ASSUME StoreTypes, NEW p \in Peer, NEW addrs \in SUBSET Addr, NEW shards \in SUBSET Shard,
           NEW tags \in SUBSET Tag, Save(p, addrs, shards, tags)
    PROVE  StoresAtMost(p)
BY DEF StoreTypes, Save, StoresAtMost, Has, Data

LEMMA PatchStores ==
    ASSUME StoreTypes, NEW p \in Peer, NEW addrs \in SUBSET Addr, PatchAddrs(p, addrs)
    PROVE  StoresAtMost(p)
BY DEF StoreTypes, PatchAddrs, StoresAtMost, Has, Data

LEMMA MergeShardsStores ==
    ASSUME StoreTypes, NEW p \in Peer, NEW shards \in SUBSET Shard, MergeShards(p, shards)
    PROVE  StoresAtMost(p)
BY DEF StoreTypes, MergeShards, StoresAtMost, Has, Data

LEMMA MergeTagStores ==
    ASSUME StoreTypes, NEW p \in Peer, NEW tag \in Tag, MergeTag(p, tag)
    PROVE  StoresAtMost(p)
BY DEF StoreTypes, MergeTag, StoresAtMost, Has, Data

LEMMA ForgetStores ==
    ASSUME StoreTypes, NEW p \in Peer, Forget(p)
    PROVE  StoreTypes' /\ \A q \in Peer : Has(q)' => Has(q)
BY DEF StoreTypes, Forget, Unknown, Has, Data

-----------------------------------------------------------------------------
\* A step of one discovery: what was promised stays so, and so does what it puts into
\* the store.
LEMMA PromisesStep ==
    ASSUME PxTypes', PromisesKept,
           \A p \in Peer : Promised(p) => Promised(p)',
           \A p \in Peer : Has(p)' => Has(p) \/ Promised(p)',
           \A k \in Chain : Patching(k)' =>
             chains'[k].enr = chains[k].enr /\ (Patching(k) \/ Promised(chains[k].enr.peer))
    PROVE  PromisesKept'
<1>1. \A p \in Peer : Has(p)' => Promised(p)'
    BY DEF PromisesKept
<1>2. ASSUME NEW k \in Chain, Patching(k)'
      PROVE  Promised(chains[k].enr.peer)'
    <2>1. Promised(chains[k].enr.peer) /\ chains'[k].enr = chains[k].enr
        BY <1>2 DEF PromisesKept
    <2>2. chains[k].enr.peer \in Peer
        <3>1. PxTypes'
            OBVIOUS
        <3>2. chains'[k].enr \in Answer
            BY <1>2, <3>1 DEF PxTypes, ChainOK, Patching
        <3> QED
            BY <2>1, <3>2, PxAssumption
    <2> QED
        BY <2>1, <2>2 DEF Promised
<1> QED
    BY <1>1, <1>2 DEF PromisesKept

-----------------------------------------------------------------------------
\* DNS discovery.
LEMMA IdleOK == SearchOK(Idle) /\ Idle.pc = "idle" /\ Idle \in Search
<1>1. [c \in Capability |-> 0] \in [Capability -> Nat]
    OBVIOUS
<1> QED
    BY <1>1, DnsAssumption DEF SearchOK, Search, Idle, None, DnsBusy

LEMMA TurnOK ==
    ASSUME NEW d \in Search
    PROVE  SearchOK(Turn(d)) /\ Turn(d).pc \in {"idle", "resolve"}
<1> DEFINE next == [d EXCEPT !.pc = "resolve", !.at = Domain, !.told = None]
<1>1. next \in Search /\ next.pc = "resolve"
    BY DnsAssumption DEF Search
<1>2. Turn(d) = next \/ Turn(d) = Idle
    BY DEF Turn
<1> HIDE DEF next
<1>3. SearchOK(next) /\ next.pc \in {"idle", "resolve"}
    BY <1>1 DEF SearchOK, DnsBusy
<1> QED
    BY <1>2, <1>3, IdleOK

LEMMA NothingOK ==
    ASSUME NEW d \in Search
    PROVE  SearchOK(Nothing(d)) /\ Nothing(d).pc \in {"idle", "resolve"}
<1>1. [d EXCEPT !.searches = @ + 1] \in Search
    BY DEF Search
<1> QED
    BY <1>1, TurnOK DEF Nothing

LEMMA NextTurnOK ==
    ASSUME NEW d \in Search
    PROVE  SearchOK(NextTurn(d)) /\ NextTurn(d).pc \in {"idle", "resolve"}
BY NothingOK DEF Nothing, NextTurn

\* The node of a leaf is kept for findPeers, which stores it, and for nothing else.
LEMMA CandidateOK ==
    ASSUME NEW d \in Search, Entry[d.at].kind = "leaf"
    PROVE  SearchOK(Candidate(d, Entry[d.at])) /\ Candidate(d, Entry[d.at]).pc # "dispatch"
<1> DEFINE leaf    == Entry[d.at]
           helps   == leaf.peer \notin d.seen /\ HelpsSatisfy(leaf.caps, d.actual)
           visited == [d EXCEPT !.visits = @ \cup {d.at},
                         !.seen = IF helps \/ ~d.collect THEN @ \cup {leaf.peer} ELSE @]
           taken   == [visited EXCEPT !.taken = @ + 1,
                         !.actual = [c \in Capability |-> @[c] + (IF c \in leaf.caps THEN 1 ELSE 0)]]
           told    == [taken EXCEPT !.pc = "yield", !.told = d.at]
<1>1. d.at \in Subdomain /\ leaf.peer \in Peer
    BY DnsAssumption DEF Search
<1>2. visited \in Search
    BY <1>1 DEF Search
<1>3. [c \in Capability |-> visited.actual[c] + (IF c \in leaf.caps THEN 1 ELSE 0)]
        \in [Capability -> Nat]
    <2>1. visited.actual \in [Capability -> Nat]
        BY <1>2 DEF Search
    <2> HIDE DEF visited
    <2> QED
        BY <2>1
<1>4. taken \in Search
    <2> DEFINE actual == [c \in Capability |-> visited.actual[c]
                                              + (IF c \in leaf.caps THEN 1 ELSE 0)]
    <2>1. actual \in [Capability -> Nat] /\ visited.taken + 1 \in Nat
        BY <1>2, <1>3 DEF Search
    <2>2. taken = [visited EXCEPT !.taken = @ + 1, !.actual = actual]
        OBVIOUS
    <2> HIDE DEF visited, actual, taken
    <2> QED
        BY <1>2, <2>1, <2>2 DEF Search
<1>5. SearchOK(told) /\ told.pc # "dispatch"
    <2> HIDE DEF taken
    <2> QED
        BY <1>1, <1>4 DEF SearchOK, Search, DnsBusy
<1>6. Candidate(d, leaf) \in {Nothing(visited), Nothing(taken), told}
    BY DEF Candidate
<1> HIDE DEF visited, taken, told
<1> QED
    BY <1>2, <1>4, <1>5, <1>6, NothingOK

LEMMA ResolveOK ==
    ASSUME SearchOK(dns), Resolve
    PROVE  SearchOK(dns') /\ dns'.pc # "dispatch"
<1>1. dns \in Search /\ dns.pc = "resolve" /\ dns.at \in Subdomain
    BY DEF SearchOK, Search, Resolve
<1>2. ASSUME NEW v \in {{}, {dns.at}}, dns' = Nothing([dns EXCEPT !.visits = @ \cup v])
      PROVE  SearchOK(dns') /\ dns'.pc # "dispatch"
    <2>1. [dns EXCEPT !.visits = @ \cup v] \in Search
        BY <1>1 DEF Search
    <2> QED
        BY <1>2, <2>1, NothingOK
<1>3. ASSUME NEW s \in Entry[dns.at].next, dns' = Descend(dns, s)
      PROVE  SearchOK(dns') /\ dns'.pc # "dispatch"
    <2>1. s \in Subdomain
        BY <1>1, DnsAssumption DEF Record
    <2> QED
        BY <1>1, <1>3, <2>1 DEF Descend, SearchOK, Search, DnsBusy
<1>4. CASE Entry[dns.at].kind = "leaf" /\ dns' = Candidate(dns, Entry[dns.at])
    BY <1>1, <1>4, CandidateOK
<1> QED
    BY <1>2, <1>3, <1>4 DEF Resolve, SelectRandomPath

\* A step of the search leaves the store alone; what it stores it owes, until it has
\* announced it.
LEMMA StepDns ==
    ASSUME StoreTypes, DnsTypes, DnsNext
    PROVE  /\ StoreTypes' /\ DnsTypes'
           /\ announced \subseteq announced'
           /\ \A p \in Peer : DnsOwes(p) => DnsOwes(p)' \/ p \in announced'
           /\ \A p \in Peer : Has(p)' => Has(p) \/ DnsOwes(p)'
<1> DEFINE Quiet == UNCHANGED <<peerStore, announced>>
<1>1. SearchOK(dns) /\ dns \in Search /\ dnsStarted \in BOOLEAN
    BY DEF DnsTypes, SearchOK
<1>2. ASSUME Quiet, SearchOK(dns'), dnsStarted' \in BOOLEAN, dns.pc # "dispatch" \/ dns' = dns
      PROVE  /\ StoreTypes' /\ DnsTypes'
             /\ announced \subseteq announced'
             /\ \A p \in Peer : DnsOwes(p) => DnsOwes(p)' \/ p \in announced'
             /\ \A p \in Peer : Has(p)' => Has(p) \/ DnsOwes(p)'
    BY <1>2 DEF StoreTypes, DnsTypes, DnsOwes, Told, Has
<1>3. CASE FindPeers
    <2>1. SearchOK(Turn(Idle))
        BY IdleOK, TurnOK
    <2> QED
        BY <1>1, <1>2, <1>3, <2>1 DEF FindPeers
<1>4. CASE GetPeers
    <2>1. [Idle EXCEPT !.collect = TRUE] \in Search
        BY IdleOK DEF Search
    <2>2. SearchOK(Turn([Idle EXCEPT !.collect = TRUE]))
        BY <2>1, TurnOK
    <2> QED
        BY <1>1, <1>2, <1>4, <2>2 DEF GetPeers
<1>5. CASE DnsStop
    BY <1>1, <1>2, <1>5 DEF DnsStop
<1>6. CASE Resolve
    BY <1>1, <1>2, <1>6, ResolveOK DEF Resolve
<1>7. CASE TakeNode
    <2>1. SearchOK([dns EXCEPT !.pc = IF Has(Told) THEN "get" ELSE "save"])
        BY <1>1, <1>7 DEF TakeNode, SearchOK, Search, DnsBusy
    <2> QED
        BY <1>1, <1>2, <1>7, <2>1, IdleOK, NextTurnOK DEF TakeNode
<1>8. CASE GetTags
    <2>1. SearchOK([dns EXCEPT !.pc = "merge"])
        BY <1>1, <1>8 DEF GetTags, SearchOK, Search, DnsBusy
    <2> QED
        BY <1>1, <1>2, <1>8, <2>1, IdleOK, NextTurnOK DEF GetTags
<1>9. CASE StoreNode
    <2>1. dns.told \in Subdomain /\ Told \in Peer /\ Entry[dns.told].shards \in SUBSET Shard
        BY <1>1, <1>9, DnsAssumption DEF StoreNode, SearchOK, Told, DnsBusy, Record
    <2>2. StoresAtMost(Told)
        BY <1>9, <2>1, MergeTagStores, SaveStores DEF StoreNode, Tag
    <2>3. dns' = [dns EXCEPT !.pc = "dispatch"]
        BY <1>9 DEF StoreNode
    <2>4. SearchOK(dns') /\ dns'.pc = "dispatch" /\ dns'.told = dns.told
        BY <1>1, <1>9, <2>3 DEF StoreNode, SearchOK, Search, DnsBusy
    <2>5. dns.pc # "dispatch" /\ UNCHANGED <<dnsStarted, announced>>
        BY <1>9 DEF StoreNode
    <2> QED
        BY <1>1, <2>2, <2>4, <2>5 DEF StoreTypes, StoresAtMost, DnsTypes, DnsOwes, Told
<1>10. CASE DispatchNode
    <2>1. Told \in Peer
        BY <1>1, <1>10, DnsAssumption DEF DispatchNode, SearchOK, Told, DnsBusy
    <2>2. SearchOK(dns')
        BY <1>1, <1>10, NextTurnOK DEF DispatchNode
    <2> QED
        BY <1>1, <1>10, <2>1, <2>2
           DEF DispatchNode, Announce, StoreTypes, DnsTypes, DnsOwes, Has
<1> QED
    BY <1>3, <1>4, <1>5, <1>6, <1>7, <1>8, <1>9, <1>10 DEF DnsNext, DnsStep

-----------------------------------------------------------------------------
(* The nodes of a search.  The inductive invariant: each one taken fills a *)
(* place of what is wanted that was free.                                  *)

Filled(actual) == {u \in Units(Wanted) : u[2] <= actual[u[1]]}

NodesFill(d) == d.taken <= Cardinality(Filled(d.actual))

LEMMA UnitsFinite ==
    ASSUME NEW actual
    PROVE  /\ IsFiniteSet(Units(Wanted)) /\ IsFiniteSet(Filled(actual))
           /\ Cardinality(Filled(actual)) \in Nat /\ Cardinality(Units(Wanted)) \in Nat
           /\ Cardinality(Filled(actual)) <= Cardinality(Units(Wanted))
<1> DEFINE of == [c \in Capability |-> {c} \X (1 .. Wanted[c])]
           parts == {{c} \X (1 .. Wanted[c]) : c \in Capability}
<1>1. of \in Surjection(Capability, parts)
    BY DEF Surjection
<1>2. IsFiniteSet(parts)
    BY <1>1, DnsAssumption, FS_Surjection
<1>3. ASSUME NEW c \in Capability
      PROVE  IsFiniteSet({c} \X (1 .. Wanted[c]))
    <2>1. 1 \in Int /\ Wanted[c] \in Int
        BY DnsAssumption
    <2>2. IsFiniteSet(1 .. Wanted[c])
        BY <2>1, FS_Interval
    <2>3. IsFiniteSet({c})
        BY FS_Singleton
    <2> QED
        BY <2>2, <2>3, FS_Product
<1>4. \A T \in parts : IsFiniteSet(T)
    BY <1>3
<1>5. Units(Wanted) = UNION parts
    BY DnsAssumption DEF Units
<1> HIDE DEF parts, of
<1>6. IsFiniteSet(Units(Wanted))
    BY <1>2, <1>4, <1>5, FS_UNION
<1>7. Filled(actual) \in SUBSET Units(Wanted)
    BY DEF Filled
<1> QED
    BY <1>6, <1>7, FS_Subset, FS_CardinalityType

\* Capabilities are added, one of them where it is missing: a place more is filled.
LEMMA OneMoreFilled ==
    ASSUME NEW actual \in [Capability -> Nat], NEW more \in [Capability -> Nat],
           \A c \in Capability : more[c] >= actual[c],
           NEW c \in Capability, actual[c] < Wanted[c], more[c] = actual[c] + 1
    PROVE  Cardinality(Filled(actual)) + 1 <= Cardinality(Filled(more))
<1> DEFINE u == <<c, actual[c] + 1>>
<1>1. \A v \in Units(Wanted) : v[1] \in Capability /\ v[2] \in Nat
    BY DnsAssumption DEF Units
<1>2. u \in Units(Wanted)
    <2>1. u \in {c} \X (1 .. Wanted[c])
        BY DnsAssumption
    <2> QED
        BY <2>1, DnsAssumption DEF Units
<1>3. u \in Filled(more) /\ u \notin Filled(actual)
    BY <1>2 DEF Filled
<1>4. Filled(actual) \subseteq Filled(more)
    <2>1. ASSUME NEW v \in Filled(actual)
          PROVE  v \in Filled(more)
        <3>1. v \in Units(Wanted) /\ v[2] <= actual[v[1]]
            BY DEF Filled
        <3>2. v[1] \in Capability /\ v[2] \in Nat
            BY <1>1, <3>1
        <3>3. v[2] <= more[v[1]]
            BY <3>1, <3>2
        <3> QED
            BY <3>1, <3>3 DEF Filled
    <2> QED
        BY <2>1
<1> HIDE DEF u
<1>5. Filled(actual) \cup {u} \in SUBSET Filled(more)
    BY <1>3, <1>4
<1>6. IsFiniteSet(Filled(actual)) /\ IsFiniteSet(Filled(more))
    BY UnitsFinite
<1>7. Cardinality(Filled(actual) \cup {u}) = Cardinality(Filled(actual)) + 1
    BY <1>3, <1>6, FS_AddElement
<1> QED
    BY <1>5, <1>6, <1>7, FS_Subset

LEMMA IdleFills == NodesFill(Idle)
<1>1. Idle.taken = 0
    BY DEF Idle
<1> QED
    BY <1>1, UnitsFinite DEF NodesFill

\* What begins a turn is as it was, or nothing.
LEMMA TurnFills ==
    ASSUME NEW d \in Search, NodesFill(d)
    PROVE  NodesFill(Turn(d)) /\ NodesFill(Nothing(d)) /\ NodesFill(NextTurn(d))
<1>1. ASSUME NEW e \in Search, NodesFill(e)
      PROVE  NodesFill(Turn(e))
    <2> DEFINE next == [e EXCEPT !.pc = "resolve", !.at = Domain, !.told = None]
    <2>1. next.taken = e.taken /\ next.actual = e.actual
        BY DEF Search
    <2>2. Turn(e) = next \/ Turn(e) = Idle
        BY DEF Turn
    <2> HIDE DEF next
    <2> QED
        BY <1>1, <2>1, <2>2, IdleFills DEF NodesFill
<1> DEFINE again == [d EXCEPT !.searches = @ + 1]
<1>2. again \in Search /\ again.taken = d.taken /\ again.actual = d.actual
    BY DEF Search
<1> HIDE DEF again
<1>3. NodesFill(Turn(again))
    BY <1>1, <1>2 DEF NodesFill
<1> QED
    BY <1>1, <1>3 DEF Nothing, NextTurn, again

LEMMA CandidateFills ==
    ASSUME NEW d \in Search, NodesFill(d), Entry[d.at].kind = "leaf"
    PROVE  NodesFill(Candidate(d, Entry[d.at]))
<1> DEFINE leaf    == Entry[d.at]
           helps   == leaf.peer \notin d.seen /\ HelpsSatisfy(leaf.caps, d.actual)
           visited == [d EXCEPT !.visits = @ \cup {d.at},
                         !.seen = IF helps \/ ~d.collect THEN @ \cup {leaf.peer} ELSE @]
           actual  == [c \in Capability |-> visited.actual[c] + (IF c \in leaf.caps THEN 1 ELSE 0)]
           taken   == [visited EXCEPT !.taken = @ + 1,
                         !.actual = [c \in Capability |-> @[c] + (IF c \in leaf.caps THEN 1 ELSE 0)]]
           told    == [taken EXCEPT !.pc = "yield", !.told = d.at]
<1>1. d.at \in Subdomain /\ leaf.peer \in Peer /\ leaf.caps \subseteq Capability
    BY DnsAssumption DEF Search, Record
<1>2. visited \in Search /\ visited.taken = d.taken /\ visited.actual = d.actual
    BY <1>1 DEF Search
<1>3. NodesFill(visited)
    BY <1>2 DEF NodesFill
<1>4. visited.actual \in [Capability -> Nat] /\ visited.taken \in Nat
    <2> HIDE DEF visited
    <2> QED
        BY <1>2 DEF Search
<1>5. actual \in [Capability -> Nat] /\ \A c \in Capability : actual[c] >= visited.actual[c]
    <2> HIDE DEF visited
    <2> QED
        BY <1>4
<1>6. /\ taken = [visited EXCEPT !.taken = visited.taken + 1, !.actual = actual]
    OBVIOUS
<1>7. /\ taken \in Search /\ taken.taken = visited.taken + 1 /\ taken.actual = actual
      /\ told.taken = taken.taken /\ told.actual = taken.actual
    <2>1. taken \in Search /\ taken.taken = visited.taken + 1 /\ taken.actual = actual
        <3>1. visited.taken + 1 \in Nat /\ actual \in [Capability -> Nat]
            BY <1>4, <1>5
        <3>2. visited \in Search
            BY <1>2
        <3> HIDE DEF visited, actual, taken
        <3> QED
            BY <1>6, <3>1, <3>2 DEF Search
    <2> HIDE DEF taken
    <2> QED
        BY <2>1 DEF Search
<1>8. ASSUME helps
      PROVE  NodesFill(taken) /\ NodesFill(told)
    <2>1. PICK c \in leaf.caps : d.actual[c] < Wanted[c]
        BY <1>8 DEF HelpsSatisfy
    <2>2. c \in Capability /\ visited.actual[c] < Wanted[c]
        <3> HIDE DEF visited
        <3> QED
            BY <1>1, <1>2, <2>1
    <2>3. actual[c] = visited.actual[c] + 1
        <3> HIDE DEF visited
        <3> QED
            BY <2>1, <2>2
    <2> HIDE DEF visited, actual, taken, told
    <2>4. Cardinality(Filled(visited.actual)) + 1 <= Cardinality(Filled(actual))
        BY <1>4, <1>5, <2>2, <2>3, OneMoreFilled
    <2>5. visited.taken <= Cardinality(Filled(visited.actual))
        BY <1>3 DEF NodesFill
    <2>6. Cardinality(Filled(visited.actual)) \in Nat /\ Cardinality(Filled(actual)) \in Nat
        BY UnitsFinite
    <2>7. taken.taken <= Cardinality(Filled(taken.actual))
        BY <1>4, <1>7, <2>4, <2>5, <2>6
    <2> QED
        BY <1>7, <2>7 DEF NodesFill
<1>9. /\ ~helps => Candidate(d, leaf) = Nothing(visited)
      /\ helps => Candidate(d, leaf) \in {Nothing(taken), told}
    BY DEF Candidate
<1> HIDE DEF visited, taken, told, helps, leaf, actual
<1> QED
    BY <1>2, <1>3, <1>7, <1>8, <1>9, TurnFills DEF leaf

LEMMA StepFills ==
    ASSUME SearchOK(dns), NodesFill(dns), DnsNext
    PROVE  NodesFill(dns')
<1>1. dns \in Search
    BY DEF SearchOK
<1>2. ASSUME dns'.taken = dns.taken, dns'.actual = dns.actual
      PROVE  NodesFill(dns')
    BY <1>2 DEF NodesFill
<1>3. CASE FindPeers
    BY <1>3, IdleOK, IdleFills, TurnFills DEF FindPeers
<1>4. CASE GetPeers
    <2> DEFINE collect == [Idle EXCEPT !.collect = TRUE]
    <2>1. collect \in Search /\ collect.taken = Idle.taken /\ collect.actual = Idle.actual
        BY IdleOK DEF Search
    <2>2. dns' = Turn(collect)
        BY <1>4 DEF GetPeers
    <2> HIDE DEF collect
    <2>3. NodesFill(collect)
        BY <2>1, IdleFills DEF NodesFill
    <2> QED
        BY <2>1, <2>2, <2>3, TurnFills
<1>5. CASE Resolve
    <2>1. ASSUME NEW v \in {{}, {dns.at}}, dns' = Nothing([dns EXCEPT !.visits = @ \cup v])
          PROVE  NodesFill(dns')
        <3> DEFINE visited == [dns EXCEPT !.visits = @ \cup v]
        <3>1. visited \in Search /\ visited.taken = dns.taken /\ visited.actual = dns.actual
            BY <1>1 DEF Search
        <3>2. dns' = Nothing(visited)
            BY <2>1
        <3> HIDE DEF visited
        <3> QED
            BY <3>1, <3>2, TurnFills DEF NodesFill
    <2>2. ASSUME NEW s, dns' = Descend(dns, s)
          PROVE  NodesFill(dns')
        <3>1. dns' = [dns EXCEPT !.at = s, !.visits = @ \cup {dns.at}]
            BY <2>2 DEF Descend
        <3> QED
            BY <1>1, <1>2, <3>1 DEF Search
    <2>3. CASE Entry[dns.at].kind = "leaf" /\ dns' = Candidate(dns, Entry[dns.at])
        BY <1>1, <2>3, CandidateFills
    <2> QED
        BY <1>5, <2>1, <2>2, <2>3 DEF Resolve
<1>6. CASE TakeNode
    <2>1. \/ dns' = Idle \/ dns' = NextTurn(dns)
          \/ dns'.taken = dns.taken /\ dns'.actual = dns.actual
        BY <1>1, <1>6 DEF TakeNode, Search
    <2> QED
        BY <1>1, <1>2, <2>1, IdleFills, TurnFills
<1>7. CASE GetTags
    <2>1. \/ dns' = Idle \/ dns' = NextTurn(dns)
          \/ dns'.taken = dns.taken /\ dns'.actual = dns.actual
        BY <1>1, <1>7 DEF GetTags, Search
    <2> QED
        BY <1>1, <1>2, <2>1, IdleFills, TurnFills
<1>8. CASE StoreNode
    <2>1. dns' = [dns EXCEPT !.pc = "dispatch"]
        BY <1>8 DEF StoreNode
    <2> QED
        BY <1>1, <1>2, <2>1 DEF Search
<1>9. CASE DispatchNode
    BY <1>1, <1>9, TurnFills DEF DispatchNode
<1>10. CASE DnsStop
    BY <1>2, <1>10 DEF DnsStop
<1> QED
    BY <1>3, <1>4, <1>5, <1>6, <1>7, <1>8, <1>9, <1>10 DEF DnsNext, DnsStep

LEMMA FilledBounds ==
    ASSUME SearchOK(dns), NodesFill(dns)
    PROVE  NodesBounded
<1>1. dns.taken \in Nat
    BY DEF SearchOK, Search
<1>2. Cardinality(Filled(dns.actual)) \in Nat /\ Cardinality(Units(Wanted)) \in Nat
    BY UnitsFinite
<1>3. Cardinality(Filled(dns.actual)) <= Cardinality(Units(Wanted))
    BY UnitsFinite
<1> QED
    BY <1>1, <1>2, <1>3 DEF NodesFill, NodesBounded, Sum

-----------------------------------------------------------------------------
\* The local peer cache.
LEMMA AddressesOf ==
    ASSUME NEW f
    PROVE  f \in Addresses <=> DOMAIN f \in SUBSET Peer /\ f \in [DOMAIN f -> Addr]
BY DEF Addresses

LEMMA WithoutOK ==
    ASSUME NEW f \in Addresses, NEW p
    PROVE  Without(f, p) \in Addresses /\ DOMAIN Without(f, p) = DOMAIN f \ {p}
BY AddressesOf DEF Without

LEMMA WithOK ==
    ASSUME NEW f \in Addresses, NEW p \in Peer, NEW a \in Addr
    PROVE  /\ With(f, p, a) \in Addresses
           /\ DOMAIN With(f, p, a) = DOMAIN f \cup {p}
           /\ With(f, p, a)[p] = a
           /\ \A q \in DOMAIN f : q # p => With(f, p, a)[q] = f[q]
BY AddressesOf DEF With

LEMMA NoPeersOK == NoPeers \in Addresses /\ DOMAIN NoPeers = {}
<1>1. DOMAIN NoPeers = {}
    BY DEF NoPeers
<1>2. NoPeers \in Seq(Addr) /\ Len(NoPeers) = 0
    BY DEF NoPeers
<1>3. NoPeers \in [DOMAIN NoPeers -> Addr]
    BY <1>1, <1>2
<1> QED
    BY <1>1, <1>3, AddressesOf

LEMMA NotStartingOK == NotStarting \in Loop /\ NotStarting.pc = "idle"
BY NoPeersOK DEF NotStarting, Loop

\* A step of start() or stop().
LEMMA StepLocal ==
    ASSUME StoreTypes, LcTypes, HeardIsKept, LcStart \/ LcStep \/ LcStop
    PROVE  /\ StoreTypes' /\ LcTypes' /\ HeardIsKept'
           /\ announced \subseteq announced'
           /\ \A p \in Peer : LoopOwes(p) => LoopOwes(p)' \/ p \in announced'
           /\ \A p \in Peer : Has(p)' => Has(p) \/ LoopOwes(p)'
           /\ DOMAIN stored \subseteq DOMAIN stored'
<1> USE DEF LcTypes, history
<1>1. CASE LcStart
    <2>1. loop' \in Loop /\ loop'.pc = "has"
        BY <1>1 DEF LcStart, Loop
    <2> QED
        BY <1>1, <2>1 DEF LcStart, StoreTypes, HeardIsKept, HeardIsStored, LoopOwes, Has
<1>2. CASE LcNext
    <2>1. loop' \in Loop /\ (loop'.pc = "save" => loop'.peer \in DOMAIN loop'.left)
          /\ loop'.pc # "dispatch"
        <3>1. CASE DOMAIN loop.left = {}
            BY <1>2, <3>1, NotStartingOK DEF LcNext
        <3>2. CASE DOMAIN loop.left # {}
            <4>1. PICK p \in DOMAIN loop.left :
                    loop' = [loop EXCEPT !.pc = IF Has(p) THEN "has" ELSE "save", !.peer = p,
                               !.left = IF Has(p) THEN Without(@, p) ELSE @]
                BY <1>2, <3>2 DEF LcNext
            <4>2. loop.left \in Addresses /\ p \in Peer
                BY <4>1, AddressesOf DEF Loop
            <4>3. Without(loop.left, p) \in Addresses
                BY <4>2, WithoutOK
            <4> QED
                BY <4>1, <4>2, <4>3 DEF Loop
        <3> QED
            BY <3>1, <3>2
    <2>2. lcStarted' \in BOOLEAN
        BY <1>2 DEF LcNext
    <2>3. /\ loop.pc = "has"
          /\ UNCHANGED <<lcListening, cache, stored, usable, heard, unwritten>>
          /\ UNCHANGED <<peerStore, announced>>
        BY <1>2 DEF LcNext
    <2>4. StoreTypes' /\ HeardIsKept'
        BY <2>3 DEF StoreTypes, HeardIsKept, HeardIsStored
    <2> QED
        BY <2>1, <2>2, <2>3, <2>4 DEF LoopOwes, Has
<1>3. CASE LcSave
    <2>1. loop.pc = "save" /\ loop.left \in Addresses /\ loop.peer \in DOMAIN loop.left
        BY <1>3 DEF LcSave, Loop
    <2>2. loop.peer \in Peer /\ {loop.left[loop.peer]} \in SUBSET Addr
        BY <2>1, AddressesOf
    <2>3. StoresAtMost(loop.peer)
        BY <1>3, <2>2, SaveStores DEF LcSave, Tag
    <2>4. /\ loop' \in Loop /\ loop'.pc = "dispatch"
          /\ loop'.peer = loop.peer /\ loop'.left = loop.left
        BY <1>3 DEF LcSave, Loop
    <2>5. UNCHANGED <<lcStarted, lcListening, cache, stored, usable, heard, unwritten, announced>>
        BY <1>3 DEF LcSave
    <2> QED
        BY <2>1, <2>2, <2>3, <2>4, <2>5
           DEF StoresAtMost, StoreTypes, HeardIsKept, HeardIsStored, LoopOwes
<1>4. CASE LcDispatch
    <2>1. loop.pc = "dispatch" /\ loop.left \in Addresses /\ loop.peer \in Peer
        BY <1>4, AddressesOf DEF LcDispatch, Loop
    <2>2. Without(loop.left, loop.peer) \in Addresses
        BY <2>1, WithoutOK
    <2>3. loop' \in Loop /\ loop'.pc = "has"
        BY <1>4, <2>2 DEF LcDispatch, Loop
    <2>4. announced' = announced \cup {loop.peer}
          /\ UNCHANGED <<lcStarted, lcListening, cache, stored, usable, heard, unwritten>>
          /\ UNCHANGED peerStore
        BY <1>4 DEF LcDispatch, Announce
    <2> QED
        BY <2>1, <2>3, <2>4 DEF StoreTypes, HeardIsKept, HeardIsStored, LoopOwes, Has
<1>5. CASE LcStop
    <2>1. /\ UNCHANGED <<cache, usable, loop, heard, unwritten, peerStore, announced>>
          /\ lcStarted' = FALSE /\ lcListening' = FALSE
        BY <1>5 DEF LcStop
    <2>2. stored' = stored \/ (usable /\ stored' = cache)
        BY <1>5 DEF LcStop, StorePeers
    <2>3. DOMAIN stored \subseteq DOMAIN stored'
        BY <2>2 DEF HeardIsKept
    <2>4. HeardIsStored'
        <3>1. CASE stored' = stored
            BY <2>1, <3>1 DEF HeardIsKept, HeardIsStored
        <3>2. CASE usable /\ stored' = cache
            BY <2>1, <2>3, <3>2 DEF HeardIsKept, HeardIsStored
        <3> QED
            BY <2>2, <3>1, <3>2
    <2>5. HeardIsKept'
        BY <2>1, <2>2, <2>4 DEF HeardIsKept
    <2> QED
        BY <2>1, <2>2, <2>3, <2>5 DEF StoreTypes, LoopOwes, Has
<1> QED
    BY <1>1, <1>2, <1>3, <1>4, <1>5 DEF LcStep

\* The listener writes what the storage has, and the new address; if it cannot, the
\* storage is as it was.
LEMMA StepNewPeer ==
    ASSUME LcTypes, HeardIsKept, NEW p \in Peer, NEW addrs \in SUBSET Addr, HandleNewPeer(p, addrs)
    PROVE  LcTypes' /\ HeardIsKept' /\ UNCHANGED loop /\ DOMAIN stored \subseteq DOMAIN stored'
<1>1. CASE lcListening /\ addrs # {}
    <2> DEFINE read == Reading(usable)
    <2>1. PICK a \in addrs :
            /\ cache' = With(read, p, a)
            /\ (usable /\ stored' = cache') \/ stored' = stored
            /\ heard' = With(heard, p, a)
            /\ unwritten' = IF stored' = cache' THEN unwritten \ {p} ELSE unwritten \cup {p}
        BY <1>1 DEF HandleNewPeer, StorePeers, Hear
    <2>2. UNCHANGED <<lcStarted, lcListening, usable, loop>>
        BY DEF HandleNewPeer
    <2>3. read \in Addresses /\ (usable => read = stored) /\ stored \in Addresses
        BY NoPeersOK DEF LcTypes, Reading
    <2> HIDE DEF read
    <2>4. /\ cache' \in Addresses /\ DOMAIN cache' = DOMAIN read \cup {p} /\ cache'[p] = a
          /\ \A q \in DOMAIN read : q # p => cache'[q] = read[q]
        BY <2>1, <2>3, WithOK
    <2>5. /\ heard' \in Addresses /\ DOMAIN heard' = DOMAIN heard \cup {p} /\ heard'[p] = a
          /\ \A q \in DOMAIN heard : q # p => heard'[q] = heard[q]
        BY <2>1, WithOK DEF LcTypes
    <2>6. LcTypes'
        BY <2>1, <2>2, <2>4, <2>5 DEF LcTypes
    <2>7. DOMAIN stored \subseteq DOMAIN stored'
        BY <2>1, <2>3, <2>4
    <2>8. ASSUME NEW q \in DOMAIN heard' \ unwritten'
          PROVE  /\ q \in DOMAIN stored' /\ stored'[q] = heard'[q]
                 /\ usable => cache'[q] = heard'[q]
        <3>1. CASE q = p
            <4>1. stored' = cache'
                BY <2>1, <2>8, <3>1
            <4> QED
                BY <2>4, <2>5, <3>1, <4>1
        <3>2. CASE q # p
            <4>1. q \in DOMAIN heard \ unwritten
                BY <2>1, <2>5, <2>8, <3>2
            <4>2. q \in DOMAIN stored /\ stored[q] = heard[q] /\ heard'[q] = heard[q]
                BY <2>5, <3>2, <4>1 DEF HeardIsKept, HeardIsStored
            <4>3. usable => cache'[q] = stored[q] /\ q \in DOMAIN cache'
                BY <2>3, <2>4, <3>2, <4>2
            <4> QED
                BY <2>1, <4>2, <4>3
        <3> QED
            BY <3>1, <3>2
    <2>9. usable => DOMAIN stored' \subseteq DOMAIN cache'
        BY <2>1, <2>3, <2>4
    <2>10. HeardIsKept'
        BY <2>2, <2>8, <2>9 DEF HeardIsKept, HeardIsStored
    <2> QED
        BY <2>2, <2>6, <2>7, <2>10
<1>2. CASE ~(lcListening /\ addrs # {})
    BY <1>2 DEF HandleNewPeer, history, LcTypes, HeardIsKept, HeardIsStored
<1> QED
    BY <1>1, <1>2

LEMMA StepRestartLocal ==
    ASSUME LcTypes, HeardIsKept, LcRestart
    PROVE  LcTypes' /\ HeardIsKept' /\ loop'.pc = "idle" /\ stored' = stored
<1>1. UNCHANGED <<stored, heard, unwritten>> /\ loop' = NotStarting
    BY DEF LcRestart, history
<1>2. cache' \in Addresses /\ (usable' => cache' = stored)
    BY NoPeersOK DEF LcRestart, Reading, LcTypes
<1>3. LcTypes'
    BY <1>1, <1>2, NotStartingOK DEF LcRestart, Pages, LcTypes
<1>4. HeardIsKept'
    BY <1>1, <1>2 DEF HeardIsKept, HeardIsStored
<1> QED
    BY <1>1, <1>3, <1>4, NotStartingOK

LEMMA InitLocal == LcInit => LcTypes /\ HeardIsKept /\ loop.pc = "idle"
BY NotStartingOK, NoPeersOK DEF LcInit, LcTypes, HeardIsKept, HeardIsStored, Pages

-----------------------------------------------------------------------------
\* Peer exchange: the lists of what is yet to be done, a step at a time.
LEMMA TodoSteps ==
    /\ Head(<<"diff">>) = "diff"
    /\ Head(<<"save", "dispatch">>) = "save" /\ Tail(<<"save", "dispatch">>) = <<"dispatch">>
    /\ Head(<<"dispatch">>) = "dispatch" /\ Tail(<<"dispatch">>) = <<>>
    /\ Head(<<"patch">>) = "patch" /\ Tail(<<"patch">>) = <<>>
    /\ Head(<<"patch", "merge", "dispatch">>) = "patch"
    /\ Tail(<<"patch", "merge", "dispatch">>) = <<"merge", "dispatch">>
    /\ Head(<<"merge", "dispatch">>) = "merge" /\ Tail(<<"merge", "dispatch">>) = <<"dispatch">>
OBVIOUS

LEMMA TodosDiffer ==
    /\ <<"dispatch">> \notin {<<"diff">>, <<"save", "dispatch">>, <<"patch">>,
                             <<"patch", "merge", "dispatch">>, <<"merge", "dispatch">>, <<>>}
    /\ <<"patch">> # <<"save", "dispatch">> /\ <<"patch">> # <<>>
    /\ <<"patch">> # <<"merge", "dispatch">>
    /\ <<"patch", "merge", "dispatch">> # <<"dispatch">>
    /\ <<"patch", "merge", "dispatch">> # <<"save", "dispatch">>
    /\ <<"patch", "merge", "dispatch">> # <<"merge", "dispatch">>
    /\ <<"patch", "merge", "dispatch">> # <<>>
    /\ <<"diff">> \notin {<<"patch">>, <<"patch", "merge", "dispatch">>}
OBVIOUS

LEMMA DiffTodo ==
    ASSUME NEW p, NEW enr
    PROVE  Diff(p, enr) \in {<<"save", "dispatch">>, <<"patch">>, <<"merge", "dispatch">>,
                            <<"patch", "merge", "dispatch">>, <<>>}
<1>1. <<"patch">> \o <<"merge", "dispatch">> = <<"patch", "merge", "dispatch">>
    <2> DEFINE s == <<"patch">> \o <<"merge", "dispatch">>
               t == <<"patch", "merge", "dispatch">>
    <2>1. <<"patch">> \in Seq({"patch", "merge", "dispatch"}) /\ <<"merge", "dispatch">> \in Seq({"patch", "merge", "dispatch"})
        OBVIOUS
    <2>2. s \in Seq({"patch", "merge", "dispatch"}) /\ Len(s) = 3
        BY <2>1, ConcatProperties
    <2>3. s[1] = "patch" /\ s[2] = "merge" /\ s[3] = "dispatch"
        BY <2>1, ConcatProperties
    <2>4. t \in Seq({"patch", "merge", "dispatch"}) /\ Len(t) = 3
        OBVIOUS
    <2>5. t[1] = "patch" /\ t[2] = "merge" /\ t[3] = "dispatch"
        OBVIOUS
    <2>6. \A i \in 1 .. 3 : i = 1 \/ i = 2 \/ i = 3
        OBVIOUS
    <2> HIDE DEF s, t
    <2>7. s = t
        BY <2>2, <2>3, <2>4, <2>5, <2>6, SeqEqual
    <2> QED
        BY <2>7 DEF s, t
<1>2. <<"patch">> \o <<>> = <<"patch">> /\ <<>> \o <<>> = <<>>
    OBVIOUS
<1>3. <<>> \o <<"merge", "dispatch">> = <<"merge", "dispatch">>
    OBVIOUS
<1> QED
    BY <1>1, <1>2, <1>3 DEF Diff

LEMMA NoChainOK ==
    /\ ChainOK(NoChain) /\ NoChain.pc = "idle"
    /\ \A p \in Server : /\ ChainOK(Query(p)) /\ Query(p).pc = "query" /\ Query(p).peer = p
                        /\ ChainOK([NoChain EXCEPT !.pc = "timer", !.peer = p])
BY DEF NoChain, Query, ChainOK, ChainRecord

\* A chain goes on with its peer, or ends.
LEMMA ChainGoesOn ==
    ASSUME PxTypes, OneChainEach, NEW k \in Chain, chains[k].pc # "idle", NEW c, ChainOK(c),
           c.pc = "idle" \/ c.peer = chains[k].peer,
           chains' = [chains EXCEPT ![k] = c], queryingPeers' = queryingPeers,
           UNCHANGED listening,
           queryAttempts' = queryAttempts
             \/ \E n \in Nat : queryAttempts' = [queryAttempts EXCEPT ![chains[k].peer] = n]
    PROVE  PxTypes' /\ OneChainEach'
<1>1. chains[k].peer \in Server /\ chains[k].peer \in queryingPeers
    BY DEF PxTypes, ChainOK, OneChainEach
<1>2. PxTypes'
    BY <1>1 DEF PxTypes, ChainOK
<1>3. \A p \in Server \ queryingPeers : queryAttempts'[p] = 0
    BY <1>1 DEF PxTypes, OneChainEach
<1> QED
    BY <1>2, <1>3 DEF PxTypes, OneChainEach

LEMMA QueryOver ==
    ASSUME PxTypes, OneChainEach, NEW k \in Chain, chains[k].pc # "idle",
           EndQuery(k) \/ QueryThrows(k)
    PROVE  /\ PxTypes' /\ OneChainEach'
           /\ \A j \in Chain : chains'[j] = chains[j] \/ chains'[j].pc \in {"idle", "timer"}
           /\ \A j \in Chain : j # k => chains'[j] = chains[j]
<1> DEFINE p == chains[k].peer
<1>1. p \in Server /\ p \in queryingPeers
    BY DEF PxTypes, ChainOK, OneChainEach
<1>2. CASE QueryThrows(k)
    <2>1. PxTypes' /\ OneChainEach'
        BY <1>2, NoChainOK, ChainGoesOn DEF QueryThrows
    <2> QED
        BY <1>2, <2>1, NoChainOK DEF QueryThrows, PxTypes
<1>3. CASE EndQuery(k) /\ ~(CurrentAttempt(p) > MaxRetries)
    <2> DEFINE c == [NoChain EXCEPT !.pc = "timer", !.peer = p]
    <2>1. ChainOK(c) /\ c.pc = "timer" /\ c.peer = p
        BY <1>1, NoChainOK DEF NoChain
    <2>2. chains' = [chains EXCEPT ![k] = c] /\ UNCHANGED <<listening, queryingPeers, queryAttempts>>
        BY <1>3 DEF EndQuery
    <2> HIDE DEF c
    <2>3. PxTypes' /\ OneChainEach'
        BY <2>1, <2>2, ChainGoesOn
    <2> QED
        BY <2>1, <2>2, <2>3 DEF PxTypes
<1>4. CASE EndQuery(k) /\ CurrentAttempt(p) > MaxRetries
    <2>1. /\ queryingPeers' = queryingPeers \ {p}
          /\ queryAttempts' = [queryAttempts EXCEPT ![p] = 0]
          /\ chains' = [chains EXCEPT ![k] = NoChain]
          /\ UNCHANGED listening
        BY <1>4 DEF EndQuery
    <2>2. PxTypes'
        BY <1>1, <2>1, NoChainOK DEF PxTypes, ChainOK
    <2>3. chains'[k].pc = "idle" /\ \A j \in Chain : j # k => chains'[j] = chains[j]
        BY <2>1, NoChainOK DEF PxTypes
    <2>4. OneChainEach'
        BY <1>1, <2>1, <2>3 DEF PxTypes, OneChainEach
    <2> QED
        BY <2>2, <2>3, <2>4
<1> QED
    BY <1>2, <1>3, <1>4

\* What a step of chain k leaves: what it stores it owes, unless it patches it.
ChainResult(k) ==
    /\ StoreTypes' /\ PxTypes' /\ OneChainEach'
    /\ announced \subseteq announced'
    /\ \A p \in Peer, j \in Chain : ChainOwes(j, p) => ChainOwes(j, p)' \/ p \in announced'
    /\ \A p \in Peer :
         Has(p)' => Has(p) \/ ChainOwes(k, p)' \/ (Patching(k) /\ p = chains[k].enr.peer)
    /\ \A j \in Chain : Patching(j)' =>
         chains'[j].enr = chains[j].enr /\ (Patching(j) \/ Has(chains[j].enr.peer))

LEMMA StepTimerFires ==
    ASSUME StoreTypes, PxTypes, OneChainEach, NEW k \in Chain, TimerFires(k)
    PROVE  ChainResult(k)
<1> DEFINE p == chains[k].peer
           n == CurrentAttempt(p) + 1
           c == Query(p)
<1>1. chains[k].pc = "timer" /\ p \in Server /\ queryAttempts[p] \in Nat
    BY DEF TimerFires, PxTypes, ChainOK
<1>2. n \in Nat
    BY <1>1 DEF CurrentAttempt
<1>3. ChainOK(c) /\ c.pc = "query" /\ c.peer = p
    BY <1>1, NoChainOK
<1>4. /\ chains' = [chains EXCEPT ![k] = c] /\ queryAttempts' = [queryAttempts EXCEPT ![p] = n]
      /\ UNCHANGED <<listening, queryingPeers, peerStore, announced>>
    BY DEF TimerFires
<1> HIDE DEF c, n
<1>5. PxTypes' /\ OneChainEach'
    <2>1. \E m \in Nat : queryAttempts' = [queryAttempts EXCEPT ![p] = m]
        BY <1>2, <1>4
    <2> QED
        BY <1>1, <1>3, <1>4, <2>1, ChainGoesOn
<1>6. chains'[k].pc = "query" /\ \A j \in Chain : j # k => chains'[j] = chains[j]
    BY <1>3, <1>4 DEF PxTypes
<1> QED
    BY <1>1, <1>4, <1>5, <1>6 DEF ChainResult, StoreTypes, ChainOwes, Has, Patching

LEMMA StepQueryOver ==
    ASSUME StoreTypes, PxTypes, OneChainEach, NEW k \in Chain, chains[k].pc # "idle",
           chains[k].pc # "enr" \/ chains[k].todo # <<"dispatch">>,
           EndQuery(k) \/ QueryThrows(k), UNCHANGED <<peerStore, announced>>
    PROVE  ChainResult(k)
<1>1. /\ PxTypes' /\ OneChainEach'
      /\ \A j \in Chain : chains'[j] = chains[j] \/ chains'[j].pc \in {"idle", "timer"}
      /\ \A j \in Chain : j # k => chains'[j] = chains[j]
    BY QueryOver
<1> QED
    BY <1>1 DEF ChainResult, StoreTypes, ChainOwes, Has, Patching

LEMMA StepNextEnr ==
    ASSUME StoreTypes, PxTypes, OneChainEach, NEW k \in Chain, NextEnr(k)
    PROVE  ChainResult(k)
<1>1. chains[k].pc \in {"query", "next"} /\ chains[k] \in ChainRecord /\ chains[k].peer \in Server
      /\ UNCHANGED <<peerStore, announced>>
    BY DEF NextEnr, PxTypes, ChainOK
<1>2. CASE EndQuery(k)
    BY <1>1, <1>2, StepQueryOver
<1>3. ASSUME NEW e \in Answer,
             Goto(k, [chains[k] EXCEPT !.pc = "enr", !.enr = e, !.told = @ + 1,
                        !.todo = IF Has(e.peer) THEN <<"diff">> ELSE <<"save", "dispatch">>])
      PROVE  ChainResult(k)
    <2> DEFINE todo == IF Has(e.peer) THEN <<"diff">> ELSE <<"save", "dispatch">>
               c == [chains[k] EXCEPT !.pc = "enr", !.enr = e, !.told = @ + 1, !.todo = todo]
    <2>1. todo \in Todos /\ todo # <<"dispatch">>
          /\ todo \notin {<<"patch">>, <<"patch", "merge", "dispatch">>}
        BY TodosDiffer DEF Todos
    <2> HIDE DEF todo
    <2>2. ChainOK(c) /\ c.peer = chains[k].peer /\ c.todo = todo
        <3>1. chains[k].told + 1 \in Nat
            BY <1>1 DEF ChainRecord
        <3>2. c \in ChainRecord
            BY <1>1, <1>3, <2>1, <3>1 DEF ChainRecord
        <3>3. c.enr = e /\ c.peer = chains[k].peer /\ c.todo = todo
            BY <1>1 DEF ChainRecord
        <3> HIDE DEF c
        <3> QED
            BY <1>1, <2>1, <3>2, <3>3 DEF ChainOK
    <2>3. chains' = [chains EXCEPT ![k] = c] /\ UNCHANGED <<listening, queryingPeers, queryAttempts>>
        BY <1>3 DEF Goto, todo
    <2> HIDE DEF c
    <2>4. PxTypes' /\ OneChainEach'
        BY <1>1, <2>2, <2>3, ChainGoesOn
    <2>5. chains'[k] = c /\ \A j \in Chain : j # k => chains'[j] = chains[j]
        BY <2>3 DEF PxTypes
    <2> QED
        BY <1>1, <2>1, <2>2, <2>4, <2>5 DEF ChainResult, StoreTypes, ChainOwes, Has, Patching
<1> QED
    BY <1>2, <1>3 DEF NextEnr

\* The next operation on an ENR: its effect on the chain.
LEMMA ThenGoesOn ==
    ASSUME PxTypes, OneChainEach, NEW k \in Chain, chains[k].pc = "enr",
           NEW todo \in Todos \cup {<<>>}, Then(k, todo)
    PROVE  /\ PxTypes' /\ OneChainEach'
           /\ \A j \in Chain : j # k => chains'[j] = chains[j]
           /\ IF todo = <<>> THEN chains'[k].pc = "next"
              ELSE /\ chains'[k].pc = "enr" /\ chains'[k].todo = todo
                   /\ chains'[k].enr = chains[k].enr
<1> DEFINE c == [chains[k] EXCEPT !.pc = IF todo = <<>> THEN "next" ELSE "enr",
                   !.enr = IF todo = <<>> THEN "none" ELSE @, !.todo = todo]
<1>1. chains[k] \in ChainRecord /\ chains[k].enr \in Answer /\ chains[k].peer \in Server
    BY DEF PxTypes, ChainOK
<1>2. /\ c.pc = (IF todo = <<>> THEN "next" ELSE "enr") /\ c.todo = todo
      /\ c.enr = (IF todo = <<>> THEN "none" ELSE chains[k].enr) /\ c.peer = chains[k].peer
    BY <1>1 DEF ChainRecord
<1>3. c \in ChainRecord
    BY <1>1 DEF ChainRecord
<1>4. chains' = [chains EXCEPT ![k] = c] /\ UNCHANGED <<listening, queryingPeers, queryAttempts>>
    BY DEF Then, Goto
<1> HIDE DEF c
<1>5. ChainOK(c)
    BY <1>1, <1>2, <1>3 DEF ChainOK
<1>6. PxTypes' /\ OneChainEach'
    BY <1>2, <1>4, <1>5, ChainGoesOn
<1>7. chains'[k] = c /\ \A j \in Chain : j # k => chains'[j] = chains[j]
    BY <1>4 DEF PxTypes
<1> QED
    BY <1>2, <1>6, <1>7

LEMMA StepApplyEnr ==
    ASSUME StoreTypes, PxTypes, OneChainEach, NEW k \in Chain, ApplyEnr(k)
    PROVE  ChainResult(k)
<1> DEFINE e == chains[k].enr
           todo == chains[k].todo
           rest == Tail(todo)
<1>1. chains[k].pc = "enr" /\ e \in Answer /\ todo \in Todos
    BY DEF ApplyEnr, PxTypes, ChainOK
<1>2. e.peer \in Peer /\ e.addrs \in SUBSET Addr /\ e.shards \in SUBSET Shard
    BY <1>1, PxAssumption
<1>3. CASE /\ Head(todo) = "diff" /\ UNCHANGED <<peerStore, announced>>
           /\ IF Has(e.peer) THEN Then(k, Diff(e.peer, e)) ELSE QueryThrows(k)
    <2>1. todo # <<"dispatch">>
        BY <1>3, TodoSteps
    <2>2. CASE Has(e.peer)
        <3> DEFINE next == Diff(e.peer, e)
        <3>1. next \in Todos \cup {<<>>} /\ next # <<"dispatch">>
            BY DiffTodo, TodosDiffer DEF Todos
        <3>2. Then(k, next)
            BY <1>3, <2>2
        <3> HIDE DEF next
        <3>3. /\ PxTypes' /\ OneChainEach'
              /\ \A j \in Chain : j # k => chains'[j] = chains[j]
              /\ IF next = <<>> THEN chains'[k].pc = "next"
                 ELSE chains'[k].pc = "enr" /\ chains'[k].todo = next /\ chains'[k].enr = e
            BY <1>1, <3>1, <3>2, ThenGoesOn
        <3> QED
            BY <1>1, <1>3, <2>1, <2>2, <3>1, <3>3
               DEF ChainResult, StoreTypes, ChainOwes, Has, Patching
    <2>3. CASE ~Has(e.peer)
        BY <1>1, <1>3, <2>1, <2>3, StepQueryOver
    <2> QED
        BY <2>2, <2>3
<1>4. CASE Head(todo) = "patch" /\ PatchAddrs(e.peer, e.addrs) /\ UNCHANGED announced /\ Then(k, rest)
    <2>1. /\ todo \in {<<"patch">>, <<"patch", "merge", "dispatch">>}
          /\ rest \in {<<>>, <<"merge", "dispatch">>}
        BY <1>1, <1>4, TodoSteps DEF Todos
    <2>2. rest \in Todos \cup {<<>>} /\ rest # <<"dispatch">> /\ todo # <<"dispatch">>
          /\ rest \notin {<<"patch">>, <<"patch", "merge", "dispatch">>}
        BY <2>1, TodosDiffer DEF Todos
    <2>3. StoresAtMost(e.peer)
        BY <1>2, <1>4, PatchStores
    <2>4. Patching(k)
        BY <1>1, <2>1 DEF Patching
    <2> HIDE DEF rest
    <2>5. /\ PxTypes' /\ OneChainEach'
          /\ \A j \in Chain : j # k => chains'[j] = chains[j]
          /\ IF rest = <<>> THEN chains'[k].pc = "next"
             ELSE chains'[k].pc = "enr" /\ chains'[k].todo = rest /\ chains'[k].enr = e
        BY <1>1, <1>4, <2>2, ThenGoesOn
    <2> QED
        BY <1>1, <1>4, <2>2, <2>3, <2>4, <2>5
           DEF ChainResult, StoreTypes, StoresAtMost, ChainOwes, Patching
<1>5. CASE \/ /\ Head(todo) = "merge" /\ MergeShards(e.peer, e.shards)
              /\ UNCHANGED announced /\ Then(k, rest)
           \/ /\ Head(todo) = "save" /\ Save(e.peer, e.addrs, e.shards, {"peer-exchange"})
              /\ UNCHANGED announced /\ Then(k, rest)
    <2>1. rest = <<"dispatch">> /\ todo # <<"dispatch">>
        BY <1>1, <1>5, TodoSteps DEF Todos
    <2>2. rest \in Todos /\ rest # <<>> /\ rest \notin {<<"patch">>, <<"patch", "merge", "dispatch">>}
        BY <2>1, TodosDiffer DEF Todos
    <2>3. StoresAtMost(e.peer)
        BY <1>2, <1>5, SaveStores, MergeShardsStores DEF Tag
    <2> HIDE DEF rest
    <2>4. /\ PxTypes' /\ OneChainEach'
          /\ \A j \in Chain : j # k => chains'[j] = chains[j]
          /\ IF rest = <<>> THEN chains'[k].pc = "next"
             ELSE chains'[k].pc = "enr" /\ chains'[k].todo = rest /\ chains'[k].enr = e
        BY <1>1, <1>5, <2>2, ThenGoesOn
    <2> QED
        BY <1>1, <1>5, <2>1, <2>2, <2>3, <2>4
           DEF ChainResult, StoreTypes, StoresAtMost, ChainOwes, Patching
<1>6. CASE Head(todo) = "dispatch" /\ Announce(e.peer) /\ Then(k, rest)
    <2>1. rest = <<>>
        BY <1>1, <1>6, TodoSteps DEF Todos
    <2> HIDE DEF rest
    <2>2. /\ PxTypes' /\ OneChainEach'
          /\ \A j \in Chain : j # k => chains'[j] = chains[j]
          /\ chains'[k].pc = "next"
        BY <1>1, <1>6, <2>1, ThenGoesOn
    <2> QED
        BY <1>1, <1>2, <1>6, <2>2
           DEF Announce, ChainResult, StoreTypes, ChainOwes, Has, Patching
<1> QED
    BY <1>3, <1>4, <1>5, <1>6 DEF ApplyEnr

LEMMA StepChain ==
    ASSUME StoreTypes, PxTypes, OneChainEach, NEW k \in Chain, ChainStep(k)
    PROVE  ChainResult(k)
<1>1. CASE QueryFails(k)
    BY <1>1, StepQueryOver DEF QueryFails
<1> QED
    BY <1>1, StepTimerFires, StepNextEnr, StepApplyEnr DEF ChainStep

\* A peer that is identified gets a chain of its own, unless it has one.
LEMMA StepDiscoveredPeer ==
    ASSUME PxTypes, OneChainEach, NEW p \in Server, HandleDiscoveredPeer(p)
    PROVE  /\ PxTypes' /\ OneChainEach'
           /\ \A j \in Chain :
                chains'[j] = chains[j] \/ (chains[j].pc = "idle" /\ chains'[j].pc = "query")
<1>1. CASE listening /\ p \notin queryingPeers
    <2>1. PICK k \in Chain : chains[k].pc = "idle" /\ chains' = [chains EXCEPT ![k] = Query(p)]
        BY <1>1 DEF HandleDiscoveredPeer, StartRecurringQueries
    <2>2. ChainOK(Query(p)) /\ Query(p).pc = "query" /\ Query(p).peer = p
        BY NoChainOK
    <2>3. chains'[k] = Query(p) /\ \A j \in Chain : j # k => chains'[j] = chains[j]
        BY <2>1 DEF PxTypes
    <2>4. queryingPeers' = queryingPeers \cup {p} /\ UNCHANGED <<listening, queryAttempts>>
        BY <1>1 DEF HandleDiscoveredPeer
    <2>5. PxTypes'
        BY <2>1, <2>2, <2>3, <2>4 DEF PxTypes, ChainOK
    <2>6. OneChainEach'
        BY <1>1, <2>2, <2>3, <2>4 DEF OneChainEach
    <2> QED
        BY <2>1, <2>2, <2>3, <2>5, <2>6
<1>2. CASE ~(listening /\ p \notin queryingPeers)
    BY <1>2 DEF HandleDiscoveredPeer, PxTypes, OneChainEach
<1> QED
    BY <1>1, <1>2

-----------------------------------------------------------------------------
LEMMA StepIdentify ==
    ASSUME Inv, NEW p \in Peer, NEW addrs \in Identified, Identify(p, addrs)
    PROVE  Inv'
<1> USE DEF Inv, TypeOK
<1>1. addrs \in SUBSET Addr
    BY DiscoveryAssumption
<1>2. StoresAtMost(p) /\ announced' = announced \cup {p} /\ UNCHANGED <<dns, dnsStarted>>
    BY <1>1, PatchStores DEF Identify, StoreIdentified, dnsVars
<1>3. StoreTypes' /\ DnsTypes'
    BY <1>2 DEF StoresAtMost, StoreTypes, DnsTypes
<1>4. LcTypes' /\ HeardIsKept' /\ UNCHANGED loop
    BY <1>1, StepNewPeer DEF Identify
<1>5. /\ PxTypes' /\ OneChainEach'
      /\ \A j \in Chain :
                chains'[j] = chains[j] \/ (chains[j].pc = "idle" /\ chains'[j].pc = "query")
    <2>1. CASE p \in Server
        BY <2>1, StepDiscoveredPeer DEF Identify
    <2>2. CASE p \notin Server
        BY <2>2 DEF Identify, pxVars, PxTypes, OneChainEach
    <2> QED
        BY <2>1, <2>2
<1>6. \A q \in Peer : Promised(q) => Promised(q)'
    BY <1>2, <1>4, <1>5 DEF Promised, DnsOwes, Told, LoopOwes, ChainOwes
<1>7. \A q \in Peer : Has(q)' => Has(q) \/ Promised(q)'
    BY <1>2 DEF StoresAtMost, Promised
<1>8. \A k \in Chain : Patching(k)' => chains'[k].enr = chains[k].enr /\ Patching(k)
    BY <1>5 DEF Patching
<1>9. PromisesKept'
    BY <1>5, <1>6, <1>7, <1>8, PromisesStep
<1> QED
    BY <1>3, <1>4, <1>5, <1>9

LEMMA StepForget ==
    ASSUME Inv, NEW p \in Peer, Forget(p), UNCHANGED <<dnsVars, pxVars, lcVars>>
    PROVE  Inv'
<1> USE DEF Inv, TypeOK, dnsVars, pxVars, lcVars
<1>1. StoreTypes' /\ UNCHANGED announced /\ \A q \in Peer : Has(q)' => Has(q)
    BY ForgetStores DEF Forget
<1>2. DnsTypes' /\ PxTypes' /\ LcTypes' /\ HeardIsKept' /\ OneChainEach'
    BY DEF DnsTypes, PxTypes, LcTypes, HeardIsKept, HeardIsStored, OneChainEach
<1>3. PromisesKept'
    BY <1>1 DEF PromisesKept, Promised, DnsOwes, Told, LoopOwes, ChainOwes, Patching
<1> QED
    BY <1>1, <1>2, <1>3

\* Nothing is under way, and nobody is in the store.
LEMMA FreshPromises ==
    ASSUME peerStore = [p \in Peer |-> Unknown], announced = {}, chains = [k \in Chain |-> NoChain]
    PROVE  StoreTypes /\ PromisesKept
BY NoChainOK DEF StoreTypes, Data, Unknown, PromisesKept, Has, Patching

LEMMA FreshQueries ==
    ASSUME listening = FALSE, queryingPeers = {}, queryAttempts = [p \in Server |-> 0],
           chains = [k \in Chain |-> NoChain]
    PROVE  PxTypes /\ OneChainEach
<1>1. \A k \in Chain : chains[k] = NoChain /\ ChainOK(chains[k]) /\ chains[k].pc = "idle"
    BY NoChainOK
<1>2. chains \in [Chain -> ChainRecord]
    BY <1>1 DEF ChainOK
<1> QED
    BY <1>1, <1>2 DEF PxTypes, OneChainEach

LEMMA InitInv == Init => Inv
BY FreshPromises, FreshQueries, IdleOK, InitLocal
   DEF Init, StoreInit, DnsInit, PxInit, Inv, TypeOK, DnsTypes

LEMMA StepRestart ==
    ASSUME Inv, Restart
    PROVE  Inv'
<1>1. StoreTypes' /\ PromisesKept'
    <2>1. /\ peerStore' = [p \in Peer |-> Unknown] /\ announced' = {}
          /\ chains' = [k \in Chain |-> NoChain]
        BY DEF Restart, StoreCloses
    <2> QED
        BY <2>1, NoChainOK DEF StoreTypes, Data, Unknown, PromisesKept, Has, Patching
<1>2. PxTypes' /\ OneChainEach'
    <2>1. \A k \in Chain : chains'[k] = NoChain /\ ChainOK(chains'[k]) /\ chains'[k].pc = "idle"
        BY NoChainOK DEF Restart
    <2>2. chains' \in [Chain -> ChainRecord]
        BY <2>1 DEF ChainOK, Restart
    <2> QED
        BY <2>1, <2>2 DEF PxTypes, OneChainEach, Restart
<1>3. DnsTypes'
    BY IdleOK DEF DnsTypes, Restart
<1>4. LcTypes' /\ HeardIsKept'
    BY StepRestartLocal DEF Inv, TypeOK, Restart
<1> QED
    BY <1>1, <1>2, <1>3, <1>4 DEF Inv, TypeOK

LEMMA StepInv ==
    ASSUME Inv, [Next]_vars
    PROVE  Inv'
<1> USE DEF Inv, TypeOK
<1>1. CASE DnsNext /\ UNCHANGED <<pxVars, lcVars>>
    <2>1. /\ StoreTypes' /\ DnsTypes'
          /\ announced \subseteq announced'
          /\ \A p \in Peer : DnsOwes(p) => DnsOwes(p)' \/ p \in announced'
          /\ \A p \in Peer : Has(p)' => Has(p) \/ DnsOwes(p)'
        BY <1>1, StepDns
    <2>2. PxTypes' /\ LcTypes' /\ HeardIsKept' /\ OneChainEach'
        BY <1>1 DEF pxVars, lcVars, PxTypes, LcTypes, HeardIsKept, HeardIsStored, OneChainEach
    <2>3. \A p \in Peer : Promised(p) => Promised(p)'
        BY <1>1, <2>1 DEF pxVars, lcVars, Promised, LoopOwes, ChainOwes
    <2>4. \A p \in Peer : Has(p)' => Has(p) \/ Promised(p)'
        BY <2>1 DEF Promised
    <2>5. \A k \in Chain : Patching(k)' => chains'[k].enr = chains[k].enr /\ Patching(k)
        BY <1>1 DEF pxVars, Patching
    <2>6. PromisesKept'
        BY <2>2, <2>3, <2>4, <2>5, PromisesStep
    <2> QED
        BY <2>1, <2>2, <2>6
<1>2. ASSUME NEW k \in Chain, ChainStep(k), UNCHANGED <<dnsVars, lcVars>>
      PROVE  Inv'
    <2>1. ChainResult(k)
        BY <1>2, StepChain
    <2>2. /\ StoreTypes' /\ PxTypes' /\ OneChainEach'
          /\ announced \subseteq announced'
          /\ \A p \in Peer, j \in Chain : ChainOwes(j, p) => ChainOwes(j, p)' \/ p \in announced'
        BY <2>1 DEF ChainResult
    <2>3. DnsTypes' /\ LcTypes' /\ HeardIsKept'
        BY <1>2 DEF dnsVars, lcVars, DnsTypes, LcTypes, HeardIsKept, HeardIsStored
    <2>4. \A p \in Peer : Promised(p) => Promised(p)'
        BY <1>2, <2>2 DEF dnsVars, lcVars, Promised, DnsOwes, Told, LoopOwes
    <2>5. ASSUME NEW p \in Peer, Has(p)'
          PROVE  Has(p) \/ Promised(p)'
        <3>1. Patching(k) => Promised(chains[k].enr.peer)
            BY DEF PromisesKept
        <3>2. CASE Patching(k) /\ p = chains[k].enr.peer
            BY <2>4, <3>1, <3>2
        <3> QED
            BY <2>1, <2>5, <3>2 DEF ChainResult, Promised
    <2>6. \A j \in Chain : Patching(j)' =>
            chains'[j].enr = chains[j].enr /\ (Patching(j) \/ Promised(chains[j].enr.peer))
        <3>1. ASSUME NEW j \in Chain, Patching(j)'
              PROVE  chains'[j].enr = chains[j].enr /\ (Patching(j) \/ Promised(chains[j].enr.peer))
            <4>1. chains'[j].enr = chains[j].enr /\ (Patching(j) \/ Has(chains[j].enr.peer))
                BY <2>1, <3>1 DEF ChainResult
            <4>2. chains'[j].enr \in Answer
                BY <2>2, <3>1 DEF Patching, PxTypes, ChainOK
            <4>3. chains[j].enr.peer \in Peer
                BY <4>1, <4>2, PxAssumption
            <4> QED
                BY <4>1, <4>3 DEF PromisesKept
        <3> QED
            BY <3>1
    <2>7. PromisesKept'
        BY <2>2, <2>4, <2>5, <2>6, PromisesStep
    <2> QED
        BY <2>2, <2>3, <2>7
<1>3. CASE PxStart /\ UNCHANGED <<dnsVars, lcVars, peerStore, announced>>
    <2> USE <1>3 DEF PxStart, dnsVars, lcVars
    <2>1. StoreTypes' /\ DnsTypes' /\ PxTypes' /\ LcTypes'
        BY DEF StoreTypes, DnsTypes, PxTypes, LcTypes
    <2>2. HeardIsKept' /\ OneChainEach'
        BY DEF HeardIsKept, HeardIsStored, OneChainEach
    <2>3. PromisesKept'
        BY DEF PromisesKept, Has, Promised, DnsOwes, Told, LoopOwes, ChainOwes, Patching
    <2> QED
        BY <2>1, <2>2, <2>3
<1>4. CASE (LcStart \/ LcStep \/ LcStop) /\ UNCHANGED <<dnsVars, pxVars>>
    <2>1. /\ StoreTypes' /\ LcTypes' /\ HeardIsKept'
          /\ announced \subseteq announced'
          /\ \A p \in Peer : LoopOwes(p) => LoopOwes(p)' \/ p \in announced'
          /\ \A p \in Peer : Has(p)' => Has(p) \/ LoopOwes(p)'
        BY <1>4, StepLocal
    <2>2. DnsTypes' /\ PxTypes' /\ OneChainEach'
        BY <1>4 DEF dnsVars, pxVars, DnsTypes, PxTypes, OneChainEach
    <2>3. \A p \in Peer : Promised(p) => Promised(p)'
        BY <1>4, <2>1 DEF dnsVars, pxVars, Promised, DnsOwes, Told, ChainOwes
    <2>4. \A p \in Peer : Has(p)' => Has(p) \/ Promised(p)'
        BY <2>1 DEF Promised
    <2>5. \A k \in Chain : Patching(k)' => chains'[k].enr = chains[k].enr /\ Patching(k)
        BY <1>4 DEF pxVars, Patching
    <2>6. PromisesKept'
        BY <2>2, <2>3, <2>4, <2>5, PromisesStep
    <2> QED
        BY <2>1, <2>2, <2>6
<1>5. CASE UNCHANGED vars
    <2> USE <1>5 DEF vars, dnsVars, pxVars, lcVars
    <2>1. StoreTypes' /\ DnsTypes' /\ PxTypes' /\ LcTypes'
        BY DEF StoreTypes, DnsTypes, PxTypes, LcTypes
    <2>2. HeardIsKept' /\ OneChainEach'
        BY DEF HeardIsKept, HeardIsStored, OneChainEach
    <2>3. PromisesKept'
        BY DEF PromisesKept, Has, Promised, DnsOwes, Told, LoopOwes, ChainOwes, Patching
    <2> QED
        BY <2>1, <2>2, <2>3
<1> QED
    BY <1>1, <1>2, <1>3, <1>4, <1>5, StepIdentify, StepForget, StepRestart DEF Next

\* The inductive invariant of the discoveries that share the peer store: what the
\* caches, the queries and the chains of callbacks remember of it.
THEOREM Invariant == Spec => []Inv
BY InitInv, StepInv, PTL DEF Spec

\* Every variable has its type: what is at work on a peer knows a peer.
THEOREM TypesHold == Spec => []TypeOK
<1>1. Inv => TypeOK
    BY DEF Inv
<1> QED
    BY <1>1, Invariant, PTL

\* A search takes no more nodes than are wanted, whatever the tree, its answers and
\* the capabilities of its nodes, when it runs by itself (fetch_nodes.ts).
THEOREM AloneNodesBounded == DnsSpec => []NodesBounded
<1> DEFINE AloneInv == StoreTypes /\ DnsTypes /\ NodesFill(dns)
<1>1. DnsAloneInit => AloneInv
    <2>1. StoreInit => StoreTypes
        BY DEF StoreInit, StoreTypes, Data, Unknown
    <2>2. DnsInit => DnsTypes /\ NodesFill(dns)
        BY IdleOK, IdleFills DEF DnsInit, DnsTypes
    <2> QED
        BY <2>1, <2>2 DEF DnsAloneInit
<1>2. AloneInv /\ [DnsNext \/ ForgetPeer]_dnsAll => AloneInv'
    <2> SUFFICES ASSUME AloneInv, [DnsNext \/ ForgetPeer]_dnsAll PROVE AloneInv'
        OBVIOUS
    <2>1. CASE DnsNext
        BY <2>1, StepDns, StepFills DEF DnsTypes
    <2>2. CASE ForgetPeer
        BY <2>2 DEF ForgetPeer, Forget, StoreTypes, Data, Unknown, DnsTypes
    <2>3. CASE UNCHANGED dnsAll
        BY <2>3 DEF dnsAll, StoreTypes, DnsTypes
    <2> QED
        BY <2>1, <2>2, <2>3
<1>3. AloneInv => NodesBounded
    BY FilledBounds DEF DnsTypes
<1> HIDE DEF AloneInv
<1> QED
    BY <1>1, <1>2, <1>3, PTL DEF DnsSpec

\* A search takes no more nodes than are wanted among the other discoveries and across
\* restarts of the node (fetch_nodes.ts, dns_discovery.ts).
THEOREM NodesAreBounded == Spec => []NodesBounded
<1>1. Init => NodesFill(dns)
    BY IdleFills DEF Init, DnsInit
<1>2. Inv /\ NodesFill(dns) /\ [Next]_vars => NodesFill(dns)'
    <2> SUFFICES ASSUME Inv, NodesFill(dns), [Next]_vars PROVE NodesFill(dns')
        OBVIOUS
    <2>1. DnsNext \/ dns' = dns \/ dns' = Idle
        BY DEF Next, PxStart, Identify, Restart, vars, dnsVars
    <2> QED
        BY <2>1, IdleFills, StepFills DEF Inv, TypeOK, DnsTypes
<1>3. Inv /\ NodesFill(dns) => NodesBounded
    BY FilledBounds DEF Inv, TypeOK, DnsTypes
<1> QED
    BY <1>1, <1>2, <1>3, Invariant, PTL DEF Spec

\* Whatever is identified, fails, is restarted: one chain at a time queries a peer, and
\* a peer that is given up has no attempts that are counted.
THEOREM QueriesAreTracked == Spec => []QueriesTracked
<1>1. Inv => QueriesTracked
    <2> SUFFICES ASSUME Inv, NEW p \in Server
                 PROVE  IF p \in queryingPeers THEN Cardinality(Active(p)) <= 1
                        ELSE Active(p) = {} /\ queryAttempts[p] = 0
        BY DEF QueriesTracked
    <2> USE DEF Inv, OneChainEach
    <2>1. CASE p \notin queryingPeers
        BY <2>1 DEF Active
    <2>2. CASE p \in queryingPeers /\ Active(p) = {}
        BY <2>2, FS_EmptySet
    <2>3. CASE p \in queryingPeers /\ Active(p) # {}
        <3>1. PICK k \in Chain : k \in Active(p)
            BY <2>3 DEF Active
        <3>2. Active(p) = {k}
            BY <3>1 DEF Active
        <3>3. Cardinality({k}) = 1
            BY FS_Singleton
        <3> QED
            BY <2>3, <3>2, <3>3
    <2> QED
        BY <2>1, <2>2, <2>3
<1> QED
    BY <1>1, Invariant, PTL

\* Whatever is stopped or restarted, at any point, and whatever cannot be written: the
\* storage has the last address of every peer heard of whose address could be written.
THEOREM HeardStaysStored == Spec => []HeardIsStored
<1>1. Inv => HeardIsStored
    BY DEF Inv, HeardIsKept
<1> QED
    BY <1>1, Invariant, PTL

\* No write takes a peer out of the storage, those of stop() and of the listener, which
\* overwrite all of it, included: on a page that may use it they know all that it has.
THEOREM StoredStays == Spec => StorageLosesNone
<1>1. Inv /\ [Next]_vars => [DOMAIN stored \subseteq DOMAIN stored']_stored
    <2> SUFFICES ASSUME Inv, [Next]_vars, stored' # stored
                 PROVE  DOMAIN stored \subseteq DOMAIN stored'
        OBVIOUS
    <2> USE DEF Inv, TypeOK
    <2>1. CASE (LcStart \/ LcStep \/ LcStop) /\ UNCHANGED <<dnsVars, pxVars>>
        BY <2>1, StepLocal
    <2>2. ASSUME NEW p \in Peer, NEW addrs \in Identified, Identify(p, addrs)
          PROVE  DOMAIN stored \subseteq DOMAIN stored'
        <3>1. addrs \in SUBSET Addr
            BY DiscoveryAssumption
        <3> QED
            BY <2>2, <3>1, StepNewPeer DEF Identify
    <2>3. CASE Restart
        BY <2>3, StepRestartLocal DEF Restart
    <2> QED
        BY <2>1, <2>2, <2>3 DEF Next, vars, lcVars
<1> QED
    BY <1>1, Invariant, PTL DEF Spec, StorageLosesNone

\* No peer is in the store that nobody hears of, however the discoveries, identify
\* and the connection manager interleave.
THEOREM StoredPeersAnnounced == Spec => []StoredIsAnnounced
<1>1. Inv => StoredIsAnnounced
    BY DEF Inv, PromisesKept, Promised, DnsOwes, LoopOwes, ChainOwes, StoredIsAnnounced
<1> QED
    BY <1>1, Invariant, PTL
=============================================================================
