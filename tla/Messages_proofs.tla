---------------------------- MODULE Messages_proofs ----------------------------
(***************************************************************************)
(* The conversions, for every input: what is decoded is what was encoded,  *)
(* of every message type and whichever of its fields are set; what a       *)
(* payload is sealed into opens to the payload and its signer; and the     *)
(* parts of a node agree on its shards.                                    *)
(***************************************************************************)
EXTENDS Messages, Sharding, FiniteSetTheorems, SequenceTheorems, WellFoundedInduction, TLAPS

-----------------------------------------------------------------------------
(* Numbers and sequences.                                                  *)

LEMMA LeastNumber ==
    ASSUME NEW S, \A j \in S : j \in Nat, S # {}
    PROVE  \E n \in S : \A m \in S : n <= m
<1>1. IsWellFoundedOn(OpToRel(<, Nat), Nat)
    BY NatLessThanWellFounded
<1> DEFINE R == {p \in Nat \X Nat : p[1] < p[2]}
<1>2. OpToRel(<, Nat) = R
    BY DEF OpToRel
<1>3. IsWellFoundedOn(R, Nat)
    BY <1>1, <1>2
<1>4. PICK n \in S : \A m \in S : <<m, n>> \notin R
    BY <1>3, WFMin
<1>5. \A m \in S : n <= m
    <2> TAKE m \in S
    <2>1. m \in Nat /\ n \in Nat
        BY <1>4
    <2>2. ~(m < n)
        BY <1>4, <2>1
    <2> QED
        BY <2>1, <2>2
<1> QED
    BY <1>5

LEMMA Remainder ==
    ASSUME NEW n \in Nat, NEW m \in Nat, n < m
    PROVE  n % m = n
BY Z3

(***************************************************************************)
(* The places of the members of a finite set of numbers: each has its own, *)
(* and every place is taken.                                               *)
(***************************************************************************)
Place(S, i) == Cardinality({j \in S : j <= i})

LEMMA PlaceOf ==
    ASSUME NEW S, \A j \in S : j \in Nat, IsFiniteSet(S), NEW i \in S
    PROVE  Place(S, i) \in 1 .. Cardinality(S)
<1> DEFINE T == {j \in S : j <= i}
<1>1. T \in SUBSET S /\ i \in T
    OBVIOUS
<1>2. IsFiniteSet(T) /\ Cardinality(T) <= Cardinality(S) /\ Cardinality(T) # 0
    BY <1>1, FS_Subset, FS_EmptySet
<1>3. Cardinality(T) \in Nat /\ Cardinality(S) \in Nat
    BY <1>2, FS_CardinalityType
<1> QED
    BY <1>2, <1>3 DEF Place

LEMMA PlacesDiffer ==
    ASSUME NEW S, \A j \in S : j \in Nat, IsFiniteSet(S), NEW i \in S, NEW k \in S, i < k
    PROVE  Place(S, i) < Place(S, k)
<1> DEFINE T == {j \in S : j <= i}
           U == {j \in S : j <= k}
<1>1. T \in SUBSET U /\ U \in SUBSET S /\ k \in U /\ k \notin T
    OBVIOUS
<1>2. IsFiniteSet(U) /\ IsFiniteSet(T)
    BY <1>1, FS_Subset
<1>3. Cardinality(T) <= Cardinality(U) /\ Cardinality(T) # Cardinality(U)
    BY <1>1, <1>2, FS_Subset
<1>4. Cardinality(T) \in Nat /\ Cardinality(U) \in Nat
    BY <1>2, FS_CardinalityType
<1> QED
    BY <1>3, <1>4 DEF Place

LEMMA EveryPlace ==
    ASSUME NEW S, \A j \in S : j \in Nat, IsFiniteSet(S), NEW k \in 1 .. Cardinality(S)
    PROVE  \E i \in S : Place(S, i) = k
<1> DEFINE n == Cardinality(S)
           f == [i \in S |-> Place(S, i)]
<1>1. n \in Nat
    BY FS_CardinalityType
<1>2. IsFiniteSet(1 .. n) /\ Cardinality(1 .. n) = n
    BY <1>1, FS_Interval
<1>3. f \in [S -> 1 .. n]
    BY PlaceOf
<1>a. \A i, j \in S : i < j => Place(S, i) < Place(S, j)
    BY PlacesDiffer
<1>4. ASSUME NEW i \in S, NEW j \in S, f[i] = f[j] PROVE i = j
    <2>1. Place(S, i) = Place(S, j) /\ Place(S, i) \in Nat
        BY <1>1, <1>3, <1>4
    <2>2. ~(i < j) /\ ~(j < i)
        BY <1>a, <2>1
    <2> QED
        BY <2>2
<1>5. f \in Injection(S, 1 .. n)
    BY <1>3, <1>4 DEF Injection, IsInjective
<1>6. f \in Surjection(S, 1 .. n)
    BY <1>2, <1>5, FS_Injection
<1> QED
    BY <1>6 DEF Surjection

\* InOrder has every member, once and in ascending order.
LEMMA InOrderOf ==
    ASSUME NEW S, \A j \in S : j \in Nat, IsFiniteSet(S)
    PROVE  /\ InOrder(S) \in [1 .. Cardinality(S) -> S]
           /\ InOrder(S) \in Seq(S) /\ Len(InOrder(S)) = Cardinality(S)
           /\ \A k, l \in 1 .. Cardinality(S) : k < l => InOrder(S)[k] < InOrder(S)[l]
           /\ \A i \in S : \E k \in 1 .. Cardinality(S) : InOrder(S)[k] = i
<1> DEFINE n == Cardinality(S)
           q == InOrder(S)
<1>1. n \in Nat
    BY FS_CardinalityType
<1>2. q = [k \in 1 .. n |-> CHOOSE i \in S : Place(S, i) = k]
    BY DEF InOrder, Place
<1> HIDE DEF n, q
<1>3. \A k \in 1 .. n : q[k] \in S /\ Place(S, q[k]) = k
    BY <1>2, EveryPlace DEF n
<1>4. q \in [1 .. n -> S]
    BY <1>2, <1>3
<1>5. q \in Seq(S) /\ Len(q) = n
    BY <1>1, <1>4
<1>a. \A i, j \in S : i < j => Place(S, i) < Place(S, j)
    BY PlacesDiffer
<1>6. ASSUME NEW k \in 1 .. n, NEW l \in 1 .. n, k < l PROVE q[k] < q[l]
    <2>1. q[k] \in S /\ q[l] \in S /\ Place(S, q[k]) = k /\ Place(S, q[l]) = l
        BY <1>3
    <2>2. q[k] \in Nat /\ q[l] \in Nat /\ k \in Nat /\ l \in Nat
        BY <1>1, <1>4, <2>1
    <2>3. q[k] # q[l]
        BY <1>6, <2>1, <2>2
    <2>4. ~(q[l] < q[k])
        <3> SUFFICES ASSUME q[l] < q[k] PROVE FALSE
            OBVIOUS
        <3>1. Place(S, q[l]) < Place(S, q[k])
            BY <1>a, <2>1
        <3> QED
            BY <1>6, <2>1, <2>2, <3>1
    <2> QED
        BY <2>2, <2>3, <2>4
<1>7. ASSUME NEW i \in S PROVE \E k \in 1 .. n : q[k] = i
    <2>1. Place(S, i) \in 1 .. n
        BY PlaceOf DEF n
    <2>2. PICK k \in 1 .. n : k = Place(S, i)
        BY <2>1
    <2>3. Place(S, q[k]) = Place(S, i) /\ q[k] \in S /\ k \in Nat
        BY <1>1, <1>3, <2>2
    <2>4. ~(q[k] < i)
        BY <1>4, <1>a, <2>2, <2>3
    <2>5. ~(i < q[k])
        BY <1>4, <1>a, <2>2, <2>3
    <2>6. q[k] \in Nat /\ i \in Nat
        BY <2>3
    <2> QED
        BY <2>4, <2>5, <2>6
<1> QED
    BY <1>4, <1>5, <1>6, <1>7 DEF n, q

LEMMA AtOf ==
    ASSUME NEW seq, NEW places, IsFiniteSet(places), \A i \in places : i \in Nat
    PROVE  /\ At(seq, places) \in Seq({seq[i] : i \in places})
           /\ DOMAIN At(seq, places) = 1 .. Cardinality(places)
           /\ ToSet(At(seq, places)) = {seq[i] : i \in places}
<1> DEFINE n == Cardinality(places)
           q == InOrder(places)
           a == At(seq, places)
<1>1. n \in Nat
    BY FS_CardinalityType
<1>2. q \in [1 .. n -> places] /\ \A i \in places : \E k \in 1 .. n : q[k] = i
    BY InOrderOf
<1>3. DOMAIN q = 1 .. n
    BY <1>2
<1>4. a = [k \in 1 .. n |-> seq[q[k]]]
    BY <1>3 DEF At
<1> HIDE DEF n, q, a
<1>5. a \in [1 .. n -> {seq[i] : i \in places}]
    BY <1>2, <1>4
<1>6. a \in Seq({seq[i] : i \in places})
    BY <1>1, <1>5
<1>7. DOMAIN a = 1 .. n
    BY <1>4
<1>8. {a[k] : k \in 1 .. n} = {seq[i] : i \in places}
    BY <1>2, <1>4
<1> QED
    BY <1>6, <1>7, <1>8 DEF n, a, ToSet

\* A sequence without what comes again has the same members.
LEMMA UniqueOf ==
    ASSUME NEW T, NEW seq \in Seq(T)
    PROVE  /\ Unique(seq) \in Seq(T)
           /\ ToSet(Unique(seq)) = ToSet(seq)
           /\ seq # <<>> => Unique(seq) # <<>>
<1> DEFINE n == Len(seq)
           F == {i \in DOMAIN seq : \A j \in 1 .. i - 1 : seq[j] # seq[i]}
<1>1. n \in Nat /\ DOMAIN seq = 1 .. n /\ \A i \in 1 .. n : seq[i] \in T
    BY LenProperties, ElementOfSeq
<1>2. F \subseteq 1 .. n /\ \A i \in F : i \in Nat
    BY <1>1
<1>3. IsFiniteSet(F)
    <2>1. IsFiniteSet(1 .. n)
        BY <1>1, FS_Interval
    <2> HIDE DEF F
    <2> QED
        BY <1>2, <2>1, FS_Subset
<1>4. Unique(seq) = At(seq, F)
    BY DEF Unique
<1>5. ASSUME NEW i \in 1 .. n PROVE \E k \in F : seq[k] = seq[i]
    <2> DEFINE S == {k \in 1 .. n : seq[k] = seq[i]}
    <2>1. S \subseteq Nat /\ S # {} /\ \A k \in S : k \in Nat
        BY <1>1
    <2>2. PICK k \in S : \A m \in S : k <= m
        BY <2>1, LeastNumber
    <2>3. \A j \in 1 .. k - 1 : j \in 1 .. n /\ ~(k <= j)
        BY <1>1, <2>2
    <2>4. \A j \in 1 .. k - 1 : seq[j] # seq[k]
        BY <2>2, <2>3
    <2> QED
        BY <1>1, <2>2, <2>4
<1> HIDE DEF F
<1>6. {seq[i] : i \in F} = {seq[i] : i \in 1 .. n}
    BY <1>2, <1>5
<1>7. ToSet(At(seq, F)) = ToSet(seq)
    BY <1>1, <1>2, <1>3, <1>6, AtOf DEF ToSet
<1>8. {seq[i] : i \in F} \subseteq T
    BY <1>1, <1>6
<1>9. At(seq, F) \in Seq(T)
    BY <1>2, <1>3, <1>8, AtOf, SeqMonotonic
<1>10. ASSUME seq # <<>> PROVE At(seq, F) # <<>>
    <2>1. seq[1] \in ToSet(seq)
        BY <1>1, <1>10 DEF ToSet
    <2>2. ToSet(<<>>) = {}
        BY DEF ToSet
    <2> QED
        BY <1>7, <2>1, <2>2
<1> QED
    BY <1>4, <1>7, <1>9, <1>10

-----------------------------------------------------------------------------
(* Shards.                                                                 *)

Topic == {<<c, shard>> : c \in ClusterId, shard \in ShardId}

\* The topics of a cluster for a sequence of shards.
Topics(c, shards) == [i \in DOMAIN shards |-> <<c, shards[i]>>]

TopicSet(c, shards) == {<<c, shard>> : shard \in shards}

LEMMA TopicsOf ==
    ASSUME NEW c \in ClusterId, NEW shards \in Seq(ShardId)
    PROVE  /\ Topics(c, shards) \in Seq(Topic)
           /\ ToSet(Topics(c, shards)) = TopicSet(c, ToSet(shards))
           /\ shards # <<>> => Topics(c, shards) # <<>>
<1>1. Len(shards) \in Nat /\ DOMAIN shards = 1 .. Len(shards)
      /\ \A i \in 1 .. Len(shards) : shards[i] \in ShardId
    BY LenProperties, ElementOfSeq
<1>2. Topics(c, shards) \in [1 .. Len(shards) -> Topic]
    BY <1>1 DEF Topics, Topic
<1>3. Topics(c, shards) \in Seq(Topic)
    BY <1>1, <1>2
<1>4. ToSet(Topics(c, shards)) = TopicSet(c, ToSet(shards))
    BY DEF Topics, TopicSet, ToSet
<1>5. ASSUME shards # <<>> PROVE Topics(c, shards) # <<>>
    <2>1. Len(shards) # 0
        BY <1>1, <1>5, EmptySeq
    <2>2. 1 \in DOMAIN Topics(c, shards)
        BY <1>1, <2>1 DEF Topics
    <2> QED
        BY <2>2
<1> QED
    BY <1>3, <1>4, <1>5

\* Sets of topics of one cluster are told apart by their shards.
LEMMA ShardsOfTopics ==
    ASSUME NEW c, NEW shards
    PROVE  {t[2] : t \in TopicSet(c, shards)} = shards
<1>1. \A t \in TopicSet(c, shards) : t[2] \in shards
    BY DEF TopicSet
<1>2. \A s \in shards : <<c, s>> \in TopicSet(c, shards) /\ <<c, s>>[2] = s
    BY DEF TopicSet
<1> QED
    BY <1>1, <1>2

LEMMA FiniteShards == IsFiniteSet(ShardId) /\ \A s \in ShardId : s \in Nat
<1>1. PICK first \in Int : first = 0
    OBVIOUS
<1>2. PICK last \in Int : last = 1023
    OBVIOUS
<1>3. IsFiniteSet(first .. last)
    BY FS_Interval
<1>4. ShardId = first .. last
    BY <1>1, <1>2 DEF ShardId
<1>5. \A s \in ShardId : s \in Nat
    BY DEF ShardId
<1> QED
    BY <1>3, <1>4, <1>5

\* A record is read as it was written, in either format.
Ones(shards) == {BitPlace(s) : s \in shards}

AsBits(info) ==
    [length |-> 130, cluster |-> info.clusterId % 65536,
     ones |-> {BitPlace(s) : s \in ToSet(info.shards)}]

AsList(info) ==
    [length |-> 3 + 2 * Len(info.shards), cluster |-> info.clusterId % 65536,
     count |-> Len(info.shards) % 256,
     indices |-> [i \in DOMAIN info.shards |-> info.shards[i] % 65536]]

LEMMA Formats ==
    ASSUME NEW info
    PROVE  EncodeRelayShard(info) = IF Len(info.shards) >= 64 THEN AsBits(info) ELSE AsList(info)
BY DEF EncodeRelayShard, AsBits, AsList, Mapped

LEMMA ClusterNumber == \A c \in ClusterId : c % 65536 = c
<1> DEFINE last == 65535
<1>1. ClusterId = 0 .. last
    BY DEF ClusterId
<1>2. last \in Nat /\ last + 1 = 65536
    OBVIOUS
<1> HIDE DEF last
<1>3. \A c \in ClusterId : c \in Nat /\ c < last + 1
    BY <1>1, <1>2
<1>4. \A c \in ClusterId : c % (last + 1) = c
    BY <1>2, <1>3, Remainder
<1> QED
    BY <1>2, <1>4

LEMMA ShardCodec ==
    ASSUME NEW info, NEW c \in ClusterId, NEW shards \in Seq(ShardId),
           info.clusterId = c, info.shards = shards
    PROVE  LET read == DecodeRelayShard(EncodeRelayShard(info))
           IN /\ DOMAIN read = {"clusterId", "shards"}
              /\ read.clusterId = c
              /\ read.shards \in Seq(ShardId)
              /\ ToSet(read.shards) = ToSet(shards)
<1> DEFINE n     == Len(shards)
           bytes == EncodeRelayShard(info)
           read  == DecodeRelayShard(bytes)
<1>1. n \in Nat /\ DOMAIN shards = 1 .. n /\ \A i \in 1 .. n : shards[i] \in ShardId
    BY LenProperties, ElementOfSeq
<1>2. c % 65536 = c
    BY ClusterNumber
<1> HIDE DEF n
<1> SUFFICES \E all \in Seq(ShardId) :
        read = [clusterId |-> c, shards |-> all] /\ ToSet(all) = ToSet(shards)
    OBVIOUS
<1>3. CASE n >= 64
    <2>1. bytes = [length |-> 130, cluster |-> info.clusterId % 65536, ones |-> Ones(ToSet(info.shards))]
        <3>1. Len(info.shards) >= 64
            BY <1>3 DEF n
        <3>2. bytes = AsBits(info)
            BY <3>1, Formats
        <3> QED
            BY <3>2 DEF AsBits, Ones
    <2> HIDE DEF bytes
    <2>2. bytes.length = 130 /\ bytes.cluster = c /\ bytes.ones = Ones(ToSet(shards))
        BY <1>2, <2>1
    <2> DEFINE S == {s \in ShardId : BitPlace(s) \in bytes.ones}
    <2>3. ToSet(shards) \subseteq ShardId
        BY <1>1 DEF ToSet
    <2>4. \A s, t \in ShardId : BitPlace(s) = BitPlace(t) => s = t
        BY DEF BitPlace, ShardId
    <2>5. S = ToSet(shards)
        BY <2>2, <2>3, <2>4 DEF Ones
    <2>6. read = [clusterId |-> bytes.cluster, shards |-> InOrder(S)]
        BY <2>2, Zenon DEF DecodeRelayShard
    <2> HIDE DEF S, read
    <2>7. IsFiniteSet(S) /\ \A s \in S : s \in Nat
        BY <2>3, <2>5, FiniteShards, FS_Subset
    <2>8. InOrder(S) \in [1 .. Cardinality(S) -> S] /\ InOrder(S) \in Seq(S)
          /\ \A i \in S : \E k \in 1 .. Cardinality(S) : InOrder(S)[k] = i
        BY <2>7, InOrderOf
    <2>9. ToSet(InOrder(S)) = S
        BY <2>8 DEF ToSet
    <2>10. InOrder(S) \in Seq(ShardId)
        BY <2>3, <2>5, <2>8, SeqMonotonic
    <2> QED
        BY <2>2, <2>5, <2>6, <2>9, <2>10
<1>4. CASE n < 64
    <2> DEFINE indices == [i \in DOMAIN info.shards |-> info.shards[i] % 65536]
    <2>1. \A s \in ShardId : s % 65536 = s
        <3> TAKE s \in ShardId
        <3>1. s \in Nat /\ s < 65536
            BY DEF ShardId
        <3> QED
            BY <3>1, Remainder
    <2>2. indices = shards
        <3>1. \A i \in DOMAIN shards : shards[i] % 65536 = shards[i]
            BY <1>1, <2>1
        <3>2. shards = [i \in DOMAIN shards |-> shards[i]]
            BY <1>1
        <3> QED
            BY <3>1, <3>2
    <2>3. n % 256 = n /\ 3 + 2 * n # 130 /\ ~(n >= 64)
        BY <1>1, <1>4, Remainder
    <2>4. bytes = [length |-> 3 + 2 * Len(info.shards), cluster |-> info.clusterId % 65536,
                   count |-> Len(info.shards) % 256, indices |-> indices]
        <3>1. ~(Len(info.shards) >= 64)
            BY <2>3 DEF n
        <3>2. bytes = AsList(info)
            BY <3>1, Formats
        <3> QED
            BY <3>2 DEF AsList
    <2> HIDE DEF bytes, indices
    <2>5. /\ bytes.length # 130 /\ bytes.cluster = c
          /\ bytes.indices = shards /\ bytes.count = n
        BY <1>2, <2>2, <2>3, <2>4 DEF n
    <2>6. read = [clusterId |-> bytes.cluster, shards |-> SubSeq(bytes.indices, 1, bytes.count)]
        BY <2>5, Zenon DEF DecodeRelayShard
    <2> HIDE DEF read
    <2>7. SubSeq(shards, 1, n) = shards
        BY SubSeqFull DEF n
    <2> QED
        BY <2>5, <2>6, <2>7
<1> QED
    BY <1>1, <1>3, <1>4

\* The shards that a configuration names, in its order.
ShardsNamed(config) ==
    IF "shards" \in DOMAIN config THEN config.shards
    ELSE [i \in DOMAIN config.contentTopics |-> ShardIndex[config.contentTopics[i]]]

LEMMA ConfigNames ==
    ASSUME NEW config, IsConfig(config)
    PROVE  /\ Cluster(config) \in ClusterId
           /\ ShardsNamed(config) \in Seq(ShardId) \ {<<>>}
<1>1. Cluster(config) \in ClusterId
    BY ShardingAssumption DEF IsConfig, Cluster
<1>2. CASE "shards" \in DOMAIN config
    BY <1>1, <1>2 DEF IsConfig, ShardsNamed
<1>3. CASE "shards" \notin DOMAIN config
    <2> DEFINE all == config.contentTopics
               q   == [i \in DOMAIN all |-> ShardIndex[all[i]]]
    <2>1. all \in Seq(DOMAIN ShardIndex) /\ all # <<>>
        BY <1>3 DEF IsConfig
    <2>2. Len(all) \in Nat /\ Len(all) # 0 /\ DOMAIN all = 1 .. Len(all)
          /\ \A i \in 1 .. Len(all) : all[i] \in DOMAIN ShardIndex
        BY <2>1, LenProperties, ElementOfSeq, EmptySeq
    <2>3. \A t \in DOMAIN ShardIndex : ShardIndex[t] \in ShardId
        BY ShardingAssumption DEF ShardId
    <2>4. ShardsNamed(config) = q
        BY <1>3, Zenon DEF ShardsNamed
    <2> HIDE DEF all
    <2>5. q \in [1 .. Len(all) -> ShardId]
        BY <2>2, <2>3
    <2>6. q \in Seq(ShardId)
        BY <2>2, <2>5
    <2>7. 1 \in DOMAIN q
        BY <2>2
    <2>8. q # <<>>
        BY <2>7
    <2> QED
        BY <1>1, <2>4, <2>6, <2>8
<1> QED
    BY <1>2, <1>3

\* Members of a sequence that is not empty.
LEMMA FirstMember ==
    ASSUME NEW T, NEW seq \in Seq(T), seq # <<>>
    PROVE  seq[1] \in ToSet(seq)
<1>1. Len(seq) \in Nat /\ Len(seq) # 0 /\ DOMAIN seq = 1 .. Len(seq)
    BY LenProperties, EmptySeq
<1>2. 1 \in DOMAIN seq
    BY <1>1
<1> QED
    BY <1>2 DEF ToSet

\* The topics of static sharding, of a configuration or of what a record says.
LEMMA StaticTopics ==
    ASSUME NEW info, NEW c \in ClusterId, NEW shards \in Seq(ShardId),
           DOMAIN info = {"clusterId", "shards"}, info.clusterId = c, info.shards = shards
    PROVE  LET topics == ShardInfoToPubsubTopics(info)
           IN /\ topics \in Seq(Topic)
              /\ ToSet(topics) = TopicSet(c, ToSet(shards))
              /\ shards # <<>> => topics # <<>>
<1>1. Cluster(info) = c
    BY DEF Cluster
<1>2. ShardInfoToPubsubTopics(info) = Unique(Topics(Cluster(info), info.shards))
    BY DEF ShardInfoToPubsubTopics, Mapped, Topics
<1>3. ShardInfoToPubsubTopics(info) = Unique(Topics(c, shards))
    BY <1>1, <1>2
<1> QED
    BY <1>3, TopicsOf, UniqueOf

LEMMA AutoTopics ==
    ASSUME NEW config, "shards" \notin DOMAIN config
    PROVE  Mapped(LAMBDA t : ContentTopicToPubsubTopic(t, Cluster(config)), config.contentTopics)
             = Topics(Cluster(config), ShardsNamed(config))
BY DEF Mapped, ContentTopicToPubsubTopic, Topics, ShardsNamed

LEMMA Derived ==
    ASSUME NEW config, IsConfig(config)
    PROVE  LET topics == DerivePubsubTopics(config)
           IN /\ topics \in Seq(Topic) \ {<<>>}
              /\ ToSet(topics) = TopicSet(Cluster(config), ToSet(ShardsNamed(config)))
<1> DEFINE c      == Cluster(config)
           shards == ShardsNamed(config)
           topics == DerivePubsubTopics(config)
<1>1. c \in ClusterId /\ shards \in Seq(ShardId) /\ shards # <<>>
    BY ConfigNames
<1>2. CASE "shards" \in DOMAIN config
    <2>1. DOMAIN config = {"clusterId", "shards"}
        BY <1>2 DEF IsConfig
    <2>2. config.clusterId = c /\ config.shards = shards
        BY <2>1 DEF Cluster, ShardsNamed
    <2>3. topics = ShardInfoToPubsubTopics(config)
        BY <2>1 DEF DerivePubsubTopics
    <2> QED
        BY <1>1, <2>1, <2>2, <2>3, StaticTopics
<1>3. CASE "shards" \notin DOMAIN config
    <2>1. "contentTopics" \in DOMAIN config
        BY <1>3 DEF IsConfig
    <2>2. topics = Topics(c, shards)
        BY <1>3, <2>1, AutoTopics DEF DerivePubsubTopics
    <2> QED
        BY <1>1, <2>2, TopicsOf
<1> QED
    BY <1>2, <1>3

LEMMA Ensured ==
    ASSUME NEW config, IsConfig(config)
    PROVE  LET ensured == EnsureShardingConfigured(config)
           IN /\ ToSet(ensured.pubsubTopics) = TopicSet(Cluster(config), ToSet(ShardsNamed(config)))
              /\ ensured.shardInfo.clusterId = Cluster(config)
              /\ ToSet(ensured.shardInfo.shards) = ToSet(ShardsNamed(config))
<1> DEFINE c       == Cluster(config)
           shards  == ShardsNamed(config)
           ensured == EnsureShardingConfigured(config)
<1>1. c \in ClusterId /\ shards \in Seq(ShardId) /\ shards # <<>>
    BY ConfigNames
<1>2. CASE "shards" \in DOMAIN config
    <2>1. config.shards = shards
        BY <1>2 DEF ShardsNamed
    <2> DEFINE info == [clusterId |-> c, shards |-> config.shards]
    <2>2. ensured = [shardInfo |-> info, pubsubTopics |-> ShardInfoToPubsubTopics(info)]
        BY <1>1, <1>2, <2>1 DEF EnsureShardingConfigured
    <2>3. DOMAIN info = {"clusterId", "shards"} /\ info.clusterId = c /\ info.shards = shards
        BY <2>1
    <2> HIDE DEF info
    <2>4. ToSet(ShardInfoToPubsubTopics(info)) = TopicSet(c, ToSet(shards))
        BY <1>1, <2>3, StaticTopics
    <2> QED
        BY <2>2, <2>3, <2>4
<1>3. CASE "shards" \notin DOMAIN config
    <2>1. ensured = [shardInfo    |-> [clusterId |-> c, shards |-> Unique(shards)],
                     pubsubTopics |-> Unique(Topics(c, shards))]
        <3>1. Mapped(LAMBDA t : ShardIndex[t], config.contentTopics) = shards
            BY <1>3, Zenon DEF Mapped, ShardsNamed
        <3>2. Mapped(LAMBDA t : ContentTopicToPubsubTopic(t, c), config.contentTopics)
                = Topics(c, shards)
            BY <1>3, AutoTopics
        <3> QED
            BY <1>3, <3>1, <3>2 DEF EnsureShardingConfigured
    <2>2. ToSet(Unique(Topics(c, shards))) = TopicSet(c, ToSet(shards))
          /\ ToSet(Unique(shards)) = ToSet(shards)
        BY <1>1, TopicsOf, UniqueOf
    <2> QED
        BY <2>1, <2>2
<1> QED
    BY <1>2, <1>3

\* What is told in the handshake, of the topics of one cluster.
LEMMA Told ==
    ASSUME NEW c \in ClusterId, NEW S, NEW topics \in Seq(Topic), topics # <<>>,
           ToSet(topics) = TopicSet(c, S)
    PROVE  LET info == PubsubTopicsToShardInfo(topics)
           IN /\ info.clusterId = c
              /\ info.shards \in Seq(ShardId)
              /\ ToSet(info.shards) = S
<1> DEFINE u    == Unique(topics)
           info == PubsubTopicsToShardInfo(topics)
           q    == [i \in DOMAIN u |-> u[i][2]]
<1>1. u \in Seq(Topic) /\ ToSet(u) = TopicSet(c, S)
    BY UniqueOf
<1>2. topics[1] \in TopicSet(c, S)
    BY FirstMember
<1>3. topics[1][1] = c
    BY <1>2 DEF TopicSet
<1>4. info = [clusterId |-> topics[1][1], shards |-> q]
    BY Zenon DEF PubsubTopicsToShardInfo, Mapped
<1> HIDE DEF u, info
<1>5. Len(u) \in Nat /\ DOMAIN u = 1 .. Len(u) /\ \A i \in 1 .. Len(u) : u[i] \in Topic
    BY <1>1, LenProperties, ElementOfSeq
<1>6. \A t \in Topic : t[2] \in ShardId
    BY DEF Topic
<1>7. q \in [1 .. Len(u) -> ShardId]
    BY <1>5, <1>6
<1>8. q \in Seq(ShardId)
    BY <1>5, <1>7
<1>9. ToSet(q) = {t[2] : t \in ToSet(u)}
    BY DEF ToSet
<1>10. ToSet(q) = S
    BY <1>1, <1>9, ShardsOfTopics
<1> HIDE DEF q
<1>11. info.clusterId = c /\ info.shards \in Seq(ShardId) /\ ToSet(info.shards) = S
    BY <1>3, <1>4, <1>8, <1>10
<1> QED
    BY <1>11 DEF info

\* What an application encodes goes where its content topic is grouped.
LEMMA Grouped ==
    ASSUME NEW config, IsConfig(config), "shards" \notin DOMAIN config,
           NEW t \in ToSet(config.contentTopics)
    PROVE  LET topic  == DeterminePubsubTopic(t, [clusterId |-> Cluster(config)])
               groups == ContentTopicsByPubsubTopic(config.contentTopics, Cluster(config))
           IN /\ topic \in TopicSet(Cluster(config), ToSet(ShardsNamed(config)))
              /\ Contains(groups[topic], t)
<1> DEFINE c      == Cluster(config)
           all    == config.contentTopics
           topic  == DeterminePubsubTopic(t, [clusterId |-> c])
           group  == {i \in DOMAIN all : ContentTopicToPubsubTopic(all[i], c) = topic}
           topics == ToSet(Mapped(LAMBDA u : ContentTopicToPubsubTopic(u, c), all))
           groups == ContentTopicsByPubsubTopic(all, c)
<1>1. topic = <<c, ShardIndex[t]>>
    BY DEF DeterminePubsubTopic, Cluster, ContentTopicToPubsubTopic
<1>2. all \in Seq(DOMAIN ShardIndex)
    BY DEF IsConfig
<1>3. Len(all) \in Nat /\ DOMAIN all = 1 .. Len(all)
    BY <1>2, LenProperties
<1> HIDE DEF c
<1>4. PICK i \in DOMAIN all : all[i] = t
    BY DEF ToSet
<1>5. Topics(c, ShardsNamed(config))[i] = topic /\ i \in DOMAIN Topics(c, ShardsNamed(config))
    BY <1>1, <1>4 DEF Topics, ShardsNamed
<1>6. topics = ToSet(Topics(c, ShardsNamed(config)))
    BY AutoTopics DEF c
<1>7. topic \in topics
    BY <1>5, <1>6 DEF ToSet
<1>8. topic \in TopicSet(c, ToSet(ShardsNamed(config)))
    BY <1>6, <1>7, ConfigNames, TopicsOf DEF c
<1>9. groups[topic] = At(all, group)
    BY <1>7 DEF ContentTopicsByPubsubTopic
<1>10. i \in group
    BY <1>1, <1>4 DEF ContentTopicToPubsubTopic
<1>11. IsFiniteSet(group) /\ \A j \in group : j \in Nat
    <2>1. group \subseteq 1 .. Len(all) /\ \A j \in group : j \in Nat
        BY <1>3
    <2>2. IsFiniteSet(1 .. Len(all))
        BY <1>3, FS_Interval
    <2> HIDE DEF group
    <2> QED
        BY <2>1, <2>2, FS_Subset
<1> HIDE DEF group, topic, all, groups
<1>12. t \in ToSet(At(all, group))
    <2>1. ToSet(At(all, group)) = {all[j] : j \in group}
        BY <1>11, AtOf
    <2> QED
        BY <1>4, <1>10, <2>1
<1>13. Contains(groups[topic], t)
    BY <1>9, <1>12 DEF ToSet, Contains
<1> QED
    BY <1>8, <1>13 DEF c, topic, all, groups

\* The topics that the node derives from its configuration, ensures, tells its peers
\* by its record, and groups content topics by are the same (utils, common/sharding and
\* relay_shard_codec.ts).
THEOREM ConfigsAgree ==
    ASSUME NEW config, IsConfig(config)
    PROVE  TopicsAgree(config)
<1> DEFINE c       == Cluster(config)
           S       == ToSet(ShardsNamed(config))
           topics  == DerivePubsubTopics(config)
           info    == PubsubTopicsToShardInfo(topics)
           ensured == EnsureShardingConfigured(config)
           read    == DecodeRelayShard(EncodeRelayShard(info))
<1>1. c \in ClusterId
    BY ConfigNames
<1>2. topics \in Seq(Topic) /\ topics # <<>> /\ ToSet(topics) = TopicSet(c, S)
    BY Derived
<1>3. /\ ToSet(ensured.pubsubTopics) = TopicSet(c, S)
      /\ ensured.shardInfo.clusterId = c
      /\ ToSet(ensured.shardInfo.shards) = S
    BY Ensured
<1> HIDE DEF c, S, topics, ensured
<1>4. info.clusterId = c /\ info.shards \in Seq(ShardId) /\ ToSet(info.shards) = S
    BY <1>1, <1>2, Told
<1> HIDE DEF info
<1>5. /\ DOMAIN read = {"clusterId", "shards"} /\ read.clusterId = c
      /\ read.shards \in Seq(ShardId) /\ ToSet(read.shards) = S
    BY <1>1, <1>4, ShardCodec
<1> HIDE DEF read
<1>6. ToSet(ShardInfoToPubsubTopics(read)) = TopicSet(c, S)
    BY <1>1, <1>5, StaticTopics
<1>7. ASSUME "contentTopics" \in DOMAIN config, NEW t \in ToSet(config.contentTopics)
      PROVE  LET topic  == DeterminePubsubTopic(t, [clusterId |-> c])
                 groups == ContentTopicsByPubsubTopic(config.contentTopics, c)
             IN topic \in ToSet(topics) /\ Contains(groups[topic], t)
    <2>1. "shards" \notin DOMAIN config
        BY <1>7 DEF IsConfig
    <2> QED
        BY <1>2, <1>7, <2>1, Grouped DEF c, S
<1>8. ShardsOf(info) = <<c, S>> /\ ShardsOf(read) = <<c, S>> /\ ShardsOf(ensured.shardInfo) = <<c, S>>
    BY <1>3, <1>4, <1>5 DEF ShardsOf
<1> QED
    BY <1>2, <1>3, <1>6, <1>7, <1>8 DEF TopicsAgree, c, topics, info, ensured, read

-----------------------------------------------------------------------------
(* Messages and their bytes.                                               *)

\* A message type: no two of its fields have one number, or one name.
IsType(type) ==
    /\ type \in Seq(ToSet(type))
    /\ \A i \in DOMAIN type : type[i].label \in {"singular", "optional", "repeated"}
    /\ \A i, j \in DOMAIN type : i # j => type[i].id # type[j].id /\ type[i].name # type[j].name

\* What is written for a repeated field is a sequence.
IsObject(type, obj) ==
    \A f \in ToSet(type) :
      f.label = "repeated" /\ f.name \in DOMAIN obj => obj[f.name] \in Seq(ToSet(obj[f.name]))

LEMMA Singleton ==
    ASSUME NEW value
    PROVE  /\ <<value>> \in Seq({value}) /\ ToSet(<<value>>) = {value}
           /\ <<value>> # <<>> /\ Last(<<value>>) = value
<1>1. <<value>> \in Seq({value}) /\ Len(<<value>>) = 1
    OBVIOUS
<1>2. ToSet(<<value>>) = {value}
    BY DEF ToSet
<1>3. Last(<<value>>) = value
    BY <1>1 DEF Last
<1> QED
    BY <1>1, <1>2, <1>3

\* When one run at most has values, they are what is read.
LEMMA OneRun ==
    ASSUME NEW n \in Nat \ {0}, NEW runs, Len(runs) = n, NEW k \in 1 .. n,
           NEW T, NEW v \in Seq(T),
           runs[k] = v, \A i \in 1 .. n : i # k => runs[i] = <<>>
    PROVE  FlattenSeq(runs) = v
<1> DEFINE Step(f) == [i \in 1 .. Len(runs) |-> IF i = 1 THEN runs[i] ELSE f[i - 1] \o runs[i]]
           F       == [i \in 1 .. n |-> IF i < k THEN <<>> ELSE v]
           flatten == CHOOSE f : f = Step(f)
<1>1. v \o <<>> = v /\ <<>> \o v = v
    BY ConcatEmptySeq
<1>2. <<>> \o <<>> = <<>>
    BY ConcatEmptySeq, EmptySeq
<1>3. k \in Nat /\ 1 <= k /\ k <= n
    OBVIOUS
<1>4. \A i \in 1 .. n : F[i] = IF i = 1 THEN runs[i] ELSE F[i - 1] \o runs[i]
    <2> TAKE i \in 1 .. n
    <2>1. i \in Nat /\ (i # 1 => i - 1 \in 1 .. n)
        OBVIOUS
    <2>2. CASE i = 1
        BY <2>1, <2>2, <1>3
    <2>3. CASE i # 1 /\ i < k
        <3>1. F[i - 1] = <<>> /\ F[i] = <<>> /\ runs[i] = <<>>
            BY <2>1, <2>3, <1>3
        <3> QED
            BY <1>2, <2>3, <3>1
    <2>4. CASE i # 1 /\ i = k
        <3>1. F[i - 1] = <<>> /\ F[i] = v /\ runs[i] = v
            BY <2>1, <2>4, <1>3
        <3> QED
            BY <1>1, <2>4, <3>1
    <2>5. CASE i # 1 /\ k < i
        <3>1. F[i - 1] = v /\ F[i] = v /\ runs[i] = <<>>
            BY <2>1, <2>5, <1>3
        <3> QED
            BY <1>1, <2>5, <3>1
    <2> QED
        BY <2>1, <2>2, <2>3, <2>4, <2>5, <1>3
<1>5. F = Step(F)
    BY <1>4
<1> HIDE DEF F
<1>6. flatten = Step(flatten)
    BY <1>5
<1> HIDE DEF flatten
<1>7. \A i \in 1 .. n : flatten[i] = IF i = 1 THEN runs[i] ELSE flatten[i - 1] \o runs[i]
    BY <1>6
<1>8. \A i \in 1 .. n : flatten[i] = F[i]
    <2> DEFINE S == {i \in 1 .. n : flatten[i] # F[i]}
    <2> SUFFICES ASSUME S # {} PROVE FALSE
        OBVIOUS
    <2>1. \A i \in S : i \in Nat
        OBVIOUS
    <2>2. PICK i \in S : \A m \in S : i <= m
        BY <2>1, LeastNumber
    <2>3. i \in 1 .. n /\ i \in Nat /\ flatten[i] # F[i]
        BY <2>1
    <2>4. CASE i = 1
        BY <1>4, <1>7, <2>3, <2>4
    <2>5. CASE i # 1
        <3>1. i - 1 \in 1 .. n /\ ~(i <= i - 1)
            BY <2>3, <2>5
        <3>2. flatten[i - 1] = F[i - 1]
            BY <2>2, <3>1
        <3> QED
            BY <1>4, <1>7, <2>3, <2>5, <3>2
    <2> QED
        BY <2>4, <2>5
<1>9. F[n] = v
    BY <1>3 DEF F
<1>10. FlattenSeq(runs) = flatten[Len(runs)]
    BY DEF FlattenSeq, flatten
<1> QED
    BY <1>8, <1>9, <1>10

\* The values of a field are those written with its number, and nothing else.
LEMMA WrittenOnce ==
    ASSUME NEW type, IsType(type), NEW obj, IsObject(type, obj), NEW f \in ToSet(type)
    PROVE  Values(f, Encode(type, obj)) = EncodeField(f, obj)
<1> DEFINE n     == Len(type)
           bytes == Encode(type, obj)
           runs  == [i \in DOMAIN bytes |-> IF bytes[i].id = f.id THEN bytes[i].values ELSE <<>>]
           v     == EncodeField(f, obj)
<1>1. n \in Nat /\ DOMAIN type = 1 .. n
    BY LenProperties DEF IsType
<1>2. PICK k \in 1 .. n : type[k] = f
    BY <1>1 DEF ToSet
<1>3. n \in Nat \ {0}
    BY <1>1, <1>2
<1>4. \A i \in 1 .. n : bytes[i].id = type[i].id /\ bytes[i].values = EncodeField(type[i], obj)
    BY <1>1 DEF Encode
<1>5. DOMAIN bytes = 1 .. n
    BY <1>1 DEF Encode
<1>6. Values(f, bytes) = FlattenSeq(runs)
    BY DEF Values
<1> HIDE DEF bytes
<1>7. runs[k] = v
    BY <1>2, <1>4, <1>5
<1>8. \A i \in 1 .. n : i # k => runs[i] = <<>>
    BY <1>1, <1>2, <1>4, <1>5 DEF IsType
<1>9. Len(runs) = n
    BY <1>1, <1>5
<1>10. \E T : v \in Seq(T)
    <2>1. f.label \in {"singular", "optional", "repeated"}
        BY <1>1, <1>2 DEF IsType
    <2>2. CASE f.name \notin DOMAIN obj
        BY <2>2, EmptySeq DEF EncodeField
    <2>3. CASE f.name \in DOMAIN obj /\ f.label = "repeated"
        BY <2>3 DEF EncodeField, IsObject
    <2>4. CASE f.name \in DOMAIN obj /\ f.label \in {"singular", "optional"}
        <3>1. v = <<>> \/ v = <<obj[f.name]>>
            BY <2>4 DEF EncodeField
        <3> DEFINE value == obj[f.name]
        <3> HIDE DEF v, value
        <3>2. CASE v = <<>>
            BY <3>2, EmptySeq
        <3>3. <<value>> \in Seq({value})
            BY Singleton
        <3> QED
            BY <3>1, <3>2, <3>3 DEF value
    <2> QED
        BY <2>1, <2>2, <2>3, <2>4
<1>11. PICK T : v \in Seq(T)
    BY <1>10
<1> HIDE DEF v, runs, n
<1>12. FlattenSeq(runs) = v
    BY <1>2, <1>3, <1>7, <1>8, <1>9, <1>11, OneRun
<1> QED
    BY <1>6, <1>12 DEF v, bytes

LEMMA FieldRead ==
    ASSUME NEW type, IsType(type), NEW obj, IsObject(type, obj), NEW f \in ToSet(type)
    PROVE  /\ DecodeField(f, Encode(type, obj)) = Field(obj, f.name, Zero)
           /\ f.label = "optional" =>
                (Values(f, Encode(type, obj)) # <<>> <=> f.name \in DOMAIN obj)
<1> DEFINE bytes == Encode(type, obj)
           v     == EncodeField(f, obj)
<1>1. Values(f, bytes) = v
    BY WrittenOnce
<1>2. f.label \in {"singular", "optional", "repeated"}
    BY DEF IsType, ToSet
<1> HIDE DEF bytes, v
<1>3. DecodeField(f, bytes) = IF f.label = "repeated" THEN v ELSE IF v = <<>> THEN Zero ELSE Last(v)
    BY <1>1, <1>2 DEF DecodeField
<1>4. CASE f.name \notin DOMAIN obj
    <2>1. v = <<>>
        BY <1>4 DEF v, EncodeField
    <2> QED
        BY <1>1, <1>3, <1>4, <2>1 DEF bytes, Field, Zero
<1>5. CASE f.name \in DOMAIN obj /\ f.label = "repeated"
    <2>1. v = obj[f.name]
        BY <1>5 DEF v, EncodeField
    <2> QED
        BY <1>1, <1>3, <1>5, <2>1 DEF bytes, Field
<1>6. CASE f.name \in DOMAIN obj /\ f.label = "optional"
    <2>1. v = <<obj[f.name]>>
        BY <1>6 DEF v, EncodeField
    <2>2. v # <<>> /\ Last(v) = obj[f.name]
        BY <2>1, Singleton
    <2> QED
        BY <1>1, <1>3, <1>6, <2>2 DEF bytes, Field
<1>7. CASE f.name \in DOMAIN obj /\ f.label = "singular"
    <2>1. v = IF obj[f.name] = Zero THEN <<>> ELSE <<obj[f.name]>>
        BY <1>7 DEF v, EncodeField
    <2>2. CASE obj[f.name] = Zero
        BY <1>3, <1>7, <2>1, <2>2 DEF bytes, Field
    <2>3. CASE obj[f.name] # Zero
        <3>1. v # <<>> /\ Last(v) = obj[f.name]
            BY <2>1, <2>3, Singleton
        <3> QED
            BY <1>3, <1>7, <3>1 DEF bytes, Field
    <2> QED
        BY <2>2, <2>3
<1> QED
    BY <1>2, <1>4, <1>5, <1>6, <1>7

\* What a reader of some of the fields reads: the fields that are set, and those
\* without presence.
Present(reader, obj) == {f \in ToSet(reader) : f.label = "optional" => f.name \in DOMAIN obj}

AsRead(reader, obj) == [name \in {f.name : f \in Present(reader, obj)} |-> Field(obj, name, Zero)]

\* The generated codecs read, of any fields that are set, each as it was written, and
\* nothing else (encode and decode in @waku/proto).
THEOREM RoundTrip ==
    ASSUME NEW type, IsType(type), NEW obj, IsObject(type, obj),
           NEW reader, ToSet(reader) \subseteq ToSet(type)
    PROVE  Decode(reader, Encode(type, obj)) = AsRead(reader, obj)
<1> DEFINE bytes == Encode(type, obj)
           set   == {f \in ToSet(reader) : f.label = "optional" => Values(f, bytes) # <<>>}
<1>1. set = Present(reader, obj)
    BY FieldRead DEF Present
<1>2. \A f \in set : DecodeField(f, bytes) = Field(obj, f.name, Zero)
    BY FieldRead
<1>3. Decode(reader, bytes)
        = [name \in {f.name : f \in set} |-> DecodeField(CHOOSE f \in set : f.name = name, bytes)]
    BY DEF Decode
<1> HIDE DEF set, bytes
<1>4. \A name \in {f.name : f \in set} :
        DecodeField(CHOOSE f \in set : f.name = name, bytes) = Field(obj, name, Zero)
    <2> TAKE name \in {f.name : f \in set}
    <2> DEFINE g == CHOOSE f \in set : f.name = name
    <2>1. g \in set /\ g.name = name
        OBVIOUS
    <2> HIDE DEF g
    <2>2. DecodeField(g, bytes) = Field(obj, name, Zero)
        BY <1>2, <2>1
    <2> QED
        BY <2>2 DEF g
<1> QED
    BY <1>1, <1>3, <1>4 DEF AsRead, bytes

\* An object that has the fields without presence, and no other than those of its type,
\* is read as it was written.
LEMMA WholeRoundTrip ==
    ASSUME NEW type, IsType(type), NEW obj, IsObject(type, obj),
           obj = [name \in DOMAIN obj |-> obj[name]],
           DOMAIN obj \subseteq {f.name : f \in ToSet(type)},
           \A f \in ToSet(type) : f.label # "optional" => f.name \in DOMAIN obj
    PROVE  Decode(type, Encode(type, obj)) = obj
<1>1. Decode(type, Encode(type, obj)) = AsRead(type, obj)
    BY RoundTrip
<1>2. Present(type, obj) = {f \in ToSet(type) : f.name \in DOMAIN obj}
    BY DEF Present
<1>3. {f.name : f \in Present(type, obj)} = DOMAIN obj
    BY <1>2
<1>4. AsRead(type, obj) = obj
    BY <1>3 DEF AsRead, Field
<1> QED
    BY <1>1, <1>4

-----------------------------------------------------------------------------
(* The types of the generated code.                                        *)

LEMMA AsSequence ==
    ASSUME NEW n \in Nat, NEW type, type = [i \in 1 .. n |-> type[i]]
    PROVE  type \in Seq(ToSet(type))
<1>1. DOMAIN type = 1 .. n
    OBVIOUS
<1>2. \A i \in 1 .. n : type[i] \in ToSet(type)
    BY <1>1 DEF ToSet
<1>3. type \in [1 .. n -> ToSet(type)]
    BY <1>2
<1> QED
    BY <1>3

\* Fields in a row.
IsRow(type, n) ==
    /\ type = [i \in 1 .. n |-> type[i]]
    /\ \A i \in 1 .. n : type[i].label \in {"singular", "optional", "repeated"}
    /\ \A i, j \in 1 .. n : i # j => type[i].id # type[j].id
    /\ \A i, j \in 1 .. n : i # j => type[i].name # type[j].name

LEMMA RowIsType ==
    ASSUME NEW n \in Nat, NEW type, IsRow(type, n)
    PROVE  IsType(type)
<1>1. type \in Seq(ToSet(type))
    BY AsSequence DEF IsRow
<1>2. DOMAIN type = 1 .. n
    BY DEF IsRow
<1> QED
    BY <1>1, <1>2 DEF IsRow, IsType

LEMMA EveryType == \A type \in Types : IsType(type)
<1> USE DEF Singular, Optional, Repeated, IsRow
<1>1. IsRow(WakuMessage, 7)
    BY DEF WakuMessage
<1>2. IsRow(RateLimitProof, 7)
    BY DEF RateLimitProof
<1>3. IsRow(TopicOnlyMessage, 1)
    BY DEF TopicOnlyMessage
<1>4. IsRow(PushRequest, 2)
    BY DEF PushRequest
<1>5. IsRow(PushResponse, 2)
    BY DEF PushResponse
<1>6. IsRow(PushRpc, 3)
    BY DEF PushRpc
<1>7. IsRow(PushRateLimitProof, 7)
    BY DEF PushRateLimitProof
<1>8. IsRow(PushWakuMessage, 7)
    BY DEF PushWakuMessage
<1>9. IsRow(FilterSubscribeRequest, 4)
    BY DEF FilterSubscribeRequest
<1>10. IsRow(FilterSubscribeResponse, 3)
    BY DEF FilterSubscribeResponse
<1>11. IsRow(MessagePush, 2)
    BY DEF MessagePush
<1>12. IsRow(FilterRateLimitProof, 7)
    BY DEF FilterRateLimitProof
<1>13. IsRow(FilterWakuMessage, 7)
    BY DEF FilterWakuMessage
<1>14. IsRow(WakuMessageKeyValue, 3)
    BY DEF WakuMessageKeyValue
<1>15. IsRow(StoreQueryRequest, 10)
    BY DEF StoreQueryRequest
<1>16. IsRow(StoreQueryResponse, 5)
    BY DEF StoreQueryResponse
<1>17. IsRow(StoreRateLimitProof, 7)
    BY DEF StoreRateLimitProof
<1>18. IsRow(StoreWakuMessage, 7)
    BY DEF StoreWakuMessage
<1>19. IsRow(WakuMetadataRequest, 2)
    BY DEF WakuMetadataRequest
<1>20. IsRow(WakuMetadataResponse, 2)
    BY DEF WakuMetadataResponse
<1>21. IsRow(PeerInfo, 1)
    BY DEF PeerInfo
<1>22. IsRow(PeerExchangeQuery, 1)
    BY DEF PeerExchangeQuery
<1>23. IsRow(PeerExchangeResponse, 1)
    BY DEF PeerExchangeResponse
<1>24. IsRow(PeerExchangeRPC, 2)
    BY DEF PeerExchangeRPC
<1>25. IsRow(SdsMessage, 6)
    BY DEF SdsMessage
<1>26. IsRow(V1FilterRequest, 3)
    BY DEF V1FilterRequest
<1>27. IsRow(V1ContentFilter, 1)
    BY DEF V1ContentFilter
<1>28. IsRow(V1MessagePush, 1)
    BY DEF V1MessagePush
<1>29. IsRow(V1FilterRpc, 3)
    BY DEF V1FilterRpc
<1>30. IsRow(V1RateLimitProof, 7)
    BY DEF V1RateLimitProof
<1>31. IsRow(V1WakuMessage, 7)
    BY DEF V1WakuMessage
<1> HIDE DEF IsRow
<1> QED
    BY <1>1, <1>2, <1>3, <1>4, <1>5, <1>6, <1>7, <1>8, <1>9, <1>10, <1>11, <1>12, <1>13,
       <1>14, <1>15, <1>16, <1>17, <1>18, <1>19, <1>20, <1>21, <1>22, <1>23, <1>24, <1>25,
       <1>26, <1>27, <1>28, <1>29, <1>30, <1>31, RowIsType DEF Types

-----------------------------------------------------------------------------
(* The sample of some fields: what is set is what has their names.         *)

SampleValue(f) ==
    IF f.label = "repeated" THEN << <<f.id>>, <<1>>, <<f.id>> >> ELSE <<f.id>>

LEMMA SampleOf ==
    ASSUME NEW type, IsType(type), NEW fields, fields \subseteq ToSet(type),
           NEW f \in ToSet(type)
    PROVE  /\ f.name \in DOMAIN Sample(fields) <=> f \in fields
           /\ f \in fields => Sample(fields)[f.name] = SampleValue(f)
<1>1. \A g \in ToSet(type) : g.name = f.name => g = f
    BY DEF IsType, ToSet
<1>2. DOMAIN Sample(fields) = {g.name : g \in fields}
    BY DEF Sample
<1>3. ASSUME f \in fields
      PROVE  Sample(fields)[f.name] = SampleValue(f)
    <2> DEFINE field == CHOOSE g \in fields : g.name = f.name
    <2>1. f.name \in {g.name : g \in fields}
        BY <1>3
    <2>2. Sample(fields)[f.name] = SampleValue(field)
        BY <2>1, Zenon DEF Sample, SampleValue
    <2>3. field = f
        BY <1>1, <1>3
    <2> QED
        BY <2>2, <2>3
<1> QED
    BY <1>1, <1>2, <1>3

LEMMA SampleIsObject ==
    ASSUME NEW type, IsType(type), NEW fields, fields \subseteq ToSet(type)
    PROVE  IsObject(type, Sample(fields))
<1> SUFFICES ASSUME NEW f \in ToSet(type), f.label = "repeated", f.name \in DOMAIN Sample(fields)
             PROVE  Sample(fields)[f.name] \in Seq(ToSet(Sample(fields)[f.name]))
    BY DEF IsObject
<1> DEFINE v == << <<f.id>>, <<1>>, <<f.id>> >>
<1>1. Sample(fields)[f.name] = v
    <2>1. f \in fields
        BY SampleOf
    <2>2. Sample(fields)[f.name] = SampleValue(f)
        BY <2>1, SampleOf
    <2> QED
        BY <2>2 DEF SampleValue
<1>2. v = [i \in 1 .. 3 |-> v[i]]
    OBVIOUS
<1>3. v \in Seq(ToSet(v))
    BY <1>2, AsSequence
<1> QED
    BY <1>1, <1>3

\* A codec that knows some of the fields reads those.
LEMMA ReaderOfSome ==
    ASSUME NEW type, IsType(type), NEW fields, fields \subseteq ToSet(type),
           NEW reader, ToSet(reader) \subseteq ToSet(type)
    PROVE  AsRead(reader, Sample(fields)) = ReadBack(reader, fields \cap ToSet(reader))
<1> DEFINE some == fields \cap ToSet(reader)
           read == {f \in ToSet(reader) : f.label = "optional" => f \in some}
           obj  == Sample(fields)
           part == Sample(some)
<1>1. some \subseteq ToSet(type)
    OBVIOUS
<1>2. \A f \in ToSet(reader) : /\ f.name \in DOMAIN obj <=> f \in some
                               /\ f.name \in DOMAIN part <=> f \in some
                               /\ f \in some => obj[f.name] = part[f.name]
    <2> TAKE f \in ToSet(reader)
    <2>1. f \in ToSet(type) /\ (f \in some <=> f \in fields)
        OBVIOUS
    <2> DEFINE v == SampleValue(f)
    <2> HIDE DEF some, obj, part, v
    <2>2. (f.name \in DOMAIN obj <=> f \in fields) /\ (f \in fields => obj[f.name] = v)
        BY <2>1, SampleOf DEF obj, v
    <2>3. (f.name \in DOMAIN part <=> f \in some) /\ (f \in some => part[f.name] = v)
        BY <1>1, <2>1, SampleOf DEF part, v
    <2> QED
        BY <2>1, <2>2, <2>3
<1>3. ReadBack(reader, some)
        = [name \in {f.name : f \in read} |-> IF name \in DOMAIN part THEN part[name] ELSE Zero]
    BY DEF ReadBack
<1> HIDE DEF some, obj, part
<1>4. Present(reader, obj) = read
    BY <1>2 DEF Present
<1>5. AsRead(reader, obj)
        = [name \in {f.name : f \in read} |-> IF name \in DOMAIN obj THEN obj[name] ELSE Zero]
    BY <1>4 DEF AsRead, Field
<1>6. \A name \in {f.name : f \in read} :
        (IF name \in DOMAIN part THEN part[name] ELSE Zero)
          = (IF name \in DOMAIN obj THEN obj[name] ELSE Zero)
    BY <1>2
<1> QED
    BY <1>3, <1>5, <1>6 DEF some, obj

LEMMA TopicTypes ==
    ASSUME NEW type \in WakuMessages
    PROVE  ToSet(TopicOnlyMessage) \subseteq ToSet(type)
<1>1. ToSet(TopicOnlyMessage) = {Singular(2, "contentTopic")}
    BY Singleton DEF TopicOnlyMessage
<1>2. type[2] = Singular(2, "contentTopic") /\ 2 \in DOMAIN type
    BY DEF WakuMessages, WakuMessage, PushWakuMessage, FilterWakuMessage, StoreWakuMessage,
           V1WakuMessage
<1> QED
    BY <1>1, <1>2 DEF ToSet

\* Every message type: what is set is read back, and what is not set is zero or missing;
\* a codec of the first fields reads those, and that of the relay the content topic.
THEOREM EveryMessageReadsAsWritten ==
    ASSUME NEW type \in Types, NEW fields \in SUBSET ToSet(type)
    PROVE  ReadsAsWritten(type, fields)
<1> DEFINE obj   == Sample(fields)
           bytes == Encode(type, obj)
<1>1. IsType(type) /\ fields \subseteq ToSet(type)
    BY EveryType
<1>2. IsObject(type, obj)
    BY <1>1, SampleIsObject
<1> HIDE DEF obj, bytes
<1>3. ASSUME NEW reader, ToSet(reader) \subseteq ToSet(type)
      PROVE  /\ Decode(reader, bytes) = ReadBack(reader, fields \cap ToSet(reader))
             /\ Decode(reader, bytes) = AsRead(reader, obj)
    BY <1>1, <1>2, <1>3, RoundTrip, ReaderOfSome DEF obj, bytes
<1>4. Decode(type, bytes) = ReadBack(type, fields)
    <2>1. fields \cap ToSet(type) = fields
        OBVIOUS
    <2> QED
        BY <1>3, <2>1
<1>5. ASSUME NEW k \in DOMAIN type
      PROVE  LET older == SubSeq(type, 1, k)
             IN Decode(older, bytes) = ReadBack(older, fields \cap ToSet(older))
    <2> DEFINE older == SubSeq(type, 1, k)
    <2>1. ToSet(older) \subseteq ToSet(type)
        <3>1. type \in Seq(ToSet(type))
            BY <1>1 DEF IsType
        <3>2. DOMAIN type = 1 .. Len(type) /\ Len(type) \in Nat
            BY <3>1, LenProperties
        <3>3. older \in Seq(ToSet(type))
            BY <3>1, <3>2, SubSeqProperties
        <3> QED
            BY <3>3, ElementOfSeq, LenProperties DEF ToSet
    <2> QED
        BY <1>3, <2>1
<1>6. ASSUME type \in WakuMessages
      PROVE  Decode(TopicOnlyMessage, bytes).contentTopic = Decode(type, bytes).contentTopic
    <2> DEFINE topic == Singular(2, "contentTopic")
    <2>1. topic \in ToSet(TopicOnlyMessage) /\ topic \in ToSet(type)
        BY <1>6, TopicTypes, Singleton DEF TopicOnlyMessage
    <2>2. topic.label = "singular" /\ topic.name = "contentTopic"
        BY DEF Singular
    <2>3. ASSUME NEW reader, topic \in ToSet(reader)
          PROVE  AsRead(reader, obj).contentTopic = Field(obj, "contentTopic", Zero)
        <3>1. "contentTopic" \in {f.name : f \in Present(reader, obj)}
            BY <2>2, <2>3 DEF Present
        <3> QED
            BY <3>1, Zenon DEF AsRead
    <2>4. Decode(type, bytes) = AsRead(type, obj)
        BY <1>3
    <2>5. Decode(TopicOnlyMessage, bytes) = AsRead(TopicOnlyMessage, obj)
        BY <1>3, <1>6, TopicTypes
    <2> QED
        BY <2>1, <2>3, <2>4, <2>5
<1> QED
    BY <1>4, <1>5, <1>6 DEF ReadsAsWritten, obj, bytes

-----------------------------------------------------------------------------
(* What is sealed is opened.                                               *)

LEMMA Bytes ==
    ASSUME NEW n \in Nat, n < 16777216
    PROVE  /\ n < 256 => n = n % 256
           /\ n < 65536 => n = (n % 256) + ((n \div 256) % 256) * 256
           /\ n = (n % 256) + ((n \div 256) % 256) * 256 + ((n \div 65536) % 256) * 65536
<1>1. n < 256 => n = n % 256
    BY Z3
<1>2. n < 65536 => n = (n % 256) + ((n \div 256) % 256) * 256
    BY Z3
<1>3. n = (n % 256) + ((n \div 256) % 256) * 256 + ((n \div 65536) % 256) * 65536
    BY Z3
<1> QED
    BY <1>1, <1>2, <1>3

\* The size of a payload is read from its bytes.
LEMMA SizeRead ==
    ASSUME NEW n \in Nat, n < 16777216, NEW size, size = PayloadSizeField(n), NEW message,
           \A i \in 1 .. size : message[i + 1] = LittleEndian(n, size)[i]
    PROVE  size \in 1 .. 3 /\ GetPayloadSize(message, size) = n
<1> DEFINE Step(f) == [i \in 0 .. size |->
                         IF i = 0 THEN 0 ELSE f[i - 1] + message[i + 1] * Weight[i]]
           a    == (n \div 1) % 256
           b    == (n \div 256) % 256
           c    == (n \div 65536) % 256
           F    == [i \in 0 .. size |-> IF i = 0 THEN 0 ELSE IF i = 1 THEN a * 1
                      ELSE IF i = 2 THEN a * 1 + b * 256 ELSE a * 1 + b * 256 + c * 65536]
           upTo == CHOOSE f : f = Step(f)
<1>1. size \in 1 .. 3 /\ (size = 1 => n < 256) /\ (size = 2 => n < 65536)
    BY DEF PayloadSizeField
<1>2. Weight[1] = 1 /\ Weight[2] = 256 /\ Weight[3] = 65536
    BY DEF Weight
<1>3. \A i \in 1 .. size : message[i + 1] = (n \div Weight[i]) % 256
    BY DEF LittleEndian
<1>4. /\ message[1 + 1] = a
      /\ size >= 2 => message[2 + 1] = b
      /\ size = 3 => message[3 + 1] = c
    BY <1>1, <1>2, <1>3
<1>5. a = n % 256 /\ a \in Nat /\ b \in Nat /\ c \in Nat
    BY Z3
<1> HIDE DEF a, b, c
<1>6. \A i \in 0 .. size : F[i] = IF i = 0 THEN 0 ELSE F[i - 1] + message[i + 1] * Weight[i]
    <2> TAKE i \in 0 .. size
    <2>1. CASE i = 0
        BY <2>1
    <2>2. CASE i = 1
        BY <1>1, <1>2, <1>4, <1>5, <2>2
    <2>3. CASE i = 2
        BY <1>1, <1>2, <1>4, <1>5, <2>3
    <2>4. CASE i = 3
        BY <1>1, <1>2, <1>4, <1>5, <2>4
    <2> QED
        BY <1>1, <2>1, <2>2, <2>3, <2>4
<1>7. F = Step(F)
    BY <1>6
<1> HIDE DEF F, Step
<1>8. upTo = Step(upTo)
    BY <1>7
<1> HIDE DEF upTo
<1>9. \A i \in 0 .. size : upTo[i] = IF i = 0 THEN 0 ELSE upTo[i - 1] + message[i + 1] * Weight[i]
    <2> TAKE i \in 0 .. size
    <2>1. \A f : Step(f)[i] = IF i = 0 THEN 0 ELSE f[i - 1] + message[i + 1] * Weight[i]
        BY DEF Step
    <2>2. Step(upTo)[i] = IF i = 0 THEN 0 ELSE upTo[i - 1] + message[i + 1] * Weight[i]
        BY <2>1
    <2> QED
        BY <1>8, <2>2
<1>10. upTo[0] = 0
    BY <1>1, <1>9
<1>11. upTo[1] = a
    BY <1>1, <1>2, <1>4, <1>5, <1>9, <1>10
<1>12. size >= 2 => upTo[2] = a + b * 256
    BY <1>1, <1>2, <1>4, <1>5, <1>9, <1>11
<1>13. size = 3 => upTo[3] = a + b * 256 + c * 65536
    BY <1>1, <1>2, <1>4, <1>5, <1>9, <1>12
<1>14. GetPayloadSize(message, size) = upTo[size]
    BY DEF GetPayloadSize, upTo, Step
<1>15. upTo[size] = n
    BY <1>1, <1>5, <1>11, <1>12, <1>13, Bytes DEF b, c
<1> QED
    BY <1>1, <1>14, <1>15

LEMMA JoinedSeq ==
    ASSUME NEW U, NEW s \in Seq(U), NEW t \in Seq(U), NEW all, all = s \o t
    PROVE  /\ all \in Seq(U) /\ Len(all) = Len(s) + Len(t)
           /\ \A i \in 1 .. Len(s) : all[i] = s[i]
           /\ \A i \in 1 .. Len(t) : all[Len(s) + i] = t[i]
<1>1. Len(s) \in Nat /\ Len(t) \in Nat
    BY LenProperties
<1>2. all \in Seq(U) /\ Len(all) = Len(s) + Len(t)
    BY ConcatProperties
<1>3. \A i \in 1 .. Len(s) + Len(t) : all[i] = IF i <= Len(s) THEN s[i] ELSE t[i - Len(s)]
    BY ConcatProperties
<1>4. \A i \in 1 .. Len(s) : all[i] = s[i]
    BY <1>1, <1>3
<1>5. \A i \in 1 .. Len(t) : all[Len(s) + i] = t[i]
    <2> TAKE i \in 1 .. Len(t)
    <2>1. Len(s) + i \in 1 .. Len(s) + Len(t) /\ ~(Len(s) + i <= Len(s)) /\ (Len(s) + i) - Len(s) = i
        BY <1>1
    <2> QED
        BY <1>3, <2>1
<1> QED
    BY <1>2, <1>4, <1>5

\* The part of a sequence after another.
LEMMA PartOf ==
    ASSUME NEW U, NEW s \in Seq(U), NEW V, NEW t \in Seq(V), NEW k \in Nat,
           k + Len(t) <= Len(s), \A i \in 1 .. Len(t) : s[k + i] = t[i]
    PROVE  SubSeq(s, k + 1, k + Len(t)) = t
<1> DEFINE n == Len(t)
           q == SubSeq(s, k + 1, k + n)
<1>1. n \in Nat /\ DOMAIN t = 1 .. n /\ Len(s) \in Nat /\ DOMAIN s = 1 .. Len(s)
    BY LenProperties
<1> HIDE DEF n
<1>2. q = [i \in 1 .. n |-> s[k + i]]
    <2>1. q \in Seq(U)
        BY <1>1, SubSeqProperties DEF n
    <2>2. Len(q) = n
        BY <1>1, SubSeqProperties DEF n
    <2>3. \A i \in 1 .. n : q[i] = s[k + i]
        <3> TAKE i \in 1 .. n
        <3>1. q[i] = s[(k + 1) + i - 1]
            BY <1>1, SubSeqProperties DEF n
        <3>2. (k + 1) + i - 1 = k + i
            BY <1>1
        <3> QED
            BY <3>1, <3>2
    <2>4. q = [i \in 1 .. n |-> q[i]]
        BY <2>1, <2>2, LenProperties
    <2> QED
        BY <2>3, <2>4
<1>3. \A i \in 1 .. n : s[k + i] = t[i]
    BY DEF n
<1>4. t = [i \in 1 .. n |-> t[i]]
    BY <1>1
<1> HIDE DEF q
<1>5. q = t
    BY <1>2, <1>3, <1>4
<1> QED
    BY <1>5 DEF q, n

\* The first bytes of an envelope: flags, the size of the payload, the payload, padding.
LEMMA EnvelopeParts ==
    ASSUME NEW U, NEW flags \in U, NEW sizes \in Seq(U), NEW payload \in Seq(U), NEW pad \in Seq(U),
           NEW all, all = <<flags>> \o sizes \o payload \o pad
    PROVE  /\ all \in Seq(U)
           /\ Len(all) = 1 + Len(sizes) + Len(payload) + Len(pad)
           /\ all[1] = flags
           /\ \A i \in 1 .. Len(sizes) : all[1 + i] = sizes[i]
           /\ \A i \in 1 .. Len(payload) : all[(1 + Len(sizes)) + i] = payload[i]
<1> DEFINE p1 == <<flags>>
           p2 == p1 \o sizes
           p3 == p2 \o payload
<1>a. p2 = p1 \o sizes
    OBVIOUS
<1>b. p3 = p2 \o payload
    OBVIOUS
<1>c. all = p3 \o pad
    OBVIOUS
<1>1. p1 \in Seq(U) /\ Len(p1) = 1 /\ p1[1] = flags
    OBVIOUS
<1>2. Len(sizes) \in Nat /\ Len(payload) \in Nat /\ Len(pad) \in Nat
    BY LenProperties
<1> HIDE DEF p1, p2, p3
<1>3. /\ p2 \in Seq(U) /\ Len(p2) = 1 + Len(sizes)
      /\ p2[1] = flags /\ \A i \in 1 .. Len(sizes) : p2[1 + i] = sizes[i]
    <2>1. p1 \in Seq(U)
        BY <1>1
    <2>2. /\ p2 \in Seq(U) /\ Len(p2) = Len(p1) + Len(sizes)
          /\ \A i \in 1 .. Len(p1) : p2[i] = p1[i]
          /\ \A i \in 1 .. Len(sizes) : p2[Len(p1) + i] = sizes[i]
        BY <1>a, <2>1, JoinedSeq
    <2>3. 1 \in 1 .. Len(p1)
        BY <1>1
    <2> QED
        BY <1>1, <2>2, <2>3
<1>4. /\ p3 \in Seq(U) /\ Len(p3) = 1 + Len(sizes) + Len(payload)
      /\ \A i \in 1 .. 1 + Len(sizes) : p3[i] = p2[i]
      /\ \A i \in 1 .. Len(payload) : p3[(1 + Len(sizes)) + i] = payload[i]
    <2>1. p2 \in Seq(U)
        BY <1>3
    <2>2. /\ p3 \in Seq(U) /\ Len(p3) = Len(p2) + Len(payload)
          /\ \A i \in 1 .. Len(p2) : p3[i] = p2[i]
          /\ \A i \in 1 .. Len(payload) : p3[Len(p2) + i] = payload[i]
        BY <1>b, <2>1, JoinedSeq
    <2> QED
        BY <1>3, <2>2
<1>5. /\ all \in Seq(U) /\ Len(all) = 1 + Len(sizes) + Len(payload) + Len(pad)
      /\ \A i \in 1 .. 1 + Len(sizes) + Len(payload) : all[i] = p3[i]
    BY <1>4, <1>c, JoinedSeq
<1>6. 1 \in 1 .. 1 + Len(sizes) /\ 1 \in 1 .. 1 + Len(sizes) + Len(payload)
    BY <1>2
<1>7. all[1] = flags
    BY <1>3, <1>4, <1>5, <1>6
<1>8. ASSUME NEW i \in 1 .. Len(sizes) PROVE all[1 + i] = sizes[i]
    <2>1. 1 + i \in 1 .. 1 + Len(sizes) /\ 1 + i \in 1 .. 1 + Len(sizes) + Len(payload)
        BY <1>2
    <2> QED
        BY <1>3, <1>4, <1>5, <2>1
<1>9. ASSUME NEW i \in 1 .. Len(payload) PROVE all[(1 + Len(sizes)) + i] = payload[i]
    <2>1. (1 + Len(sizes)) + i \in 1 .. 1 + Len(sizes) + Len(payload)
        BY <1>2
    <2> QED
        BY <1>4, <1>5, <2>1
<1> QED
    BY <1>5, <1>7, <1>8, <1>9

\* A payload that is sealed, signed or not, opens to itself and its signer (preCipher
\* and postCipher in message-encryption).
THEOREM SealedOpens ==
    ASSUME NEW T, NEW payload \in Seq(T), Len(payload) < 16777216, NEW signer
    PROVE  PostCipher(PreCipher(payload, signer)) = {[payload |-> payload, signer |-> signer]}
<1> DEFINE n        == Len(payload)
           size     == PayloadSizeField(n)
           signed   == signer # NoKey
           rawSize  == 1 + size + n + (IF signed THEN SignatureLength ELSE 0)
           pad      == [i \in 1 .. PaddingTarget - (rawSize % PaddingTarget) |-> 0]
           flags    == size + (IF signed THEN IsSignedMask ELSE 0)
           sizes    == LittleEndian(n, size)
           envelope == <<flags>> \o sizes \o payload \o pad
           sign     == [key |-> signer, hash |-> envelope]
           signs    == [i \in 1 .. SignatureLength |-> sign]
           message  == PreCipher(payload, signer)
           U        == T \cup Int \cup {sign}
<1>1. n \in Nat /\ n < 16777216
    BY LenProperties
<1>2. size \in 1 .. 3
    BY <1>1 DEF PayloadSizeField
<1>3. message = IF signed THEN envelope \o signs ELSE envelope
    BY DEF PreCipher
<1> HIDE DEF size, n
<1>4. flags \in Int /\ flags % 4 = size /\ ((flags \div 4) % 2 = 1 <=> signed)
    <2>1. CASE signed
        BY <1>2, <2>1, Z3 DEF IsSignedMask
    <2>2. CASE ~signed
        BY <1>2, <2>2, Z3 DEF IsSignedMask
    <2> QED
        BY <2>1, <2>2
<1>5. sizes \in Seq(Int) /\ Len(sizes) = size
    <2>1. sizes = [i \in 1 .. size |-> (n \div Weight[i]) % 256]
        BY DEF LittleEndian
    <2>2. \A i \in 1 .. size : (n \div Weight[i]) % 256 \in Int
        <3>1. Weight[1] = 1 /\ Weight[2] = 256 /\ Weight[3] = 65536
            BY DEF Weight
        <3>2. (n \div 1) % 256 \in Int /\ (n \div 256) % 256 \in Int /\ (n \div 65536) % 256 \in Int
            BY <1>1
        <3> QED
            BY <1>2, <3>1, <3>2
    <2>3. sizes \in [1 .. size -> Int]
        BY <2>1, <2>2
    <2> QED
        BY <1>2, <2>3
<1>6. pad \in Seq(Int)
    <2> DEFINE m == PaddingTarget - (rawSize % PaddingTarget)
    <2>1. rawSize \in Nat
        BY <1>1, <1>2 DEF SignatureLength
    <2> HIDE DEF rawSize
    <2>2. m \in Nat
        BY <2>1, Z3 DEF PaddingTarget
    <2> HIDE DEF m
    <2>3. [i \in 1 .. m |-> 0] \in [1 .. m -> Int]
        OBVIOUS
    <2>4. [i \in 1 .. m |-> 0] \in Seq(Int)
        BY <2>2, <2>3
    <2> QED
        BY <2>4 DEF m
<1> HIDE DEF flags, sizes, pad
<1>7. flags \in U /\ sizes \in Seq(U) /\ payload \in Seq(U) /\ pad \in Seq(U)
    <2>1. T \subseteq U /\ Int \subseteq U
        OBVIOUS
    <2> HIDE DEF U
    <2> QED
        BY <1>4, <1>5, <1>6, <2>1, SeqMonotonic
<1>s. sign \in U
    OBVIOUS
<1>k. sign.key = signer /\ sign.hash = envelope
    OBVIOUS
<1> HIDE DEF U, sign
<1>8. /\ envelope \in Seq(U) /\ Len(envelope) >= 1 + size + n
      /\ envelope[1] = flags
      /\ \A i \in 1 .. size : envelope[1 + i] = sizes[i]
      /\ \A i \in 1 .. n : envelope[(1 + size) + i] = payload[i]
    <2>1. Len(pad) \in Nat
        BY <1>6, LenProperties
    <2>2. /\ envelope \in Seq(U)
          /\ Len(envelope) = 1 + Len(sizes) + Len(payload) + Len(pad)
          /\ envelope[1] = flags
          /\ \A i \in 1 .. Len(sizes) : envelope[1 + i] = sizes[i]
          /\ \A i \in 1 .. Len(payload) : envelope[(1 + Len(sizes)) + i] = payload[i]
        BY <1>7, EnvelopeParts
    <2> HIDE DEF envelope
    <2>3. Len(sizes) = size /\ Len(payload) = n
        BY <1>5 DEF n
    <2> QED
        BY <1>1, <1>2, <2>1, <2>2, <2>3
<1> HIDE DEF envelope
<1>9. Len(envelope) \in Nat
    BY <1>8, LenProperties
<1>10. signs \in Seq(U) /\ Len(signs) = SignatureLength /\ signs[65] = sign
    <2>1. signs \in [1 .. SignatureLength -> U]
        BY <1>s
    <2> QED
        BY <2>1 DEF SignatureLength
<1> HIDE DEF signs
<1>11. /\ message \in Seq(U) /\ Len(message) >= Len(envelope)
       /\ \A i \in 1 .. Len(envelope) : message[i] = envelope[i]
    <2>1. CASE signed
        <3>1. message = envelope \o signs
            BY <1>3, <2>1
        <3> HIDE DEF message
        <3> QED
            BY <1>8, <1>9, <1>10, <3>1, JoinedSeq DEF SignatureLength
    <2>2. CASE ~signed
        <3>1. message = envelope
            BY <1>3, <2>2
        <3> HIDE DEF message
        <3> QED
            BY <1>8, <1>9, <3>1
    <2> QED
        BY <2>1, <2>2
<1>12. ASSUME signed PROVE RecoverKey(message) = signer
    <2>1. message = envelope \o signs
        BY <1>3, <1>12
    <2> DEFINE k == Len(envelope)
    <2> HIDE DEF message
    <2>2. Len(message) = k + 65 /\ message[k + 65] = sign
        <3>1. 65 \in 1 .. Len(signs) /\ Len(signs) = 65
            BY <1>10 DEF SignatureLength
        <3>2. envelope \in Seq(U) /\ signs \in Seq(U)
            BY <1>8, <1>10
        <3>3. /\ Len(message) = Len(envelope) + Len(signs)
              /\ \A i \in 1 .. Len(signs) : message[Len(envelope) + i] = signs[i]
            BY <2>1, <3>2, JoinedSeq
        <3> QED
            BY <1>10, <3>1, <3>3
    <2> HIDE DEF k
    <2>4. Last(message) = sign
        BY <2>2 DEF Last
    <2>5. Len(message) - SignatureLength = k
        BY <1>9, <2>2 DEF SignatureLength, k
    <2>6. SubSeq(message, 1, k) = envelope
        <3>1. SubSeq(message, 0 + 1, 0 + Len(envelope)) = envelope
            <4>1. \A i \in 1 .. Len(envelope) : message[0 + i] = envelope[i]
                <5> TAKE i \in 1 .. Len(envelope)
                <5>1. 0 + i = i
                    BY <1>9
                <5> QED
                    BY <1>11, <5>1
            <4>2. Len(message) \in Nat /\ 0 + Len(envelope) <= Len(message)
                BY <1>9, <1>11, LenProperties
            <4> QED
                BY <1>8, <1>11, <4>1, <4>2, PartOf
        <3>2. 0 + 1 = 1 /\ 0 + Len(envelope) = k
            BY <1>9 DEF k
        <3> QED
            BY <3>1, <3>2
    <2>7. RecoverKey(message)
            = IF Last(message).hash = SubSeq(message, 1, Len(message) - SignatureLength)
                THEN Last(message).key ELSE NoKey
        BY DEF RecoverKey
    <2> QED
        BY <1>k, <2>4, <2>5, <2>6, <2>7
<1> HIDE DEF message
<1>13. message[1] = flags
    <2>1. 1 \in 1 .. Len(envelope)
        BY <1>1, <1>2, <1>8, <1>9
    <2> QED
        BY <1>8, <1>11, <2>1
<1>14. GetPayloadSize(message, size) = n
    <2>1. \A i \in 1 .. size : message[i + 1] = LittleEndian(n, size)[i]
        <3> TAKE i \in 1 .. size
        <3>1. i + 1 \in 1 .. Len(envelope) /\ i + 1 = 1 + i
            BY <1>1, <1>2, <1>8, <1>9
        <3> QED
            BY <1>8, <1>11, <3>1 DEF sizes
    <2> QED
        BY <1>1, <2>1, SizeRead DEF size
<1>15. SubSeq(message, (1 + size) + 1, (1 + size) + n) = payload
    <2>1. \A i \in 1 .. n : message[(1 + size) + i] = payload[i]
        <3> TAKE i \in 1 .. n
        <3>1. (1 + size) + i \in 1 .. Len(envelope)
            BY <1>1, <1>2, <1>8, <1>9
        <3> QED
            BY <1>8, <1>11, <3>1
    <2>2. (1 + size) \in Nat /\ Len(message) \in Nat /\ (1 + size) + n <= Len(message)
        BY <1>1, <1>2, <1>8, <1>9, <1>11, LenProperties
    <2> DEFINE k == 1 + size
    <2>3. \A i \in 1 .. Len(payload) : message[k + i] = payload[i]
        BY <2>1 DEF n
    <2>4. k \in Nat /\ k + Len(payload) <= Len(message)
        BY <2>2 DEF n
    <2>5. message \in Seq(U)
        BY <1>11
    <2> HIDE DEF k
    <2>6. SubSeq(message, k + 1, k + Len(payload)) = payload
        BY <2>3, <2>4, <2>5, PartOf
    <2> QED
        BY <2>6 DEF k, n
<1>16. message[1] % (FlagMask + 1) = size /\ ((message[1] \div IsSignedMask) % 2 = 1 <=> signed)
    BY <1>4, <1>13 DEF FlagMask, IsSignedMask
<1>17. (IF (message[1] \div IsSignedMask) % 2 = 1 THEN RecoverKey(message) ELSE NoKey) = signer
    BY <1>12, <1>16
<1>18. PostCipher(message)
         = {[payload |-> SubSeq(message, (1 + size) + 1, (1 + size) + n), signer |-> signer]}
    BY <1>2, <1>14, <1>16, <1>17 DEF PostCipher
<1> DEFINE opened == SubSeq(message, (1 + size) + 1, (1 + size) + n)
<1>19. PostCipher(message) = {[payload |-> opened, signer |-> signer]} /\ opened = payload
    BY <1>15, <1>18
<1> HIDE DEF opened
<1>20. PostCipher(message) = {[payload |-> payload, signer |-> signer]}
    BY <1>19
<1> QED
    BY <1>20 DEF message

-----------------------------------------------------------------------------
(* A message by every copy of its codec.                                   *)

ProofNames == {f.name : f \in ToSet(RateLimitProof)}

MessageNames ==
    {"payload", "contentTopic", "version", "timestamp", "meta", "rateLimitProof", "ephemeral"}

LEMMA MessageFields ==
    /\ {f.name : f \in ToSet(WakuMessage)} = MessageNames
    /\ \A f \in ToSet(WakuMessage) : f.label # "repeated"
    /\ \A f \in ToSet(WakuMessage) : f.label # "optional" => f.name \in {"payload", "contentTopic"}
<1>1. WakuMessage = [i \in 1 .. 7 |-> WakuMessage[i]]
    BY DEF WakuMessage
<1>2. ToSet(WakuMessage) = {WakuMessage[i] : i \in 1 .. 7}
    BY <1>1 DEF ToSet
<1>3. \A i \in 1 .. 7 : /\ WakuMessage[i].name \in MessageNames
                        /\ WakuMessage[i].label # "repeated"
                        /\ WakuMessage[i].label # "optional" =>
                             WakuMessage[i].name \in {"payload", "contentTopic"}
    BY DEF WakuMessage, Singular, Optional, MessageNames
<1>4. \A name \in MessageNames : \E i \in 1 .. 7 : WakuMessage[i].name = name
    BY DEF WakuMessage, Singular, Optional, MessageNames
<1> QED
    BY <1>2, <1>3, <1>4

LEMMA ProofFields == \A f \in ToSet(RateLimitProof) : f.label = "singular"
<1>1. RateLimitProof = [i \in 1 .. 7 |-> RateLimitProof[i]]
    BY DEF RateLimitProof
<1>2. ToSet(RateLimitProof) = {RateLimitProof[i] : i \in 1 .. 7}
    BY <1>1 DEF ToSet
<1>3. \A i \in 1 .. 7 : RateLimitProof[i].label = "singular"
    BY DEF RateLimitProof, Singular
<1> QED
    BY <1>2, <1>3

LEMMA OneCodec == Push = Waku /\ Filter = Waku /\ Store = Waku /\ V1 = Waku
<1>1. /\ PushWakuMessage = WakuMessage /\ FilterWakuMessage = WakuMessage
      /\ StoreWakuMessage = WakuMessage /\ V1WakuMessage = WakuMessage
    BY Zenon DEF WakuMessage, PushWakuMessage, FilterWakuMessage, StoreWakuMessage, V1WakuMessage
<1>2. /\ PushRateLimitProof = RateLimitProof /\ FilterRateLimitProof = RateLimitProof
      /\ StoreRateLimitProof = RateLimitProof /\ V1RateLimitProof = RateLimitProof
    BY Zenon DEF RateLimitProof, PushRateLimitProof, FilterRateLimitProof, StoreRateLimitProof,
                 V1RateLimitProof
<1> QED
    BY <1>1, <1>2 DEF Push, Waku, Filter, Store, V1

\* What the encoders make: a message, with a whole proof if any.
IsProto(obj) ==
    /\ obj = [name \in DOMAIN obj |-> obj[name]]
    /\ {"payload", "contentTopic"} \subseteq DOMAIN obj /\ DOMAIN obj \subseteq MessageNames
    /\ "rateLimitProof" \in DOMAIN obj =>
         obj.rateLimitProof = [name \in ProofNames |-> obj.rateLimitProof[name]]

LEMMA ProofCodec ==
    ASSUME NEW proof, proof = [name \in ProofNames |-> proof[name]]
    PROVE  Decode(RateLimitProof, Encode(RateLimitProof, proof)) = proof
<1>1. IsType(RateLimitProof)
    BY EveryType DEF Types
<1>2. DOMAIN proof = ProofNames
    OBVIOUS
<1>3. IsObject(RateLimitProof, proof)
    BY ProofFields DEF IsObject
<1>4. \A f \in ToSet(RateLimitProof) : f.name \in DOMAIN proof
    BY <1>2 DEF ProofNames
<1>5. proof = [name \in DOMAIN proof |-> proof[name]]
    BY <1>2
<1>6. DOMAIN proof \subseteq {f.name : f \in ToSet(RateLimitProof)}
    BY <1>2 DEF ProofNames
<1> QED
    BY <1>1, <1>3, <1>4, <1>5, <1>6, WholeRoundTrip

\* A message that an encoder makes is read as it was written, a proof in it too
\* (WakuMessage.codec, in each of its copies).
THEOREM MessageCodec ==
    ASSUME NEW obj, IsProto(obj)
    PROVE  DecodeMessage(Waku, EncodeMessage(Waku, obj)) = obj
<1> DEFINE sealed == EncodeMessage(Waku, obj)
           whole  == [obj EXCEPT !.rateLimitProof = Encode(RateLimitProof, @)]
<1>1. Waku.message = WakuMessage /\ Waku.proof = RateLimitProof
    BY DEF Waku
<1>2. IsType(WakuMessage)
    BY EveryType DEF Types
<1>3. ASSUME NEW it, it = [name \in DOMAIN obj |-> it[name]]
      PROVE  Decode(WakuMessage, Encode(WakuMessage, it)) = it
    <2>1. DOMAIN it = DOMAIN obj
        BY <1>3
    <2>2. IsObject(WakuMessage, it)
        BY MessageFields DEF IsObject
    <2>3. it = [name \in DOMAIN it |-> it[name]]
        BY <1>3, <2>1
    <2>4. DOMAIN it \subseteq {f.name : f \in ToSet(WakuMessage)}
        BY <2>1, MessageFields DEF IsProto
    <2>5. \A f \in ToSet(WakuMessage) : f.label # "optional" => f.name \in DOMAIN it
        BY <2>1, MessageFields DEF IsProto
    <2> QED
        BY <1>2, <2>2, <2>3, <2>4, <2>5, WholeRoundTrip
<1>4. CASE "rateLimitProof" \notin DOMAIN obj
    <2>1. sealed = Encode(WakuMessage, obj)
        BY <1>1, <1>4 DEF EncodeMessage, OnProof
    <2>2. Decode(WakuMessage, Encode(WakuMessage, obj)) = obj
        BY <1>3 DEF IsProto
    <2>3. DecodeMessage(Waku, Encode(WakuMessage, obj)) = obj
        BY <1>1, <1>4, <2>2 DEF DecodeMessage, OnProof
    <2> QED
        BY <2>1, <2>3
<1>5. CASE "rateLimitProof" \in DOMAIN obj
    <2>1. sealed = Encode(WakuMessage, whole)
        BY <1>1, <1>5 DEF EncodeMessage, OnProof
    <2>2. whole = [name \in DOMAIN obj |-> IF name = "rateLimitProof"
                     THEN Encode(RateLimitProof, obj.rateLimitProof) ELSE obj[name]]
        BY <1>5 DEF IsProto
    <2>3. /\ DOMAIN whole = DOMAIN obj
          /\ whole.rateLimitProof = Encode(RateLimitProof, obj.rateLimitProof)
          /\ \A name \in DOMAIN obj : name # "rateLimitProof" => whole[name] = obj[name]
          /\ whole = [name \in DOMAIN obj |-> whole[name]]
        BY <1>5, <2>2
    <2> HIDE DEF whole
    <2>4. Decode(WakuMessage, Encode(WakuMessage, whole)) = whole
        BY <1>3, <2>3
    <2> DEFINE read == [whole EXCEPT !.rateLimitProof = Decode(RateLimitProof, @)]
    <2>5. DecodeMessage(Waku, Encode(WakuMessage, whole)) = read
        BY <1>1, <1>5, <2>3, <2>4 DEF DecodeMessage, OnProof
    <2>6. Decode(RateLimitProof, whole.rateLimitProof) = obj.rateLimitProof
        BY <1>5, <2>3, ProofCodec DEF IsProto
    <2>7. read = [name \in DOMAIN obj |-> obj[name]]
        BY <1>5, <2>3, <2>6
    <2> QED
        BY <2>1, <2>5, <2>7 DEF IsProto
<1> QED
    BY <1>4, <1>5

\* The fields of the requests and responses that carry a message: of a type, the names
\* that it has, those that are always sent, and those that are repeated.
HasFields(type, names, always, repeated) ==
    /\ IsType(type)
    /\ names \subseteq {f.name : f \in ToSet(type)}
    /\ \A f \in ToSet(type) : /\ f.label # "optional" => f.name \in always
                              /\ f.label = "repeated" => f.name \in repeated

LEMMA FieldsOfRow ==
    ASSUME NEW n \in Nat, NEW type, IsRow(type, n), NEW names, NEW always, NEW repeated,
           \A name \in names : \E i \in 1 .. n : type[i].name = name,
           \A i \in 1 .. n : /\ type[i].label # "optional" => type[i].name \in always
                             /\ type[i].label = "repeated" => type[i].name \in repeated
    PROVE  HasFields(type, names, always, repeated)
<1>1. IsType(type)
    BY RowIsType
<1>2. ToSet(type) = {type[i] : i \in 1 .. n}
    BY DEF IsRow, ToSet
<1> QED
    BY <1>1, <1>2 DEF HasFields

LEMMA Frames ==
    /\ HasFields(PushRpc, {"requestId", "request"}, {"requestId"}, {})
    /\ HasFields(PushRequest, {"pubsubTopic", "message"}, {"pubsubTopic"}, {})
    /\ HasFields(MessagePush, {"wakuMessage", "pubsubTopic"}, {}, {})
    /\ HasFields(StoreQueryResponse, {"requestId", "statusCode", "messages"},
                 {"requestId", "messages"}, {"messages"})
    /\ HasFields(WakuMessageKeyValue, {"messageHash", "message", "pubsubTopic"}, {}, {})
<1> USE DEF Singular, Optional, Repeated
<1>1. HasFields(PushRpc, {"requestId", "request"}, {"requestId"}, {})
    <2>1. IsRow(PushRpc, 3)
        BY DEF PushRpc, IsRow
    <2>2. \A name \in {"requestId", "request"} : \E i \in 1 .. 3 : PushRpc[i].name = name
        BY DEF PushRpc
    <2>3. \A i \in 1 .. 3 : /\ PushRpc[i].label # "optional" => PushRpc[i].name \in {"requestId"}
                            /\ PushRpc[i].label = "repeated" => PushRpc[i].name \in {}
        BY DEF PushRpc
    <2> QED
        BY <2>1, <2>2, <2>3, FieldsOfRow
<1>2. HasFields(PushRequest, {"pubsubTopic", "message"}, {"pubsubTopic"}, {})
    <2>1. IsRow(PushRequest, 2)
        BY DEF PushRequest, IsRow
    <2>2. \A name \in {"pubsubTopic", "message"} : \E i \in 1 .. 2 : PushRequest[i].name = name
        BY DEF PushRequest
    <2>3. \A i \in 1 .. 2 :
            /\ PushRequest[i].label # "optional" => PushRequest[i].name \in {"pubsubTopic"}
            /\ PushRequest[i].label = "repeated" => PushRequest[i].name \in {}
        BY DEF PushRequest
    <2> QED
        BY <2>1, <2>2, <2>3, FieldsOfRow
<1>3. HasFields(MessagePush, {"wakuMessage", "pubsubTopic"}, {}, {})
    <2>1. IsRow(MessagePush, 2)
        BY DEF MessagePush, IsRow
    <2>2. \A name \in {"wakuMessage", "pubsubTopic"} : \E i \in 1 .. 2 : MessagePush[i].name = name
        BY DEF MessagePush
    <2>3. \A i \in 1 .. 2 : /\ MessagePush[i].label # "optional" => MessagePush[i].name \in {}
                            /\ MessagePush[i].label = "repeated" => MessagePush[i].name \in {}
        BY DEF MessagePush
    <2> QED
        BY <2>1, <2>2, <2>3, FieldsOfRow
<1>4. HasFields(StoreQueryResponse, {"requestId", "statusCode", "messages"},
                {"requestId", "messages"}, {"messages"})
    <2> DEFINE type == StoreQueryResponse
    <2>1. IsRow(type, 5)
        BY DEF StoreQueryResponse, IsRow
    <2>2. \A name \in {"requestId", "statusCode", "messages"} : \E i \in 1 .. 5 : type[i].name = name
        BY DEF StoreQueryResponse
    <2>3. \A i \in 1 .. 5 : /\ type[i].label # "optional" => type[i].name \in {"requestId", "messages"}
                            /\ type[i].label = "repeated" => type[i].name \in {"messages"}
        BY DEF StoreQueryResponse
    <2> QED
        BY <2>1, <2>2, <2>3, FieldsOfRow
<1>5. HasFields(WakuMessageKeyValue, {"messageHash", "message", "pubsubTopic"}, {}, {})
    <2> DEFINE type == WakuMessageKeyValue
    <2>1. IsRow(type, 3)
        BY DEF WakuMessageKeyValue, IsRow
    <2>2. \A name \in {"messageHash", "message", "pubsubTopic"} : \E i \in 1 .. 3 : type[i].name = name
        BY DEF WakuMessageKeyValue
    <2>3. \A i \in 1 .. 3 : /\ type[i].label # "optional" => type[i].name \in {}
                            /\ type[i].label = "repeated" => type[i].name \in {}
        BY DEF WakuMessageKeyValue
    <2> QED
        BY <2>1, <2>2, <2>3, FieldsOfRow
<1> QED
    BY <1>1, <1>2, <1>3, <1>4, <1>5

LEMMA FrameRead ==
    ASSUME NEW type, NEW names, NEW always, NEW repeated, HasFields(type, names, always, repeated),
           NEW obj, obj = [name \in names |-> obj[name]], always \subseteq names,
           \A name \in repeated : obj[name] \in Seq(ToSet(obj[name]))
    PROVE  Decode(type, Encode(type, obj)) = obj
<1>1. DOMAIN obj = names
    OBVIOUS
<1>2. IsObject(type, obj)
    BY DEF IsObject, HasFields
<1>3. \A f \in ToSet(type) : f.label # "optional" => f.name \in DOMAIN obj
    BY <1>1 DEF HasFields
<1>4. DOMAIN obj \subseteq {f.name : f \in ToSet(type)}
    BY <1>1 DEF HasFields
<1>5. obj = [name \in DOMAIN obj |-> obj[name]]
    BY <1>1
<1> QED
    BY <1>2, <1>3, <1>4, <1>5, WholeRoundTrip DEF HasFields

\* The service node takes from the request of a light push what was put into it.
LEMMA PushArrives ==
    ASSUME NEW encoder, NEW pubsubTopic, NEW message, IsProto(ToProtoObj(encoder, message)),
           NEW bytes \in PreparePushMessage(encoder, pubsubTopic, message)
    PROVE  PushedMessage(bytes) = ToProtoObj(encoder, message)
<1> DEFINE obj     == ToProtoObj(encoder, message)
           wrapped == EncodeMessage(Push, obj)
           request == [pubsubTopic |-> pubsubTopic, message |-> wrapped]
           rpc     == [requestId |-> RequestId, request |-> Encode(PushRequest, request)]
<1>1. bytes = Encode(PushRpc, rpc)
    BY DEF PreparePushMessage
<1> HIDE DEF obj
<1>2. DecodeMessage(Push, wrapped) = obj
    BY OneCodec, MessageCodec DEF obj
<1> HIDE DEF wrapped
<1>3. request = [name \in {"pubsubTopic", "message"} |-> request[name]] /\ request.message = wrapped
    OBVIOUS
<1> HIDE DEF request
<1>4. Decode(PushRequest, Encode(PushRequest, request)) = request
    BY <1>3, Frames, FrameRead
<1>5. rpc = [name \in {"requestId", "request"} |-> rpc[name]]
      /\ rpc.request = Encode(PushRequest, request)
    OBVIOUS
<1> HIDE DEF rpc
<1>6. Decode(PushRpc, Encode(PushRpc, rpc)) = rpc
    BY <1>5, Frames, FrameRead
<1> QED
    BY <1>1, <1>2, <1>3, <1>4, <1>5, <1>6 DEF PushedMessage, obj

\* A subscriber of the filter takes from a push what was put into it.
LEMMA FilterArrives ==
    ASSUME NEW pubsubTopic, pubsubTopic # <<>>, NEW obj, IsProto(obj)
    PROVE  OnRequest(FilterPush(pubsubTopic, obj)) = {[pubsubTopic |-> pubsubTopic, message |-> obj]}
<1> DEFINE wrapped == EncodeMessage(Filter, obj)
           push    == [wakuMessage |-> wrapped, pubsubTopic |-> pubsubTopic]
<1>1. DecodeMessage(Filter, wrapped) = obj
    BY OneCodec, MessageCodec
<1>2. FilterPush(pubsubTopic, obj) = Encode(MessagePush, push)
    BY DEF FilterPush
<1> HIDE DEF wrapped
<1>3. /\ push = [name \in {"wakuMessage", "pubsubTopic"} |-> push[name]]
      /\ "wakuMessage" \in DOMAIN push /\ "pubsubTopic" \in DOMAIN push
      /\ push.wakuMessage = wrapped /\ push.pubsubTopic = pubsubTopic
    OBVIOUS
<1> HIDE DEF push
<1>4. Decode(MessagePush, Encode(MessagePush, push)) = push
    BY <1>3, Frames, FrameRead
<1>5. Field(push, "pubsubTopic", <<>>) = pubsubTopic
    BY <1>3 DEF Field
<1>6. OnRequest(Encode(MessagePush, push))
        = {[pubsubTopic |-> push.pubsubTopic, message |-> DecodeMessage(Filter, push.wakuMessage)]}
    BY <1>3, <1>4, <1>5 DEF OnRequest
<1> QED
    BY <1>1, <1>2, <1>3, <1>6

\* A page of the store has what was put into it.
LEMMA StoreArrives ==
    ASSUME NEW pubsubTopic, NEW hash, NEW obj, IsProto(obj)
    PROVE  LET pairs == PageMessages(StorePage(pubsubTopic, hash, obj))
           IN \A i \in DOMAIN pairs : pairs[i].pubsubTopic = pubsubTopic /\ pairs[i].message = obj
<1> DEFINE wrapped == EncodeMessage(Store, obj)
           pair    == [messageHash |-> hash, message |-> wrapped, pubsubTopic |-> pubsubTopic]
           kept    == Encode(WakuMessageKeyValue, pair)
           all     == << kept >>
           page    == [requestId |-> RequestId, statusCode |-> 200, messages |-> all]
           pairs   == PageMessages(StorePage(pubsubTopic, hash, obj))
<1>1. DecodeMessage(Store, wrapped) = obj
    BY OneCodec, MessageCodec
<1>2. StorePage(pubsubTopic, hash, obj) = Encode(StoreQueryResponse, page)
    BY DEF StorePage
<1> HIDE DEF wrapped
<1>3. /\ pair = [name \in {"messageHash", "message", "pubsubTopic"} |-> pair[name]]
      /\ pair.message = wrapped /\ pair.pubsubTopic = pubsubTopic
      /\ "message" \in DOMAIN pair /\ "pubsubTopic" \in DOMAIN pair
    OBVIOUS
<1> HIDE DEF pair
<1>4. Decode(WakuMessageKeyValue, kept) = pair
    BY <1>3, Frames, FrameRead
<1> HIDE DEF kept
<1>5. all \in Seq(ToSet(all)) /\ DOMAIN all = {1} /\ all[1] = kept
    BY Singleton
<1> HIDE DEF all
<1>6. /\ page = [name \in {"requestId", "statusCode", "messages"} |-> page[name]]
      /\ page.messages = all
    OBVIOUS
<1> HIDE DEF page
<1>7. Decode(StoreQueryResponse, Encode(StoreQueryResponse, page)) = page
    BY <1>5, <1>6, Frames, FrameRead
<1>8. pairs = [i \in DOMAIN all |->
                 [Decode(WakuMessageKeyValue, all[i]) EXCEPT !.message = DecodeMessage(Store, @)]]
    BY <1>2, <1>6, <1>7 DEF PageMessages
<1> HIDE DEF pairs
<1>9. ASSUME NEW i \in DOMAIN pairs
      PROVE  pairs[i].pubsubTopic = pubsubTopic /\ pairs[i].message = obj
    <2>1. i = 1 /\ i \in DOMAIN all
        BY <1>5, <1>8
    <2>2. pairs[i] = [Decode(WakuMessageKeyValue, all[i]) EXCEPT !.message = DecodeMessage(Store, @)]
        BY <1>8, <2>1
    <2>3. pairs[i] = [pair EXCEPT !.message = DecodeMessage(Store, @)]
        BY <1>4, <1>5, <2>1, <2>2
    <2> QED
        BY <1>1, <1>3, <2>3
<1> QED
    BY <1>9 DEF pairs

-----------------------------------------------------------------------------
(* Encoders and decoders.                                                  *)

LEMMA OnlyOf ==
    ASSUME NEW names, NEW record
    PROVE  /\ DOMAIN Only(names, record) = names \cap DOMAIN record
           /\ \A name \in names \cap DOMAIN record : Only(names, record)[name] = record[name]
           /\ Only(names, record) = [name \in DOMAIN Only(names, record) |-> Only(names, record)[name]]
BY DEF Only

\* What an encoder makes of a message.
LEMMA ProtoOf ==
    ASSUME NEW encoder, IsEncoder(encoder), NEW message, IsSentMessage(message)
    PROVE  LET obj == ToProtoObj(encoder, message)
           IN /\ IsProto(obj)
              /\ {"version", "timestamp"} \subseteq DOMAIN obj
              /\ obj.payload = Payload(encoder, message) /\ obj.version = Version(encoder)
              /\ obj.timestamp = message.timestamp * OneMillion
              /\ "rateLimitProof" \in DOMAIN obj <=> "rateLimitProof" \in DOMAIN message
              /\ "rateLimitProof" \in DOMAIN message => obj.rateLimitProof = message.rateLimitProof
<1> DEFINE names == Always \cup ({"meta"} \cap DOMAIN encoder)
                           \cup ({"rateLimitProof"} \cap DOMAIN message)
           all   == [payload |-> Payload(encoder, message), version |-> Version(encoder),
                     contentTopic |-> encoder.contentTopic,
                     timestamp |-> message.timestamp * OneMillion,
                     ephemeral |-> encoder.ephemeral, meta |-> Field(encoder, "meta", Zero),
                     rateLimitProof |-> Field(message, "rateLimitProof", Zero)]
           obj   == ToProtoObj(encoder, message)
<1>1. obj = Only(names, all)
    BY DEF ToProtoObj
<1>2. /\ DOMAIN all = MessageNames
      /\ all.payload = Payload(encoder, message) /\ all.version = Version(encoder)
      /\ all.timestamp = message.timestamp * OneMillion
      /\ all.rateLimitProof = Field(message, "rateLimitProof", Zero)
    BY DEF MessageNames
<1>3. /\ names \subseteq MessageNames
      /\ {"payload", "contentTopic", "version", "timestamp"} \subseteq names
      /\ "rateLimitProof" \in names <=> "rateLimitProof" \in DOMAIN message
    BY DEF Always, MessageNames
<1> HIDE DEF names, all, obj
<1>a. names \cap DOMAIN all = names
    BY <1>2, <1>3
<1>4. DOMAIN obj = names /\ obj = [name \in names |-> obj[name]]
    <2> DEFINE only == Only(names, all)
    <2>1. DOMAIN only = names
        BY <1>a, OnlyOf
    <2>2. only = [name \in DOMAIN only |-> only[name]]
        BY OnlyOf
    <2> HIDE DEF only
    <2>3. only = [name \in names |-> only[name]]
        BY <2>1, <2>2
    <2> QED
        BY <1>1, <2>1, <2>3 DEF only
<1>5. \A name \in names : obj[name] = all[name]
    <2> TAKE name \in names
    <2>1. name \in names \cap DOMAIN all
        BY <1>a
    <2>2. Only(names, all)[name] = all[name]
        BY <2>1 DEF Only
    <2> QED
        BY <1>1, <2>2
<1>6. ASSUME "rateLimitProof" \in DOMAIN message
      PROVE  /\ obj.rateLimitProof = message.rateLimitProof
             /\ obj.rateLimitProof = [name \in ProofNames |-> obj.rateLimitProof[name]]
    <2>1. obj.rateLimitProof = message.rateLimitProof
        BY <1>2, <1>3, <1>5, <1>6 DEF Field
    <2>2. message.rateLimitProof \in [ProofNames -> Seq(Byte)]
        BY <1>6 DEF IsSentMessage, ProofNames
    <2> QED
        BY <2>1, <2>2
<1>7. IsProto(obj)
    BY <1>3, <1>4, <1>6 DEF IsProto
<1>8. /\ {"version", "timestamp"} \subseteq DOMAIN obj
      /\ obj.payload = Payload(encoder, message) /\ obj.version = Version(encoder)
      /\ obj.timestamp = message.timestamp * OneMillion
    BY <1>2, <1>3, <1>4, <1>5
<1> QED
    BY <1>3, <1>4, <1>6, <1>7, <1>8 DEF obj

\* Only the decoder with the key opens what an encoder made, and gets the payload and
\* the signer.
LEMMA DecoderOpens ==
    ASSUME NEW encoder, IsEncoder(encoder), NEW message, IsSentMessage(message),
           IsUnderCap(message), NEW pubsubTopic, NEW decoder,
           IsEncrypted(decoder) <=> IsEncrypted(encoder),
           IsEncrypted(encoder) => decoder.key = encoder.key
    PROVE  FromProtoObj(decoder, pubsubTopic, ToProtoObj(encoder, message))
             = {DecodedMessage(pubsubTopic, ToProtoObj(encoder, message), message.payload,
                               Field(encoder, "signer", NoKey))}
<1> DEFINE obj    == ToProtoObj(encoder, message)
           signer == Field(encoder, "signer", NoKey)
<1>1. /\ obj.payload = Payload(encoder, message)
      /\ Field(obj, "version", <<0>>) = Version(encoder)
    BY ProtoOf DEF Field
<1> HIDE DEF obj
<1>2. CASE ~IsEncrypted(encoder)
    <2>1. Version(encoder) = <<0>> /\ Payload(encoder, message) = message.payload
        BY <1>2 DEF Version, Payload
    <2>2. signer = NoKey
        BY <1>2 DEF IsEncoder, Field
    <2>3. FromProtoObj(decoder, pubsubTopic, obj) = FromPlainObj(pubsubTopic, obj)
        BY <1>2 DEF FromProtoObj
    <2>4. FromPlainObj(pubsubTopic, obj) = {DecodedMessage(pubsubTopic, obj, obj.payload, NoKey)}
        BY <1>1, <2>1, Zenon DEF FromPlainObj
    <2> HIDE DEF signer
    <2> QED
        BY <1>1, <2>1, <2>2, <2>3, <2>4 DEF obj, signer
<1>3. CASE IsEncrypted(encoder)
    <2> DEFINE sealed == PreCipher(message.payload, signer)
               opened == [payload |-> message.payload, signer |-> signer]
               box    == [key |-> encoder.key, message |-> sealed]
    <2>1. Version(encoder) = <<1>>
        BY <1>3 DEF Version
    <2>2. signer = encoder.signer
        BY <1>3 DEF IsEncoder, Field
    <2>3. obj.payload = << box >>
        BY <1>1, <1>3, <2>2 DEF Payload, Encrypt
    <2>4. PostCipher(sealed) = {opened}
        <3>1. Len(message.payload) < 16777216
            BY MessagesAssumption, LenProperties DEF IsUnderCap, IsSentMessage
        <3> QED
            BY <3>1, SealedOpens DEF IsSentMessage
    <2>5. box.key = encoder.key /\ box.message = sealed
        OBVIOUS
    <2> HIDE DEF sealed, box, signer
    <2>6. Decrypt(decoder.key, obj.payload) = {sealed}
        <3>1. ToSet(obj.payload) = {box}
            BY <2>3, Singleton
        <3> QED
            BY <1>3, <2>5, <3>1 DEF Decrypt
    <2>7. UNION {PostCipher(m) : m \in Decrypt(decoder.key, obj.payload)} = {opened}
        BY <2>4, <2>6
    <2>8. opened.payload = message.payload /\ opened.signer = signer
        OBVIOUS
    <2> HIDE DEF opened
    <2>9. FromProtoObj(decoder, pubsubTopic, obj) = FromEncryptedObj(decoder, pubsubTopic, obj)
        BY <1>3 DEF FromProtoObj
    <2> DEFINE Made(o) == DecodedMessage(pubsubTopic, obj, o.payload, o.signer)
    <2>10. FromEncryptedObj(decoder, pubsubTopic, obj) = {Made(o) : o \in {opened}}
        BY <1>1, <2>1, <2>7 DEF FromEncryptedObj
    <2>11. Made(opened) = DecodedMessage(pubsubTopic, obj, message.payload, signer)
        BY <2>8
    <2> HIDE DEF Made
    <2> QED
        BY <2>9, <2>10, <2>11 DEF obj, signer
<1> QED
    BY <1>2, <1>3

\* A decoded message has what was sent, and the hash of its cursor is that of the
\* message when it was not encrypted.
LEMMA DecodedHas ==
    ASSUME NEW encoder, IsEncoder(encoder), NEW message, IsSentMessage(message),
           NEW pubsubTopic, NEW signer, NEW payload
    PROVE  LET obj     == ToProtoObj(encoder, message)
               decoded == DecodedMessage(pubsubTopic, obj, payload, signer)
           IN /\ decoded.payload = payload
              /\ decoded.signer = signer
              /\ Only({"timestamp", "rateLimitProof"}, decoded)
                   = Only({"timestamp", "rateLimitProof"}, message)
              /\ payload = obj.payload => CreateCursor(decoded) = MessageHash(pubsubTopic, obj)
<1> DEFINE obj   == ToProtoObj(encoder, message)
           time  == Field(obj, "timestamp", 0)
           names == {"pubsubTopic", "payload", "contentTopic", "version", "ephemeral", "signer"}
                      \cup ({"meta", "rateLimitProof"} \cap DOMAIN obj)
                      \cup (IF time = 0 THEN {} ELSE {"timestamp"})
           all   == [pubsubTopic |-> pubsubTopic, payload |-> payload,
                     contentTopic |-> obj.contentTopic,
                     version |-> Field(obj, "version", <<0>>),
                     ephemeral |-> Field(obj, "ephemeral", <<>>),
                     signer |-> signer, timestamp |-> time \div OneMillion,
                     meta |-> Field(obj, "meta", Zero),
                     rateLimitProof |-> Field(obj, "rateLimitProof", Zero)]
           decoded == DecodedMessage(pubsubTopic, obj, payload, signer)
           kept  == {"timestamp", "rateLimitProof"}
<1>1. decoded = Only(names, all)
    BY DEF DecodedMessage
<1>2. /\ DOMAIN all = {"pubsubTopic", "payload", "contentTopic", "version", "ephemeral", "signer",
                       "timestamp", "meta", "rateLimitProof"}
      /\ all.pubsubTopic = pubsubTopic /\ all.payload = payload /\ all.signer = signer
      /\ all.contentTopic = obj.contentTopic /\ all.timestamp = time \div OneMillion
      /\ all.meta = Field(obj, "meta", Zero)
      /\ all.rateLimitProof = Field(obj, "rateLimitProof", Zero)
    OBVIOUS
<1>3. /\ "timestamp" \in DOMAIN obj /\ obj.timestamp = message.timestamp * OneMillion
      /\ "rateLimitProof" \in DOMAIN obj <=> "rateLimitProof" \in DOMAIN message
      /\ "rateLimitProof" \in DOMAIN message => obj.rateLimitProof = message.rateLimitProof
    BY ProtoOf
<1>4. message.timestamp \in Nat \ {0} /\ OneMillion \in Nat \ {0}
      /\ "timestamp" \in DOMAIN message
    BY MessagesAssumption DEF IsSentMessage
<1> HIDE DEF obj
<1>5. time = message.timestamp * OneMillion /\ time # 0 /\ time \div OneMillion = message.timestamp
    <2>1. time = message.timestamp * OneMillion
        BY <1>3 DEF Field
    <2> DEFINE t == message.timestamp
    <2>2. \A a, b \in Nat \ {0} : a * b # 0 /\ (a * b) \div b = a
        BY Z3
    <2> QED
        BY <1>4, <2>1, <2>2
<1> HIDE DEF time
<1>6. names \subseteq DOMAIN all
    BY <1>2
<1>7. /\ {"pubsubTopic", "payload", "contentTopic", "signer", "timestamp"} \subseteq names
      /\ "meta" \in names <=> "meta" \in DOMAIN obj
      /\ "rateLimitProof" \in names <=> "rateLimitProof" \in DOMAIN obj
    BY <1>5
<1> HIDE DEF all, names, decoded
<1>a. names \cap DOMAIN all = names
    BY <1>6
<1>b. DOMAIN decoded = names
    BY <1>1, <1>a, OnlyOf
<1>c. \A name \in names : decoded[name] = all[name]
    <2> TAKE name \in names
    <2>1. name \in names \cap DOMAIN all
        BY <1>a
    <2>2. Only(names, all)[name] = all[name]
        BY <2>1 DEF Only
    <2> QED
        BY <1>1, <2>2
<1>8. DOMAIN decoded = names /\ \A name \in names : decoded[name] = all[name]
    BY <1>b, <1>c
<1>9. Only(kept, decoded) = Only(kept, message)
    <2>1. kept \cap DOMAIN decoded = kept \cap DOMAIN message
        BY <1>3, <1>4, <1>7, <1>8
    <2>2. decoded.timestamp = message.timestamp
        BY <1>2, <1>5, <1>7, <1>8
    <2>3. "rateLimitProof" \in DOMAIN message => decoded.rateLimitProof = message.rateLimitProof
        BY <1>2, <1>3, <1>7, <1>8 DEF Field
    <2> QED
        BY <2>1, <2>2, <2>3 DEF Only
<1>10. ASSUME payload = obj.payload PROVE CreateCursor(decoded) = MessageHash(pubsubTopic, obj)
    <2>1. /\ decoded.pubsubTopic = pubsubTopic /\ decoded.payload = obj.payload
          /\ decoded.contentTopic = obj.contentTopic
          /\ "timestamp" \in DOMAIN decoded
          /\ decoded.timestamp * OneMillion = obj.timestamp
        BY <1>2, <1>3, <1>5, <1>7, <1>8, <1>10
    <2>2. Field(decoded, "meta", <<>>) = Field(obj, "meta", <<>>)
        BY <1>2, <1>7, <1>8 DEF Field
    <2>3. Field(obj, "timestamp", 0) # 0
        BY <1>5 DEF time
    <2>4. CreateCursor(decoded) = HashedBytes(pubsubTopic, decoded, <<obj.timestamp>>)
        BY <2>1 DEF CreateCursor
    <2>5. MessageHash(pubsubTopic, obj) = HashedBytes(pubsubTopic, obj, <<obj.timestamp>>)
        BY <2>3 DEF MessageHash
    <2>6. HashedBytes(pubsubTopic, decoded, <<obj.timestamp>>)
            = HashedBytes(pubsubTopic, obj, <<obj.timestamp>>)
        BY <2>1, <2>2, Zenon DEF HashedBytes
    <2> QED
        BY <2>4, <2>5, <2>6
<1>11. decoded.payload = payload /\ decoded.signer = signer
    BY <1>2, <1>7, <1>8
<1> QED
    BY <1>9, <1>10, <1>11 DEF decoded, obj
=============================================================================
