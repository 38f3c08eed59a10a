------------------------------- MODULE Sharding -------------------------------
(***************************************************************************)
(* Sharding: from shards or content topics to pubsub topics and back, and  *)
(* the shards in the record of a node (ENR).                               *)
(*                                                                         *)
(* The pubsub topic "/waku/2/rs/<cluster>/<shard>" is the pair of the two. *)
(* What is undefined is missing.                                           *)
(***************************************************************************)
EXTENDS Integers, FiniteSets, Sequences, SequencesExt

CONSTANTS
    DefaultCluster,  \* DEFAULT_CLUSTER_ID
    ShardIndex       \* the hash of the application and version of each content topic, modulo 8

ClusterId == 0 .. 65535
ShardId   == 0 .. 1023

ASSUME ShardingAssumption ==
    DefaultCluster \in ClusterId /\ \A t \in DOMAIN ShardIndex : ShardIndex[t] \in 0 .. 7

\* A network configuration: static sharding, or automatic sharding.
IsConfig(config) ==
    /\ "clusterId" \in DOMAIN config => config.clusterId \in ClusterId
    /\ \/ DOMAIN config = {"clusterId", "shards"} /\ config.shards \in Seq(ShardId) \ {<<>>}
       \/ /\ DOMAIN config \in {{"contentTopics"}, {"clusterId", "contentTopics"}}
          /\ config.contentTopics \in Seq(DOMAIN ShardIndex) \ {<<>>}

Cluster(info) == IF "clusterId" \in DOMAIN info THEN info.clusterId ELSE DefaultCluster
Mapped(Op(_), seq) == [i \in DOMAIN seq |-> Op(seq[i])]

\* The numbers of a finite set in ascending order.
InOrder(S) == [k \in 1 .. Cardinality(S) |-> CHOOSE i \in S : Cardinality({j \in S : j <= i}) = k]

\* What a sequence has at some places.
At(seq, places) ==
    LET order == InOrder(places)
    IN [k \in DOMAIN order |-> seq[order[k]]]

\* Array.from(new Set(...)): what comes again is left out.
Unique(seq) == At(seq, {i \in DOMAIN seq : \A j \in 1 .. i - 1 : seq[j] # seq[i]})

SingleShardInfoToPubsubTopic(info) == <<Cluster(info), info.shard>>

\* Mutant: the cluster of the configuration is forgotten.
ContentTopicToPubsubTopicDefault(contentTopic, cluster) == <<DefaultCluster, ShardIndex[contentTopic]>>

ContentTopicToPubsubTopic(contentTopic, cluster) == <<cluster, ShardIndex[contentTopic]>>

ShardInfoToPubsubTopics(info) ==
    IF "contentTopics" \in DOMAIN info
      THEN Unique(Mapped(LAMBDA t : ContentTopicToPubsubTopic(t, Cluster(info)), info.contentTopics))
      ELSE Unique(Mapped(LAMBDA s : <<Cluster(info), s>>, info.shards))

\* All of one cluster and at least one, or it throws.
PubsubTopicsToShardInfo(topics) ==
    [clusterId |-> topics[1][1], shards |-> Mapped(LAMBDA t : t[2], Unique(topics))]

ContentTopicsByPubsubTopic(contentTopics, cluster) ==
    [topic \in ToSet(Mapped(LAMBDA t : ContentTopicToPubsubTopic(t, cluster), contentTopics)) |->
       At(contentTopics, {i \in DOMAIN contentTopics :
                            ContentTopicToPubsubTopic(contentTopics[i], cluster) = topic})]

\* Of an encoder or decoder that was given a cluster and perhaps a shard.
DeterminePubsubTopic(contentTopic, info) ==
    IF "shard" \in DOMAIN info THEN SingleShardInfoToPubsubTopic(info)
    ELSE ContentTopicToPubsubTopic(contentTopic, Cluster(info))

\* Shards go before content topics; with neither it throws.
EnsureShardingConfigured(config) ==
    LET cluster == Cluster(config)
    IN IF "shards" \in DOMAIN config /\ config.shards # <<>>
         THEN LET info == [clusterId |-> cluster, shards |-> config.shards]
              IN [shardInfo |-> info, pubsubTopics |-> ShardInfoToPubsubTopics(info)]
         ELSE [shardInfo    |-> [clusterId |-> cluster,
                                 shards |-> Unique(Mapped(LAMBDA t : ShardIndex[t], config.contentTopics))],
               pubsubTopics |-> Unique(Mapped(LAMBDA t : ContentTopicToPubsubTopic(t, cluster),
                                              config.contentTopics))]

\* The topics of a node; those of content topics may come again.
DerivePubsubTopics(config) ==
    IF "contentTopics" \in DOMAIN config
      THEN Mapped(LAMBDA t : ContentTopicToPubsubTopic(t, Cluster(config)), config.contentTopics)
      ELSE ShardInfoToPubsubTopics(config)

-----------------------------------------------------------------------------
(* The record: the cluster and a list of shards or, from 64 on, a vector   *)
(* of bits, kept here as the places of its ones.                           *)

BitPlace(shard) == <<(shard \div 8) + 2, 7 - (shard % 8)>>

EncodeRelayShard(info) ==
    IF Len(info.shards) >= 64
      THEN [length |-> 130, cluster |-> info.clusterId % 65536,
            ones |-> {BitPlace(s) : s \in ToSet(info.shards)}]
      ELSE [length |-> 3 + 2 * Len(info.shards), cluster |-> info.clusterId % 65536,
            count |-> Len(info.shards) % 256, indices |-> Mapped(LAMBDA s : s % 65536, info.shards)]

DecodeRelayShard(bytes) ==
    [clusterId |-> bytes.cluster,
     shards    |-> IF bytes.length = 130
                     THEN InOrder({s \in ShardId : BitPlace(s) \in bytes.ones})
                     ELSE SubSeq(bytes.indices, 1, bytes.count)]

-----------------------------------------------------------------------------
ShardsOf(info) == <<info.clusterId, ToSet(info.shards)>>

\* The topics of a node, made of its configuration, name the shards of which it tells
\* in the metadata handshake; they come through the record of a node unchanged,
\* whichever format it takes, and stand for the same topics there; and what an
\* application encodes with the cluster of the node goes to one of them, where its
\* content topic is grouped.
TopicsAgree(config) ==
    LET topics  == DerivePubsubTopics(config)
        info    == PubsubTopicsToShardInfo(topics)
        ensured == EnsureShardingConfigured(config)
        read    == DecodeRelayShard(EncodeRelayShard(info))
    IN /\ ToSet(topics) = ToSet(ensured.pubsubTopics)
       /\ ShardsOf(info) = ShardsOf(ensured.shardInfo)
       /\ ShardsOf(read) = ShardsOf(info)
       /\ ToSet(ShardInfoToPubsubTopics(read)) = ToSet(topics)
       /\ "contentTopics" \in DOMAIN config =>
            LET cluster == [clusterId |-> Cluster(config)]
                groups  == ContentTopicsByPubsubTopic(config.contentTopics, Cluster(config))
            IN \A t \in ToSet(config.contentTopics) :
                 LET topic == DeterminePubsubTopic(t, cluster)
                 IN topic \in ToSet(topics) /\ Contains(groups[topic], t)
=============================================================================
