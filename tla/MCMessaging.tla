------------------------------ MODULE MCMessaging ------------------------------
(* Two content topics, with three messages that are passed on, a plain one, *)
(* a signed and encrypted one of two bytes of size, and one with a meta,    *)
(* and an empty and a large one that are not.                               *)
EXTENDS Messaging

topicA == <<65>>
topicB == <<66>>

MCShardIndex == topicA :> 3 @@ topicB :> 5
MCConfigs ==
    {[clusterId |-> 2, shards |-> s] :
       s \in {<<0>>, <<5, 0, 5>>, [i \in 1 .. 63 |-> i], [i \in 1 .. 64 |-> 1024 - i],
              [i \in 1 .. 64 |-> 7], [i \in 1 .. 70 |-> i - 1]}}
    \cup {[clusterId |-> 2, contentTopics |-> t] :
            t \in {<<topicA>>, <<topicB, topicA>>, <<topicA, topicA>>}}
    \cup {[contentTopics |-> <<topicA, topicB>>]}

\* A hundred thousand has seven bits too many.
MCTimes == 1000 .. 1040

proof == [proof |-> <<1>>, merkleRoot |-> <<2>>, epoch |-> <<3>>, shareX |-> <<4>>,
          shareY |-> <<>>, nullifier |-> <<5>>, rlnIdentifier |-> <<6>>]
plainA == [contentTopic |-> topicA, ephemeral |-> <<>>]
metaA  == [contentTopic |-> topicA, ephemeral |-> <<1>>, meta |-> <<8>>]
keyB   == [contentTopic |-> topicB, ephemeral |-> <<>>, key |-> "k", signer |-> "alice"]

sending(encoder, payload, push) ==
    [encoder |-> encoder, push |-> push,
     pubsubTopic |-> DeterminePubsubTopic(encoder.contentTopic, [clusterId |-> 2]),
     message |-> [payload |-> payload, timestamp |-> 7]]

MCSent ==
    << [sending(plainA, <<10>>, TRUE) EXCEPT !.message = @ @@ [rateLimitProof |-> proof]],
       sending(plainA, <<>>, FALSE),
       sending(keyB, [i \in 1 .. 256 |-> i % 10], FALSE),
       sending(plainA, [i \in 1 .. 301 |-> 1], TRUE),
       sending(metaA, <<10, 11>>, TRUE) >>

\* TLC evaluates what is passed on once, and the value of a constant each time.
passedOn == WireOf(Published)
MCWire   == passedOn

CONSTANTS s1, s2

MCDecoders ==
    s1 :> {[pubsubTopic |-> <<2, 3>>, contentTopic |-> topicA]}
    @@ s2 :> {[pubsubTopic |-> <<2, 3>>, contentTopic |-> topicA],
              [pubsubTopic |-> <<2, 5>>, contentTopic |-> topicB, key |-> "k"]}
=============================================================================
