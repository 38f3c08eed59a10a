------------------------------- MODULE Messaging -------------------------------
(***************************************************************************)
(* Messages from the encoder to the decoder, by every way: pushed or       *)
(* relayed by the sender, then relayed, pushed by a filter, iterated, and  *)
(* kept by a store that is queried.                                        *)
(*                                                                         *)
(* The service node in the middle is external: it accepts what the         *)
(* validator of the relay does, and speaks the protocols of this code.     *)
(***************************************************************************)
EXTENDS StoreQuery, AsyncIterator, Sharding

CONSTANTS
    Sent,    \* what applications send: an encoder, a pubsub topic, a message, and the protocol
    Relayed, \* bound: the numbers of the messages that reach the relay, of those passed on
    Configs, \* network configurations
    Times    \* the times, in milliseconds, of messages and of the windows of queries

(***************************************************************************)
(* Up to the last of the times the numbers that there are lie closer than  *)
(* two milliseconds: with doubles, of 2^53 numbers for each power of two,  *)
(* 2^20 nanoseconds do up to 2^73 of them, which is beyond every Date.     *)
(***************************************************************************)
ASSUME TimesAssumption ==
    /\ Times \subseteq Nat
    /\ \E s \in Powers :
         /\ s < 2 * OneMillion
         /\ \A time \in Times : time * OneMillion < Mantissa * s

ASSUME ConfigsAssumption == \A config \in Configs : IsConfig(config)

ASSUME SentAssumption ==
    /\ Sent \in Seq(ToSet(Sent))
    /\ \A sent \in ToSet(Sent) :
         /\ sent.pubsubTopic \in ClusterId \X ShardId
         /\ IsEncoder(sent.encoder) /\ IsSentMessage(sent.message)

VARIABLE
    sample   \* the input of a conversion that is looked at

\* As it is gossiped, if it is.
Gossiped(sent) ==
    IF sent.push
      THEN {EncodeMessage(Waku, PushedMessage(bytes)) :
              bytes \in PreparePushMessage(sent.encoder, sent.pubsubTopic, sent.message)}
      ELSE IF IsUnderCap(sent.message) THEN {ToWire(sent.encoder, sent.message)} ELSE {}

\* What the service node passes on.
Published == At(Sent, {n \in DOMAIN Sent : \E bytes \in Gossiped(Sent[n]) : Accepts(bytes)})

Gossip(sent) == [pubsubTopic |-> sent.pubsubTopic, bytes |-> CHOOSE bytes \in Gossiped(sent) : TRUE]

WireOf(published) == [n \in DOMAIN published |-> Gossip(published[n])]

\* The relay has what is passed on.
ASSUME WireAssumption == Wire = WireOf(Published)

messagingVars == <<queryVars, relayVars, iter, sample>>

(***************************************************************************)
(* The conversions are pure functions, and keep no state.  A behaviour     *)
(* begins with a look at one of them with one input: a message that is     *)
(* passed on, fields of a message type that are set, a configuration, or   *)
(* a time and a bound.                                                     *)
(***************************************************************************)
Looked == [of |-> "nothing"]

Look ==
    \/ \E n \in DOMAIN Published : sample = [of |-> "message", n |-> n]
    \/ \E type \in Types : \E fields \in SUBSET ToSet(type) :
         sample = [of |-> "fields", type |-> type, fields |-> fields]
    \/ \E config \in Configs : sample = [of |-> "config", config |-> config]
    \/ \E sent, bound \in Times : sample = [of |-> "window", sent |-> sent, bound |-> bound]

MessagingInit == QueryInit /\ RelayInit /\ IterInit /\ Look

LookAway ==
    /\ sample.of # "nothing"
    /\ sample' = Looked
    /\ UNCHANGED <<queryVars, relayVars, iter>>

RelayStep ==
    \/ \E n \in Relayed : n <= log /\ GossipMessage(n)
    \/ \E n \in DOMAIN Wire : Process(n)
    \/ \E s \in Subscription \ {Iterated} : Subscribe(s) \/ Unsubscribe(s)

MessageStep ==
    \/ QueryNext /\ UNCHANGED <<relayVars, iter>>
    \/ RelayStep /\ UNCHANGED <<queryVars, iter>>
    \/ (IterStep \/ Stop \/ \E timeout \in BOOLEAN : ToAsyncIterator(timeout)) /\ UNCHANGED queryVars

MessagingNext ==
    \/ LookAway
    \/ sample = Looked /\ MessageStep /\ UNCHANGED sample

\* A query goes on with its next page, timers come, and the consumer of the iterator
\* asks for the next message.
MessagingSpec ==
    /\ MessagingInit
    /\ [][MessagingNext]_messagingVars
    /\ WF_messagingVars(NextPage /\ UNCHANGED <<relayVars, iter, sample>>)
    /\ WF_messagingVars(IterStep /\ UNCHANGED <<queryVars, sample>>)

-----------------------------------------------------------------------------
\* The ways of a message to a subscriber: the message and the topic that are decoded.
Ways(n) ==
    LET topic == Wire[n].pubsubTopic
        obj   == DecodeMessage(Waku, Wire[n].bytes)
        hash  == MessageHash(topic, obj)
        pairs == PageMessages(StorePage(topic, hash, obj))
    IN {[pubsubTopic |-> topic, message |-> obj]}
       \cup OnRequest(FilterPush(topic, obj))
       \cup {[pubsubTopic |-> pairs[i].pubsubTopic, message |-> pairs[i].message] :
               i \in DOMAIN pairs}

DecoderFor(encoder, topic) ==
    Only({"pubsubTopic", "contentTopic"} \cup ({"key"} \cap DOMAIN encoder),
      [pubsubTopic |-> topic, contentTopic |-> encoder.contentTopic,
       key |-> Field(encoder, "key", NoKey)])

Arrived(n) ==
    LET sent == Published[n]
        hash == MessageHash(sent.pubsubTopic, ToProtoObj(sent.encoder, sent.message))
    IN \A way \in Ways(n) :
         /\ MessageHash(way.pubsubTopic, way.message) = hash
         /\ \E decoded \in FromProtoObj(DecoderFor(sent.encoder, sent.pubsubTopic),
                                        way.pubsubTopic, way.message) :
              /\ decoded.payload = sent.message.payload
              /\ decoded.signer = Field(sent.encoder, "signer", NoKey)
              /\ Only({"timestamp", "rateLimitProof"}, decoded)
                   = Only({"timestamp", "rateLimitProof"}, sent.message)
              /\ ~IsEncrypted(sent.encoder) => CreateCursor(decoded) = hash

\* Whatever copies of the codecs a message passes through, and encrypted or not, what
\* is decoded is what was sent, and each node computes the hash of the sender, on
\* which the deduplication, the store and its cursors rely.
ArrivesAsSent == sample.of = "message" => Arrived(sample.n)

\* Whatever fields of a message are set, of whatever type: see ProtoMessages.
WireFaithful == sample.of = "fields" => ReadsAsWritten(sample.type, sample.fields)

\* No message that is outside the window of a query is taken for one within it, nor
\* the other way about: see Messages.
WindowKept == sample.of = "window" => SideKept(sample.sent, sample.bound)

\* Every part of a node has the same topics: see Sharding.
ShardsAgree == sample.of = "config" => TopicsAgree(sample.config)
=============================================================================
