----------------------------- MODULE ProtoMessages -----------------------------
(***************************************************************************)
(* The message types of the generated code.  WakuMessage and its proof are *)
(* generated anew for each protocol.                                       *)
(***************************************************************************)
EXTENDS Protobuf

-----------------------------------------------------------------------------
(* message.ts: the messages of the relay and of the encoders.              *)

RateLimitProof ==
    << Singular(1, "proof"), Singular(2, "merkleRoot"), Singular(3, "epoch"),
       Singular(4, "shareX"), Singular(5, "shareY"), Singular(6, "nullifier"),
       Singular(7, "rlnIdentifier") >>

WakuMessage ==
    << Singular(1, "payload"), Singular(2, "contentTopic"), Optional(3, "version"),
       Optional(10, "timestamp"), Optional(11, "meta"), Optional(21, "rateLimitProof"),
       Optional(31, "ephemeral") >>

-----------------------------------------------------------------------------
(* topic_only_message.ts: what the relay reads first.                      *)

TopicOnlyMessage == << Singular(2, "contentTopic") >>

-----------------------------------------------------------------------------
(* light_push.ts                                                           *)

PushRequest == << Singular(1, "pubsubTopic"), Optional(2, "message") >>

PushResponse == << Singular(1, "isSuccess"), Optional(2, "info") >>

PushRpc == << Singular(1, "requestId"), Optional(2, "request"), Optional(3, "response") >>

PushRateLimitProof ==
    << Singular(1, "proof"), Singular(2, "merkleRoot"), Singular(3, "epoch"),
       Singular(4, "shareX"), Singular(5, "shareY"), Singular(6, "nullifier"),
       Singular(7, "rlnIdentifier") >>

\* Mutant: the copy from before there was meta.
PushWakuMessageOld ==
    << Singular(1, "payload"), Singular(2, "contentTopic"), Optional(3, "version"),
       Optional(10, "timestamp"), Optional(21, "rateLimitProof"), Optional(31, "ephemeral") >>

PushWakuMessage ==
    << Singular(1, "payload"), Singular(2, "contentTopic"), Optional(3, "version"),
       Optional(10, "timestamp"), Optional(11, "meta"), Optional(21, "rateLimitProof"),
       Optional(31, "ephemeral") >>

-----------------------------------------------------------------------------
(* filter_v2.ts; the zero of the type of a request is SUBSCRIBER_PING.     *)

FilterSubscribeRequest ==
    << Singular(1, "requestId"), Singular(2, "filterSubscribeType"),
       Optional(10, "pubsubTopic"), Repeated(11, "contentTopics") >>

FilterSubscribeResponse ==
    << Singular(1, "requestId"), Singular(10, "statusCode"), Optional(11, "statusDesc") >>

MessagePush == << Optional(1, "wakuMessage"), Optional(2, "pubsubTopic") >>

FilterRateLimitProof ==
    << Singular(1, "proof"), Singular(2, "merkleRoot"), Singular(3, "epoch"),
       Singular(4, "shareX"), Singular(5, "shareY"), Singular(6, "nullifier"),
       Singular(7, "rlnIdentifier") >>

FilterWakuMessage ==
    << Singular(1, "payload"), Singular(2, "contentTopic"), Optional(3, "version"),
       Optional(10, "timestamp"), Optional(11, "meta"), Optional(21, "rateLimitProof"),
       Optional(31, "ephemeral") >>

-----------------------------------------------------------------------------
(* store_v3.ts                                                             *)

WakuMessageKeyValue ==
    << Optional(1, "messageHash"), Optional(2, "message"), Optional(3, "pubsubTopic") >>

\* Mutant: two fields with one number.
StoreQueryRequestClash ==
    << Singular(1, "requestId"), Singular(2, "includeData"), Optional(10, "pubsubTopic"),
       Repeated(11, "contentTopics"), Optional(12, "timeStart"), Optional(12, "timeEnd"),
       Repeated(20, "messageHashes"), Optional(51, "paginationCursor"),
       Singular(52, "paginationForward"), Optional(53, "paginationLimit") >>

StoreQueryRequest ==
    << Singular(1, "requestId"), Singular(2, "includeData"), Optional(10, "pubsubTopic"),
       Repeated(11, "contentTopics"), Optional(12, "timeStart"), Optional(13, "timeEnd"),
       Repeated(20, "messageHashes"), Optional(51, "paginationCursor"),
       Singular(52, "paginationForward"), Optional(53, "paginationLimit") >>

StoreQueryResponse ==
    << Singular(1, "requestId"), Optional(10, "statusCode"), Optional(11, "statusDesc"),
       Repeated(20, "messages"), Optional(51, "paginationCursor") >>

StoreRateLimitProof ==
    << Singular(1, "proof"), Singular(2, "merkleRoot"), Singular(3, "epoch"),
       Singular(4, "shareX"), Singular(5, "shareY"), Singular(6, "nullifier"),
       Singular(7, "rlnIdentifier") >>

StoreWakuMessage ==
    << Singular(1, "payload"), Singular(2, "contentTopic"), Optional(3, "version"),
       Optional(10, "timestamp"), Optional(11, "meta"), Optional(21, "rateLimitProof"),
       Optional(31, "ephemeral") >>

-----------------------------------------------------------------------------
(* metadata.ts                                                             *)

WakuMetadataRequest == << Optional(1, "clusterId"), Repeated(2, "shards") >>

WakuMetadataResponse == << Optional(1, "clusterId"), Repeated(2, "shards") >>

-----------------------------------------------------------------------------
(* peer_exchange.ts                                                        *)

PeerInfo == << Optional(1, "enr") >>

PeerExchangeQuery == << Optional(1, "numPeers") >>

PeerExchangeResponse == << Repeated(1, "peerInfos") >>

PeerExchangeRPC == << Optional(1, "query"), Optional(2, "response") >>

-----------------------------------------------------------------------------
(* sds_message.ts                                                          *)

SdsMessage ==
    << Singular(2, "messageId"), Singular(3, "channelId"),
       Optional(10, "lamportTimestamp"), Repeated(11, "causalHistory"),
       Optional(12, "bloomFilter"), Optional(20, "content") >>

-----------------------------------------------------------------------------
(* filter.ts: an earlier filter, whose message the encrypting encoders use.*)

V1FilterRequest ==
    << Singular(1, "subscribe"), Singular(2, "topic"), Repeated(3, "contentFilters") >>

V1ContentFilter == << Singular(1, "contentTopic") >>

V1MessagePush == << Repeated(1, "messages") >>

V1FilterRpc == << Singular(1, "requestId"), Optional(2, "request"), Optional(3, "push") >>

V1RateLimitProof ==
    << Singular(1, "proof"), Singular(2, "merkleRoot"), Singular(3, "epoch"),
       Singular(4, "shareX"), Singular(5, "shareY"), Singular(6, "nullifier"),
       Singular(7, "rlnIdentifier") >>

V1WakuMessage ==
    << Singular(1, "payload"), Singular(2, "contentTopic"), Optional(3, "version"),
       Optional(10, "timestamp"), Optional(11, "meta"), Optional(21, "rateLimitProof"),
       Optional(31, "ephemeral") >>

-----------------------------------------------------------------------------
Types ==
    {WakuMessage, RateLimitProof, TopicOnlyMessage, PushRequest, PushResponse, PushRpc,
     PushRateLimitProof, PushWakuMessage, FilterSubscribeRequest, FilterSubscribeResponse,
     MessagePush, FilterRateLimitProof, FilterWakuMessage, WakuMessageKeyValue,
     StoreQueryRequest, StoreQueryResponse, StoreRateLimitProof, StoreWakuMessage,
     WakuMetadataRequest, WakuMetadataResponse, PeerInfo, PeerExchangeQuery,
     PeerExchangeResponse, PeerExchangeRPC, SdsMessage, V1FilterRequest, V1ContentFilter,
     V1MessagePush, V1FilterRpc, V1RateLimitProof, V1WakuMessage}

\* An object of a type with the given fields, and what is read back of it.
Sample(fields) ==
    [name \in {f.name : f \in fields} |->
       LET field == CHOOSE f \in fields : f.name = name
       IN IF field.label = "repeated" THEN << <<field.id>>, <<1>>, <<field.id>> >> ELSE <<field.id>>]

ReadBack(type, fields) ==
    LET read == {f \in ToSet(type) : f.label = "optional" => f \in fields}
    IN [name \in {f.name : f \in read} |->
          IF name \in DOMAIN Sample(fields) THEN Sample(fields)[name] ELSE Zero]

WakuMessages == {WakuMessage, PushWakuMessage, FilterWakuMessage, StoreWakuMessage, V1WakuMessage}

\* The fields that are set are read back, and unset ones are zero or missing; a codec
\* that knows the first fields only reads those; and the relay reads from every copy
\* of WakuMessage the content topic that the copy has.
ReadsAsWritten(type, fields) ==
    LET bytes == Encode(type, Sample(fields))
    IN /\ Decode(type, bytes) = ReadBack(type, fields)
       /\ \A k \in DOMAIN type :
            LET older == SubSeq(type, 1, k)
            IN Decode(older, bytes) = ReadBack(older, fields \cap ToSet(older))
       /\ type \in WakuMessages =>
            Decode(TopicOnlyMessage, bytes).contentTopic = Decode(type, bytes).contentTopic
=============================================================================
