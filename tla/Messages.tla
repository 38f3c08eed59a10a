------------------------------- MODULE Messages -------------------------------
(***************************************************************************)
(* From the application's message to the bytes of each protocol and back:  *)
(* the encoders and decoders, the requests and responses that carry a      *)
(* message, and its hash.                                                  *)
(*                                                                         *)
(* Bytes and strings are sequences; what is undefined is missing.          *)
(***************************************************************************)
EXTENDS ProtoMessages, PayloadCipher

CONSTANTS
    OneMillion,  \* nanoseconds of a millisecond
    Mantissa,    \* what is below it times a power of two is a number exactly
    SizeCap      \* the largest payload whose encoded message is within a megabyte

ASSUME MessagesAssumption ==
    /\ OneMillion \in Nat \ {0} /\ Mantissa \in Nat \ {0}
    /\ SizeCap \in Nat /\ SizeCap <= 1048576

-----------------------------------------------------------------------------
(* The copies of WakuMessage.                                              *)

Waku   == [message |-> WakuMessage,       proof |-> RateLimitProof]
Push   == [message |-> PushWakuMessage,   proof |-> PushRateLimitProof]
Filter == [message |-> FilterWakuMessage, proof |-> FilterRateLimitProof]
Store  == [message |-> StoreWakuMessage,  proof |-> StoreRateLimitProof]
V1     == [message |-> V1WakuMessage,     proof |-> V1RateLimitProof]

OnProof(obj, Op(_)) ==
    IF "rateLimitProof" \in DOMAIN obj THEN [obj EXCEPT !.rateLimitProof = Op(@)] ELSE obj

EncodeMessage(copy, obj)   == Encode(copy.message, OnProof(obj, LAMBDA proof : Encode(copy.proof, proof)))
DecodeMessage(copy, bytes) == OnProof(Decode(copy.message, bytes), LAMBDA proof : Decode(copy.proof, proof))

-----------------------------------------------------------------------------
(* Encoders and decoders: plain, symmetric and asymmetric.  An encoder has *)
(* a content topic and an ephemeral flag, and may have a key, a signer and *)
(* a metaSetter, here the meta that it returns.                            *)

IsEncrypted(coder) == "key" \in DOMAIN coder

Byte == 0 .. 255

\* An encoder that encrypts has a key and the key of a signer, or NoKey.
IsEncoder(encoder) ==
    /\ {"contentTopic", "ephemeral"} \subseteq DOMAIN encoder
    /\ "signer" \in DOMAIN encoder <=> IsEncrypted(encoder)

\* A message may have a proof, with all that a proof has.
IsSentMessage(message) ==
    /\ {"payload", "timestamp"} \subseteq DOMAIN message
    /\ message.payload \in Seq(Byte)
    /\ message.timestamp \in Nat \ {0}
    /\ "rateLimitProof" \in DOMAIN message =>
         message.rateLimitProof \in [{f.name : f \in ToSet(RateLimitProof)} -> Seq(Byte)]

Version(coder) == IF IsEncrypted(coder) THEN <<1>> ELSE <<0>>

Payload(encoder, message) ==
    IF IsEncrypted(encoder)
      THEN Encrypt(encoder.key, PreCipher(message.payload, encoder.signer))
      ELSE message.payload

Only(names, record) == [name \in names \cap DOMAIN record |-> record[name]]

Field(obj, name, default) == IF name \in DOMAIN obj THEN obj[name] ELSE default

Always == {"payload", "version", "contentTopic", "timestamp", "ephemeral"}

ToProtoObj(encoder, message) ==
    Only(Always \cup ({"meta"} \cap DOMAIN encoder) \cup ({"rateLimitProof"} \cap DOMAIN message),
      [payload |-> Payload(encoder, message), version |-> Version(encoder),
       contentTopic |-> encoder.contentTopic, timestamp |-> message.timestamp * OneMillion,
       ephemeral |-> encoder.ephemeral, meta |-> Field(encoder, "meta", Zero),
       rateLimitProof |-> Field(message, "rateLimitProof", Zero)])

\* The encoders that encrypt take the message of another file.
ToWire(encoder, message) ==
    EncodeMessage(IF IsEncrypted(encoder) THEN V1 ELSE Waku, ToProtoObj(encoder, message))

IsUnderCap(message) == Len(message.payload) <= SizeCap

\* A DecodedMessage; the time is in milliseconds, and none when it is 0.
DecodedMessage(pubsubTopic, proto, payload, signer) ==
    LET time == Field(proto, "timestamp", 0)
    IN Only({"pubsubTopic", "payload", "contentTopic", "version", "ephemeral", "signer"}
              \cup ({"meta", "rateLimitProof"} \cap DOMAIN proto)
              \cup (IF time = 0 THEN {} ELSE {"timestamp"}),
         [pubsubTopic |-> pubsubTopic, payload |-> payload, contentTopic |-> proto.contentTopic,
          version |-> Field(proto, "version", <<0>>), ephemeral |-> Field(proto, "ephemeral", <<>>),
          signer |-> signer, timestamp |-> time \div OneMillion,
          meta |-> Field(proto, "meta", Zero), rateLimitProof |-> Field(proto, "rateLimitProof", Zero)])

\* Nothing, or the message.
FromPlainObj(pubsubTopic, proto) ==
    IF Field(proto, "version", <<0>>) # <<0>> THEN {}
    ELSE {DecodedMessage(pubsubTopic, proto, proto.payload, NoKey)}

FromEncryptedObj(decoder, pubsubTopic, proto) ==
    IF Field(proto, "version", <<0>>) # <<1>> THEN {}
    ELSE {DecodedMessage(pubsubTopic, proto, opened.payload, opened.signer) :
            opened \in UNION {PostCipher(m) : m \in Decrypt(decoder.key, proto.payload)}}

FromProtoObj(decoder, pubsubTopic, proto) ==
    IF IsEncrypted(decoder) THEN FromEncryptedObj(decoder, pubsubTopic, proto)
    ELSE FromPlainObj(pubsubTopic, proto)

-----------------------------------------------------------------------------
(* Requests and responses.                                                 *)

RequestId == <<9>>

\* What a light push sends, if it does.
PreparePushMessage(encoder, pubsubTopic, message) ==
    IF message.payload = <<>> \/ ~IsUnderCap(message) THEN {}
    ELSE LET request == [pubsubTopic |-> pubsubTopic,
                         message |-> EncodeMessage(Push, ToProtoObj(encoder, message))]
         IN {Encode(PushRpc, [requestId |-> RequestId, request |-> Encode(PushRequest, request)])}

\* The service node, which takes the message from the request.
PushedMessage(bytes) ==
    DecodeMessage(Push, Decode(PushRequest, Decode(PushRpc, bytes).request).message)

\* A message pushed to a subscriber of its filter, and what is taken from it.
FilterPush(pubsubTopic, obj) ==
    Encode(MessagePush, [wakuMessage |-> EncodeMessage(Filter, obj), pubsubTopic |-> pubsubTopic])

OnRequest(bytes) ==
    LET push == Decode(MessagePush, bytes)
    IN IF "wakuMessage" \notin DOMAIN push \/ Field(push, "pubsubTopic", <<>>) = <<>> THEN {}
       ELSE {[pubsubTopic |-> push.pubsubTopic, message |-> DecodeMessage(Filter, push.wakuMessage)]}

\* A page with one message, and the messages of a page.
StorePage(pubsubTopic, hash, obj) ==
    LET pair == [messageHash |-> hash, message |-> EncodeMessage(Store, obj),
                 pubsubTopic |-> pubsubTopic]
    IN Encode(StoreQueryResponse,
         [requestId |-> RequestId, statusCode |-> 200,
          messages |-> << Encode(WakuMessageKeyValue, pair) >>])

PageMessages(bytes) ==
    LET pairs == Decode(StoreQueryResponse, bytes).messages
    IN [i \in DOMAIN pairs |->
          LET pair == Decode(WakuMessageKeyValue, pairs[i])
          IN [pair EXCEPT !.message = DecodeMessage(Store, @)]]

\* The validator of the relay.
Accepts(bytes) ==
    LET obj == DecodeMessage(Waku, bytes)
    IN obj.contentTopic # <<>> /\ obj.payload # <<>>

-----------------------------------------------------------------------------
(* The hash of a message, without the hashing: its bytes in a row.         *)

HashedBytes(pubsubTopic, message, timestamp) ==
    pubsubTopic \o message.payload \o message.contentTopic \o Field(message, "meta", <<>>)
      \o timestamp

\* Of a proto message, whose time is in nanoseconds.
MessageHash(pubsubTopic, obj) ==
    HashedBytes(pubsubTopic, obj,
      IF Field(obj, "timestamp", 0) = 0 THEN <<>> ELSE <<obj.timestamp>>)

\* Of a decoded message, whose time is in milliseconds, for a cursor.
CreateCursor(decoded) ==
    HashedBytes(decoded.pubsubTopic, decoded,
      IF "timestamp" \in DOMAIN decoded THEN <<decoded.timestamp * OneMillion>> ELSE <<>>)

-----------------------------------------------------------------------------
(* The window of a store query: a product of two numbers, and only then a  *)
(* bigint.                                                                 *)

Powers == {1, 2, 4, 8, 16, 32, 64, 128, 256, 512, 1024, 2048, 4096, 8192, 16384, 32768, 65536,
           131072, 262144, 524288, 1048576}

\* The distance of the numbers that there are, at n.
Scale(n) == CHOOSE s \in Powers : n < Mantissa * s /\ (s = 1 \/ n >= Mantissa * (s \div 2))

\* To the nearest number that there is; of two, to the even one.
ToNumber(n) ==
    LET s == Scale(n)
        q == n \div s
        r == n % s
    IN IF 2 * r > s \/ (2 * r = s /\ q % 2 = 1) THEN (q + 1) * s ELSE q * s

\* Mutant: whole seconds, of ten of these milliseconds.
TimeBoundSeconds(time) == ToNumber((time \div 10) * 10 * OneMillion)

TimeBound(time) == ToNumber(time * OneMillion)

\* The product may be no number, and is off by a few nanoseconds; but a message that
\* was sent a millisecond or more after the bound, or before it, stays there.
SideKept(sent, bound) ==
    /\ sent > bound => sent * OneMillion > TimeBound(bound)
    /\ sent < bound => sent * OneMillion < TimeBound(bound)
=============================================================================
