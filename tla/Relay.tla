--------------------------------- MODULE Relay ---------------------------------
(***************************************************************************)
(* The relay: a message that gossipsub has accepted is given to the        *)
(* observers of its pubsub and content topics, after several awaits, while *)
(* the application subscribes and unsubscribes.                            *)
(*                                                                         *)
(* Gossipsub, which is external, emits a message once, in any order.       *)
(***************************************************************************)
EXTENDS Messages, FiniteSets

CONSTANTS
    Wire,          \* the pubsub topic and the bytes of each message, by its number
    Subscription,  \* calls of subscribeWithUnsubscribe
    Decoders       \* their decoders

ASSUME RelayAssumption == \A s \in Subscription : IsFiniteSet(Decoders[s])

VARIABLES
    observers,  \* pairs of a subscription and a decoder
    incoming,   \* processIncomingMessage, for each message
    calls,      \* a history: the messages with which each callback was called
    owed        \* a history: who has been subscribed since a message came

relayVars == <<observers, incoming, calls, owed>>

NotYet == [pc |-> "none", waiting |-> {}]

RelayInit ==
    /\ observers = {}
    /\ incoming = [n \in DOMAIN Wire |-> NotYet]
    /\ calls = [s \in Subscription |-> <<>>]
    /\ owed = [n \in DOMAIN Wire |-> {}]

ObserversOf(s) == {<<s, d>> : d \in Decoders[s]}

AddObservers(s)    == observers' = observers \cup ObserversOf(s)
RemoveObservers(s) ==
    /\ observers' = observers \ ObserversOf(s)
    /\ owed' = [n \in DOMAIN Wire |-> owed[n] \ ObserversOf(s)]

Subscribe(s) ==
    /\ ObserversOf(s) \cap observers = {}
    /\ AddObservers(s)
    /\ UNCHANGED <<incoming, calls, owed>>

Unsubscribe(s) ==
    /\ ObserversOf(s) \subseteq observers
    /\ RemoveObservers(s)
    /\ UNCHANGED <<incoming, calls>>

-----------------------------------------------------------------------------
\* What the decoder of the relay itself reads.
ContentTopic == [n \in DOMAIN Wire |-> Decode(TopicOnlyMessage, Wire[n].bytes).contentTopic]

\* The observers of its pubsub topic and its content topic.
Matching ==
    [n \in DOMAIN Wire |->
       {o \in UNION {ObserversOf(s) : s \in Subscription} :
          /\ o[2].pubsubTopic = Wire[n].pubsubTopic
          /\ o[2].contentTopic = ContentTopic[n]}]

\* The observers whose decoders make a message of it.
Readers ==
    [n \in DOMAIN Wire |->
       {o \in Matching[n] :
          FromProtoObj(o[2], Wire[n].pubsubTopic, DecodeMessage(Waku, Wire[n].bytes)) # {}}]

Accepted == {n \in DOMAIN Wire : Accepts(Wire[n].bytes)}

\* The validator is asked before the listener.
GossipMessage(n) ==
    /\ incoming[n].pc = "none"
    /\ n \in Accepted
    /\ incoming' = [incoming EXCEPT ![n].pc = "reading"]
    /\ owed' = [owed EXCEPT ![n] = observers \cap Matching[n]]
    /\ UNCHANGED <<observers, calls>>

\* Mutant: one observer for each content topic.
ReadTopicOne(n) ==
    /\ incoming[n].pc = "reading"
    /\ LET matching == observers \cap Matching[n]
       IN incoming' = [incoming EXCEPT ![n] =
                         [pc |-> "decoding",
                          waiting |-> IF matching = {} THEN {} ELSE {CHOOSE o \in matching : TRUE}]]
    /\ UNCHANGED <<observers, calls, owed>>

\* The observers of this moment.
ReadTopic(n) ==
    /\ incoming[n].pc = "reading"
    /\ incoming' = [incoming EXCEPT ![n] = [pc |-> "decoding",
                                            waiting |-> observers \cap Matching[n]]]
    /\ UNCHANGED <<observers, calls, owed>>

\* An observer of that moment, still subscribed or not.
Callback(n, o) ==
    /\ o \in incoming[n].waiting
    /\ incoming' = [incoming EXCEPT ![n].waiting = @ \ {o}]
    /\ calls' = IF o \in Readers[n] THEN [calls EXCEPT ![o[1]] = Append(@, n)] ELSE calls
    /\ UNCHANGED <<observers, owed>>

Process(n) == ReadTopic(n) \/ \E o \in incoming[n].waiting : Callback(n, o)

-----------------------------------------------------------------------------
TimesCalled(s, n) == Cardinality({i \in DOMAIN calls[s] : calls[s][i] = n})
Processed(n)      == incoming[n].pc = "decoding" /\ incoming[n].waiting = {}

\* Who stays subscribed while a message is processed is called once for each of its
\* decoders that can decode it, and nobody is called more often, whoever else
\* subscribes and unsubscribes in between.
ServedWhileSubscribed ==
    \A n \in DOMAIN Wire, s \in Subscription :
      LET readers == {o \in Readers[n] : o[1] = s}
      IN /\ TimesCalled(s, n) <= Cardinality(readers)
         /\ Processed(n) => TimesCalled(s, n) >= Cardinality(readers \cap owed[n])
=============================================================================
