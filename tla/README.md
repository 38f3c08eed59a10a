# A TLA+ verification of js-waku

js-waku is a light client (and relay node) of the Waku network on top of
js-libp2p. This directory models the parts of it that keep state while
connections, streams, timers and requests come and go, and the forms a message
takes between them; checks them with TLC on small instances; and proves the main
safety properties with TLAPS. Paths below
are relative to `src/packages/`.

## The system

JavaScript runs one handler at a time, up to its next `await`. All concurrency
is in those suspensions: between two `await`s of one function any other handler
may run. An action of a model is therefore the stretch of one function between
two suspensions, and a variable `pc` (or a counter of suspended handlers) says
where each call is.

| Component | State it keeps | Operations | Talks to |
| --- | --- | --- | --- |
| ConnectionManager (`core/.../connection_manager.ts`) | active dials, dial queue, dialed peers, online flag | dialPeer, attemptDial, handlers of `peer:discovery`, `peer:connect`, `peer:disconnect`, browser network events, stop | libp2p (dial, hangUp, peer store, events), KeepAliveManager, DNS discovery |
| KeepAliveManager (`core/.../keep_alive_manager.ts`) | ping and relay timers | start, stop, stopAll | libp2p ping, Relay |
| PeerManager (`sdk/src/peer_manager`) | the lock tag on libp2p's connections | getPeers, requestRenew, handlers of connect and disconnect | libp2p events; used by Filter, Light Push, Store |
| StreamManager (`core/.../stream_manager.ts`) | streamPool, ongoingCreation, the lock on streams | getStream, handler of `peer:update` | libp2p connections; used by every core protocol |
| Filter (`sdk/src/filter`, `core/src/lib/filter`) | subscriptions, callbacks, received hashes, ping failures, peers in use | subscribe, unsubscribe, unsubscribeAll, ping, push handler, monitor | PeerManager, StreamManager, ConnectionManager's status event |
| Light Push (`sdk/src/light_push`, `core/.../light_push`) | none | send, background retries | PeerManager, StreamManager |
| Store (`sdk/src/store`, `core/.../store`) | cursor, abort flag of a query | queryGenerator, queries with callbacks | PeerManager, StreamManager |
| HealthIndicator (`sdk/src/health_indicator`) | health value | handler of connect and disconnect | libp2p peer store |
| waitForRemotePeer and Metadata (`sdk/src/waku`, `core/.../metadata`) | confirmed handshakes | waitForPeers, handshakes | libp2p identify events |
| Peer exchange (`discovery/src/peer-exchange`) | peers being queried, attempts | start, stop, recurring queries | peer store, ConnectionManager through discovery events |
| Local peer cache (`discovery/src/local-peer-cache`) | cached peers, local storage | start, stop, identify handler | peer store |
| DNS discovery (`discovery/src/dns`) | tree cache, visits, counters | findPeers, randomized descent | DNS, peer store |
| Relay (`relay/src`) | observers by topic | subscribe, unsubscribe, incoming messages, waitForPeers | gossipsub |
| Async iterator (`utils/src/common`) | buffered messages | next, stop | Filter or Relay |
| Sharding, message formats, encryption, hashes, protobuf code | none | pure conversions | everything that sends or receives |
| ENR, SDS | none | pure conversions | DNS discovery, peer exchange |

What is hard in them, at its line, is the list `hazards` of `PROJECT.json`, with
the properties that cover each, or a note on why there is none. What makes
each component correct:

- ConnectionManager: the count of dials is exact and bounded, queued peers are
  neither lost nor doubled, dials end, the online flag and its event follow the
  connections, the bootstrap limit holds, what is connected is pinged until somebody asks for its hang up.
- PeerManager: the pool is bounded, filled when it can be, and made of open
  connections.
- StreamManager: a stream has one user, one creation at a time, every call
  settles.
- Filter: every message that a live subscription gets is delivered once, the
  monitor runs while there are callbacks and not without a cause, a failing peer is replaced,
  the peers in use are those that are pinged.
- Light Push and Store: a query ends once the store settles, its pages join without a gap or a
  repetition; retries are bounded and spread over the pool.
- HealthIndicator and waitForRemotePeer: what they say of the node's peers is
  true of the peers there are, however late their handlers end.
- Discoveries: attempts are counted, one chain queries a peer, what is stored is
  announced, what was heard is stored unless its write fails and nothing stored is
  lost, the search of the DNS tree ends and takes no more than is wanted.
- Relay and async iterator: who stays subscribed misses nothing and gets nothing
  twice; a stopped iterator gives out what had come and ends.
- Message formats: what is decoded is what was sent, by every way and through
  every copy of the codecs, and every node computes the same hash.

## Modules

| Module | What it is |
| --- | --- |
| `ConnectionManager` | the connection manager with its ping timers, for a node without relay |
| `MCConnectionManager` | peers and calls for TLC |
| `ConnectionManager_proofs` | its theorems |
| `PeerPool` | abstract specification: what the peer manager promises to its users |
| `PeerManager` | the peer manager over libp2p's connections; implements `PeerPool` |
| `LightPush`, `MCLightPush` | light pushes and their retries, over the pool of `PeerManager`; instance |
| `PeerManager_proofs` | theorems of both |
| `StreamManager` | the stream manager of one codec, for one peer |
| `MCStreamManager`, `StreamManager_proofs` | instances and theorems |
| `FilterSubscription` | a filter subscription with its monitor, composed with `PeerManager` |
| `MCFilterSubscription`, `FilterSubscription_proofs` | instances and theorems |
| `HealthIndicator`, `WaitForPeers` | the health of a node; `waitForRemotePeer` with the metadata service |
| `Readiness`, `MCReadiness`, `Readiness_proofs` | both over the same connections and peer store; instance and theorems |
| `PeerStore` | libp2p's peer store, as the discoveries use it |
| `DnsDiscovery` | the descent of the ENR tree and `findPeers` |
| `PeerExchange` | peer exchange |
| `LocalPeerCache` | the local cache and the browser's storage |
| `SingleDiscovery`, `MCSingleDiscovery` | a node that has one of DNS and the local cache, in every detail of it; instance |
| `Discovery`, `MCDiscovery`, `Discovery_proofs` | all three at work on one peer store, with restarts of the page; instance and theorems |
| `Protobuf` | the codec that the generated modules share: what is written of a field, what is read |
| `ProtoMessages` | the message types of `proto/src/generated`, by their fields |
| `PayloadCipher` | the layout of an encrypted payload, over perfect ciphers |
| `Messages` | encoders and decoders of messages, the hash, requests and pushes of every protocol |
| `Sharding` | shards, topics, autosharding and the codec of records |
| `Messages_proofs` | theorems of the conversions, of `Protobuf` to `Sharding` |
| `Relay`, `AsyncIterator` | observers of the relay; the iterator over one of them |
| `StoreQuery` | a Store query page by page |
| `Messaging`, `MCMessaging`, `Messaging_proofs` | messages by every way: pushed, relayed, iterated, queried; instance and theorems |

Operators whose comment begins with "Mutant" are faulty variants of the
definition that follows; nothing of the model uses them. Each shows that a
property would notice such an error.

### ConnectionManager

A `Request` is a call that dials one peer (`Target`): a call of `attemptDial`
made by the constructor's scan of the peer store (`Stored`) or by a discovery,
or a call of the public `dialPeer` by the application (`Direct`). Where it is
suspended:

| `pc` | in the code |
| --- | --- |
| `discovered` | `dispatchDiscoveryEvent` reads the tags |
| `checking` | `shouldDialPeer`, reading shard info and tags |
| `preferred` | `shouldDialPeer`, after `isPeerDialableBasedOnBootstrapStatus` |
| `admitted` | `attemptDial`, after `shouldDialPeer` |
| `queued` | the peer is in `pendingPeerDialQueue` |
| `dialing`, `tagging` | `dialPeer`, waiting for `libp2p.dial`, then for the tags |
| `fallback` | `attemptDnsDiscovery`, waiting for the peer store |
| `skipped`, `connected`, `failed` | over |

The variables keep the names of the fields they stand for in their comments. A
call that processDialQueue starts anew keeps its name. A suspended
`peer:connect` handler is counted in `greeting` (waiting for tags) or `dropping`
(waiting for `hangUp`). libp2p emits an event in the same stretch in which it
changes the connection, and the handlers run up to their first `await` there;
so the action that opens or closes a connection does that part of the handler
as well. `intervals` counts the ping intervals that tick and `pingTimers` those
that are recorded, because the two can differ.

The content of the tags, shard info and addresses is abstracted to `Bootstrap`
and `OnShard`. The failure of a peer store read (which the code turns into "no
tags") is left out: a peer that was discovered or is connected has a record.
`dropConnection` is public: `DropDirectly` is a call of it by the application for any
peer, whose hang up then closes the connection or fails. The history `dropped` has the
connected peers with such a hang up since their last ping was set.
`getPeersByDiscovery` and `getConnectedPeers` change nothing and are left out,
as are the relay timers. A peer has one connection here and several in
`PeerManager`.

### PeerManager and PeerPool

`state[c]` says whether libp2p lists connection `c`, and whether it is open or
closing; `locked` are the connections with the lock tag. The handlers have no
suspension before their last effect, so each runs whole, with the change that
it is told of. `requestRenew` picks the first connections in libp2p's order; the
model leaves the order open. `PeerPool` is a set of open connections of bounded
size that members leave only by closing; `ImplementsPool` says that every step
of the peer manager is one of the pool.

### StreamManager

A `Task` is a call of `getStream` (`Caller`) or of `createStreamWithLock`
(`Job`); the stream it creates has its name. `streams[k]` is
`connection.streams` in the order of the requests: a stream has no protocol
until it is negotiated, and the code looks at the first one of the codec only.
libp2p's part (`StreamOpens`, `CreationFails`, closing, connections) is free to
do anything a connection can do. Peers do not share any state of the stream
manager, so one is enough.

### FilterSubscription

The subscription of one pubsub topic. It takes the peer manager as an instance
(`PM`) with one connection for each peer, so a step of a connection is that of
the peer manager and, where the monitor listens, of the monitor's handler after
it: both are listeners of the same libp2p event, and the peer manager's was
attached first. `getPeers` and `requestRenew` return promises that are settled
already, so awaiting them is no suspension in the model; awaiting a peer's
answer is one.

| In the code | In the model |
| --- | --- |
| `subscribe`, `unsubscribe`, `unsubscribeAll` of the application | an entry of `calls`, from the request to the last answer; `unsubscribe` deletes its callbacks at each answer (`waiting`), the others have an effect only at their end |
| `Filter.subscribe`, `subscribe` of the subscription | `Subscribe`, which needs a topic and a peer in the pool until the subscription exists (the early return without a peer changes nothing); from then on it may be a subscribe of no topics, which starts the monitor without a callback (history `bare`) |
| `peerIds`, `isStarted`, `keepAliveIntervalId` | `peerIds`, `started`, `ticking` |
| a suspended `ping` or `subscribe` of the monitor | a record of `tasks`: the peer, the attempt (0 for a ping), and whether the handler of an online event awaits it |
| `onConnectionChange` between its pings and `startKeepAlive` | `resuming`, with the requests it awaits |
| `receivedMessages`, a suspended `pushMessage` | `received`, `decoding` |

A ping fails with a failure value (`PingFails`), or throws when its answer cannot be
decoded (`PingThrows`); `FilterCore.subscribe` throws for that too, and when there is no
stream to the peer or its answer is empty (`SubscribeThrows`). Either takes the handler
that awaits it along. An answer needs
an open connection; a failure can come at any time. Left out: the check of peers through Light Push
(`enableLightPushFilterCheck`, off by default), and the sets that only that check
reads.

`StaysServed` is about steps and not states because `StartedIsServed` does not
hold: a subscription can begin its life without a live
peer in `peerIds` and then remains so. From a state where it has one, no
step may take it while another connection is open.

### LightPush

`Send` takes the pool as the peers; a peer with two locked connections is there
twice, as in the code, so the targets are connections. `push.waiting` are the
requests of `Promise.allSettled` without an answer. Every way in which
`LightPushCore.send` can fail (no stream, a broken one, no answer, a refusal) is a
failure; it never rejects. `SendReturns` begins one `attemptRetries` for each
failure, over the pool of that moment in any order; `sent` counts its attempts to
each peer. The module extends `PeerManager`, whose steps go on beside it.

### HealthIndicator, WaitForPeers and Readiness

A suspended handler of the health indicator is what it saw of the connections
(`checking`); protocols become known by `Identify`. Counted are connections, as
the code counts them. A call of `waitForRemotePeer` is a record: `pending` are
the protocols whose `peer:identify` listener is still to be satisfied, `scan` is
where `waitForMetadata` is, `queries` the handshakes under way of both. Listeners
of a call that is over stay, as `Promise.any` does not remove them. For a node
without relay.

### DnsDiscovery, PeerExchange, LocalPeerCache and Discovery

`PeerStore` has the operations of libp2p's peer store that the discoveries use:
`save` overwrites what there is, `patch` and `merge` only what they are given.
Each `await` on it is a suspension of the caller: between `has` and `save` another
discovery may store the same peer, and between `has` and `get` the connection
manager may delete it (`Forget`), which makes `get` throw.

A descent of the DNS tree is `dns.at`, one TXT record after the other; `visits` are
those of all searches of one `findPeers`, as in the context of the code. Resolve
may fail at any record, before or after it counts as visited. A root is followed
wherever it leads, a branch only where `visits` allow; a node without a peer id (`info`)
is skipped, and its search is counted. The exponential
growth of the intervals of `PeerExchange` is left out, the counted attempts are not; a
recurring query is one of `Chain`. `LocalPeerCache` is modelled with the page's
restart, which keeps nothing but `stored`. A page may have no storage (`usable`), and
with one each write may fail; both are caught and logged. `handleNewPeers` reads the
storage anew, so a peer whose write failed is also gone from `this.peers` at the next
event. `unwritten` is the history of the peers whose last write failed. One page at a
time: a second tab on the same storage is not modelled, and `stop()` would overwrite what
it stored. An address stands for a WebSocket
multiaddr. `SingleDiscovery` is a
node whose options enable one of them (`enabled`): what one does alone is checked there
with more branches, addresses and failures than there is room for beside the others. In
`Discovery` a `peer:identify` event goes to both listeners.

### Protobuf, ProtoMessages, PayloadCipher, Messages and Sharding

The generated modules are one codec over different fields. `Protobuf` has that
codec: which fields are written and in which order, that a field without presence
is left out when it is zero, that the last value counts, and that unknown fields
are skipped. Bytes are a sequence of runs, each the number of a field and the values
that are written with it, one level of nesting each. `ProtoMessages` lists the fields of every message type; `WakuMessage`
and its proof are there five times, because the code generates them anew for each
protocol, and a message passes through several copies. `Messages` has the encoders and
decoders, the requests and pushes, and the hash as the bytes that are hashed. Payloads, topics and keys are short
sequences; times are in milliseconds with a scale (`OneMillion`, `Mantissa`) at which
the product loses bits like the real one does. `Sharding` has all the conversions
as operators over configurations; a pubsub topic is the pair of cluster and shard.

### Relay, AsyncIterator, StoreQuery and Messaging

An incoming message is first read for its content topic, then given to each
observer of that moment after an await of its decoder (`Callback`); subscriptions change
in between. `calls` is what each callback was called with, `owed` who has been
subscribed ever since the message came. `AsyncIterator` takes a subscription of the
relay; its buffer is what its callback has got and the loop has not taken.
`StoreQuery` has a store that grows at its newer end, pages in both directions, and
the callbacks of a page, which end in any order and each write `abort`, or throw
(`CallbackThrows`). `from` is the caller's `paginationCursor`, or 0 without one. The
store node may answer with any number of messages up to the page's size.
`Messaging` puts them together: `Sent` says what applications send,
`Gossiped` what of it reaches the network by a push or the relay, and `Ways` how a
message comes to a subscriber.

## Runs

| Run | Result | What it asks |
| --- | --- | --- |
| `CM_dials` | holds | one slot, two tries, two attempts for one peer and a dial by the application: slots, limit, queue, intervals; dials end, and lasting connections are noticed |
| `CM_bootstrap` | holds | two bootstrap peers and room for one, with two handlers each: online flag, pings (with hang ups that the application asks for), status event |
| `CM_concurrent_dial` | violated | a peer with an active dial is not dialed again |
| `SM_streams` | holds | two calls, two updates, two connections: exclusive streams, one creation, one taker of a promise, every call settles |
| `SM_shared_stream` | violated | simultaneous calls get different streams |
| `FS_monitor` | holds | two peers, a pool of one, one call at a time: the monitor keeps a live peer while there is one to have |
| `FS_calls` | holds | one peer, two calls that overlap, two topics or one or none, a message: the monitor follows the callbacks, delivery at most once |
| `LP_pool` | holds | three peers, a pool of two, one send and a retry of three attempts: the pool is bounded and filled, refinement of `PeerPool`; retries spread and end |
| `RD_light_node` | holds | two peers, one call, two suspended handlers and two handshakes: health and `waitForRemotePeer` say what is true of the peers |
| `DS_discovery` | holds | DNS, peer exchange and the local cache store one peer at the same time, while it is given up and the page restarts: nothing stored goes unannounced, one chain for a peer, chains end |
| `DS_single` | holds | DNS or the local cache alone. A tree with circles of branches, one through a chain of roots, and a node without a peer id: `findPeers` ends, with no more nodes than are wanted. Two peers at two addresses, pages with and without a storage that may be full: what was heard and could be written is stored, nothing stored is lost |
| `MS_messaging` | holds | messages by every way: decoded as sent, hashes agree, every message type keeps its fields, windows and shards agree; observers, iterator and query miss nothing, from every cursor of the caller; a stopped iterator ends, and a query does if its requests are answered, its callbacks end and the store settles |

The longest, `DS_discovery`, takes between two and three minutes with two workers.

The violated runs state what a comment, an option's documentation or a test of
the repository says; `findings` in `PROJECT.json` quotes the line and says what
the code does instead. More of that kind is listed below.

### Bounds

Bounds are the sets of peers, calls, connections and streams of the cfg files,
and:

- `MaxGreetings`, `MaxChecks`, `MaxQueries`: suspended connect handlers of one
  peer, suspended handlers of the health indicator, handshakes under way. A further
  event waits until one has ended; handlers that would see the same count as one.
- In `FilterSubscription`: the calls of the application at one time (`Call`);
  requests of the monitor that are alike count as one; a tick finds no ping of the
  last one under way, and an online event no handler of the last one; `failed`
  stays below `pingsBeforePeerRenewed` (positive; three by default, one and two
  here), because from there on every failure renews; and there are at most two
  attempts to subscribe (three in the code). `decoding` and `deliveries` need no
  bound: `DeliveredOnce` is one.
- `Retry` and `MaxAttempts`: retries of light pushes under way (one) and attempts of
  each (three, as by default, so that they come round a pool of two).
- `Chain` (recurring queries), `MaxRetries` (one; three by default), `MaxAnswers` (ENRs
  in an answer), the tree `Entry` and `ErrorTolerance`.
- `MayFail`: whether a page may be without a storage and writes may fail; it is true in
  `DS_single`, and false in `DS_discovery`, which asks nothing of the storage. The
  theorems are for both. `Met`: the peers that the cache hears of in `DS_single`.
- `MaxLog` and `PageSize`: messages of the store and of a page (two each, so that a
  page is full, short, or one of several; `PagesJoin` is proved for all). `MaxLog` makes
  the store settle, which `QueryEnds` names as its condition. `Relayed`:
  the messages that the relay emits, a plain one and an encrypted one.
- `SizeCap`, `OneMillion`, `Mantissa`, `Times`: small numbers in place of a megabyte, a
  million and 2^53. A time has a few bits too many when it is multiplied, as in the
  code.

Why they are enough to be telling: every hazard of the list needs at most two
calls, handlers or discoveries that meet (three for the pool: two in it and one to
follow), one peer that comes and goes, and a second try; every action of every
module fires in some passing run, and every mutant is caught within them. The runs
of `FilterSubscription` share the hazards out: what needs a second peer (renewals,
losing the peer in use) runs with one call, what needs overlapping calls runs with
one peer. The conversions keep no state: each
behaviour of `Messaging` begins with a look at one input of one of them (`sample`),
then the messages move. The inputs are the messages, configurations and times of
`MCMessaging`, and every set of fields of every message type; they take each branch: plain and encrypted, signed or not, with and
without `meta`, a proof, the ephemeral flag; too large and empty; fewer than 64
shards, 64 and more, and repeated ones. The safety properties of every run that holds
are proved for sets and inputs of any size in any case.

### Statements the code does not keep

Each was met while modelling. Those with a definition can be checked by adding its
name to the run's cfg; they have no run of their own because each is a
consequence of one line, which the model shows in an action.

| Statement | Where | What the code does |
| --- | --- | --- |
| `QueueDrains` of `ConnectionManager`: "Always decrease the active dial count and process the dial queue" | `connection_manager.ts:441` | `processDialQueue` starts one call, whose early returns (not dialable, full again) do not go on to the next; a queued peer may wait for ever |
| `StartedIsServed` of `FilterSubscription`: peers in use are cached "to understand if they disconnect later" | `subscription_monitor.ts:113` | `start()` reads the pool of that moment; a peer that went before is in it and its disconnect is never seen |
| `StopEndsPings` of `FilterSubscription`: `stop()` "Stops all recurring queries, event listeners or timers" | `subscription_monitor.ts:172` | an online handler that is suspended starts the timer again after `stop()` |
| `AloneIsUnhealthy` of `HealthIndicator`: "Unhealthy: No peer connections" | `health_indicator.ts:114` | a handler that saw connections may end after the one that saw none |
| `ResolvedIsServed` of `WaitForPeers`: "resolves if all desired protocols are fulfilled" | `wait_for_remote_peer.ts:79` | with a connection at hand the scan of the peers ends the call, confirmed or not |
| A failing peer of a subscription is replaced | `subscription_monitor.ts:288` | `requestRenew` does not unlock it; with a full pool nothing follows, and a peer that follows is not put in `peerIds` |
| Online follows the connections | `connection_manager.ts:548` | the connect handler sets the flag after two awaits, when the peer may be gone |
| A peer that cannot be dialed leaves the peer store, so that DNS discovery can follow | `connection_manager.ts:415` | it stays in the peer store |
| Room for `maxBootstrapPeers` | `connection_manager.ts:525` | two connect handlers may each drop a peer for the same surplus |
| `stopAll` clears the intervals | `keep_alive_manager.ts:116` | `Object.values` of a Map is empty |
| An abort is final | `sdk/.../store.ts:117` | callbacks of one page write one flag, a later `false` undoes it |
| A cursor can be made of any decoded message | `sdk/.../store.ts:159` | for an encrypted message the hash is that of the plain text, and for a time with parts of a millisecond of the rounded one; the store knows neither (`ArrivesAsSent` has it for plain messages only) |
| A message can be looked up by its hash | `core/.../rpc.ts:40` | `queryGenerator` always passes a topic, which `create` refuses beside hashes |
| `options.peer` of a store | `sdk/.../store.ts:226` | found, and then not used |
| No callback after `unsubscribe` | `relay.ts:246` | an observer of a message under way is still called |
| `waitForPeers` of the relay waits for "all pubsubTopics" | `relay.ts:103` | the peers found for one topic are kept for the next |
| A stopped iterator yields what has come | `to_async_iterator.ts:61` | the last message is returned, which `for await` discards; and a timeout ends the generator without `unsubscribe` |
| `stop()` of peer exchange | `waku_peer_exchange_discovery.ts:127` | returns at once, as `isStarted` is never set |
| `FindPeersEnds` of `DnsDiscovery` without its condition `RootsEnd`: a descent of the tree ends | `dns.ts:116` | only branches are compared with the visits; roots that lead to each other are followed for ever |
| A query ends | `core/.../store.ts:67` | going forward, a store that gains messages as fast as they are asked for has a further page each time; and the `pipe` of a request has no timeout (`QueryEnds` states both as conditions) |
| `HeardIsStored` of `LocalPeerCache` for two tabs, or without `unwritten` | `local-peer-cache/index.ts:97`, `:137` | `stop()` writes the peers of this page's last event over those of another tab; a write that fails is logged and not tried again |
| Every node of the DNS tree can be found | `dns.ts:199` | a branch visited by one search of a call is not entered by the next |

## Fairness

`FairSpec` of `ConnectionManager` assumes weak fairness of the continuations: the
event loop runs the continuation of every settled promise, peer store reads
settle, and libp2p settles every dial (it has a timeout) and every hang up. It
assumes nothing of the peers, of discovery, of the application or of the
browser. `FairSpec` of `StreamManager` assumes the same of `newStream`, whose
negotiation has a timeout, and of the tasks.

The newer modules assume that a request is answered or fails (`SendStep`, `RetryStep`,
the queries of `PeerExchange`, the TXT queries of `DnsDiscovery`), a timer that is set
fires (`TimerFires`), and promises of the peer store settle (`DnsStep`, `ChainStep`).
`StoppedIteratorEnds` also assumes that the consumer of the iterator asks for the next
message, as a `for await` loop does. Which of the outcomes comes is never assumed: all
of them may fail for ever, and messages may be stored or peers come and go meanwhile.

"Answered or fails" is more than the code sees to. The requests of Light Push
(`light_push.ts:115`), Store (`core/.../store.ts:67`), peer exchange
(`waku_peer_exchange.ts:69`) and Filter await a `pipe` without a timeout: a peer that
keeps the stream open and says nothing suspends them until its connection goes, and
with them the call. `PushSettles` and `QueriesEnd` hold for peers that do not. `QueryEnds`
has no such fairness and states its conditions itself, over the fairness of the event
loop alone (`NextPage`): the requests are answered or fail (`RequestsAnswered`), the
callbacks that were given to the query end (`CallbacksEnd`), and from some time on no
message is stored (`StoreSettles`). TLC refutes it without either of the first two; the
third is true of every behaviour with `MaxLog` messages at most. `FindPeersEnds` names
the trees that it is about (`RootsEnd`): without that condition TLC refutes it on a tree
with a root below itself.

## Theorems

All are proved for every value of the constants that satisfies the named
assumptions, which TLC evaluates on the instances:

- sets are finite where something in them is counted: calls, connections, capabilities,
  the decoders of a subscription (`PeersAssumption`, `RequestsAssumption`,
  `ConnAssumption`, `TaskAssumption`, `RelayAssumption`, `DnsAssumption`);
- limits are numbers, positive where the code needs it (`LimitsAssumption`,
  `SizeAssumption`, `QueryAssumption`), kinds of calls are disjoint, topics are given
  (`TopicsAssumption`), the iterated subscription is one of them (`IteratorAssumption`);
- what comes from outside has a form: a connection has a peer and no protocol is
  called "scan" (`ReadyAssumption`), a record of the tree is a root, a branch or a leaf,
  and a leaf names a peer (`DnsAssumption`), an answer has a peer, addresses and shards
  (`PxAssumption`), identify tells of sets of addresses (`DiscoveryAssumption`);
- inputs of the conversions are what their types allow: a configuration has shards or
  content topics, at least one, and a cluster of 16 bits (`ConfigsAssumption`), the
  hash of autosharding gives one of eight shards (`ShardingAssumption`), no payload is
  above a megabyte (`MessagesAssumption`). A sent message has bytes as its payload and a
  time after the epoch, which the decoders take for none, and if a proof then a whole
  one; an encoder that encrypts knows whether it signs (`SentAssumption`). The relay
  has what is passed on (`WireAssumption`);
- `TimesAssumption`: up to the last time of a message the numbers are less than two
  milliseconds apart. With 2^53 numbers for each power of two and nanoseconds this
  holds up to 2^73, and the last Date is 8.64 * 10^21, below it.

- `ConnectionManager_proofs`. `TypeOK` is inductive. `QueueExact` needs, beside
  it, only that entering and leaving the queue happen with the change of `pc`.
  `DialSlotsExact` is about a cardinality: each action adds one call to
  `Active`, removes one, or leaves it; releasing a slot may start a queued call,
  which `QueueExact` shows to be another one, not active. `ParallelDialsBounded`
  follows because only `TakeSlot` lets an attempt in, and it compares the exact
  count. `ConnectedIsPinged` is about every peer, bootstrap peers included, that nobody
  asked to hang up. The online flag, the pings, the intervals and the announced status are
  inductive together with `TypeOK`; each action's effect on them is a lemma
  about `StartPing`, `StopPing` and `SetOnline`.
- `PeerManager_proofs`. The lemma `RenewLocks` says what `requestRenew` does to a
  pool within its budget: it never unlocks, stays within the budget, and fills
  the pool or leaves nothing of another peer unlocked. The budget is inductive
  with `TypeOK`, and each step of that proof also yields the step of `PeerPool`,
  which gives the refinement. Saturation is inductive when peers have one
  connection. A retry of a light push takes the peer of its next attempt modulo the
  number of peers, so after `i` attempts a peer was tried as often as there are numbers
  below `i` with its remainder: the invariant says this of every retry, and two such
  counts differ by one at most (`Division`, `UniqueRemainder`). Pushes only read the
  pool: every step is one of the peer manager or a stutter, and so its theorems hold
  beside them.
- `StreamManager_proofs`. `FoundStreamIsExclusive` is inductive with the fact
  that every stream held is marked; `PromiseTakenOnce` needs that a promise in
  the pool or awaited belongs to a creation that has begun; `OneScheduledCreation`
  is inductive. The proofs use nothing of libp2p's behaviour.
  A second invariant (`ListInv`) is about `connection.streams`: a stream is listed once,
  by an open connection, and exactly while it lives. Hence a stream that
  `getOpenStreamForCodec` finds is ready, on an open connection, and given to no call
  that still has it (`FoundStreamLives`).
- `FilterSubscription_proofs`. Every action is shown to be a step of `PM!Next` or to
  leave the pool alone, which with `TypeOK` gives the refinement. The monitor
  follows the callbacks by an invariant that is inductive with the types; the point of the
  proof is that whoever stops the monitor has seen no callbacks, or takes them away
  itself. `StaysServed` rests on what
  the peer manager's handler leaves behind: after a disconnect the pool has a
  connection whenever one is open, so the monitor, which reads the pool
  after it, has one too. `DeliveredOnce` needs that what is decoded or delivered is
  in `received`, which never shrinks.
- `Readiness_proofs`. A suspended handler of the health indicator may have seen what is
  no more: the invariant says of each that, if it saw two connections to Filter peers,
  the node has had two (`HealthInv`). Of a call of `waitForRemotePeer` it says that a
  protocol that is not pending is one of an identified peer, and one that the scan
  ticked off is one of a confirmed peer; of a handshake, that its peer is identified
  and serves what the listener waits for (`CallOK`, `QueryOK`). Both are needed because
  a call is ended by handshakes begun before.
- `Discovery_proofs`. The storage has what was heard and could be written, and loses no
  peer (`HeardStaysStored`, `StoredStays`), because on a page that may use it the cache in
  memory has all of that too (`HeardIsKept`): `stop()` overwrites the one with the other,
  or fails.
  A peer of the store that is not announced is owed by somebody: a discovery that is
  about to announce it. That alone is not inductive, for a chain of peer exchange that
  saw the peer in the store may patch it after the connection manager has deleted it,
  and so put it back without an announcement: the invariant adds that such a peer was
  announced, or is owed by another, before (`PromisesKept`). One active chain for
  a queried peer is inductive with the types (`OneChainEach`).
  A search takes no more nodes than are wanted, because each one fills a place of what
  is wanted that was free (`NodesFill`); places are pairs of a capability and a number,
  and `Sum` counts them. Proved for the search by itself (`DnsSpec`) and beside the
  other discoveries.
- `Messages_proofs`. The fields of a type have distinct numbers and names, so of the
  runs of a message one at most is a field's (`WrittenOnce`), and what is read of the
  field is that run (`FieldRead`): `RoundTrip` for any type of that kind and any of its
  objects, and for the generated types as its instances. A sealed payload is flags, size,
  payload, padding and perhaps a signature: the size field is shown to hold the length
  in each of its widths, and the signature to cover all before it (`SealedOpens`).
  `Unique` and the order of a record's shards are made of the ascending sequence of a
  set of places (`At`, `InOrder`), whose lemmas rest on the least number of a set
  (`LeastNumber`, of the well-founded order of the numbers) in place of an induction; from
  them the topics and shards of a configuration agree in every form (`ConfigsAgree`).
- `Messaging_proofs`. That the pages join is inductive once it is said what was
  yielded: going forward everything after the caller's cursor and up to the present one,
  going back everything from the present one up to the message the first page ended with,
  which is the one before the caller's cursor if there is one (`SeenTo`). A page is a
  run of messages that follows the cursor, or ends before it (`PageAtCursor`); so
  it prolongs what was yielded, and shares nothing with it. A message stored in
  between is after both.
  For the relay the invariant accounts for a message under way: there is a set of
  observers to whom it was given already, apart from those that wait, whose readers
  are as many for each subscription as the calls of its callback, and which with those
  that wait has everybody to whom the message is owed (`Accounted`). Who
  unsubscribes is owed nothing any more, but may still be called.
  For the iterator, what was yielded and returned is a beginning of what came, and
  without a timeout the end comes only after the unsubscribing, with the last message
  (`EndsDrained`).
  The window keeps its sides because rounding is off by half of the distance between
  numbers at most, less than a millisecond (`RoundedNear`, with the scale that fits,
  `ScaleFits`, `ScaleLeast`).
  Every step of `Messaging` is one of a part or leaves it alone (`StepsOfParts`), which
  gives the theorems for `MessagingSpec`, and that it implements the query by itself
  (`QueryImplemented`).
  For `ArrivesAsSent` a message that is gossiped is shown to read as the object that the
  sender encoded, pushed or relayed (`GossipedReads`); each of the three ways to a
  subscriber hands on that object (`WaysOf`); and the decoder of the encoder's topic and
  key undoes its work (`DecoderOf`).

Before each proof TLC checked the inductive invariant on the run of the module.

Only model-checked are the liveness properties, which the prover cannot reason about
under fairness, and the violations. Not proved and not checked are the facts about
characters and bytes that the conversions abstract from: see below.

## Not modelled

- Relay: `waitForPeers` (a loop over heartbeats of gossipsub) and gossipsub itself.
- KeepAliveManager: the relay's timers and their keys (PeerId objects); the ping
  timers are in `ConnectionManager`.
- Filter: the check of peers through Light Push (`enableLightPushFilterCheck`, off by
  default), and the lines of the core protocol that only write a request.
- Store: the checks of the decoders before a query, which throw before anything
  changes, and the choice of one peer of the pool.
- The Waku node and its creation: one-time wiring that keeps no state.
- Sharding: the parsing of content topics, the hash of autosharding (a constant),
  and `singleShardInfosToShardInfo`.
- Message encryption: ciphers, signatures and the hash function are perfect.
- Protobuf: the bytes of numbers and lengths, and limits of repeated fields.
- ENR: encoding and signatures of records; DNS: parsing and signatures of the tree's
  records and the DNS clients; SDS: a Bloom filter, pure data.

## Plan

Done: the connection manager, the pool and its users (Filter, Light Push), streams,
health and readiness, the three discoveries over one peer store, messages and their
formats, relay, iterator and Store; the theorems of all of them, those of the
conversions included. Next, most important first:

1. KeepAliveManager as a module of its own, with the relay's timers, so that what
   `stopAll` leaves behind is a property.
2. `waitForPeers` of the relay, over heartbeats and meshes.
3. The check of a subscription's peers through Light Push.
4. More theorems: that the whole `Discovery` implements each discovery by itself, and
   what a promise of the pool is worth to a Store query.
