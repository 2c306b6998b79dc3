# TLA+ models of the rlp / RLPx / discovery / eth-watch stack

This directory holds TLA+ models of the repository's C++ code, TLC configurations
that check them on small instances, and TLAPS proofs of the central properties for
every instance. `PROJECT.json` is the index: components, runs, the map from
definitions to source lines, hazards, findings, theorems. All paths below are
relative to the repository root.

## 1. The system

A light Ethereum client that watches contract events on several chains.

| Part | State | Operations | Talks to |
|---|---|---|---|
| RLP codec, RLP streaming (`src/rlp`) | buffer, stack of list positions, cursor | add, BeginList, EndList, read, skip; chunked variants | every message below |
| RLPx session (`src/rlpx/rlpx_session.cpp`) | state, two channels, two coroutine loops | connect, post_message, receive_message, disconnect, routing to handlers | message stream, the application's handlers |
| Message stream, frame cipher, transport (`src/rlpx/framing`, `src/rlpx/socket`) | AES-CTR streams, running MACs, socket | send, receive, connect with timeout, close | session |
| Auth handshake (`src/rlpx/auth`) | keys, nonces, captured auth/ack bytes | execute, as initiator or responder | session |
| discv4 client (`src/discv4/discv4_client.cpp`) | pending replies, bonded and discovered sets, coroutines | start, stop, find_node, ensure_bond, request_enr, packet handlers | application's peer callback |
| discv5 client and crawler (`src/discv5`) | sessions, challenges, pending requests; peer queue, counters | packet handling, crawl rounds, ingest | application's peer callback |
| Dial scheduler and history (`include/discv4/dial_scheduler.hpp`, `dial_history.hpp`) | slots in use, queue, cooldowns, sessions, per chain; a pool shared by the chains | enqueue, release, stop, on_connected, on_done | discovery on one side, `dial_fn` on the other |
| `run_watch` (`examples/eth_watch/eth_watch.cpp`) | one coroutine per dial: two timers, flags | connect, Status exchange, wait | scheduler, session, watch service |
| Chain tracker (`src/eth/chain_tracker.cpp`) | set and ring of seen hashes, tip | mark_seen, reset | watch service |
| Eth watch service and event filter (`src/eth/eth_watch_service.cpp`, `event_filter.cpp`) | subscriptions, pending requests | watch_event, unwatch, process_message, request_receipts | tracker, session |
| eth messages and objects, p2p messages, discv4 packets, ENR (`src/eth`, `src/rlpx/protocol`, `src/discv4`, `src/discv5/discv5_enr.cpp`) | none | encoding, decoding, validation | the RLP codec; the session, the clients |
| ABI decoder and event registry (`src/eth/abi_decoder.cpp`, `include/eth/eth_watch_cli.hpp`) | none | decoding of logs | watch service |
| Ciphers, curves, 256-bit integers | none | arithmetic | auth handshake, frame cipher |

Everything except the discv5 crawler's mutex-protected state runs on one `io_context`
thread. The hard behaviours come from coroutines that resume in an order nobody wrote
down: a timer that expires while its answer is queued, a `disconnect()` that meets a
completed read, two coroutines that share a map entry, a `stop()` in the middle of
everything; and from counters, windows and rings at their limits.

## 2. Modules

| Module | Models | State and actions |
|---|---|---|
| `DialHistory` | `dial_history.hpp` | Operators on a history: for each peer the time left before its entry expires. |
| `DialScheduler` | `dial_scheduler.hpp`: any number of schedulers on one `WatcherPool` | Members of the same names, indexed by chain; `dials` are the coroutines alive. `Enqueue`, `Done` (the `on_done` closure with the whole of `release()` and its drain loop), `Connected` (`on_connected`), `Stop`, `Tick`. |
| `SeenWindow` | - | Abstract specification of the tracker: a first-in first-out window of the last hashes, and the highest number. |
| `ChainTracker` | `chain_tracker.cpp` | One record with the members of the class. `mark_seen` and `reset` as functions on that record, and as actions. `ImplementsWindow` instantiates `SeenWindow` with the ring read from its head as the window. |
| `EventFilter` | `event_filter.cpp` | `EventFilter::matches` and `process_receipt` as operators. |
| `EthWatchService` | `eth_watch_service.cpp`, over `ChainTracker` and `EventFilter` | `watch_event`, `unwatch`, `set_send_callback`, `process_message` for each message kind; `sent`, `unanswered`, `callbacks`, `new_blocks` record what the peer and the application see. |
| `EthWatchDial` | `run_watch` in `eth_watch.cpp`, composed with `DialScheduler` | `watch[d]` is the coroutine of dial `d`: where it waits, its session, its flags, which timer has woken it. `orphans` counts sessions that outlive their dial (their handlers hold them). Every scheduler action is extended by what it does to the coroutines. |
| `RlpxSession` | `rlpx_session.cpp` | `connect()` step by step, then the owner's calls, the send loop, the receive loop and the handlers it calls. A finished read or write is a step of its own, before the coroutine resumes. |
| `Discv4Client` | `discv4_client.cpp` | `tasks` are the coroutines, each making its requests in the order of the code; `pending_replies_` by endpoint and kind. One action for each packet handler, `start`, `stop`, each end of a send, timers. The network may deliver any packet at any time. |
| `Discv5Crawler` | `discv5_crawler.cpp` | Operators on the crawler's state, one for each method: queue, deduplication, fork filter, measured and failed sets, bootstrap URIs with the digits of their ports. |
| `Discv5Client` | `discv5_client.cpp` with a crawler, on each of several nodes | `client`, `sessions`, `pending_requests`, `sent_challenges`, `tasks` (coroutines spawned and not yet run) per node; `net` holds the packets under way. `Start`, `Stop`, `Crash`, `CrawlRound`, `CrawlEnds`, `RunTask` (each kind of coroutine), `Receive` (each kind of packet), `Lost`. |
| `RlpxChannel` | `socket_transport.cpp`, `auth_handshake.cpp`, `frame_cipher.cpp`, `message_stream.cpp` | Two sides of one connection. `Resolved`, `Connected`, `AttemptFails`, `TimerFires` are `connect_with_timeout`; then the auth and ack packets, the derivation of the secrets, the HELLOs, and frames read in two steps, header and body. `Break` and `Damage` are the faults; `Closes` is the end of a session that has failed, which leaves its socket open until then. |
| `Rlp` | `rlp_encoder.cpp`, `rlp_decoder.cpp`, `endian.cpp` | Operators on sequences of bytes, with the real offsets and thresholds. |
| `RlpStreaming` | `RlpEncoder` with its stack of open lists, `rlp_streaming.cpp` | `buffer_` and `list_start_positions_`, the open streaming encoder, the streaming decoder; one action for each of their operations, in any order, after errors too. |
| `RlpTokens` | the decoder's operations one level above bytes | Operators on sequences of tokens. |
| `EthObjects`, `EthMessages` | `objects.cpp`, `messages.cpp` | Encoders and decoders as operators on tokens. |
| `NodeMessages`, `Enr` | p2p messages, discv4 packets; node records, FINDNODE and NODES | The same. |
| `AbiDecoder` | `abi_decoder.cpp` and the registry of events | Operators on 32-byte words. |
| `WireLink` | all of the codecs above, between a peer and this node | One message under way: `Send`, one change (an item more or less, another value in a field, data cut short), the decoding, and a second hop. |
| `MC...` | - | Sets of model values and small tables for TLC. |
| `DialSchedulerProofs`, `ChainTrackerProofs`, `RlpxSessionProofs`, `Discv4ClientProofs`, `Discv5ClientProofs` | - | TLAPS proofs. |

Operators whose comment says "Mutant of" are deliberately wrong versions of a
definition. Nothing uses them in the specifications; substituting one for the
definition it names must make TLC report the property listed with it in
`PROJECT.json`.

### Abstractions

* Peers, hashes, endpoints and chains are model values. A message is its kind and the
  fields the control flow looks at; decoding has succeeded or failed.
* Time in `DialHistory` counts down; one `Tick` is one unit of the cooldown. In
  `Discv4Client` the clock counts the seconds that enter a packet's hash, which is why
  two PINGs to an endpoint in one second have the same hash.
* In `RlpxSession` a message is its number, so order, loss and duplication are visible.
* Asio's queue: a completed operation only queues its coroutine. Closing a socket or
  cancelling a timer has no effect on a completion that is already queued.
* In `RlpxSession` a send or receive of a whole message is one socket step. Frames are
  in `RlpxChannel`, where `ReceivedAsSent` shows the ordered channel the session uses.
* RLP is modelled twice. `Rlp` has the bytes. The messages use `RlpTokens`: a token is a
  whole string item, with its length in bytes, or the header of a list. A decoder only
  moves over its view, so comparing what is left of two views is the same on both levels,
  and, as in the code, the header of a list puts no end to what is read behind it.
* Cryptography is symbolic in `RlpxChannel`, `Discv5Client` and `Enr`: a secret is what it
  is computed from, a signature is the signed content with the key, a running hash is
  what was written to it, a ciphertext is its text with key and position in the key
  stream. What does not match is refused; nothing is said of the ciphers themselves.
* The peer of `RlpxChannel` is a client of the network that follows the protocol
  (external), or this program's own responder.
* A word of `AbiDecoder` is a pair, its first 12 and its last 20 bytes; `size_t` has 16
  bits there, far more than any data of the runs, and sums wrap as in the code.
* `Enr` keeps the signature and the signed content where the code does, in `extra_fields`
  under two names (`discv5_enr.cpp:191`, `217`). A pair of a record that has one of these
  names replaces them (317) before `verify_signature` reads them (340).
* A coroutine of `Discv5Client` runs in one step up to its send and ends there: what it
  does after the send only adds to the crawler's sets.

## 3. Runs

Passing runs; state counts are distinct states.

| Run | Instance | Shows |
|---|---|---|
| `dial_two_chains` | 2 chains, 2 peers, pool of 3, 2 per chain, cooldown 1, queue of 2 (1.2 M states) | `CountersExact`, `CapsRespected`, `CooldownRespected`, `StopIsFinal`, `OwnExitDrains`: a dial that ends leaves a peer of its own chain waiting only while a cap is reached |
| `chain_tracker` | window of 3 over 5 hashes, the zero hash included | `RingMatchesSet`, and `ImplementsWindow` (refinement) |
| `eth_watch` | window of 2, 4 requests, announcements of up to 2 of 3 blocks with a fork, 2 `watch_event` calls, answers in any order (780 k states) | `PendingCoversUnanswered`, `RequestsSpacedByWindow`, `ListsInStep`, `EventsNameTheirBlock` |
| `watch_dial` | 1 slot, 2 peers, sessions that outlive their dial (107 k states) | `ValidatedIsNotTimedOut`: a Status that races the timeout is not lost; `StatusWaitEnds`, `PeerDisconnectFreesSlot` (liveness) |
| `session` | 3 messages each way | `ChannelsAreFifo`, `AtMostOneAfterEnd`, `EndIsFinal`, `DisconnectEndsLoops` (liveness) |
| `discv4` | 1 endpoint, 2 coroutines, 2 seconds (67 k states) | `NoDanglingEntries`, `BondIsProven`, `EveryTaskEnds` (liveness) |
| `discv5` | 2 nodes, one or both asking the other, 6 nonces, one fault (340 k states) | `PeersOnce`; `HandshakeOnce`: a handshake delivered twice or late does not replace a session; `SessionKept`: only the end of its process makes a node, asking or answering, forget one; `Answered` (liveness) |
| `channel` | peers with and without compression, acks at and above the limit of 2048 bytes, 2 messages one way and 1 the other, of sizes 0, 2^24-4 and 2^24-1, 2 addresses (116 k states) | `SecretsMatch`, `InStep`, `ReceivedAsSent`; `AllArrive`, `ConnectEnds` (liveness) |
| `rlp` | up to 3 additions of strings and numbers at the thresholds, lists and streams; wire strings of 3 bytes at the header's edges (87 k states) | `EncodedAsSpecified`, `DecodesBack`, `AcceptedIsCanonical`; `ChunksReassemble`: no read of a streaming decoder fails, whatever peeks come before and between, and the first peeks and all reads give what was streamed |
| `wire` | a message of every kind, one change, a second hop; a Transfer with every choice of indexed parameters (140 k states) | `RoundTrip`, `ExtraNeverShifts`, `RequestsExact`, `BadRecordAlone`, `LogNeverMisread`, `WireTypeOK`: what is decoded has the sizes of the struct |

Every state machine has a type invariant, which describes its variables (`TypeOK`,
`TrackerTypeOK`, `ServiceTypeOK`, `WatchTypeOK`, `SessionTypeOK`, `ClientTypeOK`,
`StreamTypeOK`, `Discv5TypeOK`, `ChannelTypeOK`). The first two are proved. The others
say little about the code and are not among the properties above; TLC confirms each
when it is added to the configuration of its module.

Why the bounds are enough for the cases of interest:

* `dial_two_chains`: the pool of 3 is smaller than the 2 + 2 slots of the chains, so
  either cap can be the one that binds, and a queue can hold one peer twice, which is
  what makes the drain loop skip. Both peers pass the filter of the filtering chain:
  a peer that does not is dropped by `enqueue` without any effect.
* `chain_tracker`: five hashes through a ring of three wrap it more than once, and
  leave hashes to come back after eviction.
* `eth_watch`: four requests over a window of two let a block be evicted and asked for
  again; three blocks, two of them at one height, let answers be confused.
* `watch_dial`: the properties are about one dial at a time; with one slot, sessions of
  earlier dials live beside the current one. (Two slots without such sessions, 500 k
  states, keep the safety properties as well.)
* `discv4`: two coroutines on one endpoint are the smallest case where an entry is
  overwritten and then erased by its first owner; two seconds give PINGs with
  different hashes, so that a late PONG can be told from the right one. (The
  safety properties were also checked with three coroutines, 2.5 M states, and
  `EveryTaskEnds` with two endpoints within one second, 460 k states; both hold.)
* `session`: three messages each way fill a channel while another is written or routed.
* `discv5`: two nodes that ask each other have crossing handshakes, and one fault (a
  crash, a stop, a failed send, a packet lost or delivered twice) is enough for
  a packet to meet the state of a later life of its receiver. Six nonces are a whole
  exchange with a repetition; one query in a round keeps the rounds apart.
* `channel`: 2^24-1 bytes with the message id are a frame of 2^24, whose length does not
  fit the header's three bytes; with the two bytes compression adds it is refused, while
  2^24-4 become the largest frame that arrives. Two messages in one direction show that
  the running hash and the key stream go on from frame to frame; two addresses let the
  timer fire in one of several attempts.
* `rlp`: three operations are a list in a list with an item, or a stream between two
  items; 55 and 56 bytes, 0x7f and 0x80 are where the form of a header changes. Every
  operator on bytes looks at a header and a length, so longer inputs bring no new form.
* `wire`: each change is made at every token of every message; two items in each list
  show which of them a change affects. One hop more is a message that was decoded,
  encoded and decoded. The cuts end a log's data inside and at the ends of words. Among
  the values a field may get are a zero byte, which decoders of numbers and of booleans
  take for the empty string, and the two names of `Enr`.

What the properties of `wire` leave out:

* `RoundTrip`: a request or response without an id, other than a request for headers. The
  encoders write this form of eth/65; their own decoders refuse it, or take a list inside
  the payload for the payload.
* `BadRecordAlone` is about a record with an item more, less or other than was signed. A
  key may become one of the two names of `extra_fields`, but the value that is then found
  under it never is the signature of anything. Nothing is claimed of records that carry a
  signature or a signed content under these names.
* `LogNeverMisread`: a contract that declares as many parameters indexed as the reader,
  but others (`OtherIndexedRefused` below); declarations that differ and have dynamic
  parameters; and TransferBatch, whose arrays the registry declares as words "until dynamic
  array support is added" (`eth_watch_cli.hpp:157`), so that offsets are returned for them.

`MaxQueue`, `MaxValidated`, `MaxRequests`, `MaxWatches`, `MaxEntries`, `MaxPosts`,
`MaxReads`, `MaxClock`, `MaxOps`, `MaxHops`, `MaxFresh`, `MaxFaults`, `MaxMessages`,
`MaxEndpoints` and the size of `Tasks` are the bounds of the models; the code has no such
limits. (`MaxQueries` is the code's limit on the queries of a round, made small.) Each is a conjunct of the guard of the action it limits, or the size of
the set its input is drawn from. `MaxOrphans` is where the count of outliving sessions
saturates. Deadlock checking is off in `session` and `channel` because a session that has
ended does stop, in `rlp` and `wire` because everything is read in the end, and in
`discv5` because the packets and nonces of the instance run out.

### Fairness

* `Discv4Client`: weak fairness of each coroutine's start, of the end of each send (a
  UDP send succeeds or fails), of the expiry of a timer that is set, and of the
  resumption of a woken coroutine. Nothing is assumed of packets.
* `RlpxSession`: queued resumptions run, the poll timer fires, operations pending on a
  closed socket are aborted. Nothing is assumed of the peer, so a loop may
  wait in a read for ever.
* `EthWatchDial`: the TCP connect ends (it has a timeout), the Status timer expires, a
  woken coroutine resumes. The RLPx handshake has no timeout in the code and is
  given no fairness; nor is the year-long lifetime timer.
* `Discv5Client`: the crawler's timer fires, spawned coroutines run, and what is neither
  lost nor delayed for ever is received. `Answered` is about behaviours without a fault.
* `RlpxChannel`: a name is resolved or not, the connect timer fires, each side reads what
  has arrived and answers, and a read on a broken connection fails. Nothing says when an
  attempt to connect ends; nothing is assumed of `Damage` and `Break`.

### Disagreements between code and text

Two runs check one property each, stated from a comment, and TLC reports a violation. The
quoted lines are in `findings` of `PROJECT.json`.

| Run | What the code does |
|---|---|
| `eth_watch_new_block` | All NewBlock messages share the zero hash, so the second is taken for a duplicate and no request is sent. |
| `wire_records` | A record with a list among its values loses this pair and all behind it; with an `eth` entry that is everything, and the record is refused. |

The modules state further sentences of headers, comments, documents and tests that the
code does not keep. They have no run of their own; to see one fail, name it in place of
the properties of the configuration given (as PROPERTY where marked T, else as
INVARIANT).

| Property | Configuration | What the code does |
|---|---|---|
| `QueuedOnlyWhenFull` | `DialTwoChains.cfg` | A slot freed by one chain is not offered to peers queued on another (`dial_scheduler.hpp:130`). |
| `SizeCountsActive` | `DialTwoChains.cfg` | `DialHistory::size()` counts expired entries until `expire()` runs ("active (non-expired) entries", `dial_history.hpp:62`). |
| `StopDisconnectsAll` | `DialTwoChains.cfg` | A handshake confirmed after `stop()` leaves a session that the scheduler does not disconnect (`dial_scheduler.hpp:144`). |
| `TipHashIfAny` | `ChainTracker.cfg` | Block number 0 never sets `tip_hash()` (`chain_tracker.hpp:64`). |
| `TipIsHighest` | `EthWatch.cfg` | A NewBlock message after the first does not move the tip (`eth_watch_service.hpp:78`). |
| `PendingIsOutstanding` | `EthWatch.cfg` | An empty Receipts answer leaves its request pending (`eth_watch_service.hpp:160`). |
| `LogIndexInBlock` | `EthWatch.cfg` | `log_index` starts again in every receipt (`event_filter.hpp:52`). |
| `StopFreesSlots` (T) | `EthWatchDial.cfg` | After `stop()` the watching coroutine keeps its slot until its lifetime timer (`eth_watch.cpp:608`). |
| `FailedConnectionFreesSlot` (T) | `EthWatchDial.cfg` | A connection that breaks while watching keeps its slot (`AgentDocs/Architecture.md:69`). |
| `ValidatedCountExact` | `EthWatchDial.cfg` | A second or late Status counts one more validated connection (`eth_watch.cpp:553`). |
| `FdCapRespected` | `EthWatchDial.cfg` | A slot is recycled while its socket is open (`dial_scheduler.hpp:29`). |
| `DisconnectFreesSocket` | `RlpxSession.cfg` | `disconnect()` after a loop's error leaves the socket open (`rlpx_session.cpp:345`). |
| `ClosedIsKept` (T) | `RlpxSession.cfg` | A loop overwrites `kClosed` with `kError` (`test/rlpx/rlpx_state_test.cpp:51`). |
| `EntryPerOutstanding` | `Discv4Client.cfg` | Two requests of a kind to an endpoint share one entry (`discv4_client.cpp:569`). |
| `FindNodeBonded` | `Discv4Client.cfg` | FIND_NODE is sent although the PING was not answered (`discv4_client.hpp:212`). |
| `BondedAnswered` | `Discv4Client.cfg` | Receiving a PING counts as a bond (`discv4_client.hpp:204`). |
| `MeasuredResponded` | `Discv5Client.cfg` | A node counts as measured once a query was sent to it ("responded to at least one FINDNODE query", `discv5_crawler.hpp:48`). |
| `StartBinds` | `Discv5Client.cfg` | `start()` after `stop()` runs on the closed socket (`discv5_client.hpp:98`). |
| `PortAsWritten` | `Discv5Client.cfg` | A port of more than 16 bits wraps to another ("overflow cannot occur", `discv5_crawler.cpp:349`). |
| `SessionsAgree` | `Discv5Client.cfg` | After crossed handshakes two nodes may hold different sessions with each other. No text promises otherwise. |
| `MaxFrameArrives` | `RlpxChannel.cfg` | A frame of 2^24 bytes is sent with the length 0 ("max 16MB", `message_stream.cpp:66`). |
| `ConnectTimesOut` (T) | `RlpxChannel.cfg` | The timer has no effect while the name is resolved, and ends only one of several attempts (`socket_transport.cpp:200`). |
| `OwnPairConnects` | `RlpxChannel.cfg` | The program's own responder does not accept its initiator's auth packet (`auth_handshake.hpp:60`). |
| `ChunkedChains` | `RlpStreaming.cfg` | A chunked decoder that has handed out all chunks is not behind its list (`rlp_streaming.hpp:287`). |
| `LargeIsCanonical` | `RlpStreaming.cfg` | A single byte below 0x80 is streamed with a header (`rlp_streaming.hpp:18`). |
| `PeekAnyTime` | `RlpStreaming.cfg` | The total size cannot be asked for once chunks were read (`rlp_streaming.hpp:257`). |
| `EmptyMeansEnd` | `RlpStreaming.cfg` | An empty chunk is taken for the end of the list (`rlp_streaming.hpp:266`). |
| `LabelsMatch` | `WireLink.cfg` | Decoded values come indexed parameters first, not "in declaration order" (`abi_decoder.hpp:125`). |
| `OtherIndexedRefused` | `WireLink.cfg` | A log whose contract declared other parameters indexed, and as many, is decoded to other arguments. No text promises otherwise. |
| `AnyByteTrue` | `WireLink.cfg` | Only the last byte of a bool is read (`abi_decoder.cpp:109`). |
| `OptInDecodes` | `WireLink.cfg` | The key of the second Transfer is hashed as a signature and matches no log (`eth_watch_cli.hpp:132`). |

## 4. Proofs

The five developments hold for every value of the constants that satisfies the named
assumptions: `CapsAssumption` (caps are naturals), `ExpiryAssumption` (the cooldown is
positive), `TrackerAssumption` (the window is positive, block numbers are naturals),
`Discv5Assumption` (the bounds are naturals), `NoTaskAssumption` (no coroutine is called
none).

**Dial scheduler** (`DialSchedulerProofs`): `TypeCorrect`, `CountersAreExact`,
`CapsAreRespected`, `StopFinal`, `CooldownHolds`, `ExitDrains`, and `SingleChainQueue`
(with one chain on the pool, `QueuedOnlyWhenFull` holds; with two it does not, see
section 3).
The inductive invariant `IInv` joins the exactness of the counters and the caps with
finiteness of the set of coroutines, ownership of sessions, the empty queue of a stopped
scheduler, and agreement of each history with the time since the last dial. The caps
alone are not inductive: `release()` tests counters, and what has to be bounded is the
number of coroutines, so exactness is needed; exactness in turn needs that a new
coroutine is distinct from the live ones (`FreshTagIsFresh`) and that a drain starts as
many coroutines as it counts (`NewDialsSize`). `DrainRespectsCaps` is the lemma about
the drain loop, `LaunchCounts` and `LaunchHistory` what every start of coroutines does to
the counters and histories. Then there is one lemma for each action.

**Chain tracker** (`ChainTrackerProofs`): `TrackerTypes`, `RingAgreesWithSet`,
`TrackerImplementsWindow`. The invariant `Sound` says that the ring holds the elements
of the set, each once, that it is no longer than the window, and that the head is 0
while the ring is filling. `InsertWithRoom` and `InsertWhenFull` treat the two phases of
the ring; `RingAfterInsert` shows that reading the ring from its head turns an insertion
into the append-and-drop of `SeenWindow`, which is the step simulation.

**RLPx session** (`RlpxSessionProofs`): `ChannelsKeepOrder`, `OneLateMessage` and `EndStays`,
for any number of messages. The inductive invariant adds to `ChannelsAreFifo` that what the
send loop has taken and not written is a message, that nothing runs and the state is
untouched until `connect()` has succeeded, and that a message routed after the end was the
last one because the receive loop ended with it; without the last two neither the order nor
the bound of one late message survives a step. The channels are concatenated sequences, so
the lemmas `Joined`, `FrontAndRest` and `NumbersNext` come first, and then one lemma for
each group of actions (`ConnectStep`, `OwnerStep`, `SendLoopStep`, `ReceiveLoopStep`).

**discv4 client** (`Discv4ClientProofs`): `EntriesAreLive` and `BondsAreProven`, for any
endpoints, any number of coroutines and any replies. The keys of `pending_replies_` are
shared: a coroutine overwrites another's entry and erases whatever is under its key. The
inductive invariant says that a coroutine is never entered but under the key of the request
it makes now. For the bond it follows the hash of a PING: a coroutine in `ensure_bond` holds
a hash that was sent to its endpoint, and its slot is filled only by an answer to it.
`ProceedKeeps` is the lemma about moving a coroutine from one key to the next; `TaskStep`,
`HandlerStep` and `ApplicationStep` are the groups of actions.

**discv5 client** (`Discv5ClientProofs`): `SessionsStay`, that nothing but the
end of its process makes a node lose a session (`SessionKept`), whether it asked or answered,
for any nodes, bootstrap lists, filters and number of faults.
`handle_handshake` replaces a session before it opens the message that came with the
handshake, and erases it when the message does not open. Whether this can happen is a
question about all packets under way, so the inductive invariant is `Consistent`: every
handshake is sealed with the key of the challenge it is signed for, its sender and its
recipient. `SendConsistent` and `TakenConsistent` keep it through sends, losses and
repetitions; `LifeCycleStep`, `TaskStep` and `PacketStep` are the groups of actions. The
theorem rests on the symbolic signatures, that is, on signatures that are not forged.

**Only model-checked**: everything about `EthWatchService`, `EthWatchDial`, `RlpxChannel`,
`RlpStreaming` and `WireLink`, the other properties of `Discv5Client`, and all liveness
(liveness under fairness is out of the prover's reach, as is induction over data: the loop
of `RequestReceipts` over a list, and the recursive definitions of RLP).

## 5. Not modelled

* The arithmetic of ciphers, curves and hashes, and of 256-bit integers (`intx`): beyond a
  model checker. What they are used for is symbolic.
* Tables of bootstrap nodes, command line, configuration files, hexadecimal text, logging
  and the example drivers other than `run_watch`: constants, wording and wiring.
* The ack that the program's own responder would write: no auth packet gets it that far.
* The writers of discv4 PING, FIND_NODE and ENR requests, which nothing in the repository
  reads; hash and signature of discv4 packets; the byte layout of discv5 packets.
* The discv4 peer table, which is only written and copied out; `add_bootnode` of the discv5
  client; counters of `stats()` that only count.
* Logs with offsets and lengths near the limit of `size_t`: the ABI decoder's sums wrap in
  the model too, but only what an ABI encoder writes is decoded.
* The prefix and the limit of 300 bytes in `EnrParser::parse`, which records in text go
  through; records in NODES messages and handshakes do not.
* Times. Three things the code leaves open are therefore not stated as properties: the
  auth handshake's reads have no timeout (`auth_handshake.cpp:351`), a request for receipts
  that is not answered is not repeated, and `recv_channel_` grows without limit while its
  owner does not read.

`PROJECT.json` lists each part with its reason.

## 6. What would come next

1. `EthWatchDial` over `RlpxSession`, and that over `RlpxChannel`, instead of summaries of a
   session; discovery feeding the scheduler.
2. Proofs: `SecretsMatch` and `ReceivedAsSent` of the channel, `HandshakeOnce` of discv5,
   `ListsInStep` of the watch service.
3. `RlpxChannel` as an implementation of an abstract channel of messages.
