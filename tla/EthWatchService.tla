--------------------------- MODULE EthWatchService ---------------------------
(***************************************************************************)
(* src/eth/eth_watch_service.cpp: announcements of blocks become           *)
(* GetReceipts requests, the peer's Receipts answers become callbacks to   *)
(* the subscriptions whose filter matches a log.  One service talks to one *)
(* peer; every method runs to completion on the io_context thread, so each *)
(* is one action.                                                          *)
(*                                                                         *)
(* The peer and its chain are the environment: it announces blocks it has, *)
(* and answers the requests it was sent in any order, with the receipts of *)
(* the block asked for or with an empty list.                              *)
(***************************************************************************)
EXTENDS ChainTracker, EventFilter

CONSTANTS
    number_of,     \* the number in the header of each block (by its hash)
    receipts_of,   \* the receipts of each block: a sequence of log sequences
    Watches,       \* the arguments callers pass to watch_event
    ZeroAddress,   \* codec::Address{}
    NoRequestId,   \* an empty ReceiptsMessage::request_id
    MaxRequests,   \* bound on next_req_id_ (the code's counter is uint64_t)
    MaxWatches,    \* bound on next_id_ (the code's counter is uint32_t)
    MaxEntries     \* bound on the entries of a NewBlockHashes message

Blocks == Hash256 \ {ZeroHash}

VARIABLES
    send_cb_,          \* whether a send callback is registered
    subscriptions_,    \* EthWatchService::subscriptions_
    next_id_,
    watcher_,          \* EventWatcher: its subscriptions_ and next_id_
    pending_requests_, \* context of the GetReceipts requests, by request_id
    next_req_id_,
    sent,              \* history: the GetReceipts messages, in the order sent
    unanswered,        \* the request ids the peer has not answered yet
    callbacks,         \* history: the callbacks made by the last call
    new_blocks         \* history: numbers of the NewBlock messages processed

requesting == <<tracker, pending_requests_, next_req_id_, sent, unanswered>>
watching == <<subscriptions_, next_id_, watcher_>>
serviceVars == <<send_cb_, requesting, watching, callbacks, new_blocks>>

ServiceInit ==
    /\ TrackerInit
    /\ send_cb_ = FALSE
    /\ subscriptions_ = <<>>
    /\ next_id_ = 1
    /\ watcher_ = [subscriptions_ |-> <<>>, next_id_ |-> 1]
    /\ pending_requests_ = {}
    /\ next_req_id_ = 1
    /\ sent = <<>>
    /\ unanswered = {}
    /\ callbacks = {}
    /\ new_blocks = {}
-----------------------------------------------------------------------------
(* Subscriptions *)

\* set_send_callback, with a callback or with an empty one.
SetSendCallback(cb) ==
    /\ send_cb_' = cb
    /\ callbacks' = {}
    /\ UNCHANGED <<requesting, watching, new_blocks>>

\* The filter watch_event builds from its arguments.
FilterOf(w) ==
    [addresses  |-> IF w.address = ZeroAddress THEN {} ELSE {w.address},
     topics     |-> <<w.event_signature>>,
     from_block |-> w.from_block,
     to_block   |-> w.to_block]

\* watch_event, with the EventWatcher::watch it calls.
WatchEvent(w) ==
    /\ next_id_ <= MaxWatches
    /\ next_id_' = next_id_ + 1
    /\ subscriptions_' =
           Append(subscriptions_, [id |-> next_id_, event_signature |-> w.event_signature])
    /\ watcher_' =
           [subscriptions_ |->
                Append(watcher_.subscriptions_, [id |-> watcher_.next_id_, filter |-> FilterOf(w)]),
            next_id_ |-> watcher_.next_id_ + 1]
    /\ callbacks' = {}
    /\ UNCHANGED <<send_cb_, requesting, new_blocks>>

\* The subscriptions that are left when the ones with this id are erased.
Without(subs, id) == SelectSeq(subs, LAMBDA s : s.id # id)

\* Mutant of Unwatch: the filter is left in the EventWatcher.
UnwatchServiceOnly(id) ==
    /\ subscriptions_' = Without(subscriptions_, id)
    /\ callbacks' = {}
    /\ UNCHANGED <<send_cb_, next_id_, watcher_, requesting, new_blocks>>

\* unwatch, with the EventWatcher::unwatch it calls.
Unwatch(id) ==
    /\ subscriptions_' = Without(subscriptions_, id)
    /\ watcher_' = [watcher_ EXCEPT !.subscriptions_ = Without(@, id)]
    /\ callbacks' = {}
    /\ UNCHANGED <<send_cb_, next_id_, requesting, new_blocks>>
-----------------------------------------------------------------------------
(* Requests *)

\* Mutant of Request: the number recorded is the tip's.
RequestWithTip(s, h, n) ==
    IF IsSeen(s.tracker, h) THEN s
    ELSE [tracker     |-> Insert(s.tracker, h, n),
          pending     |-> {q \in s.pending : q.request_id # s.next_req_id}
                              \cup {[request_id |-> s.next_req_id, block_hash |-> h,
                                     block_number |-> Insert(s.tracker, h, n).tip_number_]},
          next_req_id |-> s.next_req_id + 1,
          sent        |-> Append(s.sent, [block_hash |-> h, block_number |-> n]),
          unanswered  |-> s.unanswered \cup {s.next_req_id}]

\* request_receipts once a send callback is registered, on the members it uses.
\* (Encoding a request for one hash does not fail.)
Request(s, h, n) ==
    IF IsSeen(s.tracker, h) THEN s
    ELSE [tracker     |-> Insert(s.tracker, h, n),
          pending     |-> {q \in s.pending : q.request_id # s.next_req_id}
                              \cup {[request_id |-> s.next_req_id, block_hash |-> h, block_number |-> n]},
          next_req_id |-> s.next_req_id + 1,
          sent        |-> Append(s.sent, [block_hash |-> h, block_number |-> n]),
          unanswered  |-> s.unanswered \cup {s.next_req_id}]

\* The members request_receipts uses.
RequestState ==
    [tracker |-> tracker, pending |-> pending_requests_, next_req_id |-> next_req_id_,
     sent |-> sent, unanswered |-> unanswered]

\* request_receipts for each of a list of entries, in order.
RequestReceipts(entries) ==
    LET after[i \in 0 .. Len(entries)] ==
            IF i = 0 THEN RequestState
            ELSE Request(after[i - 1], entries[i].hash, entries[i].number)
        s == after[Len(entries)]
    IN
    \/ /\ send_cb_
       /\ s.next_req_id <= MaxRequests + 1
       /\ tracker' = s.tracker
       /\ pending_requests_' = s.pending
       /\ next_req_id_' = s.next_req_id
       /\ sent' = s.sent
       /\ unanswered' = s.unanswered
    \/ ~send_cb_ /\ UNCHANGED requesting

Entry(b) == [hash |-> b, number |-> number_of[b]]

\* process_message of NewBlockHashes.
OnNewBlockHashes(bs) ==
    /\ RequestReceipts([i \in DOMAIN bs |-> Entry(bs[i])])
    /\ callbacks' = {}
    /\ UNCHANGED <<send_cb_, watching, new_blocks>>

\* process_message of NewBlock: the message names no hash, so process_new_block
\* asks for the zero hash.
OnNewBlock(b) ==
    /\ RequestReceipts(<<[hash |-> ZeroHash, number |-> number_of[b]]>>)
    /\ new_blocks' = IF send_cb_ THEN new_blocks \cup {number_of[b]} ELSE new_blocks
    /\ callbacks' = {}
    /\ UNCHANGED <<send_cb_, watching>>

\* A caller's own process_new_block or request_receipts for a block it knows.
CallerRequests(b) ==
    /\ RequestReceipts(<<Entry(b)>>)
    /\ callbacks' = {}
    /\ UNCHANGED <<send_cb_, watching, new_blocks>>
-----------------------------------------------------------------------------
(* Receipts *)

\* How many logs of block b come before its r-th receipt.
LogsBefore(b, r) == Cardinality(UNION {{i} \X (DOMAIN receipts_of[b][i]) : i \in 1 .. r - 1})

\* The event callbacks of process_receipts for block b, reported as number n and
\* hash h: the subscriptions a log matches, less those without an entry in the
\* service (the callback's find_if) and the logs decode_log rejects.  In an
\* event, block and position are history: where the log really stands.
EventsOf(b, n, h) ==
    UNION {{[id |-> watcher_.subscriptions_[m[1]].id, block_number |-> n, block_hash |-> h,
             log_index |-> m[2], block |-> b, position |-> LogsBefore(b, r) + m[2]] :
               m \in {mm \in MatchedLogs(watcher_.subscriptions_, receipts_of[b][r], n) :
                         /\ receipts_of[b][r][mm[2] + 1].decodable
                         /\ \E s \in DOMAIN subscriptions_ :
                               subscriptions_[s].id = watcher_.subscriptions_[mm[1]].id}}
           : r \in DOMAIN receipts_of[b]}

\* pending_requests_.find(request_id), as an empty or a singleton set.
PendingFor(rid) == {q \in pending_requests_ : q.request_id = rid}

\* Mutant of ProcessReceipts: an answer with a pending request is taken to be for
\* the tip.
ProcessReceiptsAtTip(rid, bs) ==
    LET found == IF bs = <<>> \/ rid = NoRequestId THEN {} ELSE PendingFor(rid)
        context(i) == IF i = 1 /\ found # {}
                      THEN [block_hash |-> tracker.tip_hash_, block_number |-> tracker.tip_number_]
                      ELSE [block_hash |-> ZeroHash, block_number |-> 0]
    IN
    /\ pending_requests_' = pending_requests_ \ found
    /\ callbacks' =
           UNION {EventsOf(bs[i], context(i).block_number, context(i).block_hash) : i \in DOMAIN bs}
    /\ UNCHANGED <<send_cb_, tracker, next_req_id_, sent, watching, new_blocks>>

\* process_message of Receipts with these blocks: the context of the pending
\* request goes to the first one, the others are reported as number 0 and the
\* zero hash, and so are all of them without a request id or a pending request.
ProcessReceipts(rid, bs) ==
    LET found == IF bs = <<>> \/ rid = NoRequestId THEN {} ELSE PendingFor(rid)
        context(i) == IF i = 1 /\ found # {} THEN CHOOSE q \in found : TRUE
                      ELSE [block_hash |-> ZeroHash, block_number |-> 0]
    IN
    /\ pending_requests_' = pending_requests_ \ found
    /\ callbacks' =
           UNION {EventsOf(bs[i], context(i).block_number, context(i).block_hash) : i \in DOMAIN bs}
    /\ UNCHANGED <<send_cb_, tracker, next_req_id_, sent, watching, new_blocks>>

\* The peer answers request rid: with the receipts of the block asked for, if it
\* has that block, or with an empty list; an old peer leaves the id out.
OnReceipts(rid) ==
    /\ rid \in unanswered
    /\ unanswered' = unanswered \ {rid}
    /\ \E i \in {rid, NoRequestId} :
          \/ ProcessReceipts(i, <<>>)
          \/ sent[rid].block_hash \in Blocks /\ ProcessReceipts(i, <<sent[rid].block_hash>>)

\* A caller's own process_receipts for a block it knows.
CallerReceipts(b) ==
    /\ callbacks' = EventsOf(b, number_of[b], b)
    /\ UNCHANGED <<send_cb_, requesting, watching, new_blocks>>
-----------------------------------------------------------------------------
Announcements == UNION {[1 .. n -> Blocks] : n \in 0 .. MaxEntries}

ServiceNext ==
    \/ \E cb \in BOOLEAN : SetSendCallback(cb)
    \/ \E w \in Watches : WatchEvent(w)
    \/ \E id \in 1 .. MaxWatches : Unwatch(id)
    \/ \E bs \in Announcements : OnNewBlockHashes(bs)
    \/ \E b \in Blocks : OnNewBlock(b) \/ CallerRequests(b) \/ CallerReceipts(b)
    \/ \E rid \in unanswered : OnReceipts(rid)

ServiceSpec == ServiceInit /\ [][ServiceNext]_serviceVars
-----------------------------------------------------------------------------
(* Properties *)

\* The members have the types the class declares.
ServiceTypeOK ==
    /\ TrackerTypeOK
    /\ send_cb_ \in BOOLEAN
    /\ subscriptions_ \in Seq([id : Nat, event_signature : {w.event_signature : w \in Watches}])
    /\ next_id_ \in Nat
    /\ watcher_.subscriptions_ \in Seq([id : Nat, filter : {FilterOf(w) : w \in Watches}])
    /\ watcher_.next_id_ \in Nat
    /\ pending_requests_ \subseteq [request_id : Nat, block_hash : Hash256, block_number : Nat]
    /\ next_req_id_ \in Nat
    /\ sent \in Seq([block_hash : Hash256, block_number : Nat])
    /\ unanswered \subseteq 1 .. Len(sent)
    /\ new_blocks \subseteq Numbers

\* watch_event draws an id from the service and lets the EventWatcher draw one of
\* its own; unwatch and the callback take them for the same.  Whatever the order
\* of watch_event and unwatch calls, the two lists agree entry by entry, so a
\* callback is decoded with the signature its own filter matched.
ListsInStep ==
    LET ws == watcher_.subscriptions_ IN
    /\ watcher_.next_id_ = next_id_
    /\ Len(ws) = Len(subscriptions_)
    /\ \A i \in DOMAIN ws :
          /\ ws[i].id = subscriptions_[i].id
          /\ ws[i].filter.topics = <<subscriptions_[i].event_signature>>

\* Answers may come in any order and requests are refused, evicted and repeated
\* in between: every request on its way still has its context recorded, under
\* its own id, once, with the hash and the number it was made for.
PendingCoversUnanswered ==
    \A rid \in unanswered :
        {q \in pending_requests_ : q.request_id = rid} =
            {[request_id |-> rid, block_hash |-> sent[rid].block_hash,
              block_number |-> sent[rid].block_number]}

\* An event that names a block names the one its log came from, with its number,
\* however the answers were reordered.
EventsNameTheirBlock ==
    \A e \in callbacks : e.block_hash # ZeroHash =>
        e.block_hash = e.block /\ e.block_number = number_of[e.block]

\* The window of the tracker is as long as it claims: between two requests for
\* one hash there are at least window_size_ others.
RequestsSpacedByWindow ==
    \A i, j \in DOMAIN sent :
        i < j /\ sent[i].block_hash = sent[j].block_hash => j - i > window_size_

\* eth_watch_service.cpp: NewBlock still triggers request_receipts, so callers
\* with a send_cb get receipts: of each block processed there is a request.
NewBlocksRequested ==
    \A n \in new_blocks : \E i \in DOMAIN sent : sent[i].block_number = n

\* eth_watch_service.hpp: tip() is the highest block number seen so far.
TipIsHighest == \A n \in new_blocks : n <= tracker.tip_number_

\* eth_watch_service.hpp: pending_requests_ holds the outstanding requests.
PendingIsOutstanding == \A q \in pending_requests_ : q.request_id \in unanswered

\* event_filter.hpp: log_index is the position within the block's log set.
LogIndexInBlock == \A e \in callbacks : e.log_index = e.position
=============================================================================
