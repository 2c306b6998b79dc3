----------------------------- MODULE EventFilter -----------------------------
(***************************************************************************)
(* src/eth/event_filter.cpp: which logs a filter accepts, and the matching *)
(* of a receipt's logs against the subscriptions of an EventWatcher.       *)
(***************************************************************************)
EXTENDS Integers, Sequences

CONSTANTS
    AnyTopic,    \* an empty std::optional in EventFilter::topics
    NoBound      \* an empty std::optional block bound

\* The block bounds of a filter; the bounds are inclusive.
InRange(f, block) ==
    /\ f.from_block = NoBound \/ block >= f.from_block
    /\ f.to_block = NoBound \/ block <= f.to_block

\* EventFilter::matches
Matches(f, log, block) ==
    /\ InRange(f, block)
    /\ f.addresses = {} \/ log.address \in f.addresses
    /\ \A i \in DOMAIN f.topics :
          f.topics[i] # AnyTopic => i <= Len(log.topics) /\ log.topics[i] = f.topics[i]

\* EventWatcher::process_receipt and process_block_logs: the callbacks for a list
\* of logs, as pairs of a subscription's position and the 0-based log_index.
MatchedLogs(subs, logs, block) ==
    {m \in (DOMAIN subs) \X (0 .. Len(logs) - 1) :
        Matches(subs[m[1]].filter, logs[m[2] + 1], block)}
=============================================================================
