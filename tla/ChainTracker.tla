----------------------------- MODULE ChainTracker -----------------------------
(***************************************************************************)
(* src/eth/chain_tracker.cpp: the blocks whose receipts were asked for, in *)
(* an ordered set for lookup and a ring of window_size_ hashes for         *)
(* eviction, and the tip.  The tracker is a record, and its operations are *)
(* operators on it, because EthWatchService calls it in loops.             *)
(***************************************************************************)
EXTENDS Integers, FiniteSets

CONSTANTS
    Hash256,       \* block hashes, the all-zero one included
    Numbers,       \* block numbers
    ZeroHash,      \* codec::Hash256{}
    NoHash,        \* std::nullopt
    window_size_

ASSUME TrackerAssumption ==
    /\ window_size_ \in Nat \ {0}
    /\ Numbers \subseteq Nat
    /\ ZeroHash \in Hash256
    /\ NoHash \notin Hash256

VARIABLE tracker

Trackers ==
    [seen_set_       : SUBSET Hash256,
     eviction_queue_ : [0 .. window_size_ - 1 -> Hash256],
     eviction_head_  : 0 .. window_size_ - 1,
     tip_number_     : Nat,
     tip_hash_       : Hash256 \cup {NoHash}]

\* The constructor, and what reset() restores.
NewTracker ==
    [seen_set_       |-> {},
     eviction_queue_ |-> [i \in 0 .. window_size_ - 1 |-> ZeroHash],
     eviction_head_  |-> 0,
     tip_number_     |-> 0,
     tip_hash_       |-> NoHash]

IsSeen(t, h) == h \in t.seen_set_

\* Mutant of WindowFull: the eviction starts one hash too early.
WindowFullEarly(t) == Cardinality(t.seen_set_) + 1 >= window_size_

WindowFull(t) == Cardinality(t.seen_set_) >= window_size_

\* Where the ring is written: over the oldest hash, or behind the last one.
InsertPos(t) ==
    IF WindowFull(t) THEN t.eviction_head_ ELSE Cardinality(t.seen_set_)

\* Mutant of SeenAfter: the evicted hash stays in the set.
SeenForever(t, h) == t.seen_set_ \cup {h}

\* seen_set_ after a new hash h: the oldest hash makes room when it is full.
SeenAfter(t, h) ==
    (IF WindowFull(t) THEN t.seen_set_ \ {t.eviction_queue_[t.eviction_head_]} ELSE t.seen_set_)
        \cup {h}

\* eviction_head_ after a new hash.
HeadAfter(t) ==
    IF WindowFull(t) THEN (t.eviction_head_ + 1) % window_size_ ELSE t.eviction_head_

\* Mutant of Insert: a block below the tip moves the tip back.
InsertMovesTip(t, h, n) ==
    [seen_set_       |-> SeenAfter(t, h),
     eviction_queue_ |-> [t.eviction_queue_ EXCEPT ![InsertPos(t)] = h],
     eviction_head_  |-> HeadAfter(t),
     tip_number_     |-> n,
     tip_hash_       |-> h]

\* mark_seen for a hash that is not in the set (its result is ~IsSeen).
Insert(t, h, n) ==
    [seen_set_       |-> SeenAfter(t, h),
     eviction_queue_ |-> [t.eviction_queue_ EXCEPT ![InsertPos(t)] = h],
     eviction_head_  |-> HeadAfter(t),
     tip_number_     |-> IF n > t.tip_number_ THEN n ELSE t.tip_number_,
     tip_hash_       |-> IF n > t.tip_number_ THEN h ELSE t.tip_hash_]

MarkSeen(t, h, n) == IF IsSeen(t, h) THEN t ELSE Insert(t, h, n)

TrackerInit == tracker = NewTracker

TrackerNext ==
    \/ \E h \in Hash256, n \in Numbers : tracker' = MarkSeen(tracker, h, n)
    \/ tracker' = NewTracker

TrackerSpec == TrackerInit /\ [][TrackerNext]_tracker
-----------------------------------------------------------------------------
(* Properties *)

\* The members have the types the class declares.
TrackerTypeOK == tracker \in Trackers

\* The ring positions in use, oldest first: window_size_ or fewer from the head.
Ring(t) ==
    [i \in 1 .. Cardinality(t.seen_set_) |->
        t.eviction_queue_[(t.eviction_head_ + i - 1) % window_size_]]

\* The set and the ring hold the same hashes, each once: however many blocks have
\* come and gone, nothing in the set is missing from the ring (it would never be
\* evicted) and nothing in the ring is missing from the set (its eviction would
\* free no room).
RingMatchesSet ==
    LET r == Ring(tracker) IN
    /\ {r[i] : i \in DOMAIN r} = tracker.seen_set_
    /\ \A i, j \in DOMAIN r : r[i] = r[j] => i = j

\* ChainTracker implements the window of the last window_size_ distinct hashes.
Window == INSTANCE SeenWindow WITH
    Size <- window_size_, window <- Ring(tracker), highest <- tracker.tip_number_

\* mark_seen and reset take only steps of the abstract window, first in first out.
ImplementsWindow == Window!Spec

\* chain_tracker.hpp: tip_hash() is the hash of the highest block seen, if any.
TipHashIfAny == tracker.seen_set_ # {} => tracker.tip_hash_ # NoHash
=============================================================================
