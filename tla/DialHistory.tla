----------------------------- MODULE DialHistory -----------------------------
(***************************************************************************)
(* include/discv4/dial_history.hpp: the peers a scheduler dialed recently, *)
(* each suppressed until its cooldown is over.                             *)
(*                                                                         *)
(* The code stores an absolute expiry time per node id.  Only the distance *)
(* to the present matters to it, so an entry is the number of clock ticks  *)
(* it has left: Expiry when it is made, 0 once the expiry time has passed  *)
(* and expire() has not erased it yet, Absent when the map has no entry.   *)
(***************************************************************************)
EXTENDS Integers, FiniteSets

CONSTANTS
    Peers,    \* node ids
    Expiry    \* expiry_, in clock ticks

ASSUME ExpiryAssumption == Expiry \in Nat \ {0}

Absent == -1

Histories == [Peers -> {Absent} \cup (0 .. Expiry)]

EmptyHistory == [p \in Peers |-> Absent]

\* entries_[key(node_id)] = now + expiry_: a second add restarts the cooldown.
Add(h, p) == [h EXCEPT ![p] = Expiry]

\* now < entry: an entry whose time has passed counts as absent.
Contains(h, p) == h[p] > 0

\* Erases every entry with now >= entry.
Expire(h) == [p \in Peers |-> IF h[p] = 0 THEN Absent ELSE h[p]]

\* entries_.size()
Size(h) == Cardinality({p \in Peers : h[p] # Absent})

\* The steady clock moves on by one tick.
Elapse(h) == [p \in Peers |-> IF h[p] > 0 THEN h[p] - 1 ELSE h[p]]
=============================================================================
