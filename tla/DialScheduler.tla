---------------------------- MODULE DialScheduler ----------------------------
(***************************************************************************)
(* include/discv4/dial_scheduler.hpp: one DialScheduler per chain, all of  *)
(* them sharing one WatcherPool.  Every method and callback runs on the    *)
(* single io_context thread, so each is one action.                        *)
(*                                                                         *)
(* A dial is a coroutine started by spawn_dial.  What it does between its  *)
(* start and its on_done call is the DialFn's business (here: any DialFn   *)
(* that keeps the contract of its callbacks, on_connected at most once and *)
(* on_done once); EthWatchDial refines it with the DialFn of eth_watch.    *)
(***************************************************************************)
EXTENDS DialHistory, Sequences

CONSTANTS
    Chains,         \* the schedulers that share the pool
    max_total,      \* WatcherPool::max_total
    max_per_chain,  \* WatcherPool::max_per_chain
    eth_fork_id,    \* fork hash in a peer's ENR, or NoForkId
    expected_hash,  \* fork hash a chain's filter_fn accepts, or NoFilter
    NoForkId, NoFilter,
    MaxQueue,       \* bound on a queue (the code's deque is unbounded)
    MaxValidated    \* bound on total_validated (the code's counter is not)

ASSUME CapsAssumption == max_total \in Nat /\ max_per_chain \in Nat

VARIABLES
    active_total,     \* WatcherPool::active_total
    active,           \* the counters of each scheduler
    validated_count,
    total_validated,
    stopping,
    queue,            \* peers waiting for a slot
    dial_history,
    active_sessions,  \* dials whose session the scheduler holds a weak_ptr to
    dials,            \* dial coroutines that have not called on_done yet
    was_validated,    \* dials that called on_connected
    disconnected,     \* dials whose session stop() disconnected
    since_dial        \* history: ticks since a chain last dialed a peer

counters == <<active_total, active, validated_count, total_validated>>
sessions == <<active_sessions, was_validated, disconnected>>
vars == <<counters, stopping, queue, dial_history, sessions, dials, since_dial>>

\* A dial is told apart from a later dial of the same peer by its tag.
Dial(c, p, t) == [chain |-> c, peer |-> p, tag |-> t]
Dials == [chain : Chains, peer : Peers, tag : Nat]
DialsOf(c) == {d \in dials : d.chain = c}
FreshTag(c, p) ==
    CHOOSE t \in 0 .. Cardinality(dials) : Dial(c, p, t) \notin dials

\* make_fork_id_filter, or no filter_fn at all.
Accepts(c, p) ==
    \/ expected_hash[c] = NoFilter
    \/ eth_fork_id[p] # NoForkId /\ eth_fork_id[p] = expected_hash[c]

Init ==
    /\ active_total = 0
    /\ active = [c \in Chains |-> 0]
    /\ validated_count = [c \in Chains |-> 0]
    /\ total_validated = [c \in Chains |-> 0]
    /\ stopping = [c \in Chains |-> FALSE]
    /\ queue = [c \in Chains |-> <<>>]
    /\ dial_history = [c \in Chains |-> EmptyHistory]
    /\ active_sessions = [c \in Chains |-> {}]
    /\ dials = {}
    /\ was_validated = {}
    /\ disconnected = {}
    /\ since_dial = [c \in Chains |-> [p \in Peers |-> Expiry]]

\* ++active; ++pool->active_total; dial_history->add; spawn_dial, for each peer
\* of ps, from counters that stand at a and t and a history h.
Launch(c, ps, a, t, h, live) ==
    /\ active' = [active EXCEPT ![c] = a + Cardinality(ps)]
    /\ active_total' = t + Cardinality(ps)
    /\ dial_history' =
           [dial_history EXCEPT ![c] = [p \in Peers |-> IF p \in ps THEN Add(h, p)[p] ELSE h[p]]]
    /\ dials' = live \cup {Dial(c, p, FreshTag(c, p)) : p \in ps}
    /\ since_dial' =
           [since_dial EXCEPT ![c] = [p \in Peers |-> IF p \in ps THEN 0 ELSE @[p]]]

\* DialScheduler::enqueue
Enqueue(c, p) ==
    LET h == Expire(dial_history[c]) IN
    /\ ~stopping[c]
    /\ Accepts(c, p)
    /\ \/ /\ Contains(h, p)
          /\ dial_history' = [dial_history EXCEPT ![c] = h]
          /\ UNCHANGED <<active, active_total, dials, queue, since_dial>>
       \/ /\ ~Contains(h, p)
          /\ active[c] < max_per_chain /\ active_total < max_total
          /\ Launch(c, {p}, active[c], active_total, h, dials)
          /\ UNCHANGED queue
       \/ /\ ~Contains(h, p)
          /\ ~(active[c] < max_per_chain /\ active_total < max_total)
          /\ Len(queue[c]) < MaxQueue
          /\ queue' = [queue EXCEPT ![c] = Append(@, p)]
          /\ dial_history' = [dial_history EXCEPT ![c] = h]
          /\ UNCHANGED <<active, active_total, dials, since_dial>>
    /\ UNCHANGED <<validated_count, total_validated, stopping, sessions>>

\* Mutant of Launchable: release() trusts the check made when the peer came in.
LaunchableUnchecked(q, h) ==
    {i \in DOMAIN q : \A j \in 1 .. i - 1 : q[j] # q[i]}

\* The queue positions the loop of release() launches when it gets to them:
\* the peer is not in the history, nor was it added by an earlier position.
Launchable(q, h) ==
    {i \in DOMAIN q : ~Contains(h, q[i]) /\ \A j \in 1 .. i - 1 : q[j] # q[i]}

\* The peers among them, once the loop has popped n positions.
Launched(q, h, n) == {q[i] : i \in Launchable(q, h) \cap (1 .. n)}

\* Mutant of LoopEnds: the loop tests the cap of its chain only.
LoopEndsPerChain(n, q, h, a, t) ==
    a + Cardinality(Launched(q, h, n)) >= max_per_chain \/ n = Len(q)

\* Mutant of LoopEnds: a peer still cooling down ends the loop (break, not continue).
LoopEndsAtRecent(n, q, h, a, t) ==
    \/ n > Cardinality(Launched(q, h, n))
    \/ a + Cardinality(Launched(q, h, n)) >= max_per_chain
    \/ t + Cardinality(Launched(q, h, n)) >= max_total
    \/ n = Len(q)

\* The loop has left its body after n positions: a cap is reached or the queue
\* is empty.
LoopEnds(n, q, h, a, t) ==
    \/ a + Cardinality(Launched(q, h, n)) >= max_per_chain
    \/ t + Cardinality(Launched(q, h, n)) >= max_total
    \/ n = Len(q)

\* on_done of dial d: the counters, then DialScheduler::release with its loop.
\* A session that outlives its dial drops out of the model: stop() may still
\* disconnect it, which changes nothing in the scheduler.
Done(d) ==
    LET c == d.chain
        h == Expire(dial_history[c])
        q == queue[c]
        a == active[c] - 1
        t == active_total - 1
    IN
    /\ d \in dials
    /\ validated_count' =
           [validated_count EXCEPT ![c] = IF d \in was_validated THEN @ - 1 ELSE @]
    /\ was_validated' = was_validated \ {d}
    /\ disconnected' = disconnected \ {d}
    /\ active_sessions' = [active_sessions EXCEPT ![c] = @ \ {d}]
    /\ \/ /\ stopping[c]
          /\ active' = [active EXCEPT ![c] = a]
          /\ active_total' = t
          /\ dials' = dials \ {d}
          /\ UNCHANGED <<queue, dial_history, since_dial>>
       \/ /\ ~stopping[c]
          /\ \E n \in 0 .. Len(q) :
                /\ LoopEnds(n, q, h, a, t)
                /\ \A m \in 0 .. n - 1 : ~LoopEnds(m, q, h, a, t)
                /\ Launch(c, Launched(q, h, n), a, t, h, dials \ {d})
                /\ queue' = [queue EXCEPT ![c] = SubSeq(q, n + 1, Len(q))]
    /\ UNCHANGED <<total_validated, stopping>>

\* on_connected of dial d.
OnConnected(d) ==
    LET c == d.chain IN
    /\ was_validated' = was_validated \cup {d}
    /\ validated_count' = [validated_count EXCEPT ![c] = @ + 1]
    /\ total_validated' = [total_validated EXCEPT ![c] = @ + 1]
    /\ active_sessions' = [active_sessions EXCEPT ![c] = @ \cup {d}]
    /\ UNCHANGED <<active, active_total, stopping, queue, dial_history, dials, disconnected, since_dial>>

\* The DialFn confirms the handshake; its contract is to do so once.
Connected(d) ==
    /\ d \in dials \ was_validated
    /\ total_validated[d.chain] < MaxValidated
    /\ OnConnected(d)

\* Mutant of Stop: the queue survives.
StopKeepsQueue(c) ==
    /\ stopping' = [stopping EXCEPT ![c] = TRUE]
    /\ disconnected' = disconnected \cup active_sessions[c]
    /\ active_sessions' = [active_sessions EXCEPT ![c] = {}]
    /\ UNCHANGED <<counters, queue, dial_history, dials, was_validated, since_dial>>

\* Mutant of Stop: the counters are reset although the dials are still running.
StopResetsCounters(c) ==
    /\ active' = [active EXCEPT ![c] = 0]
    /\ active_total' = active_total - active[c]
    /\ stopping' = [stopping EXCEPT ![c] = TRUE]
    /\ queue' = [queue EXCEPT ![c] = <<>>]
    /\ UNCHANGED <<validated_count, total_validated, dial_history, dials, sessions, since_dial>>

\* DialScheduler::stop
Stop(c) ==
    /\ stopping' = [stopping EXCEPT ![c] = TRUE]
    /\ queue' = [queue EXCEPT ![c] = <<>>]
    /\ disconnected' = disconnected \cup active_sessions[c]
    /\ active_sessions' = [active_sessions EXCEPT ![c] = {}]
    /\ UNCHANGED <<counters, dial_history, dials, was_validated, since_dial>>

\* One tick of the clock DialHistory reads.
Tick ==
    /\ dial_history' = [c \in Chains |-> Elapse(dial_history[c])]
    /\ since_dial' =
           [c \in Chains |-> [p \in Peers |->
               IF since_dial[c][p] < Expiry THEN since_dial[c][p] + 1 ELSE Expiry]]
    /\ UNCHANGED <<counters, stopping, queue, sessions, dials>>

Next ==
    \/ \E c \in Chains, p \in Peers : Enqueue(c, p)
    \/ \E d \in dials : Done(d)
    \/ \E d \in dials : Connected(d)
    \/ \E c \in Chains : Stop(c)
    \/ Tick

Spec == Init /\ [][Next]_vars
-----------------------------------------------------------------------------
(* Properties *)

\* The state has the shape the class declares.
TypeOK ==
    /\ active_total \in Int
    /\ active \in [Chains -> Int]
    /\ validated_count \in [Chains -> Int]
    /\ total_validated \in [Chains -> Nat]
    /\ stopping \in [Chains -> BOOLEAN]
    /\ queue \in [Chains -> Seq(Peers)]
    /\ dial_history \in [Chains -> Histories]
    /\ active_sessions \in [Chains -> SUBSET dials]
    /\ dials \subseteq Dials
    /\ was_validated \subseteq dials
    /\ disconnected \subseteq dials
    /\ since_dial \in [Chains -> [Peers -> 0 .. Expiry]]

\* No interleaving of dial exits, stop() calls and queue drains over several
\* chains makes a counter drift from what it counts: active_total is the number
\* of dial coroutines alive, active[c] the number that belong to chain c, and
\* validated_count[c] the number of those that called on_connected.
CountersExact ==
    /\ active_total = Cardinality(dials)
    /\ \A c \in Chains :
          /\ active[c] = Cardinality(DialsOf(c))
          /\ validated_count[c] = Cardinality(DialsOf(c) \cap was_validated)

\* The two-level fd cap of WatcherPool, stated of the coroutines that are alive
\* and not of the counters: the drain loop of release() starts several dials in
\* one go and must stop at whichever cap comes first.
CapsRespected ==
    /\ Cardinality(dials) <= max_total
    /\ \A c \in Chains : Cardinality(DialsOf(c)) <= max_per_chain

\* A chain never dials a peer again before Expiry ticks have passed since it
\* last dialed it, although a peer can sit in the queue several times and be
\* queued before it is dialed (enqueue checks the history when the peer comes
\* in, release checks it again when the peer comes out).
CooldownRespected ==
    [][\A d \in dials' \ dials : since_dial[d.chain][d.peer] = Expiry]_vars

\* stop() is final: a stopping scheduler holds no queue and the exits of its
\* remaining dials start no new one.
StopIsFinal ==
    [][\A c \in Chains : stopping[c] =>
          /\ stopping'[c] /\ queue'[c] = <<>>
          /\ {d \in dials' : d.chain = c} \subseteq dials]_vars

\* The exit of a dial leaves a peer of its own chain waiting only while one of the
\* two caps is reached, however many queued peers are still cooling down: the
\* drain loop of release() goes past them.
OwnExitDrains ==
    [][\A d \in dials \ dials' :
          queue'[d.chain] # <<>> =>
              active'[d.chain] >= max_per_chain \/ active_total' >= max_total]_vars

\* dial_scheduler_test.cpp: queued peers are launched as soon as a slot becomes
\* free, so a peer waits only while one of the two caps is reached.
QueuedOnlyWhenFull ==
    \A c \in Chains :
        queue[c] # <<>> => active[c] >= max_per_chain \/ active_total >= max_total

\* dial_history.hpp: size() is the number of active (non-expired) entries.
SizeCountsActive ==
    \A c \in Chains :
        Size(dial_history[c]) = Cardinality({p \in Peers : Contains(dial_history[c], p)})

\* dial_scheduler.hpp: stop() disconnects all active sessions, so a stopped
\* scheduler has no confirmed session that was left connected.
StopDisconnectsAll ==
    \A c \in Chains : stopping[c] => DialsOf(c) \cap was_validated \subseteq disconnected
=============================================================================
