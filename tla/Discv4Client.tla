---------------------------- MODULE Discv4Client ----------------------------
(***************************************************************************)
(* src/discv4/discv4_client.cpp: the coroutines of a discv4_client, their  *)
(* pending replies, and the packet handlers that complete them.            *)
(*                                                                         *)
(* A coroutine makes requests one after the other: a PONG it only sends, a *)
(* PING (in ensure_bond), an ENRRequest or a FIND_NODE it sends and then   *)
(* waits for with a timer.  All of them run on one io_context thread, each *)
(* from one wait to the next.  The network is free: any reply can arrive   *)
(* at any time, late, twice, unasked for or never.                         *)
(*                                                                         *)
(* The hash of a packet is a function of its type, its destination and the *)
(* second it is signed in (the signature is deterministic), so that second *)
(* stands for it.                                                          *)
(***************************************************************************)
EXTENDS Naturals, FiniteSets, Functions

CONSTANTS
    Endpoints,  \* "ip:port" of the nodes there are
    Tasks,      \* names for the coroutines; their number is a bound of the model
    NoTask,
    MaxClock    \* bound on the seconds that pass

ASSUME NoTaskAssumption == NoTask \notin Tasks

VARIABLES
    running_,
    receiving,         \* receive_loop: off, running, or handling its last packet
    socket_open,
    pending_replies_,  \* for an endpoint and a request, the coroutine that entered itself
    bonded_set_,
    discovered_set_,
    tasks,             \* the coroutines that are alive
    clock,             \* std::time, in seconds
    pinged,            \* history: the PINGs that were sent
    answered           \* history: endpoints whose PONG carried the hash of a PING sent to them

clientVars ==
    <<running_, receiving, socket_open, pending_replies_, bonded_set_, discovered_set_,
      tasks, clock, pinged, answered>>

Requests == {"ping", "enr", "find"}

\* What a coroutine is doing: starting, or one of its requests; a PING is made
\* before the ENRRequest ("bond") or inside find_node ("rebond").
Starts == {"start_find", "start_answer", "start_explore"}
Doing == Starts \cup {"pong", "bond", "rebond", "enr", "find"}

\* The request whose reply a coroutine waits for while it does p.
RequestOf(p) == IF p \in {"bond", "rebond"} THEN "ping" ELSE p

\* A coroutine: its endpoint, what it does, whether it is sending or waiting, the
\* hash of its packet, its reply slot, and whether its wait is over.
Task(e, p) == [ep |-> e, does |-> p, stage |-> "send", hash |-> 0, slot |-> FALSE, woken |-> FALSE]

Alive == DOMAIN tasks
Free == Tasks \ Alive
Without(f, x) == [y \in DOMAIN f \ {x} |-> f[y]]

\* asio::spawn of a coroutine that starts with p.
Spawn(e, p) ==
    /\ Free # {}
    /\ LET new == CHOOSE t \in Free : TRUE IN
       tasks' = [t \in Alive \cup {new} |-> IF t = new THEN Task(e, p) ELSE tasks[t]]

ClientInit ==
    /\ running_ = FALSE
    /\ receiving = "off"
    /\ socket_open = TRUE
    /\ pending_replies_ = [k \in Endpoints \X Requests |-> NoTask]
    /\ bonded_set_ = {}
    /\ discovered_set_ = {}
    /\ tasks = <<>>
    /\ clock = 0
    /\ pinged = {}
    /\ answered = {}
-----------------------------------------------------------------------------
(* The order of the requests of a coroutine *)

\* find_node: nothing once stopped, else ensure_bond and the FIND_NODE.
EnterFind(e, bonded) ==
    IF ~running_ THEN "done" ELSE IF e \in bonded THEN "find" ELSE "rebond"

\* request_enr, and find_node when it is refused at once.
EnterEnr(e, bonded) == IF running_ THEN "enr" ELSE EnterFind(e, bonded)

\* ensure_bond, then request_enr.
EnterExplore(e, bonded) ==
    IF e \notin bonded /\ running_ THEN "bond" ELSE EnterEnr(e, bonded)

\* What follows p for a coroutine of endpoint e, whatever p came to: the result
\* of ensure_bond is not looked at, a failed ENRRequest leaves the fork id empty.
After(p, e, bonded) ==
    CASE p = "start_find" -> EnterFind(e, bonded)
      [] p = "start_answer" -> "pong"
      [] p = "start_explore" -> EnterExplore(e, bonded)
      [] p = "pong" -> EnterFind(e, bonded)
      [] p = "bond" -> EnterEnr(e, bonded)
      [] p = "enr" -> EnterFind(e, bonded)
      [] p = "rebond" -> "find"
      [] p = "find" -> "done"

\* pending_replies_[key] = ..., over whatever is there.
Entering(pend, t, e, p) ==
    IF p \in {"pong", "done"} THEN pend ELSE [pend EXCEPT ![<<e, RequestOf(p)>>] = t]

\* Mutant of Erasing: request_enr leaves its entry.
ErasingNotEnr(pend, e, p) ==
    IF p \in Starts \cup {"pong", "enr"} THEN pend ELSE [pend EXCEPT ![<<e, RequestOf(p)>>] = NoTask]

\* pending_replies_.erase(key), whoever entered itself there.
Erasing(pend, e, p) ==
    IF p \in Starts \cup {"pong"} THEN pend ELSE [pend EXCEPT ![<<e, RequestOf(p)>>] = NoTask]

\* A send that begins on the closed socket can only fail.
Sending == IF socket_open THEN "send" ELSE "refused"

\* Coroutine t leaves what it did and goes on to its next send, or ends.
Proceed(t, bonded) ==
    LET e == tasks[t].ep
        p == tasks[t].does
        n == After(p, e, bonded)
    IN
    /\ bonded_set_' = bonded
    /\ tasks' = IF n = "done" THEN Without(tasks, t)
                ELSE [tasks EXCEPT ![t] = [Task(e, n) EXCEPT !.hash = clock, !.stage = Sending]]
    /\ pending_replies_' = Entering(Erasing(pending_replies_, e, p), t, e, n)
    /\ pinged' = IF RequestOf(n) = "ping" THEN pinged \cup {<<e, clock>>} ELSE pinged
-----------------------------------------------------------------------------
(* The coroutines *)

\* A coroutine that was spawned is run for the first time.
TaskStarts(t) ==
    /\ tasks[t].does \in Starts
    /\ Proceed(t, bonded_set_)
    /\ UNCHANGED <<running_, receiving, socket_open, discovered_set_, clock, answered>>

\* send_packet fails.  A coroutine whose PONG or FIND_NODE fails ends.
SendFails(t) ==
    /\ tasks[t].does \notin Starts /\ tasks[t].stage \in {"send", "refused"}
    /\ IF tasks[t].does = "pong"
       THEN tasks' = Without(tasks, t) /\ UNCHANGED <<bonded_set_, pending_replies_, pinged>>
       ELSE Proceed(t, bonded_set_)
    /\ UNCHANGED <<running_, receiving, socket_open, discovered_set_, clock, answered>>

\* send_packet succeeds, perhaps with the socket closed since: the coroutine waits for its reply,
\* or goes on from a PONG.
SendDone(t) ==
    /\ tasks[t].does \notin Starts /\ tasks[t].stage = "send"
    /\ IF tasks[t].does = "pong"
       THEN Proceed(t, bonded_set_)
       ELSE /\ tasks' = [tasks EXCEPT ![t].stage = "wait"]
            /\ UNCHANGED <<bonded_set_, pending_replies_, pinged>>
    /\ UNCHANGED <<running_, receiving, socket_open, discovered_set_, clock, answered>>

\* Mutant of TimerExpires: the timer of a FIND_NODE is not set.
TimerExpiresPing(t) ==
    /\ tasks[t].does \in {"bond", "rebond", "enr"} /\ ~tasks[t].woken
    /\ tasks' = [tasks EXCEPT ![t].woken = TRUE]
    /\ UNCHANGED <<running_, receiving, socket_open, pending_replies_, bonded_set_, discovered_set_,
                   clock, pinged, answered>>

\* ping_timeout passes, counted from before the send.
TimerExpires(t) ==
    /\ tasks[t].does \in {"bond", "rebond", "enr", "find"} /\ ~tasks[t].woken
    /\ tasks' = [tasks EXCEPT ![t].woken = TRUE]
    /\ UNCHANGED <<running_, receiving, socket_open, pending_replies_, bonded_set_, discovered_set_,
                   clock, pinged, answered>>

\* The wait is over.  A PING whose slot is filled has bonded.
TaskResumes(t) ==
    /\ tasks[t].stage = "wait" /\ tasks[t].woken
    /\ Proceed(t, IF RequestOf(tasks[t].does) = "ping" /\ tasks[t].slot
                  THEN bonded_set_ \cup {tasks[t].ep} ELSE bonded_set_)
    /\ UNCHANGED <<running_, receiving, socket_open, discovered_set_, clock, answered>>
-----------------------------------------------------------------------------
(* The packet handlers *)

\* receive_loop hands over a packet; after stop() only one that was already read.
Received ==
    /\ receiving \in {"loop", "last"}
    /\ receiving' = IF receiving = "last" THEN "off" ELSE "loop"

\* timer->cancel() of coroutine t: it wakes a coroutine that waits.
Cancelled(t) == [tasks[t] EXCEPT !.woken = @ \/ tasks[t].stage = "wait"]

\* handle_ping: the sender is bonded; a coroutine answers and then asks it.
HandlePing(e) ==
    /\ Received
    /\ bonded_set_' = bonded_set_ \cup {e}
    /\ Spawn(e, "start_answer")
    /\ UNCHANGED <<running_, socket_open, pending_replies_, discovered_set_, clock, pinged, answered>>

\* Mutant of Expected: a PONG is taken for an answer to whatever is outstanding.
ExpectedAny(t, h) == TRUE

\* The reply carries the hash of the request of coroutine t.
Expected(t, h) == tasks[t].hash = h

\* handle_pong; the slot counts as filled if the PONG has an expiration.
HandlePong(e, h) ==
    LET t == pending_replies_[<<e, "ping">>] IN
    /\ Received
    /\ t # NoTask /\ Expected(t, h)
    /\ \E filled \in BOOLEAN :
          /\ tasks' = [tasks EXCEPT ![t] = [Cancelled(t) EXCEPT !.slot = filled]]
          /\ answered' = IF filled /\ <<e, h>> \in pinged THEN answered \cup {e} ELSE answered
    /\ UNCHANGED <<running_, socket_open, pending_replies_, bonded_set_, discovered_set_, clock, pinged>>

\* handle_enr_response
HandleEnrResponse(e, h) ==
    LET t == pending_replies_[<<e, "enr">>] IN
    /\ Received
    /\ t # NoTask /\ Expected(t, h)
    /\ tasks' = [tasks EXCEPT ![t] = [Cancelled(t) EXCEPT !.slot = TRUE]]
    /\ UNCHANGED <<running_, socket_open, pending_replies_, bonded_set_, discovered_set_, clock,
                   pinged, answered>>

\* handle_neighbours with the nodes ns (none when it does not decode): a coroutine
\* explores each endpoint that is new.
HandleNeighbours(e, ns) ==
    LET t == pending_replies_[<<e, "find">>]
        new == IF running_ THEN ns \ discovered_set_ ELSE {}
    IN
    /\ Received
    /\ t # NoTask
    /\ discovered_set_' = discovered_set_ \cup new
    /\ Cardinality(new) <= Cardinality(Free)
    /\ LET f == CHOOSE g \in [new -> Free] : IsInjective(g) IN
       tasks' = [u \in Alive \cup {f[x] : x \in new} |->
                    IF u = t THEN Cancelled(t)
                    ELSE IF u \in Alive THEN tasks[u]
                    ELSE Task(CHOOSE x \in new : f[x] = u, "start_explore")]
    /\ UNCHANGED <<running_, socket_open, pending_replies_, bonded_set_, clock, pinged, answered>>
-----------------------------------------------------------------------------
(* The application *)

\* start(), on the socket the constructor opened.
Start ==
    /\ ~running_ /\ socket_open
    /\ running_' = TRUE
    /\ receiving' = "loop"
    /\ UNCHANGED <<socket_open, pending_replies_, bonded_set_, discovered_set_, tasks, clock, pinged, answered>>

\* stop(): the timers of the entries are cancelled, the entries cleared and the
\* socket closed.  Coroutines without an entry are not woken.
Stop ==
    /\ running_' = FALSE
    /\ receiving' = IF receiving = "loop" THEN "last" ELSE receiving
    /\ socket_open' = FALSE
    /\ pending_replies_' = [k \in DOMAIN pending_replies_ |-> NoTask]
    /\ tasks' = [t \in Alive |->
                    IF \E k \in DOMAIN pending_replies_ : pending_replies_[k] = t
                    THEN Cancelled(t) ELSE tasks[t]]
    /\ UNCHANGED <<bonded_set_, discovered_set_, clock, pinged, answered>>

\* A coroutine of the application calls find_node, as for a bootnode.
FindNode(e) ==
    /\ Spawn(e, "start_find")
    /\ UNCHANGED <<running_, receiving, socket_open, pending_replies_, bonded_set_, discovered_set_,
                   clock, pinged, answered>>

\* A second passes.
Tick ==
    /\ clock < MaxClock
    /\ clock' = clock + 1
    /\ UNCHANGED <<running_, receiving, socket_open, pending_replies_, bonded_set_, discovered_set_,
                   tasks, pinged, answered>>

ClientNext ==
    \/ \E t \in Alive : TaskStarts(t)
    \/ \E t \in Alive : SendFails(t)
    \/ \E t \in Alive : SendDone(t)
    \/ \E t \in Alive : TimerExpires(t)
    \/ \E t \in Alive : TaskResumes(t)
    \/ \E e \in Endpoints : HandlePing(e)
    \/ \E e \in Endpoints, h \in 0 .. MaxClock : HandlePong(e, h)
    \/ \E e \in Endpoints, h \in 0 .. MaxClock : HandleEnrResponse(e, h)
    \/ \E e \in Endpoints, ns \in SUBSET Endpoints : HandleNeighbours(e, ns)
    \/ Start \/ Stop
    \/ \E e \in Endpoints : FindNode(e)
    \/ Tick

\* A send ends, a timer expires, and what is queued is run.
ClientFairness ==
    \A t \in Tasks :
        /\ WF_clientVars(t \in Alive /\ TaskStarts(t))
        /\ WF_clientVars(t \in Alive /\ (SendFails(t) \/ SendDone(t)))
        /\ WF_clientVars(t \in Alive /\ TimerExpires(t))
        /\ WF_clientVars(t \in Alive /\ TaskResumes(t))

ClientSafety == ClientInit /\ [][ClientNext]_clientVars

ClientSpec == ClientSafety /\ ClientFairness
-----------------------------------------------------------------------------
(* Properties *)

\* The maps and sets have the shape the class declares, and a coroutine that waits
\* has made a request.
ClientTypeOK ==
    /\ running_ \in BOOLEAN /\ socket_open \in BOOLEAN
    /\ receiving \in {"off", "loop", "last"}
    /\ pending_replies_ \in [Endpoints \X Requests -> Tasks \cup {NoTask}]
    /\ bonded_set_ \subseteq Endpoints /\ discovered_set_ \subseteq Endpoints
    /\ answered \subseteq Endpoints /\ pinged \subseteq Endpoints \X (0 .. MaxClock)
    /\ clock \in 0 .. MaxClock
    /\ Alive \subseteq Tasks
    /\ \A t \in Alive :
          /\ tasks[t] \in [ep : Endpoints, does : Doing, stage : {"send", "refused", "wait"},
                           hash : 0 .. MaxClock, slot : BOOLEAN, woken : BOOLEAN]
          /\ tasks[t].stage = "wait" => RequestOf(tasks[t].does) \in Requests

\* pending_replies_ holds no entry whose coroutine has left: every way out of a
\* request (reply, timeout, failed send, stop) erases its key, so that a reply is
\* never written to the slot of a request that is over.
NoDanglingEntries ==
    \A k \in DOMAIN pending_replies_ :
        LET t == pending_replies_[k] IN
        t # NoTask => /\ t \in Alive
                      /\ tasks[t].ep = k[1] /\ RequestOf(tasks[t].does) = k[2]

\* An endpoint becomes bonded by sending a PING or by answering one: its PONG carried
\* the hash of a PING that was sent to it, whatever older, repeated or unasked-for
\* PONGs arrived and whichever coroutine's entry they met.
BondIsProven ==
    [][\A e \in bonded_set_' \ bonded_set_ :
          \/ e \in answered
          \/ \E t \in DOMAIN tasks' \ Alive : tasks'[t].ep = e /\ tasks'[t].does = "start_answer"
      ]_clientVars

\* Every coroutine ends, although its entry can be overwritten or erased by another
\* one, its reply lost, the socket closed under it and stop() called at any point.
EveryTaskEnds == \A t \in Tasks : (t \in Alive) ~> (t \notin Alive)

\* discv4_client.hpp: pending reply entries, one per outstanding PING or FIND_NODE.
EntryPerOutstanding ==
    \A t \in Alive :
        running_ /\ RequestOf(tasks[t].does) \in Requests =>
            pending_replies_[<<tasks[t].ep, RequestOf(tasks[t].does)>>] = t

\* discv4_client.hpp: a bond exists before FIND_NODE is sent.
FindNodeBonded ==
    \A t \in Alive : tasks[t].does = "find" => tasks[t].ep \in bonded_set_

\* discv4_client.hpp: bonded_set_ holds the endpoints that completed a PING-PONG bond.
BondedAnswered == bonded_set_ \subseteq answered
=============================================================================
