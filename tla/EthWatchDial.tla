----------------------------- MODULE EthWatchDial -----------------------------
(***************************************************************************)
(* examples/eth_watch/eth_watch.cpp: run_watch as the DialFn of the        *)
(* schedulers of DialScheduler, with its session, its two timers and the   *)
(* handlers it registers on the session.                                   *)
(*                                                                         *)
(* A coroutine runs from one wait to the next, and a handler runs to its   *)
(* end, on the one io_context thread.  A timer that expires or is          *)
(* cancelled only queues the resumption of its waiter (wake); cancelling a *)
(* timer nobody waits for does nothing.  Asio runs what is queued in       *)
(* order, so a wait that was cancelled is resumed before the session       *)
(* delivers its next message; an expiry can be queued behind one message   *)
(* that has just been read, or ahead of it.  The handlers share ownership  *)
(* of their session, which therefore outlives its dial: it goes on         *)
(* receiving, and its socket is closed by a local disconnect() only.       *)
(***************************************************************************)
EXTENDS DialScheduler

CONSTANT MaxOrphans   \* the sockets that outlive their dial are counted up to here

VARIABLES
    watch,        \* run_watch of each dial: where it waits, its session, its flags
    orphans,      \* sessions whose dial is over, counted by chain and by kind
    contracts_ok  \* whether the contract addresses on the command line parse

watchVars == <<vars, watch, orphans, contracts_ok>>

\* peer_left is history: the peer's Disconnect message has been delivered.
NewWatch ==
    [at |-> "tcp", session |-> "none", status_received |-> FALSE, wake |-> "none", peer_left |-> FALSE]

\* What becomes of a session whose dial is over: active and known to stop(), active
\* and unknown to it, in the error state with its socket still open, or ended
\* while one message that has been read is still to be delivered.
Kinds == {"held", "active", "dead", "draining"}

More(o, k) == IF o[k] < MaxOrphans THEN [o EXCEPT ![k] = @ + 1] ELSE o
Fewer(o, k) == [o EXCEPT ![k] = @ - 1]

\* The kinds a session in state s counts as; held if stop() knows it.
KindsOf(s, held) ==
    CASE s = "open" -> {IF held THEN "held" ELSE "active"}
      [] s = "failed" -> {"dead"}
      [] s = "failing" -> {"dead", "draining"}
      [] s = "closing" -> {"draining"}
      [] OTHER -> {}

\* disconnect(): it closes an active session, whose receive loop may have read one
\* message already, and leaves a session in the error state as it is.
Disconnect(s) == IF s = "open" THEN "closing" ELSE s

\* The state of a session once a message of it has been delivered.
Delivered(s) == CASE s = "closing" -> "closed" [] s = "failing" -> "failed" [] OTHER -> s

\* The coroutines of the dials there are after the step; u is what is known of
\* the old ones.
Watching(u) == watch' = [d \in dials' |-> IF d \in DOMAIN u THEN u[d] ELSE NewWatch]

WatchInit ==
    /\ Init
    /\ watch = <<>>
    /\ orphans = [c \in Chains |-> [k \in Kinds |-> 0]]
    /\ contracts_ok \in BOOLEAN

\* A discovered peer reaches the scheduler of a chain.
Discovered(c, p) == Enqueue(c, p) /\ Watching(watch) /\ UNCHANGED <<orphans, contracts_ok>>

\* run_watch calls on_done and returns, leaving its session as s.
Finish(d, s) ==
    /\ Done(d)
    /\ Watching(watch)
    /\ orphans' =
           [orphans EXCEPT ![d.chain] =
               [k \in Kinds |->
                   IF k \in KindsOf(s, d \in active_sessions[d.chain]) THEN More(@, k)[k] ELSE @[k]]]
    /\ UNCHANGED contracts_ok

\* run_watch of dial d goes on as w, and nothing else changes.
Goes(d, w) ==
    /\ watch' = [watch EXCEPT ![d] = w]
    /\ UNCHANGED <<vars, orphans, contracts_ok>>
-----------------------------------------------------------------------------
(* Before the session is established *)

\* The TCP connection comes up, or fails or times out.
TcpConnect(d) ==
    /\ watch[d].at = "tcp"
    /\ \/ Goes(d, [watch[d] EXCEPT !.at = "handshake"])
       \/ Finish(d, "none")

\* The RLPx handshake and the HELLO exchange end: in an error or with no common
\* eth version (no open socket is left), on a bad contract address (the session has
\* no handlers yet and is left as it is), or in the wait for the peer's Status.
Handshake(d) ==
    /\ watch[d].at = "handshake"
    /\ \/ Finish(d, "none")
       \/ ~contracts_ok /\ Finish(d, "open")
       \/ contracts_ok /\ Goes(d, [watch[d] EXCEPT !.at = "status", !.session = "open"])
-----------------------------------------------------------------------------
(* Handlers of the session *)

\* The receive loop delivers a message.
Receives(d) ==
    /\ watch[d].session \in {"open", "closing", "failing"}
    /\ watch[d].wake \in {"none", "expired"}

\* status_timeout->cancel()
CancelStatus(w) ==
    CASE w.at = "status" /\ w.wake = "none" -> [w EXCEPT !.wake = "aborted"]
      [] w.at = "status" /\ w.wake = "expired" -> [w EXCEPT !.wake = "late"]
      [] OTHER -> w

\* lifetime->cancel()
CancelLifetime(w) ==
    IF w.at = "watching" /\ w.wake = "none" THEN [w EXCEPT !.wake = "aborted"] ELSE w

\* generic_handler: a valid Status, the first one or another one.
GoodStatus(d) ==
    /\ Receives(d)
    /\ total_validated[d.chain] < MaxValidated
    /\ watch' =
           [watch EXCEPT ![d] =
               CancelStatus([@ EXCEPT !.status_received = TRUE, !.session = Delivered(@)])]
    /\ OnConnected(d)
    /\ UNCHANGED <<orphans, contracts_ok>>

\* generic_handler: a Status that does not decode or validate, or another eth
\* message before the Status.
BadMessage(d) ==
    /\ Receives(d)
    /\ Goes(d, CancelStatus([watch[d] EXCEPT !.session = Delivered(Disconnect(@))]))

\* Mutant of PeerDisconnects: only the Status timer is cancelled.
PeerDisconnectsStatusOnly(d) ==
    /\ Receives(d)
    /\ Goes(d, CancelStatus([watch[d] EXCEPT !.peer_left = TRUE, !.session = Delivered(@)]))

\* disconnect_handler: the peer's Disconnect message.  The session is not closed.
PeerDisconnects(d) ==
    /\ Receives(d)
    /\ Goes(d, CancelStatus(CancelLifetime(
              [watch[d] EXCEPT !.peer_left = TRUE, !.session = Delivered(@)])))

\* A loop of the session ends in an error: no handler is called and the socket is
\* not closed.  When it is the send loop, the receive loop still delivers the
\* message it is reading.
SocketFails(d) ==
    /\ watch[d].session = "open"
    /\ \E s \in {"failed", "failing"} : Goes(d, [watch[d] EXCEPT !.session = s])
-----------------------------------------------------------------------------
(* Timers and the coroutine *)

\* Mutant of Expires: the Status timer is never armed.
ExpiresAfterStatus(d, at) ==
    /\ watch[d].at = at /\ watch[d].wake = "none" /\ at = "watching"
    /\ Goes(d, [watch[d] EXCEPT !.wake = "expired"])

\* Five seconds without a Status, or a year of watching.
Expires(d, at) ==
    /\ watch[d].at = at /\ watch[d].wake = "none"
    /\ Goes(d, [watch[d] EXCEPT !.wake = "expired"])

\* Mutant of StatusWaitOver: the decision is taken on the error code of the wait.
StatusWaitByCode(d) ==
    IF watch[d].wake = "aborted" /\ watch[d].status_received
    THEN Goes(d, [watch[d] EXCEPT !.at = "watching", !.wake = "none"])
    ELSE Finish(d, IF watch[d].wake = "aborted" THEN watch[d].session ELSE Disconnect(watch[d].session))

\* The wait for the Status is over: status_received decides.  disconnect() is
\* called when the timer had expired.
StatusWaitOver(d) ==
    IF watch[d].status_received
    THEN Goes(d, [watch[d] EXCEPT !.at = "watching", !.wake = "none"])
    ELSE Finish(d, IF watch[d].wake = "aborted" THEN watch[d].session ELSE Disconnect(watch[d].session))

\* The coroutine is resumed.
Resume(d) ==
    /\ watch[d].wake # "none"
    /\ \/ watch[d].at = "status" /\ StatusWaitOver(d)
       \/ watch[d].at = "watching" /\ Finish(d, watch[d].session)

\* DialScheduler::stop, with disconnect() of the sessions it holds, those of
\* dials that are over included.
StopChain(c) ==
    /\ Stop(c)
    /\ watch' =
           [d \in dials |->
               IF d \in active_sessions[c]
               THEN [watch[d] EXCEPT !.session = Disconnect(@)] ELSE watch[d]]
    /\ orphans' =
           [orphans EXCEPT ![c] = IF @["held"] > 0 THEN [More(@, "draining") EXCEPT !["held"] = 0] ELSE @]
    /\ UNCHANGED contracts_ok
-----------------------------------------------------------------------------
(* Sessions whose dial is over *)

\* A loop of the session ends in an error.  Its handlers keep the session, and so
\* its socket, alive; without handlers it is destroyed.
OrphanFails(c, k) ==
    /\ k \in {"held", "active"} /\ orphans[c][k] > 0
    /\ orphans' =
           [orphans EXCEPT ![c] = IF contracts_ok THEN More(Fewer(@, k), "dead") ELSE Fewer(@, k)]
    /\ UNCHANGED <<vars, watch, contracts_ok>>

\* generic_handler: a valid Status still calls on_connected, after on_done.  The
\* session is pushed on active_sessions.
OrphanStatus(c, k) ==
    /\ contracts_ok
    /\ k # "dead" /\ orphans[c][k] > 0
    /\ total_validated[c] < MaxValidated
    /\ validated_count' = [validated_count EXCEPT ![c] = @ + 1]
    /\ total_validated' = [total_validated EXCEPT ![c] = @ + 1]
    /\ orphans' =
           [orphans EXCEPT ![c] =
               CASE k = "held" -> @
                 [] k = "active" -> More(Fewer(@, k), "held")
                 [] k = "draining" -> Fewer(@, k)]
    /\ UNCHANGED <<active_total, active, stopping, queue, dial_history, sessions, dials, since_dial,
                   watch, contracts_ok>>

WatchTick == Tick /\ UNCHANGED <<watch, orphans, contracts_ok>>

WatchNext ==
    \/ \E c \in Chains, p \in Peers : Discovered(c, p)
    \/ \E d \in dials :
          \/ TcpConnect(d) \/ Handshake(d)
          \/ GoodStatus(d) \/ BadMessage(d) \/ PeerDisconnects(d) \/ SocketFails(d)
          \/ Expires(d, "status") \/ Expires(d, "watching") \/ Resume(d)
    \/ \E c \in Chains : StopChain(c)
    \/ \E c \in Chains, k \in Kinds : OrphanFails(c, k) \/ OrphanStatus(c, k)
    \/ WatchTick

\* What is bound to happen: the TCP connection ends in ten seconds, the Status
\* timer expires in five, and what is queued is run.  Nothing bounds the
\* handshake, a peer's silence or (within any time of interest) the year of the
\* lifetime timer.
PossibleDials == [chain : Chains, peer : Peers, tag : 0 .. max_total]

Fairness ==
    \A d \in PossibleDials :
        /\ WF_watchVars(d \in dials /\ TcpConnect(d))
        /\ WF_watchVars(d \in dials /\ Expires(d, "status"))
        /\ WF_watchVars(d \in dials /\ Resume(d))

WatchSafety == WatchInit /\ [][WatchNext]_watchVars

WatchSpec == WatchSafety /\ Fairness
-----------------------------------------------------------------------------
(* Properties *)

\* Every dial has its coroutine, and a dial that waits for the lifetime timer has
\* had its Status.
WatchTypeOK ==
    /\ DOMAIN watch = dials
    /\ \A d \in dials :
          /\ watch[d].at \in {"tcp", "handshake", "status", "watching"}
          /\ watch[d].session \in {"none", "open", "closing", "closed", "failing", "failed"}
          /\ watch[d].session # "none" <=> watch[d].at \in {"status", "watching"}
          /\ watch[d].wake \in {"none", "aborted", "expired", "late"}
    /\ orphans \in [Chains -> [Kinds -> 0 .. MaxOrphans]]

\* A Status that arrives while the expiry of the timeout is already queued wins:
\* a dial that has reported its session to the scheduler is not given up as
\* timed out, it goes on to watch.
ValidatedIsNotTimedOut ==
    [][\A d \in was_validated : watch[d].at = "status" =>
          d \in dials' /\ watch'[d].at \in {"status", "watching"}]_watchVars

\* A silent peer, a bad Status, a dropped connection or a Disconnect: the wait
\* for the Status always ends, with the slot recycled or the session watched.
StatusWaitEnds ==
    \A d \in PossibleDials :
        (d \in dials /\ watch[d].at = "status") ~>
            (d \notin dials \/ watch[d].at = "watching")

\* The peer's Disconnect message always frees the slot of its dial: the timers it
\* cancels are the ones the coroutine is waiting for.
PeerDisconnectFreesSlot ==
    \A d \in PossibleDials :
        (d \in dials /\ watch[d].peer_left) ~> (d \notin dials)

\* Architecture.md: stop() disconnects the sessions of a chain, its coroutines
\* unwind and its slots are free again; here, for dials that were validated.
StopFreesSlots ==
    \A d \in PossibleDials :
        (d \in dials /\ d \in disconnected) ~> (d \notin dials)

\* Architecture.md: slots are recycled as connections succeed or fail.
FailedConnectionFreesSlot ==
    \A d \in PossibleDials :
        (d \in dials /\ watch[d].session \in {"failing", "failed"}) ~> (d \notin dials)

\* dial_scheduler.hpp: validated_count is the number of currently active validated
\* connections.
ValidatedCountExact ==
    \A c \in Chains : validated_count[c] = Cardinality(DialsOf(c) \cap was_validated)

\* dial_scheduler.hpp: WatcherPool enforces a cap on file descriptors.
OpenSockets(c) ==
    Cardinality({d \in DialsOf(c) : watch[d].session \in {"open", "failing", "failed"}})
    + orphans[c]["held"] + orphans[c]["active"] + orphans[c]["dead"]

\* A chain has no more sockets open than its cap allows.
FdCapRespected == \A c \in Chains : OpenSockets(c) <= max_per_chain
=============================================================================
