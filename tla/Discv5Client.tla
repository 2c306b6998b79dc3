---------------------------- MODULE Discv5Client ----------------------------
(***************************************************************************)
(* Nodes that each run discv5_client (src/discv5/discv5_client.cpp) with   *)
(* its crawler, over UDP.  A packet may be lost, delivered twice or late;  *)
(* a process may crash and start again, a send may fail and the            *)
(* application may stop the client; MaxFaults bounds how often in all.     *)
(*                                                                         *)
(* Every coroutine spawned on the io_context is a task: it runs in one     *)
(* step to its send and ends, because what it does after the send only     *)
(* adds to the crawler's sets.  The session keys are what they are derived *)
(* from, <<challenge, initiator, recipient>>, and each has two halves:     *)
(* the initiator writes with the first.  Nonces and challenges are drawn   *)
(* from one counter, bounded by MaxFresh.  All records are valid and every *)
(* node keeps its identity and its address.                                *)
(***************************************************************************)
EXTENDS Discv5Crawler, FiniteSets, Integers

CONSTANTS Nodes,
          Boots,     \* the possible configurations: node -> its bootstrap URIs
          Required,  \* node -> the fork its application asks for, or NoFilter
          Ports,     \* node -> its port
          MaxQueries, MaxFresh, MaxFaults

ASSUME Discv5Assumption ==
    MaxQueries \in Nat \ {0} /\ MaxFresh \in Nat /\ MaxFaults \in Nat /\ Required \in [Nodes -> Int]

VARIABLES boot,       \* config_.bootstrap_enrs of each node
          client,     \* running_, the socket, the loops that run
          sessions, pending_requests, sent_challenges,
          tasks,      \* coroutines that were spawned and have not run
          crawl,      \* the crawlers
          net,        \* packets under way
          fresh, faults,
          derived,    \* keys a node ever derived as initiator
          answered    \* nodes whose NODES reply a node has taken

vars == <<boot, client, sessions, pending_requests, sent_challenges, tasks, crawl, net, fresh, faults, derived, answered>>

None == <<>>
NoPeers == [p \in Nodes |-> None]
RecordOf(n) == [id |-> n, port |-> Ports[n], fork |-> NoFork]

\* req_id is made of the peer's ports, the same for every request to it.
ReqId(p) == Ports[p]

(***************************************************************************)
(* Packets.                                                                *)
(***************************************************************************)
Random(n, p, nonce) == [flag |-> "message", from |-> n, to |-> p, nonce |-> nonce, key |-> None, half |-> 0, body |-> None]

Sealed(n, p, s, body) ==
    [flag |-> "message", from |-> n, to |-> p, nonce |-> 0, key |-> s.key, half |-> s.write, body |-> body]

Whoareyou(n, p, nonce, id) == [flag |-> "whoareyou", from |-> n, to |-> p, nonce |-> nonce, challenge |-> id]

\* The ephemeral key of a handshake is fresh and answers one challenge: the challenge names both.
derive_session_keys(challenge, initiator, recipient) == <<challenge, initiator, recipient>>

\* challenge stands for the signature over it, the ephemeral key and the recipient.
Handshake(n, p, challenge, req) ==
    [flag |-> "handshake", from |-> n, to |-> p, challenge |-> challenge,
     key |-> derive_session_keys(challenge, n, p), req |-> req]

\* The header is masked with the address of the node it is for, and no other node can read it.
decode_packet(n, packet) == packet.to = n

Opens(s, packet) == packet.key = s.key /\ packet.half = 3 - s.write

Spawn(n, ts) == tasks' = [tasks EXCEPT ![n] = @ \o ts]

(***************************************************************************)
(* Life cycle.                                                             *)
(***************************************************************************)
FreshClient == [running |-> FALSE, open |-> TRUE, receiving |-> FALSE, crawling |-> 0]
Started(c) == [c EXCEPT !.running = TRUE, !.receiving = TRUE, !.crawling = @ + 1]

Init ==
    /\ boot \in Boots
    /\ client = [n \in Nodes |-> Started(FreshClient)]
    /\ sessions = [n \in Nodes |-> NoPeers]
    /\ pending_requests = [n \in Nodes |-> NoPeers]
    /\ sent_challenges = [n \in Nodes |-> NoPeers]
    /\ tasks = [n \in Nodes |-> <<>>]
    /\ crawl = [n \in Nodes |-> start_crawler(crawler, boot[n])]
    /\ net = {} /\ fresh = 0 /\ faults = 0
    /\ derived = [n \in Nodes |-> {}]
    /\ answered = [n \in Nodes |-> {}]

Fault == faults < MaxFaults /\ faults' = faults + 1

\* start() after stop(): the socket that stop() closed stays closed.
Start(n) ==
    /\ ~client[n].running
    /\ client' = [client EXCEPT ![n] = Started(@)]
    /\ crawl' = [crawl EXCEPT ![n] = start_crawler(@, boot[n])]
    /\ UNCHANGED <<boot, sessions, pending_requests, sent_challenges, tasks, net, fresh, faults, derived, answered>>

Stop(n) ==
    /\ client[n].running
    /\ Fault
    /\ client' = [client EXCEPT ![n].running = FALSE, ![n].open = FALSE, ![n].receiving = FALSE]
    /\ crawl' = [crawl EXCEPT ![n] = stop_crawler(@)]
    /\ UNCHANGED <<boot, sessions, pending_requests, sent_challenges, tasks, net, fresh, derived, answered>>

\* The process ends, whatever the client was doing, and a new one starts with a new client.
Crash(n) ==
    /\ Fault
    /\ client' = [client EXCEPT ![n] = Started(FreshClient)]
    /\ sessions' = [sessions EXCEPT ![n] = NoPeers]
    /\ pending_requests' = [pending_requests EXCEPT ![n] = NoPeers]
    /\ sent_challenges' = [sent_challenges EXCEPT ![n] = NoPeers]
    /\ tasks' = [tasks EXCEPT ![n] = <<>>]
    /\ crawl' = [crawl EXCEPT ![n] = start_crawler(crawler, boot[n])]
    /\ answered' = [answered EXCEPT ![n] = {}]
    /\ UNCHANGED <<boot, net, fresh, derived>>

\* crawler_loop: one round, up to MaxQueries queries; the loop ends when it finds the client stopped.
CrawlRound(n) ==
    /\ client[n].crawling > 0 /\ client[n].running
    /\ crawl[n].queued_peers /= <<>>
    /\ LET next == Dequeued(crawl[n], MaxQueries)
       IN  Spawn(n, [i \in DOMAIN next |-> [do |-> "query", peer |-> next[i].id]])
    /\ crawl' = [crawl EXCEPT ![n] = dequeue(@, MaxQueries)]
    /\ UNCHANGED <<boot, client, sessions, pending_requests, sent_challenges, net, fresh, faults, derived, answered>>

CrawlEnds(n) ==
    /\ client[n].crawling > 0 /\ ~client[n].running
    /\ client' = [client EXCEPT ![n].crawling = @ - 1]
    /\ UNCHANGED <<boot, sessions, pending_requests, sent_challenges, tasks, crawl, net, fresh, faults, derived, answered>>

(***************************************************************************)
(* Tasks.  ok is the outcome of the send: it fails when the socket is      *)
(* closed, and may fail otherwise.                                         *)
(***************************************************************************)
Send(n, packet, ok) ==
    \/ ok /\ client[n].open /\ net' = net \cup {packet} /\ UNCHANGED faults
    \/ ~ok /\ net' = net /\ IF client[n].open THEN Fault ELSE UNCHANGED faults

Ends(n, i) == tasks' = [tasks EXCEPT ![n] = RemoveAt(@, i)]

\* What the coroutine around send_findnode does with its outcome: a query counts as measured
\* when it was sent.
Outcome(n, t, ok) ==
    crawl' = [crawl EXCEPT ![n] = IF ~ok THEN mark_failed(@, t.peer)
                                  ELSE IF t.do = "query" THEN mark_measured(@, t.peer) ELSE @]

IsFindnode(t) == t.do \in {"query", "retry"}

\* send_findnode with a session.
FindnodeInSession(n, i, ok) ==
    LET t == tasks[n][i]  p == t.peer  s == sessions[n][p]
    IN  /\ IsFindnode(t) /\ s /= None
        /\ sessions' = [sessions EXCEPT ![n][p].last_req_id = ReqId(p)]
        /\ Send(n, Sealed(n, p, s, [type |-> "findnode", req |-> ReqId(p)]), ok)
        /\ Outcome(n, t, ok) /\ Ends(n, i)
        /\ UNCHANGED <<boot, client, pending_requests, sent_challenges, fresh, derived, answered>>

\* send_findnode without a session or a challenge: a new request replaces the old one.
FindnodeUnknown(n, i, ok) ==
    LET t == tasks[n][i]  p == t.peer  pending == pending_requests[n][p]
    IN  /\ IsFindnode(t) /\ sessions[n][p] = None
        /\ pending /= None => pending.challenge = None
        /\ fresh < MaxFresh /\ fresh' = fresh + 1
        /\ pending_requests' = [pending_requests EXCEPT ![n][p] =
                                    [nonce |-> fresh + 1, challenge |-> None, req |-> ReqId(p)]]
        /\ Send(n, Random(n, p, fresh + 1), ok)
        /\ Outcome(n, t, ok) /\ Ends(n, i)
        /\ UNCHANGED <<boot, client, sessions, sent_challenges, derived, answered>>

\* send_findnode that answers a challenge: the session is kept before the handshake is sent.
FindnodeHandshake(n, i, ok) ==
    LET t == tasks[n][i]  p == t.peer  pending == pending_requests[n][p]
        key == derive_session_keys(pending.challenge, n, p)
    IN  /\ IsFindnode(t) /\ sessions[n][p] = None
        /\ pending /= None /\ pending.challenge /= None
        /\ client[n].open
        /\ sessions' = [sessions EXCEPT ![n][p] = [key |-> key, write |-> 1, last_req_id |-> pending.req]]
        /\ derived' = [derived EXCEPT ![n] = @ \cup {key}]
        /\ pending_requests' = [pending_requests EXCEPT ![n][p] = None]
        /\ Send(n, Handshake(n, p, pending.challenge, pending.req), ok)
        /\ Outcome(n, t, ok) /\ Ends(n, i)
        /\ UNCHANGED <<boot, client, sent_challenges, fresh, answered>>

\* The same when the socket is closed: build_local_enr fails first.
FindnodeNoRecord(n, i) ==
    LET t == tasks[n][i]  p == t.peer
    IN  /\ IsFindnode(t) /\ sessions[n][p] = None
        /\ pending_requests[n][p] /= None /\ pending_requests[n][p].challenge /= None
        /\ ~client[n].open
        /\ Outcome(n, t, FALSE) /\ Ends(n, i)
        /\ UNCHANGED <<boot, client, sessions, pending_requests, sent_challenges, net, fresh, faults, derived, answered>>

\* The newest challenge to a node replaces the one before.
send_whoareyou(n, i, ok) ==
    LET t == tasks[n][i]
    IN  /\ t.do = "challenge"
        /\ fresh < MaxFresh /\ fresh' = fresh + 1
        /\ sent_challenges' = [sent_challenges EXCEPT ![n][t.peer] = <<fresh + 1>>]
        /\ Send(n, Whoareyou(n, t.peer, t.nonce, <<fresh + 1>>), ok)
        /\ Ends(n, i)
        /\ UNCHANGED <<boot, client, sessions, pending_requests, crawl, derived, answered>>

\* The reply is sealed with the session of now, not with that of the request.
handle_findnode_request(n, i, ok) ==
    LET t == tasks[n][i]  s == sessions[n][t.peer]
    IN  /\ t.do = "reply"
        /\ IF s = None \/ ~client[n].open THEN ~ok /\ UNCHANGED <<net, faults>>
           ELSE Send(n, Sealed(n, t.peer, s, [type |-> "nodes", req |-> t.req]), ok)
        /\ Ends(n, i)
        /\ UNCHANGED <<boot, client, sessions, pending_requests, sent_challenges, crawl, fresh, derived, answered>>

(***************************************************************************)
(* handle_packet.  A packet that is delivered again later stays in net.    *)
(***************************************************************************)
Taken(packet, again) ==
    IF again THEN net' = net /\ Fault ELSE net' = net \ {packet} /\ UNCHANGED faults

Receives(n) == client[n].receiving /\ client[n].open

\* WHOAREYOU counts when it names the nonce of the request that waits.
handle_whoareyou(n, packet, again) ==
    LET p == packet.from
        known == pending_requests[n][p] /= None /\ pending_requests[n][p].nonce = packet.nonce
    IN  /\ packet.flag = "whoareyou" /\ Receives(n)
        /\ Taken(packet, again)
        /\ pending_requests' = IF known THEN [pending_requests EXCEPT ![n][p].challenge = packet.challenge]
                               ELSE pending_requests
        /\ Spawn(n, IF known THEN <<[do |-> "retry", peer |-> p]>> ELSE <<>>)
        /\ UNCHANGED <<boot, client, sessions, sent_challenges, crawl, fresh, derived, answered>>

\* A message no session opens is answered by a challenge; the session, if any, stays.
handle_unreadable(n, packet, again) ==
    LET s == sessions[n][packet.from]
    IN  /\ packet.flag = "message" /\ Receives(n)
        /\ s /= None => ~Opens(s, packet)
        /\ Taken(packet, again)
        /\ Spawn(n, <<[do |-> "challenge", peer |-> packet.from, nonce |-> packet.nonce]>>)
        /\ UNCHANGED <<boot, client, sessions, pending_requests, sent_challenges, crawl, fresh, derived, answered>>

\* A node answers with its own record only.
handle_nodes(n, packet, again) ==
    LET p == packet.from  s == sessions[n][p]
        asked == s.last_req_id = packet.body.req
    IN  /\ packet.flag = "message" /\ Receives(n)
        /\ s /= None /\ Opens(s, packet) /\ packet.body.type = "nodes"
        /\ Taken(packet, again)
        /\ crawl' = IF ~asked THEN crawl
                    ELSE [crawl EXCEPT ![n] =
                            ingest_discovered_peers(mark_measured(@, p), <<RecordOf(p)>>, Required[n])]
        /\ answered' = IF asked THEN [answered EXCEPT ![n] = @ \cup {p}] ELSE answered
        /\ UNCHANGED <<boot, client, sessions, pending_requests, sent_challenges, tasks, fresh, derived>>

handle_findnode(n, packet, again) ==
    LET p == packet.from  s == sessions[n][p]
    IN  /\ packet.flag = "message" /\ Receives(n)
        /\ s /= None /\ Opens(s, packet) /\ packet.body.type = "findnode"
        /\ Taken(packet, again)
        /\ Spawn(n, <<[do |-> "reply", peer |-> p, req |-> packet.body.req]>>)
        /\ UNCHANGED <<boot, client, sessions, pending_requests, sent_challenges, crawl, fresh, derived, answered>>

\* Mutant of verify_id_signature: the challenge is not part of what is signed.
verify_id_signature_any(challenge, packet) == TRUE

verify_id_signature(challenge, packet) == packet.challenge = challenge

\* Mutant of RecipientSession: the halves of the key are not exchanged.
RecipientSessionSame(key, req) == [key |-> key, write |-> 1, last_req_id |-> req]

RecipientSession(key, req) == [key |-> key, write |-> 2, last_req_id |-> req]

\* Mutant of AfterHandshake: a challenge that was answered is kept.
AfterHandshakeKept(challenges, n, p) == challenges

AfterHandshake(challenges, n, p) == [challenges EXCEPT ![n][p] = None]

\* The session is replaced before the message in the handshake is opened, and erased when it
\* does not open.
handle_handshake(n, packet, again) ==
    LET p == packet.from  challenge == sent_challenges[n][p]
        valid == challenge /= None /\ verify_id_signature(challenge, packet)
        key == derive_session_keys(challenge, p, n)
        opens == packet.key = key
    IN  /\ packet.flag = "handshake" /\ Receives(n)
        /\ Taken(packet, again)
        /\ sessions' = IF ~valid THEN sessions
                       ELSE [sessions EXCEPT ![n][p] = IF opens THEN RecipientSession(key, packet.req) ELSE None]
        /\ sent_challenges' = IF valid /\ opens THEN AfterHandshake(sent_challenges, n, p) ELSE sent_challenges
        /\ derived' = IF valid /\ opens THEN [derived EXCEPT ![n] = @ \cup {key}] ELSE derived
        /\ Spawn(n, IF valid /\ opens THEN <<[do |-> "reply", peer |-> p, req |-> packet.req]>> ELSE <<>>)
        /\ UNCHANGED <<boot, client, pending_requests, crawl, fresh, answered>>

handle_packet(n, packet, again) ==
    /\ decode_packet(n, packet)
    /\ \/ handle_whoareyou(n, packet, again)
       \/ handle_unreadable(n, packet, again)
       \/ handle_nodes(n, packet, again)
       \/ handle_findnode(n, packet, again)
       \/ handle_handshake(n, packet, again)

\* The network loses a packet; one for a closed socket is lost in any case.
Lost(packet) ==
    /\ net' = net \ {packet}
    /\ IF Receives(packet.to) THEN Fault ELSE UNCHANGED faults
    /\ UNCHANGED <<boot, client, sessions, pending_requests, sent_challenges, tasks, crawl, fresh, derived, answered>>

RunTask(n) ==
    \E i \in DOMAIN tasks[n] :
        \/ FindnodeNoRecord(n, i)
        \/ \E ok \in BOOLEAN : \/ FindnodeInSession(n, i, ok)
                               \/ FindnodeUnknown(n, i, ok)
                               \/ FindnodeHandshake(n, i, ok)
                               \/ send_whoareyou(n, i, ok)
                               \/ handle_findnode_request(n, i, ok)

Receive(n) == \E packet \in net, again \in BOOLEAN : handle_packet(n, packet, again)

Next ==
    \/ \E n \in Nodes : Start(n) \/ Stop(n) \/ Crash(n) \/ CrawlRound(n) \/ CrawlEnds(n)
    \/ \E n \in Nodes : RunTask(n)
    \/ \E n \in Nodes : Receive(n)
    \/ \E packet \in net : Lost(packet)

\* The io_context runs what is ready, timers fire and the network delivers what it does not lose.
Fairness == \A n \in Nodes : WF_vars(CrawlRound(n)) /\ WF_vars(RunTask(n)) /\ WF_vars(Receive(n))

Spec == Init /\ [][Next]_vars /\ Fairness

-----------------------------------------------------------------------------
(***************************************************************************)
(* Properties.                                                             *)
(***************************************************************************)
Keys == {<<<<c>>, a, b>> : c \in 1..MaxFresh, a \in Nodes, b \in Nodes}

\* The shape of the client's maps, of its tasks and of what is under way; a client has at most one
\* crawler loop more than the times it was stopped.
Discv5TypeOK ==
    /\ client \in [Nodes -> [running : BOOLEAN, open : BOOLEAN, receiving : BOOLEAN, crawling : 0..MaxFaults + 1]]
    /\ \A n, p \in Nodes :
        /\ sessions[n][p] = None \/ sessions[n][p] \in
              [key : Keys, write : {1, 2}, last_req_id : {ReqId(q) : q \in Nodes}]
        /\ sent_challenges[n][p] \in {None} \cup {<<c>> : c \in 1..MaxFresh}
    /\ \A n \in Nodes : derived[n] \subseteq Keys /\ answered[n] \subseteq Nodes \ {n}
    /\ \A n \in Nodes : \A t \in ToSet(tasks[n]) : t.do \in {"query", "retry", "challenge", "reply"}
    /\ \A packet \in net : packet.flag \in {"message", "whoareyou", "handshake"}

\* A handshake counts once.  One that is delivered twice, late, or after a restart neither brings
\* back a key that was used before nor makes the node forget the request it waits on
\* (discv5_client.cpp, kFlagHandshake: a challenge is good for one handshake).
HandshakeOnce ==
    [][\A n, p \in Nodes :
        LET old == sessions[n][p]  new == sessions'[n][p]
        IN  new /= None =>
            IF old /= None /\ old.key = new.key THEN new.last_req_id \in {old.last_req_id, ReqId(p)}
            ELSE new.key \notin derived[n]]_vars

\* Only the end of its process makes a node forget a session: the handshake that does not open,
\* which erases the session it has just replaced, is refused before by the signature over the
\* challenge (discv5_client.cpp, kFlagHandshake).
SessionKept ==
    [][\A n, p \in Nodes : (sessions[n][p] /= None /\ sessions'[n][p] = None) => Crash(n)]_vars

\* The application hears of a node once (discv5_crawler::emit_peer), whatever is delivered twice
\* and whether it came first from a bootstrap URI or from a reply; and a node waits at most once to
\* be asked, also one that the fork filter keeps out of the set of discovered nodes
\* (discv5_crawler::ingest_discovered_peers).
PeersOnce ==
    \A n \in Nodes :
        /\ IsInjective(crawl[n].emitted)
        /\ IsInjective([i \in DOMAIN crawl[n].queued_peers |-> crawl[n].queued_peers[i].id])

\* While nothing fails, a node that is asked by one that it does not ask itself answers: the
\* message that cannot be read, the challenge, the handshake with the request and the reply.
Answered ==
    \A n, p \in Nodes :
        (/\ n /= p /\ boot[p] = <<>>
         /\ Queued(crawl[n], p)
         /\ [](faults = 0)) => <>(p \in answered[n])

\* What the code says of itself and does not keep.

\* discv5_crawler.hpp:48 "nodes that responded to at least one FINDNODE query".
MeasuredResponded == \A n \in Nodes : crawl[n].measured_ids \subseteq answered[n]

\* discv5_client.hpp:98 "Bind the UDP socket and start the receive + crawler loops."
StartBinds == \A n \in Nodes : client[n].running => client[n].open

\* discv5_crawler.cpp:349 "Safe: port strings are always short; overflow cannot occur before the
\* check."
PortAsWritten ==
    \A n \in Nodes : \A peer \in ToSet(crawl[n].queued_peers) : \E uri \in ToSet(boot[n]) :
        uri.valid /\ IF uri.form = "enr" THEN uri.peer = peer
                     ELSE uri.id = peer.id /\ peer.port = FoldLeft(LAMBDA v, d : v * 10 + d, 0, uri.digits)

\* Two nodes that hold sessions with each other, with nothing under way, hold the same one.
SessionsAgree ==
    \A n, p \in Nodes :
        (/\ net = {} /\ tasks[n] = <<>> /\ tasks[p] = <<>>
         /\ sessions[n][p] /= None /\ sessions[p][n] /= None) => sessions[n][p].key = sessions[p][n].key

=============================================================================
