------------------------ MODULE Discv5ClientProofs ------------------------
(***************************************************************************)
(* A running discv5 client never loses a session, for any number of nodes, *)
(* any bootstrap lists and any number of faults.                           *)
(*                                                                         *)
(* handle_handshake replaces a session before it opens the message in the  *)
(* handshake, and erases it when the message does not open.  What keeps    *)
(* the session is a fact about packets: every handshake under way is       *)
(* sealed with the key of the challenge it is signed for.  A handshake     *)
(* that passes verify_id_signature therefore opens.                        *)
(***************************************************************************)
EXTENDS Discv5Client, TLAPS

\* Every handshake under way is sealed with the key of its challenge, its sender and its recipient.
Consistent(packet) ==
    packet.flag = "handshake" => packet.key = derive_session_keys(packet.challenge, packet.from, packet.to)

\* A session is not the empty tuple when it is there: it has a key.
IsSession(s) == s = None \/ "key" \in DOMAIN s

\* The inductive invariant.
IInv ==
    /\ DOMAIN crawl = Nodes
    /\ DOMAIN sessions = Nodes
    /\ \A n \in Nodes : DOMAIN sessions[n] = Nodes /\ \A p \in Nodes : IsSession(sessions[n][p])
    /\ \A packet \in net : Consistent(packet)

\* A record with a key is not the value that stands for no session.
LEMMA NotNone ==
    ASSUME NEW s, "key" \in DOMAIN s
    PROVE  s /= None
<1>1. DOMAIN <<>> = {}
    OBVIOUS
<1> QED
    BY <1>1 DEF None

\* What FindnodeHandshake and handle_handshake store is a session.
LEMMA NewSession ==
    ASSUME NEW k, NEW w, NEW r
    PROVE  "key" \in DOMAIN [key |-> k, write |-> w, last_req_id |-> r]
OBVIOUS

\* Initially nothing is under way and no node has a session.
LEMMA InitInv == Init => IInv
BY DEF Init, IInv, NoPeers, IsSession

\* Every packet a node sends is consistent.
LEMMA SendConsistent ==
    ASSUME IInv, NEW n, NEW packet, NEW ok, Send(n, packet, ok), Consistent(packet)
    PROVE  \A q \in net' : Consistent(q)
BY DEF IInv, Send

\* What is taken from the network leaves consistent packets.
LEMMA TakenConsistent ==
    ASSUME IInv, NEW packet, NEW again, Taken(packet, again)
    PROVE  \A q \in net' : Consistent(q)
BY DEF IInv, Taken

\* A message and a challenge are no handshakes, and a handshake is sealed as it must be.
LEMMA PacketsConsistent ==
    ASSUME NEW n, NEW p, NEW x, NEW y
    PROVE  /\ Consistent(Random(n, p, x))
           /\ Consistent(Sealed(n, p, x, y))
           /\ Consistent(Whoareyou(n, p, x, y))
           /\ Consistent(Handshake(n, p, x, y))
BY DEF Consistent, Random, Sealed, Whoareyou, Handshake

\* What SessionKept says of one step.
Lossless ==
    \A n, p \in Nodes : (sessions[n][p] /= None /\ sessions'[n][p] = None) => Crash(n)

\* A step that leaves every session and the shape of the crawlers alone.
LEMMA Unchanged ==
    ASSUME IInv, sessions' = sessions, DOMAIN crawl' = Nodes, \A q \in net' : Consistent(q)
    PROVE  IInv' /\ Lossless
BY DEF IInv, Lossless, IsSession, Consistent

\* A step that stores a session in one place.
LEMMA Stored ==
    ASSUME IInv, NEW n, NEW p, NEW s, "key" \in DOMAIN s,
           sessions' = [sessions EXCEPT ![n][p] = s],
           DOMAIN crawl' = Nodes, \A q \in net' : Consistent(q)
    PROVE  IInv' /\ Lossless
<1>1. s /= None
    BY NotNone
<1>2. /\ DOMAIN sessions' = Nodes
      /\ \A m \in Nodes : DOMAIN sessions'[m] = Nodes
      /\ \A m, r \in Nodes : sessions'[m][r] \in {s, sessions[m][r]}
    BY DEF IInv
<1>3. \A m, r \in Nodes : IsSession(sessions'[m][r])
    BY <1>2 DEF IInv, IsSession
<1>4. IInv'
    BY <1>2, <1>3 DEF IInv, IsSession, Consistent
<1>5. Lossless
    BY <1>1, <1>2 DEF Lossless
<1> QED
    BY <1>4, <1>5

\* Starting, stopping and crawling: only a crash forgets sessions.
LEMMA LifeCycleStep ==
    ASSUME IInv, NEW n \in Nodes,
           Start(n) \/ Stop(n) \/ Crash(n) \/ CrawlRound(n) \/ CrawlEnds(n)
    PROVE  IInv' /\ Lossless
<1>1. CASE Start(n)
    BY <1>1, Unchanged DEF Start, IInv
<1>2. CASE Stop(n)
    BY <1>2, Unchanged DEF Stop, IInv
<1>3. CASE Crash(n)
    <2>1. /\ sessions' = [sessions EXCEPT ![n] = NoPeers]
          /\ crawl' = [crawl EXCEPT ![n] = start_crawler(crawler, boot[n])]
          /\ net' = net
        BY <1>3 DEF Crash
    <2>2. DOMAIN crawl' = Nodes
        BY <2>1 DEF IInv
    <2>3. DOMAIN sessions' = Nodes /\ \A m \in Nodes : sessions'[m] = IF m = n THEN NoPeers ELSE sessions[m]
        BY <2>1 DEF IInv
    <2>4. IInv'
        BY <2>1, <2>2, <2>3 DEF IInv, NoPeers, IsSession, Consistent
    <2>5. Lossless
        BY <1>3, <2>3 DEF Lossless
    <2> QED
        BY <2>4, <2>5
<1>4. CASE CrawlRound(n)
    BY <1>4, Unchanged DEF CrawlRound, IInv
<1>5. CASE CrawlEnds(n)
    BY <1>5, Unchanged DEF CrawlEnds, IInv
<1> QED
    BY <1>1, <1>2, <1>3, <1>4, <1>5

\* The coroutines: a session is stored or gets another request id.
LEMMA TaskStep ==
    ASSUME IInv, NEW n \in Nodes, RunTask(n)
    PROVE  IInv' /\ Lossless
<1>1. PICK i \in DOMAIN tasks[n] :
        \/ FindnodeNoRecord(n, i)
        \/ \E ok \in BOOLEAN : \/ FindnodeInSession(n, i, ok)
                               \/ FindnodeUnknown(n, i, ok)
                               \/ FindnodeHandshake(n, i, ok)
                               \/ send_whoareyou(n, i, ok)
                               \/ handle_findnode_request(n, i, ok)
    BY DEF RunTask
<1>2. ASSUME NEW t, NEW ok, Outcome(n, t, ok)
      PROVE  DOMAIN crawl' = Nodes
    BY <1>2 DEF Outcome, IInv
<1>3. CASE FindnodeNoRecord(n, i)
    <2>1. Outcome(n, tasks[n][i], FALSE) /\ sessions' = sessions /\ net' = net
        BY <1>3 DEF FindnodeNoRecord
    <2> QED
        BY <2>1, <1>2, Unchanged DEF IInv
<1>4. ASSUME NEW ok \in BOOLEAN, FindnodeInSession(n, i, ok)
      PROVE  IInv' /\ Lossless
    <2> DEFINE p == tasks[n][i].peer
    <2> DEFINE s == [sessions[n][p] EXCEPT !.last_req_id = ReqId(p)]
    <2>1. /\ sessions[n][p] /= None
          /\ sessions' = [sessions EXCEPT ![n][p].last_req_id = ReqId(p)]
          /\ Send(n, Sealed(n, p, sessions[n][p], [type |-> "findnode", req |-> ReqId(p)]), ok)
          /\ Outcome(n, tasks[n][i], ok)
        BY <1>4 DEF FindnodeInSession
    <2>2. DOMAIN crawl' = Nodes /\ \A q \in net' : Consistent(q)
        BY <2>1, <1>2, SendConsistent, PacketsConsistent
    <2>3. sessions' = [sessions EXCEPT ![n][p] = s]
        BY <2>1
    <2>4. CASE p \in Nodes
        <3>1. "key" \in DOMAIN s
            BY <2>1, <2>4 DEF IInv, IsSession
        <3> QED
            BY <3>1, <2>2, <2>3, Stored
    <2>5. CASE p \notin Nodes
        <3>1. /\ DOMAIN sessions' = Nodes
              /\ \A m \in Nodes : DOMAIN sessions'[m] = Nodes
              /\ \A m, r \in Nodes : sessions'[m][r] = sessions[m][r]
            BY <2>3, <2>5 DEF IInv
        <3> QED
            BY <3>1, <2>2 DEF IInv, Lossless, IsSession, Consistent
    <2> QED
        BY <2>4, <2>5
<1>5. ASSUME NEW ok \in BOOLEAN, FindnodeUnknown(n, i, ok)
      PROVE  IInv' /\ Lossless
    <2> DEFINE p == tasks[n][i].peer
    <2>1. /\ Send(n, Random(n, p, fresh + 1), ok) /\ Outcome(n, tasks[n][i], ok)
          /\ sessions' = sessions
        BY <1>5 DEF FindnodeUnknown
    <2> QED
        BY <2>1, <1>2, SendConsistent, PacketsConsistent, Unchanged
<1>6. ASSUME NEW ok \in BOOLEAN, FindnodeHandshake(n, i, ok)
      PROVE  IInv' /\ Lossless
    <2> DEFINE p == tasks[n][i].peer
    <2> DEFINE pending == pending_requests[n][p]
    <2> DEFINE s == [key |-> derive_session_keys(pending.challenge, n, p), write |-> 1, last_req_id |-> pending.req]
    <2>1. /\ sessions' = [sessions EXCEPT ![n][p] = s]
          /\ Send(n, Handshake(n, p, pending.challenge, pending.req), ok)
          /\ Outcome(n, tasks[n][i], ok)
        BY <1>6 DEF FindnodeHandshake
    <2>2. "key" \in DOMAIN s
        BY NewSession
    <2>3. DOMAIN crawl' = Nodes /\ \A q \in net' : Consistent(q)
        BY <2>1, <1>2, SendConsistent, PacketsConsistent
    <2> QED
        BY <2>1, <2>2, <2>3, Stored
<1>7. ASSUME NEW ok \in BOOLEAN, send_whoareyou(n, i, ok)
      PROVE  IInv' /\ Lossless
    <2>1. /\ Send(n, Whoareyou(n, tasks[n][i].peer, tasks[n][i].nonce, <<fresh + 1>>), ok)
          /\ sessions' = sessions /\ crawl' = crawl
        BY <1>7 DEF send_whoareyou
    <2> QED
        BY <2>1, SendConsistent, PacketsConsistent, Unchanged DEF IInv
<1>8. ASSUME NEW ok \in BOOLEAN, handle_findnode_request(n, i, ok)
      PROVE  IInv' /\ Lossless
    <2> DEFINE p == tasks[n][i].peer
    <2>1. /\ sessions' = sessions /\ crawl' = crawl
          /\ \/ net' = net
             \/ Send(n, Sealed(n, p, sessions[n][p], [type |-> "nodes", req |-> tasks[n][i].req]), ok)
        BY <1>8 DEF handle_findnode_request
    <2>2. \A q \in net' : Consistent(q)
        BY <2>1, SendConsistent, PacketsConsistent DEF IInv
    <2> QED
        BY <2>1, <2>2, Unchanged DEF IInv
<1> QED
    BY <1>1, <1>3, <1>4, <1>5, <1>6, <1>7, <1>8

\* The packets: a handshake that passes the signature opens, and its session is stored.
LEMMA PacketStep ==
    ASSUME IInv, NEW n \in Nodes, Receive(n)
    PROVE  IInv' /\ Lossless
<1>1. PICK packet \in net, again \in BOOLEAN : handle_packet(n, packet, again)
    BY DEF Receive
<1>2. packet.to = n
    BY <1>1 DEF handle_packet, decode_packet
<1>3. CASE handle_whoareyou(n, packet, again)
    BY <1>3, TakenConsistent, Unchanged DEF handle_whoareyou, IInv
<1>4. CASE handle_unreadable(n, packet, again)
    BY <1>4, TakenConsistent, Unchanged DEF handle_unreadable, IInv
<1>5. CASE handle_nodes(n, packet, again)
    <2>1. Taken(packet, again) /\ sessions' = sessions
        BY <1>5 DEF handle_nodes
    <2>2. DOMAIN crawl' = Nodes
        BY <1>5 DEF handle_nodes, IInv
    <2> QED
        BY <2>1, <2>2, TakenConsistent, Unchanged
<1>6. CASE handle_findnode(n, packet, again)
    BY <1>6, TakenConsistent, Unchanged DEF handle_findnode, IInv
<1>7. CASE handle_handshake(n, packet, again)
    <2> DEFINE p == packet.from
    <2> DEFINE challenge == sent_challenges[n][p]
    <2> DEFINE valid == challenge /= None /\ verify_id_signature(challenge, packet)
    <2> DEFINE key == derive_session_keys(challenge, p, n)
    <2>1. /\ packet.flag = "handshake"
          /\ Taken(packet, again) /\ crawl' = crawl
          /\ sessions' = IF ~valid THEN sessions
                         ELSE [sessions EXCEPT ![n][p] = IF packet.key = key THEN RecipientSession(key, packet.req) ELSE None]
        BY <1>7 DEF handle_handshake
    <2>2. DOMAIN crawl' = Nodes /\ \A q \in net' : Consistent(q)
        BY <2>1, TakenConsistent DEF IInv
    <2>3. CASE ~valid
        BY <2>1, <2>2, <2>3, Unchanged
    <2>4. CASE valid
        <3>1. packet.key = key
            BY <1>2, <2>1, <2>4 DEF IInv, Consistent, verify_id_signature
        <3>2. sessions' = [sessions EXCEPT ![n][p] = RecipientSession(key, packet.req)]
            BY <2>1, <2>4, <3>1
        <3>3. "key" \in DOMAIN RecipientSession(key, packet.req)
            BY NewSession DEF RecipientSession
        <3> QED
            BY <2>2, <3>2, <3>3, Stored
    <2> QED
        BY <2>3, <2>4
<1> QED
    BY <1>1, <1>3, <1>4, <1>5, <1>6, <1>7 DEF handle_packet

\* Every step keeps the invariant and every session, but for a crash.
LEMMA NextStep ==
    ASSUME IInv, [Next]_vars
    PROVE  IInv' /\ Lossless
<1>1. CASE \E n \in Nodes : Start(n) \/ Stop(n) \/ Crash(n) \/ CrawlRound(n) \/ CrawlEnds(n)
    BY <1>1, LifeCycleStep
<1>2. CASE \E n \in Nodes : RunTask(n)
    BY <1>2, TaskStep
<1>3. CASE \E n \in Nodes : Receive(n)
    BY <1>3, PacketStep
<1>4. CASE \E packet \in net : Lost(packet)
    BY <1>4, Unchanged DEF Lost, IInv
<1>5. CASE UNCHANGED vars
    BY <1>5, Unchanged DEF vars, IInv
<1> QED
    BY <1>1, <1>2, <1>3, <1>4, <1>5 DEF Next

\* No step of a node or of the network but the end of its process makes a node forget a session
\* (handle_packet, kFlagHandshake), whatever is lost, repeated or delayed; a node that only
\* answers, one that has not asked yet and one that was stopped keep theirs too.
THEOREM SessionsStay == Spec => SessionKept
<1>1. Init => IInv
    BY InitInv
<1>2. IInv /\ [Next]_vars => IInv'
    BY NextStep
<1>3. IInv /\ [Next]_vars => [Lossless]_vars
    BY NextStep
<1> QED
    BY <1>1, <1>2, <1>3, PTL DEF Spec, SessionKept, Lossless

=============================================================================
