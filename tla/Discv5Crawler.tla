---------------------------- MODULE Discv5Crawler ----------------------------
(***************************************************************************)
(* discv5_crawler (src/discv5/discv5_crawler.cpp): the peers to be asked,  *)
(* those asked, and those given to the application.  An operator is a      *)
(* method: it takes the crawler's state and returns the new one.           *)
(*                                                                         *)
(* A peer is [id, port, fork]; fork is NoFork when its record has no "eth" *)
(* entry.  The counters of stats() that only count are left out.           *)
(***************************************************************************)
EXTENDS Naturals, Sequences, SequencesExt

NoFork == 0
NoFilter == -1

crawler == [running |-> FALSE, queued_peers |-> <<>>, discovered_ids |-> {},
            measured_ids |-> {}, failed_ids |-> {}, emitted |-> <<>>]

Queued(c, id) == \E i \in DOMAIN c.queued_peers : c.queued_peers[i].id = id

process_found_peer(c, peer) ==
    IF peer.id \in c.discovered_ids \/ Queued(c, peer.id) THEN c
    ELSE [c EXCEPT !.queued_peers = Append(@, peer)]

\* A filter drops a peer without an entry as it drops one of another fork.
emit_peer(c, peer, required) ==
    IF required \notin {NoFilter, peer.fork} \/ peer.id \in c.discovered_ids THEN c
    ELSE [c EXCEPT !.discovered_ids = @ \cup {peer.id}, !.emitted = Append(@, peer.id)]

\* Mutant of ingest_peer: a peer that waits to be asked is queued again.
ingest_peer_twice(c, peer, required) ==
    IF peer.id \in c.discovered_ids THEN c
    ELSE emit_peer([c EXCEPT !.queued_peers = Append(@, peer)], peer, required)

\* A peer that is new is queued, whether or not the filter lets it through.
ingest_peer(c, peer, required) ==
    IF peer.id \in c.discovered_ids THEN c
    ELSE emit_peer(process_found_peer(c, peer), peer, required)

ingest_discovered_peers(c, peers, required) ==
    FoldLeft(LAMBDA acc, p : ingest_peer(acc, p, required), c, peers)

mark_measured(c, id) == [c EXCEPT !.measured_ids = @ \cup {id}]
mark_failed(c, id) == [c EXCEPT !.failed_ids = @ \cup {id}]

\* The next n peers to be asked, and the crawler without them.
Dequeued(c, n) == SubSeq(c.queued_peers, 1, IF n < Len(c.queued_peers) THEN n ELSE Len(c.queued_peers))
dequeue(c, n) == [c EXCEPT !.queued_peers = SubSeq(@, Len(Dequeued(c, n)) + 1, Len(@))]

\* The digits of a port, in sixteen bits.
ParsePort(digits) == FoldLeft(LAMBDA port, d : (port * 10 + d) % 2 ^ 16, 0, digits)

\* A bootstrap URI is [form |-> "enr", valid, peer] or [form |-> "enode", valid, id, digits]; valid
\* stands for the text around the port, or for the record and its address.
enqueue_uri(c, uri) ==
    IF ~uri.valid THEN c
    ELSE IF uri.form = "enr" THEN process_found_peer(c, uri.peer)
    ELSE IF ParsePort(uri.digits) = 0 THEN c
    ELSE process_found_peer(c, [id |-> uri.id, port |-> ParsePort(uri.digits), fork |-> NoFork])

start_crawler(c, uris) ==
    IF c.running THEN c ELSE FoldLeft(enqueue_uri, [c EXCEPT !.running = TRUE], uris)

stop_crawler(c) == [c EXCEPT !.running = FALSE]

=============================================================================
