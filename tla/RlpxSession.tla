----------------------------- MODULE RlpxSession -----------------------------
(***************************************************************************)
(* src/rlpx/rlpx_session.cpp: an outbound RlpxSession from connect() to    *)
(* the end of its two loops, over the socket of its MessageStream.         *)
(*                                                                         *)
(* Everything runs on one io_context thread: a coroutine runs from one     *)
(* wait to the next.  A read or a write that the socket has completed only *)
(* queues the resumption of its coroutine; closing the socket aborts the   *)
(* operations that are still pending, not the ones already completed.      *)
(*                                                                         *)
(* A message is its number: outbound messages are numbered in the order    *)
(* post_message accepts them, inbound ones in the order they are read.     *)
(***************************************************************************)
EXTENDS Naturals, Sequences

CONSTANTS
    MaxPosts,  \* bound on the messages posted
    MaxReads   \* bound on the messages read after the HELLO

VARIABLES
    phase,          \* how far connect() has got
    state_,
    socket,         \* the TCP socket of the stream
    send_channel_,
    recv_channel_,
    sender,         \* run_send_loop: what it waits for
    receiver,       \* run_receive_loop: what it waits for
    owned,          \* the caller, or a handler, still holds the session
    asked,          \* disconnect() has returned success
    posted,         \* number of messages post_message accepted
    wire,           \* messages the socket has taken, in order
    writing,        \* message the send loop is writing, 0 if none
    read,           \* number of messages read from the socket
    popped,         \* messages receive_message returned, in order
    late            \* messages routed after the session left kActive, counted to 2

stream == <<socket, wire, read>>
channels == <<send_channel_, recv_channel_, posted, popped>>
loops == <<sender, writing, receiver>>
sessionVars == <<phase, state_, stream, channels, loops, owned, asked, late>>

Terminal == {"kClosed", "kError"}

SessionInit ==
    /\ phase = "tcp"
    /\ state_ = "kUninitialized"
    /\ socket = "none"
    /\ send_channel_ = <<>> /\ recv_channel_ = <<>>
    /\ sender = "none" /\ receiver = "none"
    /\ owned = TRUE /\ asked = FALSE
    /\ posted = 0 /\ wire = <<>> /\ writing = 0
    /\ read = 0 /\ popped = <<>>
    /\ late = 0
-----------------------------------------------------------------------------
(* connect() *)

\* connect() returns an error: the transport, or the session that owns it, is
\* destroyed and the socket with it.
ConnectFails ==
    /\ phase \in {"tcp", "auth", "send_hello", "recv_hello"}
    /\ phase' = "failed"
    /\ socket' = "closed"
    /\ UNCHANGED <<state_, wire, read, channels, loops, owned, asked, late>>

\* The TCP connection is up, the auth handshake is over, our HELLO is sent.
ConnectAdvances ==
    /\ \/ phase = "tcp" /\ phase' = "auth" /\ socket' = "open"
       \/ phase = "auth" /\ phase' = "send_hello" /\ UNCHANGED socket
       \/ phase = "send_hello" /\ phase' = "recv_hello" /\ UNCHANGED socket
    /\ UNCHANGED <<state_, wire, read, channels, loops, owned, asked, late>>

\* The first message of the peer: anything but a Disconnect (which is an error of
\* connect) activates the session, a HELLO that does not decode and a message that
\* is no HELLO included.
FirstMessage ==
    /\ phase = "recv_hello"
    /\ phase' = "done"
    /\ state_' = "kActive"
    /\ sender' = "start" /\ receiver' = "start"
    /\ UNCHANGED <<stream, channels, writing, owned, asked, late>>
-----------------------------------------------------------------------------
(* Calls of the owner and of the handlers *)

\* Mutant of PostMessage: only a closed session refuses the message.
PostUnlessClosed ==
    /\ posted < MaxPosts
    /\ IF state_ # "kClosed"
       THEN posted' = posted + 1 /\ send_channel_' = Append(send_channel_, posted + 1)
       ELSE UNCHANGED <<posted, send_channel_>>
    /\ UNCHANGED <<state_, socket, asked>>

\* post_message
PostMessage ==
    /\ posted < MaxPosts
    /\ IF state_ = "kActive"
       THEN posted' = posted + 1 /\ send_channel_' = Append(send_channel_, posted + 1)
       ELSE UNCHANGED <<posted, send_channel_>>
    /\ UNCHANGED <<state_, socket, asked>>

\* Mutant of Disconnect: the stream is left to the destructor.
DisconnectKeepsStream ==
    /\ asked' = TRUE
    /\ state_' = IF state_ \in Terminal THEN state_ ELSE "kClosed"
    /\ UNCHANGED <<posted, send_channel_, socket>>

\* disconnect(): nothing on a session that has ended; else kDisconnecting, kClosed
\* and stream_->close().  It always returns success.
Disconnect ==
    /\ asked' = TRUE
    /\ IF state_ \in Terminal
       THEN UNCHANGED <<state_, socket>>
       ELSE state_' = "kClosed" /\ socket' = "closed"
    /\ UNCHANGED <<posted, send_channel_>>

OwnerPosts ==
    /\ phase = "done" /\ owned
    /\ PostMessage
    /\ UNCHANGED <<phase, wire, read, recv_channel_, popped, loops, owned, late>>

OwnerDisconnects ==
    /\ phase = "done" /\ owned
    /\ Disconnect
    /\ UNCHANGED <<phase, wire, read, recv_channel_, popped, loops, owned, late>>

\* receive_message: the front of recv_channel_, or an error at once.
ReceiveMessage ==
    /\ phase = "done" /\ owned
    /\ state_ = "kActive" /\ recv_channel_ # <<>>
    /\ popped' = Append(popped, Head(recv_channel_))
    /\ recv_channel_' = Tail(recv_channel_)
    /\ UNCHANGED <<phase, state_, stream, send_channel_, posted, loops, owned, asked, late>>

\* The owner drops its last reference; the loops hold theirs until they end.
OwnerReleases ==
    /\ phase = "done" /\ owned
    /\ owned' = FALSE
    /\ UNCHANGED <<phase, state_, stream, channels, loops, asked, late>>
-----------------------------------------------------------------------------
(* run_send_loop *)

\* Mutant of SendLoopTop: the message is taken off the channel after it was sent.
SendLoopTopPeeks(s) ==
    IF s # "kActive"
    THEN sender' = "ended" /\ writing' = 0 /\ UNCHANGED send_channel_
    ELSE IF send_channel_ = <<>>
    THEN sender' = "poll" /\ writing' = 0 /\ UNCHANGED send_channel_
    ELSE sender' = "write" /\ writing' = Head(send_channel_) /\ UNCHANGED send_channel_

\* From the test of the loop to its next wait: the end, the poll timer, or the
\* write of the message at the front of the channel.
SendLoopTop(s) ==
    IF s # "kActive"
    THEN sender' = "ended" /\ writing' = 0 /\ UNCHANGED send_channel_
    ELSE IF send_channel_ = <<>>
    THEN sender' = "poll" /\ writing' = 0 /\ UNCHANGED send_channel_
    ELSE sender' = "write" /\ writing' = Head(send_channel_) /\ send_channel_' = Tail(send_channel_)

\* The coroutine is started, the poll timer has fired or the write has succeeded.
SenderResumes ==
    /\ sender \in {"start", "poll", "written"}
    /\ SendLoopTop(state_)
    /\ UNCHANGED <<phase, state_, stream, recv_channel_, posted, popped, receiver, owned, asked, late>>

\* send_message: the socket takes the last byte of the frame.
WriteDone ==
    /\ sender = "write" /\ socket = "open"
    /\ sender' = "written"
    /\ wire' = Append(wire, writing)
    /\ UNCHANGED <<phase, state_, socket, read, channels, writing, receiver, owned, asked, late>>

\* send_message fails: on the socket, or before (encoding, compression, size).
\* force_error_state overwrites whatever the state is.
WriteFails ==
    /\ sender = "write"
    /\ sender' = "ended"
    /\ state_' = "kError"
    /\ UNCHANGED <<phase, stream, channels, writing, receiver, owned, asked, late>>
-----------------------------------------------------------------------------
(* run_receive_loop *)

\* Mutant of ReceiveLoopTop: the loop is left on errors only.
ReceiveLoopTopForever(s) == receiver' = "read"

\* From the test of the loop to its next wait.
ReceiveLoopTop(s) == receiver' = IF s = "kActive" THEN "read" ELSE "ended"

ReceiverStarts ==
    /\ receiver = "start"
    /\ ReceiveLoopTop(state_)
    /\ UNCHANGED <<phase, state_, stream, channels, sender, writing, owned, asked, late>>

\* receive_message: the last byte of a frame has been read.
ReadDone ==
    /\ receiver = "read" /\ socket = "open"
    /\ read < MaxReads
    /\ receiver' = "got"
    /\ read' = read + 1
    /\ UNCHANGED <<phase, state_, socket, wire, channels, sender, writing, owned, asked, late>>

\* The message is routed to its handler, if there is one and the message decodes;
\* the handler may post or disconnect.  Then it is pushed on recv_channel_.
RouteMessage ==
    /\ receiver = "got"
    /\ \/ PostMessage
       \/ Disconnect
       \/ UNCHANGED <<state_, socket, send_channel_, posted, asked>>
    /\ recv_channel_' = Append(recv_channel_, read)
    /\ late' = IF state_ # "kActive" /\ late < 2 THEN late + 1 ELSE late
    /\ ReceiveLoopTop(state_')
    /\ UNCHANGED <<phase, wire, read, popped, sender, writing, owned>>

\* The stream fails: the peer or the network closed the connection, a frame does
\* not authenticate, or the socket was closed here.
ReadFails ==
    /\ receiver = "read"
    /\ receiver' = "ended"
    /\ state_' = "kError"
    /\ UNCHANGED <<phase, stream, channels, sender, writing, owned, asked, late>>
-----------------------------------------------------------------------------
SessionNext ==
    \/ ConnectFails \/ ConnectAdvances \/ FirstMessage
    \/ OwnerPosts \/ OwnerDisconnects \/ ReceiveMessage \/ OwnerReleases
    \/ SenderResumes \/ WriteDone \/ WriteFails
    \/ ReceiverStarts \/ ReadDone \/ RouteMessage \/ ReadFails

\* What is bound to happen: a queued resumption runs, the poll timer fires, and
\* the operations pending on a closed socket are aborted.  Whether the peer reads
\* or writes is up to the peer.
SessionFairness ==
    /\ WF_sessionVars(SenderResumes)
    /\ WF_sessionVars(ReceiverStarts)
    /\ WF_sessionVars(RouteMessage)
    /\ WF_sessionVars(socket = "closed" /\ WriteFails)
    /\ WF_sessionVars(socket = "closed" /\ ReadFails)

SessionSafety == SessionInit /\ [][SessionNext]_sessionVars

SessionSpec == SessionSafety /\ SessionFairness
-----------------------------------------------------------------------------
(* Properties *)

\* The members have their types; the loops run once connect() has succeeded, and a
\* session they found active has an open socket.
SessionTypeOK ==
    /\ phase \in {"tcp", "auth", "send_hello", "recv_hello", "done", "failed"}
    /\ state_ \in {"kUninitialized", "kActive"} \cup Terminal
    /\ socket \in {"none", "open", "closed"}
    /\ sender \in {"none", "start", "poll", "write", "written", "ended"}
    /\ receiver \in {"none", "start", "read", "got", "ended"}
    /\ posted \in 0 .. MaxPosts /\ writing \in 0 .. MaxPosts
    /\ read \in 0 .. MaxReads /\ late \in 0 .. 2
    /\ send_channel_ \in Seq(1 .. MaxPosts) /\ wire \in Seq(1 .. MaxPosts)
    /\ recv_channel_ \in Seq(1 .. MaxReads) /\ popped \in Seq(1 .. MaxReads)
    /\ owned \in BOOLEAN /\ asked \in BOOLEAN
    /\ phase = "done" <=> state_ # "kUninitialized"
    /\ phase = "done" <=> sender # "none" /\ receiver # "none"
    /\ state_ = "kActive" => socket = "open"

Numbers(n) == [i \in 1 .. n |-> i]
Unwritten == IF sender = "write" \/ (sender = "ended" /\ writing # 0) THEN <<writing>> ELSE <<>>

\* Whatever the owner, the handlers and the two loops interleave, what was accepted
\* for sending is on the wire, being written or waiting, once each and in the order
\* of the calls; what was read is returned by receive_message, waiting or being
\* routed, once each and in the order of arrival.
ChannelsAreFifo ==
    /\ wire \o Unwritten \o send_channel_ = Numbers(posted)
    /\ popped \o recv_channel_ \o (IF receiver = "got" THEN <<read>> ELSE <<>>) = Numbers(read)

\* Once the session has ended (disconnect() or an error of either loop), at most one
\* more message, read before or being read, reaches a handler.
AtMostOneAfterEnd == late <= 1

\* An ended session stays ended and takes no message for sending, and once it was
\* closed locally nothing more goes out on the wire.
EndIsFinal ==
    [][(state_ \in Terminal) =>
          /\ state_' \in Terminal
          /\ posted' = posted
          /\ (socket = "closed" => wire' = wire)]_sessionVars

\* A local disconnect() ends both loops, wherever they wait: the one in a read, in
\* a write or in the poll timer is resumed and leaves.
DisconnectEndsLoops ==
    (state_ = "kClosed") ~> (sender = "ended" /\ receiver = "ended")

\* rlpx_state_test.cpp: the normal progression ends Active, Disconnecting, Closed; a
\* session closed by disconnect() is then in the state kClosed.
ClosedIsKept == [][state_ = "kClosed" => state_' = "kClosed"]_sessionVars

\* dial_scheduler.hpp: stop() disconnects its sessions and their fds are freed; once
\* disconnect() has returned and both loops have ended, the socket is closed.
DisconnectFreesSocket ==
    asked /\ sender = "ended" /\ receiver = "ended" => socket = "closed" \/ ~owned
=============================================================================
