------------------------- MODULE RlpxSessionProofs -------------------------
(***************************************************************************)
(* For any number of messages: the channels of a session lose, repeat and  *)
(* reorder nothing, an ended session hands at most one more message to a   *)
(* handler, and it stays ended.                                            *)
(***************************************************************************)
EXTENDS RlpxSession, SequenceTheorems, TLAPS

Message == Nat \ {0}

\* The numbers of n + 1 messages are those of n and one more.
LEMMA NumbersNext ==
    ASSUME NEW n \in Nat
    PROVE  Numbers(n) \in Seq(Message) /\ Append(Numbers(n), n + 1) = Numbers(n + 1)
BY DEF Numbers, Message

\* Appending is concatenation with one message.
LEMMA AppendConcat ==
    ASSUME NEW s \in Seq(Message), NEW x \in Message
    PROVE  Append(s, x) \in Seq(Message) /\ Append(s, x) = s \o <<x>>
OBVIOUS

\* A channel is its front and the rest.
LEMMA FrontAndRest ==
    ASSUME NEW s \in Seq(Message), s # <<>>
    PROVE  Head(s) \in Message /\ Tail(s) \in Seq(Message) /\ s = <<Head(s)>> \o Tail(s)
OBVIOUS

\* Concatenation of channels.
LEMMA Joined ==
    ASSUME NEW a \in Seq(Message), NEW b \in Seq(Message), NEW c \in Seq(Message)
    PROVE  a \o b \in Seq(Message) /\ (a \o b) \o c = a \o (b \o c) /\ a \o <<>> = a /\ <<>> \o a = a
<1>1. a \o b \in Seq(Message)
    BY ConcatProperties
<1>2. (a \o b) \o c = a \o (b \o c)
    BY ConcatAssociative
<1>3. a \o <<>> = a /\ <<>> \o a = a
    BY ConcatEmptySeq
<1> QED
    BY <1>1, <1>2, <1>3

\* The inductive invariant.  Until connect() succeeds nothing runs; the send loop writes a message
\* and not zero, which is how a failed write is told from none; a message that was routed
\* late was the last one, because the receive loop has ended.
IInv ==
    /\ posted \in Nat /\ read \in Nat
    /\ wire \in Seq(Message) /\ send_channel_ \in Seq(Message)
    /\ popped \in Seq(Message) /\ recv_channel_ \in Seq(Message)
    /\ receiver = "got" => read \in Message
    /\ sender = "write" => writing \in Message
    /\ writing = 0 \/ writing \in Message
    /\ phase # "done" => state_ = "kUninitialized" /\ sender = "none" /\ receiver = "none"
    /\ late = 0 \/ (late = 1 /\ receiver = "ended")
    /\ ChannelsAreFifo

\* A new session has posted, popped and received nothing.
LEMMA InitInv == SessionInit => IInv
<1> SUFFICES ASSUME SessionInit PROVE IInv
    OBVIOUS
<1>1. <<>> \in Seq(Message) /\ <<>> \o <<>> = <<>>
    BY Joined
<1>2. Numbers(0) = <<>>
    BY DEF Numbers
<1> QED
    BY <1>1, <1>2 DEF SessionInit, IInv, ChannelsAreFifo, Unwritten

\* post_message, called by the owner or by a handler: the message goes behind all others.
LEMMA Posting ==
    ASSUME IInv, PostMessage, UNCHANGED <<wire, sender, writing>>
    PROVE  /\ posted' \in Nat /\ send_channel_' \in Seq(Message)
           /\ (wire \o Unwritten \o send_channel_ = Numbers(posted))'
<1>0. Unwritten \in Seq(Message) /\ Unwritten' = Unwritten
    BY DEF Unwritten, IInv
<1>1. CASE state_ = "kActive"
    <2>1. posted' = posted + 1 /\ send_channel_' = Append(send_channel_, posted + 1)
        BY <1>1 DEF PostMessage
    <2>2. posted \in Nat /\ posted + 1 \in Message /\ send_channel_ \in Seq(Message) /\ wire \in Seq(Message)
        BY DEF IInv, Message
    <2>3. send_channel_' \in Seq(Message) /\ send_channel_' = send_channel_ \o <<posted + 1>>
        BY <2>1, <2>2, AppendConcat
    <2>4. <<posted + 1>> \in Seq(Message) /\ wire \o Unwritten \in Seq(Message)
        BY <1>0, <2>2, Joined
    <2>5. (wire \o Unwritten) \o send_channel_' = ((wire \o Unwritten) \o send_channel_) \o <<posted + 1>>
        BY <2>2, <2>3, <2>4, Joined
    <2>6. (wire \o Unwritten) \o send_channel_ = Numbers(posted)
        BY DEF IInv, ChannelsAreFifo
    <2>7. Numbers(posted) \o <<posted + 1>> = Numbers(posted + 1)
        BY <2>2, NumbersNext, AppendConcat
    <2>8. wire' = wire /\ posted' \in Nat
        BY <2>1, <2>2
    <2>9. wire' \o Unwritten' \o send_channel_' = Numbers(posted')
        BY <1>0, <2>1, <2>5, <2>6, <2>7, <2>8
    <2> QED
        BY <2>3, <2>8, <2>9
<1>2. CASE state_ # "kActive"
    BY <1>0, <1>2 DEF PostMessage, IInv, ChannelsAreFifo
<1> QED
    BY <1>1, <1>2

\* connect().
LEMMA ConnectStep ==
    ASSUME IInv, ConnectFails \/ ConnectAdvances \/ FirstMessage
    PROVE  IInv'
<1>1. phase # "done" /\ sender = "none" /\ receiver = "none" /\ state_ = "kUninitialized" /\ late = 0
    BY DEF IInv, ConnectFails, ConnectAdvances, FirstMessage
<1>2. UNCHANGED <<wire, read, channels, writing, late>>
    BY DEF ConnectFails, ConnectAdvances, FirstMessage, loops, stream
<1>3. sender' \in {"none", "start"} /\ receiver' \in {"none", "start"}
    BY <1>1 DEF ConnectFails, ConnectAdvances, FirstMessage, loops
<1>4. phase' # "done" => state_' = "kUninitialized" /\ sender' = "none" /\ receiver' = "none"
    BY <1>1 DEF ConnectFails, ConnectAdvances, FirstMessage, loops
<1>5. Unwritten = <<>> /\ Unwritten' = <<>>
    BY <1>1, <1>3 DEF Unwritten
<1>6. ChannelsAreFifo'
    BY <1>1, <1>2, <1>3, <1>5 DEF IInv, ChannelsAreFifo, channels
<1> QED
    BY <1>1, <1>2, <1>3, <1>4, <1>6 DEF IInv, channels

\* The owner's calls.
LEMMA OwnerStep ==
    ASSUME IInv, OwnerPosts \/ OwnerDisconnects \/ ReceiveMessage \/ OwnerReleases
    PROVE  IInv'
<1>0. phase = "done" /\ UNCHANGED <<phase, wire, read, sender, writing, receiver, late>>
    BY DEF OwnerPosts, OwnerDisconnects, ReceiveMessage, OwnerReleases, loops, stream
<1>1. CASE OwnerPosts
    <2>1. PostMessage /\ UNCHANGED <<recv_channel_, popped>>
        BY <1>1 DEF OwnerPosts
    <2>2. /\ posted' \in Nat /\ send_channel_' \in Seq(Message)
          /\ (wire \o Unwritten \o send_channel_ = Numbers(posted))'
        BY <1>0, <2>1, Posting
    <2>3. ChannelsAreFifo'
        BY <1>0, <2>1, <2>2 DEF IInv, ChannelsAreFifo
    <2> QED
        BY <1>0, <2>1, <2>2, <2>3 DEF IInv
<1>2. CASE OwnerDisconnects
    <2>1. UNCHANGED <<send_channel_, posted, recv_channel_, popped>>
        BY <1>2 DEF OwnerDisconnects, Disconnect
    <2>2. ChannelsAreFifo'
        BY <1>0, <2>1 DEF IInv, ChannelsAreFifo, Unwritten
    <2> QED
        BY <1>0, <2>1, <2>2 DEF IInv
<1>3. CASE ReceiveMessage
    <2>1. /\ recv_channel_ # <<>>
          /\ popped' = Append(popped, Head(recv_channel_)) /\ recv_channel_' = Tail(recv_channel_)
          /\ UNCHANGED <<send_channel_, posted>>
        BY <1>3 DEF ReceiveMessage
    <2>2. popped \in Seq(Message) /\ recv_channel_ \in Seq(Message)
        BY DEF IInv
    <2>3. /\ Head(recv_channel_) \in Message /\ Tail(recv_channel_) \in Seq(Message)
          /\ recv_channel_ = <<Head(recv_channel_)>> \o Tail(recv_channel_)
        BY <2>1, <2>2, FrontAndRest
    <2>4. popped' \in Seq(Message) /\ popped' = popped \o <<Head(recv_channel_)>>
        BY <2>1, <2>2, <2>3, AppendConcat
    <2>5. <<Head(recv_channel_)>> \in Seq(Message)
        BY <2>3
    <2>6. popped' \o recv_channel_' = popped \o recv_channel_
        BY <2>1, <2>2, <2>3, <2>4, <2>5, Joined
    <2>7. ChannelsAreFifo'
        BY <1>0, <2>1, <2>6 DEF IInv, ChannelsAreFifo, Unwritten
    <2> QED
        BY <1>0, <2>1, <2>3, <2>4, <2>7 DEF IInv
<1>4. CASE OwnerReleases
    <2>1. UNCHANGED <<send_channel_, posted, recv_channel_, popped>>
        BY <1>4 DEF OwnerReleases, channels
    <2>2. ChannelsAreFifo'
        BY <1>0, <2>1 DEF IInv, ChannelsAreFifo, Unwritten
    <2> QED
        BY <1>0, <2>1, <2>2 DEF IInv
<1> QED
    BY <1>1, <1>2, <1>3, <1>4

\* run_send_loop.
LEMMA SendLoopStep ==
    ASSUME IInv, SenderResumes \/ WriteDone \/ WriteFails
    PROVE  IInv'
<1>0. /\ sender # "none" /\ phase = "done"
      /\ wire \in Seq(Message) /\ send_channel_ \in Seq(Message)
      /\ wire \o Unwritten \o send_channel_ = Numbers(posted)
    BY DEF IInv, SenderResumes, WriteDone, WriteFails, ChannelsAreFifo
<1>1. UNCHANGED <<phase, read, recv_channel_, posted, popped, receiver, late>>
    BY DEF SenderResumes, WriteDone, WriteFails, stream, channels
<1>2. (popped \o recv_channel_ \o (IF receiver = "got" THEN <<read>> ELSE <<>>) = Numbers(read))'
    BY <1>1 DEF IInv, ChannelsAreFifo
<1>3. CASE SenderResumes
    <2>1. Unwritten = <<>> /\ wire' = wire
        BY <1>3 DEF SenderResumes, Unwritten, stream
    <2>2. CASE sender' = "write"
        <3>1. /\ send_channel_ # <<>>
              /\ writing' = Head(send_channel_) /\ send_channel_' = Tail(send_channel_)
            BY <1>3, <2>2 DEF SenderResumes, SendLoopTop
        <3>2. /\ writing' \in Message /\ send_channel_' \in Seq(Message)
              /\ send_channel_ = <<writing'>> \o send_channel_'
            BY <1>0, <3>1, FrontAndRest
        <3>3. <<writing'>> \in Seq(Message) /\ Unwritten' = <<writing'>>
            BY <2>2, <3>2 DEF Unwritten
        <3>4. wire' \o Unwritten' \o send_channel_' = wire \o Unwritten \o send_channel_
            <4>1. (wire \o <<writing'>>) \o send_channel_' = wire \o send_channel_
                BY <1>0, <3>2, <3>3, Joined
            <4>2. wire \o <<>> = wire
                BY <1>0, Joined
            <4> QED
                BY <2>1, <3>3, <4>1, <4>2
        <3>5. ChannelsAreFifo'
            BY <1>0, <1>1, <1>2, <3>4 DEF ChannelsAreFifo
        <3> QED
            BY <1>0, <1>1, <2>1, <2>2, <3>2, <3>5 DEF IInv
    <2>3. CASE sender' # "write"
        <3>1. writing' = 0 /\ send_channel_' = send_channel_
            BY <1>3, <2>3 DEF SenderResumes, SendLoopTop
        <3>2. Unwritten' = <<>>
            BY <2>3, <3>1 DEF Unwritten
        <3>3. ChannelsAreFifo'
            BY <1>0, <1>1, <1>2, <2>1, <3>1, <3>2 DEF ChannelsAreFifo
        <3> QED
            BY <1>0, <1>1, <2>1, <2>3, <3>1, <3>3 DEF IInv
    <2> QED
        BY <2>2, <2>3
<1>4. CASE WriteDone
    <2>1. /\ sender' = "written" /\ wire' = Append(wire, writing)
          /\ UNCHANGED <<writing, send_channel_>>
        BY <1>4 DEF WriteDone, channels
    <2>2. writing \in Message /\ Unwritten = <<writing>> /\ Unwritten' = <<>>
        BY <1>4, <2>1 DEF WriteDone, IInv, Unwritten
    <2>3. wire' \in Seq(Message) /\ wire' = wire \o Unwritten
        BY <1>0, <2>1, <2>2, AppendConcat
    <2>4. wire' \o Unwritten' \o send_channel_' = wire \o Unwritten \o send_channel_
        BY <2>1, <2>2, <2>3, Joined
    <2>5. ChannelsAreFifo'
        BY <1>0, <1>1, <1>2, <2>4 DEF ChannelsAreFifo
    <2> QED
        BY <1>0, <1>1, <2>1, <2>3, <2>5 DEF IInv
<1>5. CASE WriteFails
    <2>1. sender = "write" /\ sender' = "ended" /\ UNCHANGED <<wire, writing, send_channel_>>
        BY <1>5 DEF WriteFails, stream, channels
    <2>2. writing \in Message /\ Unwritten' = Unwritten
        BY <2>1 DEF IInv, Unwritten, Message
    <2>3. ChannelsAreFifo'
        BY <1>0, <1>1, <1>2, <2>1, <2>2 DEF ChannelsAreFifo
    <2> QED
        BY <1>0, <1>1, <2>1, <2>3 DEF IInv
<1> QED
    BY <1>3, <1>4, <1>5

\* run_receive_loop.
LEMMA ReceiveLoopStep ==
    ASSUME IInv, ReceiverStarts \/ ReadDone \/ RouteMessage \/ ReadFails
    PROVE  IInv'
<1>0. /\ receiver \notin {"none", "ended"} /\ phase = "done" /\ late = 0
      /\ UNCHANGED <<phase, wire, sender, writing, popped>>
    BY DEF IInv, ReceiverStarts, ReadDone, RouteMessage, ReadFails, stream, channels
<1>1. CASE ReceiverStarts \/ ReadFails
    <2>1. /\ receiver # "got" /\ receiver' # "got"
          /\ UNCHANGED <<read, send_channel_, recv_channel_, posted, late>>
        BY <1>1 DEF ReceiverStarts, ReadFails, ReceiveLoopTop, stream, channels
    <2>2. ChannelsAreFifo'
        BY <1>0, <2>1 DEF IInv, ChannelsAreFifo, Unwritten
    <2> QED
        BY <1>0, <2>1, <2>2 DEF IInv
<1>2. CASE ReadDone
    <2>1. /\ receiver # "got" /\ receiver' = "got" /\ read' = read + 1
          /\ UNCHANGED <<send_channel_, recv_channel_, posted, late>>
        BY <1>2 DEF ReadDone, channels
    <2>2. read \in Nat /\ read' \in Nat /\ read' \in Message
        BY <2>1 DEF IInv, Message
    <2>3. popped \o recv_channel_ \in Seq(Message) /\ popped \o recv_channel_ \o <<>> = popped \o recv_channel_
        BY Joined DEF IInv
    <2>4. popped \o recv_channel_ = Numbers(read)
        BY <2>1, <2>3 DEF IInv, ChannelsAreFifo
    <2>5. Numbers(read) \o <<read'>> = Numbers(read')
        BY <2>1, <2>2, NumbersNext, AppendConcat
    <2>6. ChannelsAreFifo'
        BY <1>0, <2>1, <2>4, <2>5 DEF IInv, ChannelsAreFifo, Unwritten
    <2> QED
        BY <1>0, <2>1, <2>2, <2>6 DEF IInv
<1>3. CASE RouteMessage
    <2>1. /\ receiver = "got" /\ recv_channel_' = Append(recv_channel_, read) /\ read' = read
          /\ receiver' \in {"read", "ended"}
        BY <1>3 DEF RouteMessage, ReceiveLoopTop
    <2>2. /\ posted' \in Nat /\ send_channel_' \in Seq(Message)
          /\ (wire \o Unwritten \o send_channel_ = Numbers(posted))'
        <3>1. CASE PostMessage
            BY <1>0, <3>1, Posting
        <3>2. CASE UNCHANGED <<send_channel_, posted>>
            BY <1>0, <3>2 DEF IInv, ChannelsAreFifo, Unwritten
        <3> QED
            BY <1>3, <3>1, <3>2 DEF RouteMessage, Disconnect
    <2>3. /\ read \in Message /\ recv_channel_' \in Seq(Message)
          /\ recv_channel_' = recv_channel_ \o <<read>> /\ <<read>> \in Seq(Message)
        BY <2>1, AppendConcat DEF IInv
    <2>4. popped' \o recv_channel_' \o <<>> = popped \o recv_channel_ \o <<read>>
        <3>1. popped \in Seq(Message) /\ recv_channel_ \in Seq(Message) /\ popped' = popped
            BY <1>0 DEF IInv
        <3>2. popped \o recv_channel_' \in Seq(Message)
            BY <2>3, <3>1, Joined
        <3>3. popped' \o recv_channel_' \o <<>> = popped \o recv_channel_'
            BY <3>1, <3>2, Joined
        <3>4. popped \o (recv_channel_ \o <<read>>) = popped \o recv_channel_ \o <<read>>
            BY <2>3, <3>1, Joined
        <3> QED
            BY <2>3, <3>3, <3>4
    <2>5. ChannelsAreFifo'
        BY <2>1, <2>2, <2>4 DEF IInv, ChannelsAreFifo
    <2>6. late' = 0 \/ (late' = 1 /\ receiver' = "ended")
        BY <1>0, <1>3 DEF RouteMessage, ReceiveLoopTop, PostMessage, Disconnect
    <2> QED
        BY <1>0, <2>1, <2>2, <2>3, <2>5, <2>6 DEF IInv
<1> QED
    BY <1>1, <1>2, <1>3

\* Every step keeps the invariant.
LEMMA NextStep ==
    ASSUME IInv, [SessionNext]_sessionVars
    PROVE  IInv'
<1>1. CASE UNCHANGED sessionVars
    BY <1>1 DEF sessionVars, stream, channels, loops, IInv, ChannelsAreFifo, Unwritten
<1> QED
    BY <1>1, ConnectStep, OwnerStep, SendLoopStep, ReceiveLoopStep DEF SessionNext

\* What EndIsFinal allows in a step.
Final ==
    state_ \in Terminal =>
        /\ state_' \in Terminal
        /\ posted' = posted
        /\ (socket = "closed" => wire' = wire)

\* An ended session is past connect(), accepts no message and sets its state only to another end.
LEMMA FinalStep ==
    ASSUME IInv, SessionNext
    PROVE  Final
<1> SUFFICES ASSUME state_ \in Terminal
             PROVE  /\ state_' \in Terminal
                    /\ posted' = posted
                    /\ (socket = "closed" => wire' = wire)
    BY DEF Final
<1>0. phase = "done" /\ state_ # "kActive"
    BY DEF IInv, Terminal
<1>1. CASE ConnectFails \/ ConnectAdvances \/ FirstMessage
    BY <1>0, <1>1 DEF ConnectFails, ConnectAdvances, FirstMessage
<1>2. CASE OwnerPosts \/ OwnerDisconnects \/ ReceiveMessage \/ OwnerReleases
    BY <1>0, <1>2
    DEF OwnerPosts, OwnerDisconnects, ReceiveMessage, OwnerReleases, PostMessage, Disconnect, stream, channels
<1>3. CASE SenderResumes \/ WriteDone \/ WriteFails
    BY <1>0, <1>3 DEF SenderResumes, WriteDone, WriteFails, stream, channels, Terminal
<1>4. CASE ReceiverStarts \/ ReadDone \/ RouteMessage \/ ReadFails
    BY <1>0, <1>4
    DEF ReceiverStarts, ReadDone, RouteMessage, ReadFails, PostMessage, Disconnect, stream, channels, Terminal
<1> QED
    BY <1>1, <1>2, <1>3, <1>4 DEF SessionNext

\* The invariant, from the two lemmas about the first state and a step.
LEMMA Invariant == SessionSafety => []IInv
<1>1. SessionInit => IInv
    BY InitInv
<1>2. IInv /\ [SessionNext]_sessionVars => IInv'
    BY NextStep
<1> QED
    BY <1>1, <1>2, PTL DEF SessionSafety

\* send_channel_ and recv_channel_ lose, repeat and reorder nothing, whatever post_message,
\* receive_message, disconnect, the handlers and the two loops interleave.
THEOREM ChannelsKeepOrder == SessionSafety => []ChannelsAreFifo
<1>1. IInv => ChannelsAreFifo
    BY DEF IInv
<1> QED
    BY <1>1, Invariant, PTL

\* run_receive_loop routes at most one message after the session has ended.
THEOREM OneLateMessage == SessionSafety => []AtMostOneAfterEnd
<1>1. IInv => AtMostOneAfterEnd
    BY DEF IInv, AtMostOneAfterEnd
<1> QED
    BY <1>1, Invariant, PTL

\* force_error_state and disconnect() never revive a session; post_message refuses, and a closed
\* socket takes nothing.
THEOREM EndStays == SessionSafety => EndIsFinal
<1>1. IInv /\ [SessionNext]_sessionVars => [Final]_sessionVars
    BY FinalStep
<1> QED
    BY <1>1, Invariant, PTL DEF SessionSafety, EndIsFinal, Final

=============================================================================
