---------------------------- MODULE ClientFrame ----------------------------
(***************************************************************************)
(* clientFrame (frame/clientframe.{h,cpp}): the TCP client built on        *)
(* FCThreadModel.  The worker thread calls runloop(): connect if there is  *)
(* no socket, check the heartbeat, then select once and receive and send.  *)
(* Any thread queues messages with sendMsg.  m_csLock guards the list of   *)
(* queued buffers; the buffer being sent, m_pSendBuffer, and the read      *)
(* buffer belong to the worker.                                            *)
(*                                                                         *)
(* A byte received is its position in the stream of the connection, and a  *)
(* byte sent is <<message, position>>.  Buffer sizes keep the order of the *)
(* code's constants at a smaller scale.  A use of freed memory is          *)
(* undefined, so the model stops there and records which use it was.       *)
(***************************************************************************)
EXTENDS Naturals, Sequences

CONSTANTS
    Msg,            \* the messages: each is queued once
    NoMsg,          \* stands for no message
    MsgLen(_),      \* the length of a message
    MaxLen,         \* bound: no message is longer
    RecvSize,       \* UTL_RECV_SIZE: the room wanted before a recv
    Unit,           \* LEN_CBUFFSTAT_UNIT: what the read buffer grows by
    MaxRecv         \* bound: bytes received on a connection

ASSUME ClientFrameAssumption ==
    /\ NoMsg \notin Msg
    /\ \A m \in Msg : MsgLen(m) \in 0 .. MaxLen
    /\ RecvSize \in Nat /\ Unit \in Nat /\ RecvSize < Unit
    /\ MaxRecv \in Nat /\ MaxLen \in Nat

VARIABLES
    pc,             \* where the worker is in doThreadProc and runloop
    m_bExitFlag,    \* FCThreadModel's exit flag
    m_sock,         \* whether there is a socket, or INVALID_SOCKET
    m_lstSendBuf,   \* the queued messages
    sendBuf,        \* m_pSendBuffer: state of the pointer, message, bytes left
    fdsend,         \* the socket is in the set select is given, or gave back
    readBuf,        \* the bytes in m_pReadBuffer; iCur is their number
    iMax,           \* capacity of m_pReadBuffer
    got,            \* bytes received on this connection
    wire,           \* ghost: the bytes sent on this connection
    queued,         \* ghost: the messages in the order sendMsg queued them
    fault           \* "none", or the undefined use of memory that happened

netvars == <<m_sock, readBuf, iMax, got>>
sendvars == <<m_lstSendBuf, sendBuf, wire, fault>>
vars == <<pc, m_bExitFlag, m_sock, m_lstSendBuf, sendBuf, fdsend, readBuf,
          iMax, got, wire, queued, fault>>

Null == [ptr |-> "null", msg |-> NoMsg, left |-> 0]
Freed == [Null EXCEPT !.ptr = "freed"]     \* freed, and the pointer kept
iCur == Len(readBuf)

TypeOK ==
    /\ pc \in {"check", "conn", "alive", "io", "select", "recv", "send",
               "exit", "ended", "destroyed"}
    /\ m_bExitFlag \in BOOLEAN
    /\ m_sock \in {"INVALID_SOCKET", "open"}
    /\ m_lstSendBuf \in Seq(Msg)
    /\ sendBuf.ptr \in {"null", "owned", "freed"}
    /\ sendBuf.msg \in Msg \cup {NoMsg}
    /\ sendBuf.left \in 0 .. MaxLen
    /\ fdsend \in BOOLEAN
    /\ readBuf \in Seq(1 .. MaxRecv)
    /\ iMax \in Nat
    /\ got \in 0 .. MaxRecv
    /\ fault \in {"none", "double free", "use after free"}

Init ==
    /\ pc = "check"
    /\ m_bExitFlag = FALSE
    /\ m_sock = "INVALID_SOCKET"
    /\ m_lstSendBuf = <<>>
    /\ sendBuf = Null
    /\ fdsend = FALSE
    /\ readBuf = <<>>
    /\ iMax = Unit
    /\ got = 0
    /\ wire = <<>>
    /\ queued = <<>>
    /\ fault = "none"

-----------------------------------------------------------------------------
(* Other threads.                                                          *)

Queued == {queued[i] : i \in 1 .. Len(queued)}

\* sendMsg: the copy of the message is appended under m_csLock.
SendMsg(m) ==
    /\ fault = "none"
    /\ pc # "destroyed"
    /\ m \notin Queued
    /\ m_lstSendBuf' = Append(m_lstSendBuf, m)
    /\ queued' = Append(queued, m)
    /\ UNCHANGED <<pc, m_bExitFlag, netvars, sendBuf, fdsend, wire, fault>>

\* stopSvr up to its join.
StopSvr ==
    /\ fault = "none"
    /\ pc # "destroyed"
    /\ m_bExitFlag' = TRUE
    /\ UNCHANGED <<pc, netvars, sendvars, fdsend, queued>>

\* ~clientFrame after the join frees whatever m_pSendBuffer points to.
Destroy ==
    /\ fault = "none"
    /\ pc = "ended"
    /\ pc' = "destroyed"
    /\ fault' = IF sendBuf = Freed THEN "double free" ELSE "none"
    /\ sendBuf' = Null
    /\ m_lstSendBuf' = <<>>
    /\ UNCHANGED <<m_bExitFlag, netvars, fdsend, wire, queued>>

-----------------------------------------------------------------------------
(* The worker.                                                             *)

At(label) == fault = "none" /\ pc = label

\* Mutant: clearBuff does not reset the read buffer.
ClearBuff_KeepRead ==
    /\ fault' = IF sendBuf = Freed THEN "double free" ELSE "none"
    /\ sendBuf' = IF sendBuf = Null THEN Null ELSE Freed
    /\ UNCHANGED readBuf
    /\ m_lstSendBuf' = <<>>

\* clearBuff frees m_pSendBuffer and keeps the pointer.
ClearBuff ==
    /\ fault' = IF sendBuf = Freed THEN "double free" ELSE "none"
    /\ sendBuf' = IF sendBuf = Null THEN Null ELSE Freed
    /\ readBuf' = <<>>
    /\ m_lstSendBuf' = <<>>

DisconnSvr ==
    /\ m_sock' = "INVALID_SOCKET"
    /\ ClearBuff
    /\ UNCHANGED <<iMax, got, wire>>

\* The top of doThreadProc's loop.
CheckExitFlag ==
    /\ At("check")
    /\ pc' = IF m_bExitFlag THEN "exit" ELSE "conn"
    /\ UNCHANGED <<m_bExitFlag, netvars, sendvars, fdsend, queued>>

ExitModel ==
    /\ At("exit")
    /\ pc' = "ended"
    /\ DisconnSvr
    /\ UNCHANGED <<m_bExitFlag, fdsend, queued>>

\* checkConn with a socket, or connectSvr with a connect that succeeds.
CheckConn ==
    /\ At("conn")
    /\ pc' = "alive"
    /\ IF m_sock = "open"
       THEN UNCHANGED <<netvars, wire>>
       ELSE /\ m_sock' = "open"
            /\ got' = 0
            /\ wire' = <<>>
            /\ UNCHANGED <<readBuf, iMax>>
    /\ UNCHANGED <<m_bExitFlag, m_lstSendBuf, sendBuf, fdsend, queued, fault>>

\* connectSvr fails, or afterConnectSvr() refuses the connection just made.
CheckConnFails ==
    /\ At("conn")
    /\ m_sock = "INVALID_SOCKET"
    /\ pc' = "check"
    /\ DisconnSvr
    /\ UNCHANGED <<m_bExitFlag, fdsend, queued>>

\* checkAlive: heartbeats are off, not due, or checkAliveMsg() succeeds ...
CheckAlive ==
    /\ At("alive")
    /\ pc' = "io"
    /\ UNCHANGED <<m_bExitFlag, netvars, sendvars, fdsend, queued>>

\* ... or it fails.
CheckAliveFails ==
    /\ At("alive")
    /\ pc' = "check"
    /\ DisconnSvr
    /\ UNCHANGED <<m_bExitFlag, fdsend, queued>>

\* Mutant: checkSendFlag looks at the buffer being sent instead of the list.
CheckSendFlag_Buffer ==
    /\ At("io")
    /\ fdsend' = (sendBuf # Null)
    /\ pc' = "select"
    /\ UNCHANGED <<m_bExitFlag, netvars, sendvars, queued>>

\* The first half of dealNetWorkIO: checkSendFlag looks at the list only, so a
\* message that was sent in part waits for the next one.
CheckSendFlag ==
    /\ At("io")
    /\ fdsend' = (m_lstSendBuf # <<>>)
    /\ pc' = "select"
    /\ UNCHANGED <<m_bExitFlag, netvars, sendvars, queued>>

\* select times out, or is ready to receive and perhaps to send.
SelectReturns ==
    /\ At("select")
    /\ \/ pc' = "check" /\ UNCHANGED fdsend
       \/ pc' = "recv" /\ fdsend' \in {fdsend, FALSE}
    /\ UNCHANGED <<m_bExitFlag, netvars, sendvars, queued>>

\* select is ready to send and not to receive.
SelectWritable ==
    /\ At("select")
    /\ fdsend
    /\ pc' = "send"
    /\ UNCHANGED <<m_bExitFlag, netvars, sendvars, fdsend, queued>>

SelectFails ==
    /\ At("select")
    /\ pc' = "check"
    /\ DisconnSvr
    /\ UNCHANGED <<m_bExitFlag, fdsend, queued>>

\* Mutant: the room is compared with the bytes already there left out.
GrownMax_NoCur ==
    IF iMax >= RecvSize THEN iMax ELSE iMax + Unit

\* CheckCBuffSttSize and ResizeCBuffStt before a recv.
GrownMax == IF iMax > RecvSize + iCur THEN iMax ELSE iMax + Unit

AfterRecv == IF fdsend THEN "send" ELSE "check"

\* recv of n bytes; dealData takes the first d of what is now there.
Recv(n, d) ==
    /\ At("recv")
    /\ got + n <= MaxRecv
    /\ n <= GrownMax - iCur
    /\ iMax' = GrownMax
    /\ got' = got + n
    /\ LET all == readBuf \o [i \in 1 .. n |-> got + i]
       IN  /\ d <= Len(all)
           /\ readBuf' = SubSeq(all, d + 1, Len(all))
    /\ pc' = AfterRecv
    /\ UNCHANGED <<m_bExitFlag, m_sock, sendvars, fdsend, queued>>

\* recv has nothing after all (EAGAIN, EINTR).
RecvNothing ==
    /\ At("recv")
    /\ iMax' = GrownMax
    /\ pc' = AfterRecv
    /\ UNCHANGED <<m_bExitFlag, m_sock, readBuf, got, sendvars, fdsend, queued>>

\* recv or dealData fails.  FD_ISSET(m_sock, &fdsend) is then evaluated with
\* an m_sock of -1: if the set has a member its answer may be either.
RecvFails ==
    /\ At("recv")
    /\ pc' \in {"check", AfterRecv}
    /\ m_sock' = "INVALID_SOCKET"
    /\ ClearBuff
    /\ iMax' = GrownMax
    /\ UNCHANGED <<m_bExitFlag, got, wire, fdsend, queued>>

\* dealEnv_Send when m_pSendBuffer is dangling.
SendFreed ==
    /\ At("send")
    /\ sendBuf = Freed
    /\ fault' = "use after free"
    /\ UNCHANGED <<pc, m_bExitFlag, netvars, m_lstSendBuf, sendBuf, fdsend, wire, queued>>

\* dealEnv_Send takes a buffer from the list when it is not sending one.
HasBuffer == sendBuf.ptr = "owned" \/ (sendBuf = Null /\ m_lstSendBuf # <<>>)

Sending ==
    IF sendBuf.ptr = "owned" THEN sendBuf
    ELSE [ptr |-> "owned", msg |-> Head(m_lstSendBuf), left |-> MsgLen(Head(m_lstSendBuf))]

Remaining == IF sendBuf.ptr = "owned" THEN m_lstSendBuf ELSE Tail(m_lstSendBuf)

\* There is no buffer to send.
SendNothing ==
    /\ At("send")
    /\ sendBuf = Null /\ m_lstSendBuf = <<>>
    /\ pc' = "check"
    /\ UNCHANGED <<m_bExitFlag, netvars, sendvars, fdsend, queued>>

\* Mutant: after a partial send the buffer is not moved up, so its first bytes
\* go out again.
Sent_NoMove(b, k) == [i \in 1 .. k |-> <<b.msg, i>>]

\* The bytes that a send of the first k bytes of the buffer puts on the wire.
Sent(b, k) == [i \in 1 .. k |-> <<b.msg, MsgLen(b.msg) - b.left + i>>]

\* send takes k bytes: none of an empty message or on EAGAIN, some, or all.
Send(k) ==
    /\ At("send")
    /\ HasBuffer
    /\ LET b == Sending
       IN  /\ b.left > 0 => m_sock = "open"
           /\ k <= b.left
           /\ wire' = wire \o Sent(b, k)
           /\ sendBuf' = IF k = b.left THEN Null ELSE [b EXCEPT !.left = @ - k]
    /\ m_lstSendBuf' = Remaining
    /\ pc' = "check"
    /\ UNCHANGED <<m_bExitFlag, netvars, fdsend, queued, fault>>

\* send fails, as it does without a socket: disconnSvr frees the buffer.
SendFails ==
    /\ At("send")
    /\ HasBuffer
    /\ Sending.left > 0
    /\ pc' = "check"
    /\ m_sock' = "INVALID_SOCKET"
    /\ sendBuf' = Freed
    /\ readBuf' = <<>>
    /\ m_lstSendBuf' = <<>>
    /\ UNCHANGED <<m_bExitFlag, iMax, got, wire, fdsend, queued, fault>>

Runloop ==
    \/ CheckConn \/ CheckConnFails
    \/ CheckAlive \/ CheckAliveFails
    \/ CheckSendFlag
    \/ SelectReturns \/ SelectWritable \/ SelectFails
    \/ \E n \in 1 .. MaxRecv, d \in 0 .. MaxRecv : Recv(n, d)
    \/ RecvNothing \/ RecvFails
    \/ SendFreed \/ SendNothing \/ SendFails
    \/ \E k \in 0 .. MaxLen : Send(k)

Worker == CheckExitFlag \/ Runloop \/ ExitModel

Next ==
    \/ \E m \in Msg : SendMsg(m)
    \/ StopSvr
    \/ Destroy
    \/ Worker

Spec == Init /\ [][Next]_vars

\* The worker goes on; a peer that reads lets select report the socket ready to
\* send again and again, and send then takes something.
FairSpec ==
    /\ Spec
    /\ WF_vars(Worker)
    /\ SF_vars(SelectWritable)
    /\ SF_vars(\E k \in 1 .. MaxLen : Send(k))

-----------------------------------------------------------------------------
(* Properties.                                                             *)

\* What the peer reads on a connection are whole messages one after the other,
\* in the order sendMsg queued them; only the last may be incomplete.  So
\* nothing of an older connection is sent on it, and no message is torn.
WireIsWholeMessages ==
    \A i \in 1 .. Len(wire) :
        LET m == wire[i][1]
            k == wire[i][2]
        IN  IF i > 1 /\ k > 1 THEN wire[i - 1] = <<m, k - 1>>
            ELSE /\ k = 1
                 /\ i > 1 => LET l == wire[i - 1][1]
                            IN  /\ wire[i - 1][2] = MsgLen(l)
                                /\ \E a, b \in 1 .. Len(queued) :
                                       a < b /\ queued[a] = l /\ queued[b] = m

\* dealData is given the bytes it left and those that followed them on the same
\* connection, none lost, none twice, none of an older connection.
ReadBufIsStream ==
    readBuf = [i \in 1 .. iCur |-> got - iCur + i]

\* recv is never asked for zero bytes, which would look like a closed peer, and
\* never for more than there is room for.
RecvHasRoom == pc = "recv" => iCur < GrownMax

\* A queued message leaves the list: it is taken to be sent or it is dropped
\* with the connection (or the program has gone wrong or ended).
QueuedLeaves ==
    \A m \in Msg :
        (\E i \in 1 .. Len(m_lstSendBuf) : m_lstSendBuf[i] = m) ~>
            \/ \A i \in 1 .. Len(m_lstSendBuf) : m_lstSendBuf[i] # m
            \/ fault # "none"
            \/ pc \in {"ended", "destroyed"}

\* "error,reconnect" (clientframe.cpp:185): after an error has closed the
\* connection the client tries to connect again, unless it is told to stop.
ErrorReconnects ==
    (pc = "check" /\ m_sock = "INVALID_SOCKET") ~> (pc = "conn" \/ m_bExitFlag)
=============================================================================
