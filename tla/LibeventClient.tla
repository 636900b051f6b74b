-------------------------- MODULE LibeventClient ---------------------------
(***************************************************************************)
(* clientfrmModel (libevent/clientframe/clientfrm.{h,cpp}, and the same    *)
(* code in clientframe/net/netFrm.{h,cpp}): the TCP client built on        *)
(* FCThreadModel and libevent.  A round of runloop() connects if there is  *)
(* no bufferevent, checks both heartbeats, asks for a write callback if    *)
(* messages are queued, and lets libevent run the callbacks that are due.  *)
(*                                                                         *)
(* libevent is external: a bufferevent reports that it connected, that     *)
(* input arrived, that its output is drained, or that the connection is    *)
(* gone.  A received byte is its position in the stream of the connection. *)
(* The times of the last heartbeats are kept as ages, which stop growing   *)
(* one past the interval they are compared with.                           *)
(***************************************************************************)
EXTENDS Naturals, Sequences

CONSTANTS
    Msg,            \* the messages: each is queued once
    Unit,           \* LEN_CBUFFSTAT_UNIT: the first size of the read buffer
    IntervalS,      \* m_iIntervalCA_S
    IntervalR,      \* m_iIntervalCA_R
    MaxRecv         \* bound: bytes received on a connection

ASSUME LibeventClientAssumption ==
    {Unit, IntervalS, IntervalR, MaxRecv} \subseteq Nat \ {0}

VARIABLES
    pc,             \* where the worker is in runloop; "stopped" without a worker
    m_bExitFlag,    \* FCThreadModel's exit flag
    checkFlag,      \* m_iCheckFlag: which heartbeats are checked
    bev,            \* m_pBufEnvClt
    evWrite,        \* libevent watches for the socket to be writable
    lastS,          \* age of m_iLastCA_S
    lastR,          \* age of m_iLastCA_R
    m_lstSendBuf,   \* the queued messages
    sendBuf,        \* m_pSendBuffer: whether it is there, and its message
    out,            \* the output evbuffer
    readBuf,        \* the bytes in m_pReadBuffer
    iMax,           \* its capacity
    got,            \* bytes received on this connection
    wire,           \* ghost: the messages sent, on all connections
    queued          \* ghost: the messages in the order sendMsg queued them

sendvars == <<m_lstSendBuf, sendBuf, queued>>
netvars == <<bev, evWrite, out, readBuf, iMax, got, wire>>
vars == <<pc, m_bExitFlag, checkFlag, bev, evWrite, lastS, lastR, m_lstSendBuf,
          sendBuf, out, readBuf, iMax, got, wire, queued>>

\* The age of a time that is 0: there was no heartbeat yet.
Never == IntervalS + IntervalR + 2

Bev ==
    {"none",        \* NULL
     "dead",        \* bufferevent_socket_connect failed; no callbacks were set
     "connecting",
     "up",
     "orphan"}      \* belongs to the event_base of an earlier startSvr

NoBuffer == [held |-> FALSE, data |-> <<>>]
iCur == Len(readBuf)

TypeOK ==
    /\ pc \in {"stopped", "check", "conn", "alive", "loop"}
    /\ m_bExitFlag \in BOOLEAN
    /\ checkFlag \in SUBSET {"send", "recv"}
    /\ bev \in Bev
    /\ evWrite \in BOOLEAN
    /\ lastS \in (0 .. IntervalS) \cup {Never}
    /\ lastR \in (0 .. IntervalR + 1) \cup {Never}
    /\ m_lstSendBuf \in Seq(Msg)
    /\ sendBuf.held \in BOOLEAN /\ sendBuf.data \in Seq(Msg)
    /\ out \in Seq(Msg)
    /\ readBuf \in Seq(1 .. MaxRecv)
    /\ iMax \in Nat
    /\ got \in 0 .. MaxRecv
    /\ wire \in Seq(Msg)
    /\ queued \in Seq(Msg)

Init ==
    /\ pc = "stopped"
    /\ m_bExitFlag = FALSE
    /\ checkFlag \in SUBSET {"send", "recv"}
    /\ bev = "none"
    /\ evWrite = FALSE
    /\ lastS = 0
    /\ lastR = Never
    /\ m_lstSendBuf = <<>>
    /\ sendBuf = NoBuffer
    /\ out = <<>>
    /\ readBuf = <<>>
    /\ iMax = Unit
    /\ got = 0
    /\ wire = <<>>
    /\ queued = <<>>

-----------------------------------------------------------------------------
(* Connecting and disconnecting.                                           *)

\* connectSvr without a bufferevent, which is created and starts to connect.
\* bufferevent_socket_connect can fail at once.
NewConnection(ok) ==
    /\ bev = "none"
    /\ bev' = IF ok THEN "connecting" ELSE "dead"
    /\ lastS' = IF ok THEN 0 ELSE lastS
    /\ evWrite' = ok
    /\ out' = <<>>
    /\ got' = 0
    /\ UNCHANGED <<lastR, readBuf, iMax, wire>>

\* disconnSvr: the bufferevent goes with its output.  The loop of clearBuff
\* ends before it begins, so the queued messages stay; the message in
\* m_pSendBuffer is emptied.
DisconnSvr ==
    /\ bev' = "none"
    /\ evWrite' = FALSE
    /\ lastS' = Never
    /\ lastR' = Never
    /\ out' = <<>>
    /\ sendBuf' = [sendBuf EXCEPT !.data = <<>>]
    /\ readBuf' = <<>>
    /\ UNCHANGED <<m_lstSendBuf, queued, iMax, got, wire>>

-----------------------------------------------------------------------------
(* Other threads and time.                                                 *)

Queued == {queued[i] : i \in 1 .. Len(queued)}

SendMsg(m) ==
    /\ m \notin Queued
    /\ m_lstSendBuf' = Append(m_lstSendBuf, m)
    /\ queued' = Append(queued, m)
    /\ UNCHANGED <<pc, m_bExitFlag, checkFlag, lastS, lastR, sendBuf, netvars>>

Older(age, interval) ==
    IF age = Never \/ age = interval THEN age ELSE age + 1

\* A second passes; a round of runloop() takes no time.
Tick ==
    /\ pc \in {"check", "stopped"}
    /\ lastS' = Older(lastS, IntervalS)
    /\ lastR' = Older(lastR, IntervalR + 1)
    /\ UNCHANGED <<pc, m_bExitFlag, checkFlag, sendvars, netvars>>

SetExitFlag ==
    /\ m_bExitFlag' = TRUE
    /\ UNCHANGED <<pc, checkFlag, lastS, lastR, sendvars, netvars>>

\* initialModel makes a new event_base.  A bufferevent left by an earlier run
\* stays with the old one, and connectSvr is content that it is there.
InitialModel ==
    IF bev = "none" THEN NewConnection(TRUE)
    ELSE /\ bev' = IF bev = "dead" THEN "dead" ELSE "orphan"
         /\ evWrite' = FALSE
         /\ UNCHANGED <<lastS, lastR, out, readBuf, iMax, got, wire>>

\* startSvr, and the worker clearing the exit flag.
StartSvr ==
    /\ pc = "stopped"
    /\ InitialModel
    /\ pc' = "check"
    /\ m_bExitFlag' = FALSE
    /\ UNCHANGED <<checkFlag, sendvars>>

\* startSvr when bufferevent_socket_connect fails in initialModel.
StartSvrFails ==
    /\ pc = "stopped"
    /\ NewConnection(FALSE)
    /\ UNCHANGED <<pc, m_bExitFlag, checkFlag, sendvars>>

-----------------------------------------------------------------------------
(* runloop.                                                                *)

CheckExitFlag ==
    /\ pc = "check"
    /\ pc' = IF m_bExitFlag THEN "stopped" ELSE "conn"
    /\ UNCHANGED <<m_bExitFlag, checkFlag, lastS, lastR, sendvars, netvars>>

CheckConn ==
    /\ pc = "conn"
    /\ \/ bev # "none" /\ UNCHANGED <<netvars, lastS, lastR>>
       \/ NewConnection(TRUE)
    /\ pc' = "alive"
    /\ UNCHANGED <<m_bExitFlag, checkFlag, sendvars>>

CheckConnFails ==
    /\ pc = "conn"
    /\ NewConnection(FALSE)
    /\ pc' = "check"
    /\ UNCHANGED <<m_bExitFlag, checkFlag, sendvars>>

\* checkAlive sends a heartbeat while the interval is NOT over.
SendDue == "send" \in checkFlag /\ (lastS = Never \/ lastS < IntervalS)

\* Mutant: the received heartbeat is not looked at.
RecvOverdue_Never == FALSE

RecvOverdue == "recv" \in checkFlag /\ lastR # Never /\ lastR > IntervalR

\* checkAlive succeeds, and checkSendFlag asks for a write callback.
CheckAlive ==
    /\ pc = "alive"
    /\ lastS' = IF SendDue THEN 0 ELSE lastS
    /\ ~RecvOverdue
    /\ evWrite' = (evWrite \/ (bev \in {"connecting", "up"} /\ m_lstSendBuf # <<>>))
    /\ pc' = "loop"
    /\ UNCHANGED <<m_bExitFlag, checkFlag, lastR, sendvars, bev, out, readBuf,
                   iMax, got, wire>>

\* checkAliveMsg() fails or the server was not heard of for too long.
CheckAliveFails ==
    /\ pc = "alive"
    /\ SendDue \/ RecvOverdue
    /\ pc' = "check"
    /\ DisconnSvr
    /\ UNCHANGED <<m_bExitFlag, checkFlag>>

LoopEnds ==
    /\ pc = "loop"
    /\ pc' = "check"
    /\ UNCHANGED <<m_bExitFlag, checkFlag, lastS, lastR, sendvars, netvars>>

-----------------------------------------------------------------------------
(* The callbacks that event_base_loop makes.                               *)

Callback(states) == pc = "loop" /\ bev \in states

cb_Connected ==
    /\ Callback({"connecting"})
    /\ bev' = "up"
    /\ lastR' = 0
    /\ UNCHANGED <<pc, m_bExitFlag, checkFlag, lastS, sendvars, evWrite, out,
                   readBuf, iMax, got, wire>>

\* ERROR, EOF or a timeout.
cb_Lost ==
    /\ Callback({"connecting", "up"})
    /\ DisconnSvr
    /\ UNCHANGED <<pc, m_bExitFlag, checkFlag>>

\* Mutant: the buffer is never grown.
GrownMax_Never(n) == iMax

\* CheckCBuffSttSize is given iCur + n and adds iCur itself; then the buffer
\* grows by n.
GrownMax(n) == IF iMax > iCur + n + iCur THEN iMax ELSE iMax + n

\* n bytes arrived; dealData takes d of those that are there now.
cb_Read(n, d) ==
    /\ Callback({"up"})
    /\ got + n <= MaxRecv
    /\ iMax' = GrownMax(n)
    /\ got' = got + n
    /\ LET all == readBuf \o [i \in 1 .. n |-> got + i]
       IN  /\ d <= Len(all)
           /\ readBuf' = SubSeq(all, d + 1, Len(all))
    /\ lastR' = 0
    /\ UNCHANGED <<pc, m_bExitFlag, checkFlag, lastS, sendvars, bev, evWrite, out, wire>>

\* copyout, drain or dealData fails.
cb_ReadFails(n) ==
    /\ Callback({"up"})
    /\ got + n <= MaxRecv
    /\ bev' = "none" /\ evWrite' = FALSE
    /\ lastS' = Never /\ lastR' = Never
    /\ out' = <<>> /\ readBuf' = <<>>
    /\ sendBuf' = [sendBuf EXCEPT !.data = <<>>]
    /\ iMax' = GrownMax(n)
    /\ UNCHANGED <<pc, m_bExitFlag, checkFlag, m_lstSendBuf, queued, got, wire>>

\* What cb_write hands to evbuffer_add: a message, or nothing if the buffer is
\* one that disconnSvr emptied.
Pending == IF sendBuf.held THEN sendBuf.data ELSE <<Head(m_lstSendBuf)>>
Remaining == IF sendBuf.held THEN m_lstSendBuf ELSE Tail(m_lstSendBuf)

\* The output is drained and libevent makes the write callback.
Drained ==
    /\ Callback({"up"})
    /\ evWrite
    /\ wire' = wire \o out
    /\ UNCHANGED <<pc, m_bExitFlag, checkFlag, bev, lastS, lastR, readBuf, iMax,
                   got, queued>>

\* Nothing is queued: libevent stops watching.
cb_WriteNothing ==
    /\ Drained
    /\ m_lstSendBuf = <<>>
    /\ out' = <<>> /\ evWrite' = FALSE
    /\ UNCHANGED <<sendBuf, m_lstSendBuf>>

\* Mutant: evbuffer_add succeeds and m_pSendBuffer is kept.
cb_Write_Keep ==
    /\ Drained
    /\ m_lstSendBuf # <<>>
    /\ out' = Pending
    /\ evWrite' = (Pending # <<>>)
    /\ sendBuf' = [held |-> TRUE, data |-> Pending]
    /\ m_lstSendBuf' = Remaining

cb_Write ==
    /\ Drained
    /\ m_lstSendBuf # <<>>
    /\ out' = Pending
    /\ evWrite' = (Pending # <<>>)
    /\ sendBuf' = NoBuffer
    /\ m_lstSendBuf' = Remaining

\* evbuffer_add fails: the message waits in m_pSendBuffer, until there is
\* another one in the list.
cb_WriteFails ==
    /\ Drained
    /\ m_lstSendBuf # <<>>
    /\ out' = <<>> /\ evWrite' = FALSE
    /\ sendBuf' = [held |-> TRUE, data |-> Pending]
    /\ m_lstSendBuf' = Remaining

Runloop ==
    \/ CheckExitFlag
    \/ CheckConn \/ CheckConnFails
    \/ CheckAlive \/ CheckAliveFails
    \/ LoopEnds

Libevent ==
    \/ cb_Connected \/ cb_Lost
    \/ \E n \in 1 .. MaxRecv, d \in 0 .. MaxRecv : cb_Read(n, d)
    \/ \E n \in 1 .. MaxRecv : cb_ReadFails(n)
    \/ cb_WriteNothing \/ cb_Write \/ cb_WriteFails

Next ==
    \/ \E m \in Msg : SendMsg(m)
    \/ Tick
    \/ SetExitFlag
    \/ StartSvr \/ StartSvrFails
    \/ Runloop
    \/ Libevent

Spec == Init /\ [][Next]_vars

\* The worker's rounds end, and time passes: it may do so between any two
\* rounds, so it is not always possible but it is so again and again.
\* Nothing is asked of the server.
FairSpec == Spec /\ SF_vars(Tick) /\ WF_vars(Runloop)

-----------------------------------------------------------------------------
(* Properties.                                                             *)

PlaceOf(m) == CHOOSE i \in 1 .. Len(queued) : queued[i] = m

\* Over all connections the messages go out in the order they were queued and
\* none goes out twice.  (Some are lost with a connection; those that were
\* still queued go out on the next one.)
SentInOrder ==
    \A i, j \in 1 .. Len(wire) : i < j => PlaceOf(wire[i]) < PlaceOf(wire[j])

\* dealData is given the bytes it left and those that followed on the same
\* connection, and the read buffer is as large as what is copied into it.
ReadBufIsStream ==
    /\ readBuf = [i \in 1 .. iCur |-> got - iCur + i]
    /\ iCur <= iMax

\* With the receive check on, callbacks run only on a connection whose server
\* was heard of within the interval.
SilentServerDropped ==
    pc = "loop" /\ "recv" \in checkFlag /\ bev = "up" => lastR <= IntervalR

\* A worker started again with the connection of an earlier run gets no
\* callbacks on it; if the receive check is on it is dropped in the end.
OrphanDropped ==
    (bev = "orphan" /\ "recv" \in checkFlag /\ lastR # Never)
        ~> (bev = "none" \/ pc = "stopped")

\* m_iIntervalCA_S is the "send check interval" (clientfrm.h:93): with the send
\* check on, checkAlive sends a heartbeat once that interval is over.
HeartbeatAfterInterval ==
    [][pc = "alive" /\ pc' = "loop" /\ "send" \in checkFlag /\ lastS = IntervalS
          => lastS' = 0]_vars
=============================================================================
