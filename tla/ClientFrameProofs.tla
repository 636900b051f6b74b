------------------------- MODULE ClientFrameProofs -------------------------
(***************************************************************************)
(* RecvHasRoom, ReadBufIsStream and WireIsWholeMessages of ClientFrame for *)
(* any messages, lengths and sizes of the read buffer.                     *)
(*                                                                         *)
(* The first two stand on ReadInv: a buffer without a socket is empty.     *)
(* The third stands on SendInv, which relates the three places of a        *)
(* message: the list, m_pSendBuffer and the wire.                          *)
(*                                                                         *)
(* Then NetFunc, which connects: no descriptor is lost, for any number of  *)
(* tries, addresses and descriptors.                                       *)
(*                                                                         *)
(* Last the calls on what others change meanwhile: cbLogFrm, from which    *)
(* clientFrame derives, and the helpers that share files, for any number   *)
(* of threads and processes, paths, lengths and files.  Their invariant    *)
(* says what a call knows at each place between two system calls; it is in *)
(* three parts, of which each keeps to the calls of its kind (PathInv,     *)
(* MapInv, FileInv).                                                       *)
(***************************************************************************)
EXTENDS ClientFrame, NetFunc, SharedCalls, DataLemmas

\* Without a socket the read buffer is empty, so that a connection begins
\* with none of the bytes of an older one; the worker receives from a socket.
ReadInv ==
    /\ got \in Nat /\ iMax \in Nat
    /\ readBuf \in Seq(Nat)
    /\ iCur <= iMax /\ iCur <= got
    /\ m_sock \in {"INVALID_SOCKET", "open"}
    /\ m_sock = "INVALID_SOCKET" => readBuf = <<>>
    /\ pc \in {"alive", "io", "select", "recv"} => m_sock # "INVALID_SOCKET"
    /\ readBuf = Newest(got, iCur)

\* GrownMax leaves room.
LEMMA GrownHasRoom ==
    ASSUME ReadInv PROVE GrownMax \in Nat /\ iCur < GrownMax
<1>1. iCur \in Nat
  BY DEF ReadInv, iCur
<1>2. RecvSize \in Nat /\ Unit \in Nat /\ RecvSize < Unit
  BY ClientFrameAssumption
<1> QED
  BY <1>1, <1>2 DEF ReadInv, GrownMax

LEMMA EmptyIsNewest == ASSUME NEW n \in Nat PROVE <<>> = Newest(n, 0)
BY DEF Newest

\* clearBuff empties the read buffer.
LEMMA ReadInvCleared ==
    ASSUME ReadInv, readBuf' = <<>>, got' = got, iMax' \in {iMax, GrownMax},
           m_sock' \in {m_sock, "INVALID_SOCKET"},
           pc' \notin {"alive", "io", "select", "recv"}
    PROVE  ReadInv'
<1>1. readBuf' \in Seq(Nat) /\ iCur' = 0
  BY DEF iCur
<1>2. got' \in Nat /\ iMax' \in Nat
  BY GrownHasRoom DEF ReadInv
<1>3. readBuf' = Newest(got', iCur')
  BY <1>1, <1>2, EmptyIsNewest
<1>4. m_sock' \in {"INVALID_SOCKET", "open"}
  BY DEF ReadInv
<1> QED
  BY <1>1, <1>2, <1>3, <1>4 DEF ReadInv

\* A receive, and what dealData takes.
LEMMA ReadInvReceived ==
    ASSUME ReadInv, NEW n \in 1 .. MaxRecv, NEW d \in 0 .. MaxRecv, Recv(n, d)
    PROVE  ReadInv'
<1> DEFINE all == readBuf \o [i \in 1 .. n |-> got + i]
<1>1. n \in Nat /\ d \in Nat /\ iCur \in 0 .. got /\ got \in Nat
  BY ClientFrameAssumption DEF ReadInv, iCur
<1>2. /\ n <= GrownMax - iCur /\ iMax' = GrownMax /\ got' = got + n /\ m_sock' = m_sock
      /\ d <= Len(all) /\ readBuf' = SubSeq(all, d + 1, Len(all))
  BY DEF Recv
<1>3. all = Newest(got, iCur) \o Following(got, n)
  BY DEF ReadInv, Following
<1> HIDE DEF all
<1>4. /\ Len(Newest(got, iCur) \o Following(got, n)) = iCur + n
      /\ \A x \in 0 .. (iCur + n) :
             SubSeq(Newest(got, iCur) \o Following(got, n), x + 1, iCur + n)
                 = Newest(got + n, iCur + n - x)
  BY <1>1, ReceivedAreNewest, Zenon
<1>5. Len(all) = iCur + n /\ d \in 0 .. iCur + n
  BY <1>1, <1>2, <1>3, <1>4
<1>6. readBuf' = Newest(got + n, iCur + n - d)
  <2>1. readBuf' = SubSeq(all, d + 1, iCur + n)
    BY <1>2, <1>5
  <2> QED
    BY <1>3, <1>4, <1>5, <2>1, Zenon
<1>7. got + n \in Nat /\ iCur + n - d \in 0 .. got + n
  BY <1>1, <1>5
<1>8. readBuf' \in Seq(Nat) /\ Len(readBuf') = iCur + n - d
  BY <1>6, <1>7, NewestIsSeq
<1>9. iCur' = iCur + n - d
  BY <1>8 DEF iCur
<1>10. iCur' <= iMax' /\ iMax' \in Nat
  BY <1>1, <1>2, <1>5, <1>9, GrownHasRoom
<1>11. m_sock' # "INVALID_SOCKET"
  BY <1>2 DEF ReadInv, Recv, At
<1>12. pc' \in {"send", "check"}
  BY DEF Recv, AfterRecv
<1>13. got' \in Nat /\ iCur' <= got' /\ readBuf' \in Seq(Nat)
  BY <1>2, <1>7, <1>8, <1>9
<1>14. readBuf' = Newest(got', iCur')
  BY <1>2, <1>6, <1>9
<1>15. m_sock' \in {"INVALID_SOCKET", "open"}
  BY <1>2 DEF ReadInv
<1> QED
  BY <1>10, <1>11, <1>12, <1>13, <1>14, <1>15, Zenon DEF ReadInv

LEMMA ReadInvKept ==
    ASSUME ReadInv, UNCHANGED netvars,
           \/ pc' \notin {"alive", "io", "select", "recv"}
           \/ m_sock # "INVALID_SOCKET"
    PROVE  ReadInv'
BY DEF ReadInv, netvars, iCur

LEMMA ReadInvStep == ReadInv /\ [Next]_vars => ReadInv'
<1> SUFFICES ASSUME ReadInv, [Next]_vars PROVE ReadInv'
  OBVIOUS
<1>1. CASE \E m \in Msg : SendMsg(m)
  BY <1>1, ReadInvKept DEF SendMsg, ReadInv, netvars, iCur
<1>2. CASE StopSvr
  BY <1>2 DEF StopSvr, ReadInv, netvars, iCur
<1>3. CASE Destroy
  BY <1>3, ReadInvKept DEF Destroy
<1>4. CASE CheckExitFlag
  BY <1>4, ReadInvKept DEF CheckExitFlag
<1>5. CASE ExitModel \/ CheckConnFails \/ CheckAliveFails \/ SelectFails
  BY <1>5, ReadInvCleared
     DEF ExitModel, CheckConnFails, CheckAliveFails, SelectFails, DisconnSvr, ClearBuff
<1>6. CASE CheckConn
  <2>1. CASE m_sock = "open"
    BY <1>6, <2>1, ReadInvKept DEF CheckConn
  <2>2. CASE m_sock # "open"
    <3>1. /\ m_sock' = "open" /\ got' = 0 /\ readBuf' = readBuf /\ iMax' = iMax
      BY <1>6, <2>2 DEF CheckConn
    <3>2. readBuf = <<>>
      BY <2>2 DEF ReadInv
    <3> QED
      BY <3>1, <3>2, EmptyIsNewest DEF ReadInv, iCur
  <2> QED
    BY <2>1, <2>2
<1>7. CASE CheckAlive \/ CheckSendFlag \/ SelectReturns \/ SelectWritable
  BY <1>7 DEF CheckAlive, CheckSendFlag, SelectReturns, SelectWritable, At, ReadInv, netvars, iCur
<1>8. CASE \E n \in 1 .. MaxRecv, d \in 0 .. MaxRecv : Recv(n, d)
  BY <1>8, ReadInvReceived
<1>9. CASE RecvNothing
  <2>1. /\ UNCHANGED <<m_sock, readBuf, got>> /\ iMax' = GrownMax
        /\ pc' \in {"send", "check"}
    BY <1>9 DEF RecvNothing, AfterRecv
  <2>2. iCur' = iCur /\ iCur \in Nat
    BY <2>1 DEF iCur, ReadInv
  <2> QED
    BY <2>1, <2>2, GrownHasRoom DEF ReadInv
<1>10. CASE RecvFails
  BY <1>10, ReadInvCleared DEF RecvFails, ClearBuff, AfterRecv
<1>11. CASE SendFails
  BY <1>11, ReadInvCleared DEF SendFails
<1>12. CASE SendFreed \/ SendNothing \/ \E k \in 0 .. MaxLen : Send(k)
  <2>1. UNCHANGED netvars /\ pc' \in {"send", "check"}
    BY <1>12 DEF SendFreed, SendNothing, Send, At
  <2> QED
    BY <2>1, ReadInvKept
<1>13. CASE UNCHANGED vars
  BY <1>13 DEF vars, ReadInv, iCur
<1> QED
  BY <1>1, <1>2, <1>3, <1>4, <1>5, <1>6, <1>7, <1>8, <1>9, <1>10, <1>11, <1>12, <1>13
     DEF Next, Worker, Runloop

THEOREM ReadInvariance == Spec => []ReadInv
<1>1. Init => ReadInv
  BY ClientFrameAssumption, EmptyIsNewest DEF Init, ReadInv, iCur
<1> QED
  BY <1>1, ReadInvStep, PTL DEF Spec

\* recv is always asked for at least one byte and at most for those that there
\* is room for, whatever UTL_RECV_SIZE and LEN_CBUFFSTAT_UNIT are.
THEOREM RecvAlwaysHasRoom == Spec => []RecvHasRoom
<1>1. ReadInv => RecvHasRoom
  BY GrownHasRoom DEF RecvHasRoom
<1> QED
  BY <1>1, ReadInvariance, PTL

\* dealData sees the bytes of one connection, each once and in order.
THEOREM ReadsTheStream == Spec => []ReadBufIsStream
<1>1. ReadInv => ReadBufIsStream
  BY DEF ReadInv, ReadBufIsStream, Newest
<1> QED
  BY <1>1, ReadInvariance, PTL

-----------------------------------------------------------------------------
(* What is sent.                                                           *)

\* The first Taken of the queued messages have left the list.
Taken == Len(queued) - Len(m_lstSendBuf)

\* The last byte on the wire, if there is one, ends a message that is one of
\* the first q queued.
EndsWhole(w, q) ==
    w # <<>> => LET last == w[Len(w)]
                IN  /\ last[1] \in Msg /\ last[2] = MsgLen(last[1])
                    /\ \E a \in 1 .. q : queued[a] = last[1]

\* The buffer b, which is the queued message q, goes on where the wire ends.
Continues(b, q) ==
    LET sent == MsgLen(b.msg) - b.left
    IN  /\ sent > 0 => wire # <<>> /\ wire[Len(wire)] = <<b.msg, sent>>
        /\ sent = 0 => EndsWhole(wire, q - 1)

\* m_lstSendBuf is what was queued last.
ListInv ==
    /\ queued \in Seq(Msg) /\ m_lstSendBuf \in Seq(Msg)
    /\ Len(m_lstSendBuf) <= Len(queued)
    /\ \A i \in 1 .. Len(m_lstSendBuf) : m_lstSendBuf[i] = queued[Taken + i]

\* m_pSendBuffer continues what is on the wire, and there is none without a
\* socket; without a buffer the wire ends with a message.
BufInv ==
    /\ wire \in Seq(Msg \X Nat)
    /\ m_sock # "open" => sendBuf \in {Null, Freed}
    /\ sendBuf \in {Null, Freed} \cup [ptr : {"owned"}, msg : Msg, left : Nat]
    /\ sendBuf.ptr = "owned" =>
           /\ sendBuf.left \in 0 .. MsgLen(sendBuf.msg)
           /\ \E q \in 1 .. Taken : queued[q] = sendBuf.msg /\ Continues(sendBuf, q)
    /\ sendBuf = Null => pc = "destroyed" \/ EndsWhole(wire, Taken)

SendInv == ListInv /\ BufInv /\ WireIsWholeMessages

Buffer == [ptr : {"owned"}, msg : Msg, left : Nat]

LEMMA InitSendInv == Init => SendInv
<1> SUFFICES ASSUME Init PROVE SendInv
  OBVIOUS
<1>1. ListInv
  BY DEF Init, ListInv, Taken
<1>2. BufInv
  BY DEF Init, BufInv, Null, EndsWhole
<1>3. WireIsWholeMessages
  BY DEF Init, WireIsWholeMessages
<1> QED
  BY <1>1, <1>2, <1>3 DEF SendInv

\* The list grows with queued, or is emptied, or stays.
LEMMA ListStep ==
    ASSUME ListInv,
           \/ \E m \in Msg : /\ queued' = Append(queued, m)
                            /\ m_lstSendBuf' = Append(m_lstSendBuf, m)
           \/ queued' = queued /\ m_lstSendBuf' \in {<<>>, m_lstSendBuf}
    PROVE  /\ ListInv'
           /\ Taken \in Nat /\ Taken' \in Nat /\ Taken <= Taken'
           /\ Len(queued) \in Nat /\ Taken <= Len(queued) /\ Len(queued) <= Len(queued')
           /\ \A i \in 1 .. Len(queued) : queued'[i] = queued[i]
<1>0. /\ Len(queued) \in Nat /\ Len(m_lstSendBuf) \in Nat
      /\ Len(m_lstSendBuf) <= Len(queued) /\ Taken \in Nat /\ Taken <= Len(queued)
  BY DEF ListInv, Taken
<1>1. CASE \E m \in Msg : /\ queued' = Append(queued, m)
                           /\ m_lstSendBuf' = Append(m_lstSendBuf, m)
  <2>1. PICK m \in Msg : /\ queued' = Append(queued, m)
                         /\ m_lstSendBuf' = Append(m_lstSendBuf, m)
    BY <1>1
  <2>2. /\ queued' \in Seq(Msg) /\ m_lstSendBuf' \in Seq(Msg)
        /\ Len(queued') = Len(queued) + 1 /\ Len(m_lstSendBuf') = Len(m_lstSendBuf) + 1
        /\ \A i \in 1 .. Len(queued) : queued'[i] = queued[i]
        /\ queued'[Len(queued) + 1] = m
        /\ \A i \in 1 .. Len(m_lstSendBuf) : m_lstSendBuf'[i] = m_lstSendBuf[i]
        /\ m_lstSendBuf'[Len(m_lstSendBuf) + 1] = m
    BY <2>1 DEF ListInv
  <2>3. Taken' = Taken
    BY <2>2, <1>0 DEF Taken
  <2>4. \A i \in 1 .. Len(m_lstSendBuf') : m_lstSendBuf'[i] = queued'[Taken' + i]
    <3> SUFFICES ASSUME NEW i \in 1 .. Len(m_lstSendBuf) + 1
                 PROVE  m_lstSendBuf'[i] = queued'[Taken + i]
      BY <2>2, <2>3
    <3>1. CASE i = Len(m_lstSendBuf) + 1
      <4>1. Taken + i = Len(queued) + 1
        BY <1>0, <3>1 DEF Taken
      <4> QED
        BY <2>2, <3>1, <4>1
    <3>2. CASE i # Len(m_lstSendBuf) + 1
      <4>1. i \in 1 .. Len(m_lstSendBuf) /\ Taken + i \in 1 .. Len(queued)
        BY <1>0, <3>2 DEF Taken
      <4> QED
        BY <2>2, <4>1 DEF ListInv
    <3> QED
      BY <3>1, <3>2
  <2> QED
    BY <1>0, <2>2, <2>3, <2>4 DEF ListInv
<1>2. CASE queued' = queued /\ m_lstSendBuf' \in {<<>>, m_lstSendBuf}
  <2>1. CASE m_lstSendBuf' = m_lstSendBuf
    BY <1>0, <1>2, <2>1 DEF ListInv, Taken
  <2>2. CASE m_lstSendBuf' = <<>>
    <3>1. m_lstSendBuf' \in Seq(Msg) /\ Len(m_lstSendBuf') = 0
      BY <2>2
    <3> QED
      BY <1>0, <1>2, <3>1 DEF ListInv, Taken
  <2> QED
    BY <1>2, <2>1, <2>2
<1> QED
  BY <1>1, <1>2

\* What happens elsewhere: nothing is sent, and the buffer stays or goes.
LEMMA NothingSent ==
    ASSUME SendInv, wire' = wire,
           \/ \E m \in Msg : /\ queued' = Append(queued, m)
                            /\ m_lstSendBuf' = Append(m_lstSendBuf, m)
           \/ queued' = queued /\ m_lstSendBuf' \in {<<>>, m_lstSendBuf},
           \/ sendBuf' = sendBuf /\ m_sock' = m_sock
           \/ sendBuf' = Freed
           \/ sendBuf' = Null /\ (sendBuf = Null \/ pc' = "destroyed"),
           pc = "destroyed" => pc' = "destroyed"
    PROVE  SendInv'
<1>1. /\ ListInv'
      /\ Taken \in Nat /\ Taken' \in Nat /\ Taken <= Taken'
      /\ Len(queued) \in Nat /\ Taken <= Len(queued) /\ Len(queued) <= Len(queued')
      /\ \A i \in 1 .. Len(queued) : queued'[i] = queued[i]
  BY ListStep DEF SendInv
<1>2. Len(queued') \in Nat
  BY <1>1 DEF ListInv
<1>3. WireIsWholeMessages'
  BY <1>1, <1>2 DEF SendInv, WireIsWholeMessages
<1>4. ASSUME NEW q \in 0 .. Taken, EndsWhole(wire, q)
      PROVE  EndsWhole(wire, q)' /\ EndsWhole(wire, Taken)'
  BY <1>1, <1>4 DEF EndsWhole
<1>5. BufInv'
  <2>1. CASE sendBuf' = sendBuf /\ m_sock' = m_sock
    <3>1. ASSUME sendBuf.ptr = "owned"
          PROVE  \E q \in 1 .. Taken' : queued'[q] = sendBuf'.msg /\ Continues(sendBuf, q)'
      <4>1. PICK q \in 1 .. Taken : queued[q] = sendBuf.msg /\ Continues(sendBuf, q)
        BY <3>1 DEF SendInv, BufInv
      <4>2. q \in 1 .. Taken' /\ queued'[q] = queued[q] /\ q - 1 \in 0 .. Taken
        BY <1>1
      <4>3. Continues(sendBuf, q)'
        BY <1>4, <2>1, <4>1, <4>2 DEF Continues
      <4> QED
        BY <2>1, <4>1, <4>2, <4>3
    <3>2. sendBuf = Null => pc' = "destroyed" \/ EndsWhole(wire, Taken)'
      BY <1>1, <1>4 DEF SendInv, BufInv
    <3> QED
      BY <2>1, <3>1, <3>2 DEF SendInv, BufInv
  <2>2. CASE sendBuf' = Freed
    BY <2>2 DEF SendInv, BufInv, Freed, Null
  <2>3. CASE sendBuf' = Null /\ (sendBuf = Null \/ pc' = "destroyed")
    BY <1>1, <1>4, <2>3 DEF SendInv, BufInv, Null
  <2> QED
    BY <2>1, <2>2, <2>3
<1> QED
  BY <1>1, <1>3, <1>5 DEF SendInv

\* A buffer taken from the list goes on where the wire ends, as one that was
\* sent in part does.
LEMMA SendingContinues ==
    ASSUME SendInv, HasBuffer, m_lstSendBuf' = Remaining, queued' = queued,
           pc # "destroyed"
    PROVE  /\ Sending \in Buffer /\ Sending.left \in 0 .. MsgLen(Sending.msg)
           /\ ListInv'
           /\ Taken \in Nat /\ Taken' \in Nat /\ Len(queued) \in Nat /\ Taken' <= Len(queued)
           /\ \E q \in 1 .. Taken' : queued[q] = Sending.msg /\ Continues(Sending, q)
<1>0. /\ Len(queued) \in Nat /\ Len(m_lstSendBuf) \in Nat
      /\ Len(m_lstSendBuf) <= Len(queued) /\ Taken \in Nat /\ Taken <= Len(queued)
  BY DEF SendInv, ListInv, Taken
<1>1. CASE sendBuf.ptr = "owned"
  <2>1. Sending = sendBuf /\ m_lstSendBuf' = m_lstSendBuf
    BY <1>1 DEF Sending, Remaining
  <2>2. sendBuf \in Buffer
    BY <1>1 DEF SendInv, BufInv, Null, Freed, Buffer
  <2>3. ListInv' /\ Taken' = Taken
    BY <2>1 DEF SendInv, ListInv, Taken
  <2> QED
    BY <1>0, <1>1, <2>1, <2>2, <2>3 DEF SendInv, BufInv
<1>2. CASE sendBuf.ptr # "owned"
  <2>1. sendBuf = Null /\ m_lstSendBuf # <<>> /\ m_lstSendBuf' = Tail(m_lstSendBuf)
    BY <1>2 DEF HasBuffer, Remaining
  <2> DEFINE m == Head(m_lstSendBuf)
  <2>2. m \in Msg /\ m = m_lstSendBuf[1] /\ Len(m_lstSendBuf) > 0
    BY <2>1 DEF SendInv, ListInv
  <2>3. Sending = [ptr |-> "owned", msg |-> m, left |-> MsgLen(m)]
    BY <1>2 DEF Sending
  <2>4. MsgLen(m) \in Nat
    BY <2>2, ClientFrameAssumption
  <2>5. /\ m_lstSendBuf' \in Seq(Msg) /\ Len(m_lstSendBuf') = Len(m_lstSendBuf) - 1
        /\ \A i \in 1 .. Len(m_lstSendBuf') : m_lstSendBuf'[i] = m_lstSendBuf[i + 1]
    BY <2>1, <2>2 DEF SendInv, ListInv
  <2>6. Taken' = Taken + 1
    BY <1>0, <2>5 DEF Taken
  <2>7. ListInv'
    BY <1>0, <2>5, <2>6 DEF SendInv, ListInv
  <2>8. Taken' \in 1 .. Taken' /\ Taken' <= Len(queued) /\ queued[Taken'] = m
    BY <1>0, <2>2, <2>6 DEF SendInv, ListInv, Taken
  <2>9. EndsWhole(wire, Taken)
    BY <2>1 DEF SendInv, BufInv
  <2>10. Continues(Sending, Taken')
    <3>1. MsgLen(Sending.msg) - Sending.left = 0 /\ Taken' - 1 = Taken
      BY <1>0, <2>3, <2>4, <2>6
    <3> QED
      BY <2>9, <3>1 DEF Continues
  <2>11. Sending \in Buffer /\ Sending.msg = m /\ Sending.left = MsgLen(m)
    BY <2>2, <2>3, <2>4 DEF Buffer
  <2> QED
    BY <1>0, <2>4, <2>6, <2>7, <2>8, <2>10, <2>11
<1> QED
  BY <1>1, <1>2

\* The bytes of b after the wire leave whole messages and one that goes on.
LEMMA SentContinues ==
    ASSUME NEW b \in Buffer, NEW k \in 1 .. b.left, NEW q \in 1 .. Len(queued),
           wire \in Seq(Msg \X Nat), WireIsWholeMessages,
           Len(queued) \in Nat,
           b.left \in 0 .. MsgLen(b.msg), MsgLen(b.msg) \in Nat,
           queued[q] = b.msg, Continues(b, q),
           wire' = wire \o Sent(b, k), queued' = queued
    PROVE  /\ WireIsWholeMessages'
           /\ wire' \in Seq(Msg \X Nat) /\ wire' # <<>>
           /\ wire'[Len(wire')] = <<b.msg, MsgLen(b.msg) - b.left + k>>
<1> DEFINE sent == MsgLen(b.msg) - b.left
<1>1. sent \in Nat /\ k \in Nat \ {0} /\ b.msg \in Msg /\ b.left \in Nat
  BY DEF Buffer
<1>2. /\ Sent(b, k) \in Seq(Msg \X Nat) /\ Len(Sent(b, k)) = k
      /\ \A i \in 1 .. k : Sent(b, k)[i] = <<b.msg, sent + i>>
  <2>1. Sent(b, k) = [i \in 1 .. k |-> <<b.msg, sent + i>>]
    BY DEF Sent
  <2> HIDE DEF sent
  <2>2. \A i \in 1 .. k : <<b.msg, sent + i>> \in Msg \X Nat
    BY <1>1
  <2>3. [i \in 1 .. k |-> <<b.msg, sent + i>>] \in Seq(Msg \X Nat)
    BY <1>1, <2>2
  <2>4. k \in Nat
    BY <1>1
  <2> QED
    BY <2>1, <2>3, <2>4
<1> DEFINE bytes == Sent(b, k)
<1> HIDE DEF bytes
<1>3. Len(wire) \in Nat
  OBVIOUS
<1> DEFINE n == Len(wire)
<1>a. /\ wire \o bytes \in Seq(Msg \X Nat)
      /\ Len(wire \o bytes) = n + Len(bytes)
      /\ \A i \in 1 .. n + Len(bytes) :
             (wire \o bytes)[i] = IF i <= n THEN wire[i] ELSE bytes[i - n]
  <2>1. bytes \in Seq(Msg \X Nat)
    BY <1>2 DEF bytes
  <2> QED
    BY <2>1, ConcatProperties, Zenon
<1>b. wire' = wire \o bytes /\ Len(bytes) = k /\ k \in Nat \ {0}
  BY <1>1, <1>2 DEF bytes
<1>c. wire' \in Seq(Msg \X Nat) /\ Len(wire') = n + k
  BY <1>a, <1>b
<1> HIDE DEF n
<1>d. ASSUME NEW i \in 1 .. n PROVE wire'[i] = wire[i]
  <2>1. i \in 1 .. n + k /\ i <= n
    BY <1>3, <1>b DEF n
  <2> QED
    BY <1>a, <1>b, <2>1, Zenon
<1> HIDE DEF sent
<1>e. ASSUME NEW i \in 1 .. k PROVE wire'[n + i] = <<b.msg, sent + i>>
  <2>1. n + i \in 1 .. n + k /\ ~(n + i <= n) /\ (n + i) - n = i
    BY <1>3, <1>b DEF n
  <2>2. bytes[i] = <<b.msg, sent + i>>
    BY <1>2, Zenon DEF bytes
  <2>3. wire'[n + i] = bytes[(n + i) - n]
    BY <1>a, <1>b, <2>1, Zenon
  <2> QED
    BY <2>1, <2>2, <2>3, Zenon
<1>4. wire'[Len(wire')] = <<b.msg, sent + k>> /\ wire' # <<>>
  <2>1. k \in 1 .. k /\ n + k # 0
    BY <1>3, <1>b DEF n
  <2>2. wire' # <<>>
    BY <1>c, <2>1
  <2>3. wire'[n + k] = <<b.msg, sent + k>>
    BY <1>e, <2>1, Zenon
  <2> QED
    BY <1>c, <2>2, <2>3, Zenon
<1>f. n \in Nat /\ sent \in Nat
  BY <1>1, <1>3 DEF n, sent
<1> DEFINE Right(w, i) ==
        LET m == w[i][1]
            j == w[i][2]
        IN  IF i > 1 /\ j > 1 THEN w[i - 1] = <<m, j - 1>>
            ELSE /\ j = 1
                 /\ i > 1 => LET l == w[i - 1][1]
                            IN  /\ w[i - 1][2] = MsgLen(l)
                                /\ \E x, y \in 1 .. Len(queued) :
                                       x < y /\ queued[x] = l /\ queued[y] = m
<1>5. ASSUME NEW i \in 1 .. n PROVE Right(wire', i)
  <2>1. Right(wire, i)
    BY DEF WireIsWholeMessages, n
  <2>2. wire'[i] = wire[i]
    BY <1>d
  <2>3. CASE i > 1
    <3>1. i - 1 \in 1 .. n
      BY <1>f, <2>3
    <3>2. wire'[i - 1] = wire[i - 1]
      BY <1>d, <3>1
    <3> QED
      BY <2>1, <2>2, <3>2
  <2>4. CASE ~(i > 1)
    BY <2>1, <2>2, <2>4
  <2> QED
    BY <2>3, <2>4
<1>6. ASSUME NEW i \in 1 .. k PROVE Right(wire', n + i)
  <2> DEFINE p == n + i
             j == sent + i
  <2> SUFFICES Right(wire', p)
    OBVIOUS
  <2>1. /\ wire'[p] = <<b.msg, j>>
        /\ p \in Nat /\ p >= 1 /\ j \in Nat /\ j >= 1
    <3> HIDE DEF Right
    <3>1. p \in Nat /\ p >= 1 /\ j \in Nat /\ j >= 1
      BY <1>b, <1>f
    <3> QED
      BY <1>e, <3>1, Zenon
  <2>2. CASE i > 1
    <3>0. \A w, x \in Nat : \A y \in 1 .. x :
              y > 1 => y - 1 \in 1 .. x /\ w + (y - 1) = (w + y) - 1 /\ w + y > 1
      OBVIOUS
    <3>1. i - 1 \in 1 .. k /\ n + (i - 1) = p - 1 /\ sent + (i - 1) = j - 1
          /\ p > 1 /\ j > 1
      <4>1. k \in Nat /\ n \in Nat /\ sent \in Nat
        BY <1>b, <1>f
      <4> QED
        BY <4>1, <2>2, <3>0, Zenon
    <3>2. wire'[n + (i - 1)] = <<b.msg, sent + (i - 1)>>
      BY <1>e, <3>1, Zenon
    <3>3. wire'[p - 1] = <<b.msg, j - 1>>
      BY <3>1, <3>2, Zenon
    <3> HIDE DEF p, j
    <3> QED
      BY <2>1, <3>1, <3>3
  <2>3. CASE i = 1 /\ wire = <<>>
    <3>1. sent = 0
      BY <1>1, <2>3 DEF Continues, sent
    <3>2. p = 1 /\ j = 1
      BY <2>3, <3>1 DEF n
    <3> HIDE DEF p, j
    <3> QED
      BY <2>1, <3>2
  <2>4. CASE i = 1 /\ wire # <<>>
    <3>1. /\ p > 1 /\ p - 1 = n /\ n \in 1 .. n
          /\ wire'[p - 1] = wire[Len(wire)]
      <4>1. n \in Nat \ {0}
        BY <2>4 DEF n
      <4>2. p > 1 /\ p - 1 = n /\ n \in 1 .. n
        BY <2>4, <4>1
      <4>3. wire'[n] = wire[n]
        BY <1>d, <4>2
      <4> QED
        BY <4>2, <4>3 DEF n
    <3>2. CASE sent > 0
      <4>1. wire[Len(wire)] = <<b.msg, sent>>
        BY <3>2 DEF Continues, sent
      <4>2. j > 1 /\ j - 1 = sent
        BY <1>1, <2>4, <3>2
      <4> HIDE DEF p, j
      <4> QED
        BY <2>1, <3>1, <4>1, <4>2
    <3>3. CASE sent = 0
      <4> DEFINE last == wire[Len(wire)]
      <4>1. EndsWhole(wire, q - 1)
        BY <3>3 DEF Continues, sent
      <4>2. /\ last[2] = MsgLen(last[1])
            /\ \E a \in 1 .. q - 1 : queued[a] = last[1]
        BY <2>4, <4>1 DEF EndsWhole
      <4>3. \E x, y \in 1 .. Len(queued) : x < y /\ queued[x] = last[1] /\ queued[y] = b.msg
        BY <4>2
      <4>4. j = 1 /\ wire'[p - 1] = last
        BY <2>4, <3>1, <3>3
      <4> HIDE DEF p, j, last
      <4> QED
        BY <2>1, <4>2, <4>3, <4>4
    <3> HIDE DEF Right
    <3> QED
      BY <1>1, <3>2, <3>3
  <2> HIDE DEF Right
  <2> QED
    BY <1>1, <2>2, <2>3, <2>4
<1>7. ASSUME NEW i \in 1 .. Len(wire') PROVE Right(wire', i)
  <2>1. CASE i \in 1 .. n
    BY <1>5, <2>1
  <2>2. CASE i \notin 1 .. n
    <3>1. i - n \in 1 .. k /\ n + (i - n) = i
      BY <1>b, <1>c, <1>f, <2>2
    <3> HIDE DEF Right
    <3> QED
      BY <1>6, <3>1
  <2> QED
    BY <2>1, <2>2
<1>8. WireIsWholeMessages'
  BY <1>7 DEF WireIsWholeMessages
<1> QED
  BY <1>4, <1>8, <1>c DEF sent

\* The whole step of a send that takes k bytes.
LEMMA SendStep == ASSUME SendInv, NEW k \in 0 .. MaxLen, Send(k) PROVE SendInv'
<1> DEFINE b == Sending
<1>1. /\ HasBuffer /\ m_lstSendBuf' = Remaining /\ queued' = queued /\ pc # "destroyed"
      /\ pc' = "check" /\ m_sock' = m_sock
      /\ b.left > 0 => m_sock = "open"
      /\ k <= b.left
      /\ wire' = wire \o Sent(b, k)
      /\ sendBuf' = IF k = b.left THEN Null ELSE [b EXCEPT !.left = @ - k]
  BY DEF Send, At, netvars
<1>2. /\ b \in Buffer /\ b.left \in 0 .. MsgLen(b.msg)
      /\ ListInv'
      /\ Taken \in Nat /\ Taken' \in Nat /\ Len(queued) \in Nat /\ Taken' <= Len(queued)
      /\ \E q \in 1 .. Taken' : queued[q] = b.msg /\ Continues(b, q)
  BY <1>1, SendingContinues
<1> HIDE DEF b
<1>3. PICK q \in 1 .. Taken' : queued[q] = b.msg /\ Continues(b, q)
  BY <1>2
<1>k. k \in Nat
  BY ClientFrameAssumption
<1>4. /\ b.msg \in Msg /\ b.left \in Nat /\ MsgLen(b.msg) \in Nat
      /\ wire \in Seq(Msg \X Nat) /\ WireIsWholeMessages
  BY <1>2, ClientFrameAssumption DEF Buffer, SendInv, BufInv
<1> DEFINE sent == MsgLen(b.msg) - b.left + k
<1>5. sent \in Nat
  BY <1>2, <1>4, <1>k
<1>6. /\ WireIsWholeMessages' /\ wire' \in Seq(Msg \X Nat)
      /\ sent > 0 => wire' # <<>> /\ wire'[Len(wire')] = <<b.msg, sent>>
      /\ sent = 0 => EndsWhole(wire', q - 1)
  <2>1. CASE k = 0
    <3>1. Sent(b, k) = <<>>
      BY <2>1 DEF Sent
    <3>2. wire' = wire
      BY <1>1, <1>4, <3>1, ConcatEmptySeq
    <3>3. WireIsWholeMessages'
      <4>1. queued' = queued /\ WireIsWholeMessages
        BY <1>1, <1>4
      <4> QED
        BY <3>2, <4>1 DEF WireIsWholeMessages
    <3>4. sent = MsgLen(b.msg) - b.left
      BY <1>2, <1>4, <2>1
    <3> QED
      BY <1>3, <1>4, <3>2, <3>3, <3>4 DEF Continues
  <2>2. CASE k # 0
    <3>1. k \in 1 .. b.left /\ q \in 1 .. Len(queued) /\ sent > 0
      BY <1>1, <1>2, <1>4, <1>k, <2>2
    <3>2. /\ WireIsWholeMessages' /\ wire' \in Seq(Msg \X Nat) /\ wire' # <<>>
          /\ wire'[Len(wire')] = <<b.msg, sent>>
      BY <1>1, <1>2, <1>3, <1>4, <3>1, SentContinues
    <3> QED
      BY <3>1, <3>2
  <2> QED
    BY <2>1, <2>2
<1> HIDE DEF sent
<1>7. BufInv'
  <2>1. CASE k = b.left
    <3>1. sent = MsgLen(b.msg)
      BY <1>2, <1>4, <2>1 DEF sent
    <3>2. EndsWhole(wire, Taken)'
      <4>1. CASE sent > 0
        <5>1. wire'[Len(wire')] = <<b.msg, MsgLen(b.msg)>>
          BY <1>6, <3>1, <4>1
        <5> QED
          BY <1>1, <1>3, <1>4, <5>1 DEF EndsWhole
      <4>2. CASE sent = 0
        <5>1. EndsWhole(wire', q - 1)
          BY <1>6, <4>2
        <5>2. q - 1 <= Taken' /\ q \in Nat
          BY <1>2
        <5> QED
          BY <1>1, <1>2, <5>1, <5>2 DEF EndsWhole
      <4> QED
        BY <1>5, <4>1, <4>2
    <3> QED
      BY <1>1, <1>6, <2>1, <3>2 DEF BufInv, Null
  <2>2. CASE k # b.left
    <3> DEFINE rest == [ptr |-> "owned", msg |-> b.msg, left |-> b.left - k]
    <3>1. sendBuf' = rest
      BY <1>1, <1>2, <2>2 DEF Buffer
    <3>2. b.left - k \in 1 .. MsgLen(b.msg) /\ b.left > 0
          /\ MsgLen(b.msg) - (b.left - k) = sent
      <4>1. k <= b.left /\ k # b.left
        BY <1>1, <2>2
      <4>2. b.left \in 0 .. MsgLen(b.msg)
        BY <1>2
      <4> QED
        BY <1>4, <1>k, <4>1, <4>2 DEF sent
    <3>3. MsgLen(sendBuf'.msg) - sendBuf'.left = sent /\ sendBuf'.msg = b.msg
      BY <3>1, <3>2
    <3>4. Continues(sendBuf, q)'
      <4>1. q - 1 = (q - 1)' /\ queued' = queued
        BY <1>1
      <4> QED
        BY <1>6, <3>3, <4>1 DEF Continues, EndsWhole
    <3>5. m_sock' = "open" /\ sendBuf' # Null /\ sendBuf'.ptr = "owned"
      BY <1>1, <3>1, <3>2 DEF Null
    <3>6. sendBuf' \in [ptr : {"owned"}, msg : Msg, left : Nat]
          /\ sendBuf'.left \in 0 .. MsgLen(sendBuf'.msg)
      BY <1>4, <3>1, <3>2
    <3>7. \E x \in 1 .. Taken' : queued'[x] = sendBuf'.msg /\ Continues(sendBuf, x)'
      BY <1>1, <1>3, <3>3, <3>4
    <3> QED
      BY <1>6, <3>5, <3>6, <3>7 DEF BufInv
  <2> QED
    BY <2>1, <2>2
<1> QED
  BY <1>2, <1>6, <1>7 DEF SendInv

LEMMA SendInvStep == SendInv /\ [Next]_vars => SendInv'
<1> SUFFICES ASSUME SendInv, [Next]_vars PROVE SendInv'
  OBVIOUS
<1>1. CASE \E m \in Msg : SendMsg(m)
  BY <1>1, NothingSent DEF SendMsg, netvars
<1>2. CASE Destroy
  BY <1>2, NothingSent DEF Destroy
<1>3. CASE \/ ExitModel \/ CheckConnFails \/ CheckAliveFails \/ SelectFails
          \/ RecvFails \/ SendFails
  <2>1. /\ wire' = wire /\ queued' = queued /\ m_lstSendBuf' = <<>>
        /\ \/ sendBuf' = Freed
           \/ sendBuf' = Null /\ sendBuf = Null
        /\ pc # "destroyed"
    BY <1>3 DEF ExitModel, CheckConnFails, CheckAliveFails, SelectFails, RecvFails, SendFails,
                DisconnSvr, ClearBuff, At
  <2> QED
    BY <2>1, NothingSent
<1>4. CASE CheckConn
  <2>1. CASE m_sock = "open"
    BY <1>4, <2>1, NothingSent DEF CheckConn, At, netvars
  <2>2. CASE m_sock # "open"
    <3>1. /\ wire' = <<>> /\ m_sock' = "open" /\ pc' = "alive"
          /\ UNCHANGED <<m_lstSendBuf, sendBuf, queued>>
      BY <1>4, <2>2 DEF CheckConn
    <3>2. sendBuf \in {Null, Freed} /\ sendBuf.ptr # "owned"
      BY <2>2 DEF SendInv, BufInv, Null, Freed
    <3>3. EndsWhole(wire, Taken)' /\ WireIsWholeMessages' /\ wire' \in Seq(Msg \X Nat)
      BY <3>1 DEF EndsWhole, WireIsWholeMessages
    <3>4. ListInv'
      BY <3>1 DEF SendInv, ListInv, Taken
    <3>5. BufInv'
      BY <3>1, <3>2, <3>3 DEF BufInv
    <3> QED
      BY <3>3, <3>4, <3>5 DEF SendInv
  <2> QED
    BY <2>1, <2>2
<1>5. CASE \E k \in 0 .. MaxLen : Send(k)
  BY <1>5, SendStep
<1>6. CASE \/ StopSvr \/ CheckExitFlag \/ CheckAlive \/ CheckSendFlag
          \/ SelectReturns \/ SelectWritable
          \/ (\E n \in 1 .. MaxRecv, d \in 0 .. MaxRecv : Recv(n, d))
          \/ RecvNothing \/ SendFreed \/ SendNothing \/ UNCHANGED vars
  <2>1. /\ UNCHANGED <<wire, queued, m_lstSendBuf, sendBuf, m_sock>>
        /\ pc = "destroyed" => pc' = "destroyed"
    BY <1>6 DEF StopSvr, CheckExitFlag, CheckAlive, CheckSendFlag, SelectReturns, SelectWritable,
                Recv, RecvNothing, SendFreed, SendNothing, At, netvars, sendvars, vars
  <2> QED
    BY <2>1, NothingSent
<1> QED
  BY <1>1, <1>2, <1>3, <1>4, <1>5, <1>6 DEF Next, Worker, Runloop

\* On every connection the peer reads whole messages in the order sendMsg
\* queued them, however often a message is sent in part, the connection is
\* lost or the buffer is given up.
THEOREM SendsWholeMessages == Spec => []WireIsWholeMessages
<1>1. SendInv => WireIsWholeMessages
  BY DEF SendInv
<1> QED
  BY <1>1, InitSendInv, SendInvStep, PTL DEF Spec

-----------------------------------------------------------------------------
(* The connection: NetFunc.                                                *)

NetSpec == NetInit /\ [][NetNext]_netVars

Timeouts == {"SO_SNDTIMEO", "SO_RCVTIMEO"}
States == {"new", "connected", "connecting"}
Modes == {"no", "set", "refused"}
Entry == [owner : {"caller", "others"}, timeouts : SUBSET Timeouts,
          nonblocking : Modes, state : States]
Places == {"idle", "socket", "SO_SNDTIMEO", "SO_RCVTIMEO", "noblock", "connect", "returned"}

NetTypeOK ==
    /\ at_ \in Places
    /\ sync \in BOOLEAN
    /\ addresses \in Nat
    /\ iCount \in 0..Limit
    /\ tried \in Nat
    /\ Open \subseteq 0..Descriptors - 1
    /\ fd \in {Invalid} \cup Open
    /\ \A f \in Open : table[f] \in Entry

\* The only descriptor of the caller is fd, and the others' are as they were
\* opened.
Owners ==
    \A f \in Open : /\ table[f].owner = "caller" <=> f = fd
                    /\ table[f].owner = "others" => table[f] = Fresh_("others")

\* What was done to fd by the time the call is at a place.
DoneSoFar ==
    /\ at_ \in {"idle", "socket"} => fd = Invalid
    /\ at_ = "noblock" /\ sync => fd # Invalid
    /\ fd # Invalid =>
          /\ at_ = "SO_SNDTIMEO" => table[fd].timeouts = {}
          /\ at_ = "SO_RCVTIMEO" => table[fd].timeouts = {"SO_SNDTIMEO"}
          /\ at_ \notin Timeouts => table[fd].timeouts = Timeouts
          /\ table[fd].nonblocking # "no" <=> \/ at_ = "returned"
                                              \/ at_ = "connect" /\ ~sync
          /\ sync /\ at_ \in {"noblock", "returned"} => table[fd].state = "connected"
          /\ ~sync /\ at_ = "returned" => table[fd].state # "new"

\* iCount counts the attempts that are left; ConnectAsync makes one.
TriesCounted ==
    /\ sync => tried = Limit - iCount
    /\ ~sync => tried \in 0..1 /\ (at_ \in {"idle", "socket"} => tried = 0)

\* Whoever returns no socket has no address left to try.
AllTried == at_ = "returned" /\ fd = Invalid => addresses <= 1

NetInv == NetTypeOK /\ Owners /\ DoneSoFar /\ TriesCounted /\ AllTried

-----------------------------------------------------------------------------
\* The lowest number of a set of numbers is one of them.
LEMMA MinIsMember == ASSUME NEW S \in SUBSET Nat, S # {} PROVE Min(S) \in S
<1>1. PICK x \in S : \A y \in S : x <= y
  BY LowestOf
<1> QED
  BY <1>1 DEF Min

LEMMA FreeIsFree ==
    ASSUME Free # {} PROVE Min(Free) \in 0..Descriptors - 1 /\ Min(Free) \notin Open
<1>1. Free \in SUBSET Nat
  BY NetFuncAssumption DEF Free
<1> QED
  BY <1>1, MinIsMember DEF Free

LEMMA FreshIsEntry ==
    ASSUME NEW owner \in {"caller", "others"}
    PROVE  /\ Fresh_(owner) \in Entry
           /\ Fresh_(owner).owner = owner /\ Fresh_(owner).timeouts = {}
           /\ Fresh_(owner).nonblocking = "no" /\ Fresh_(owner).state = "new"
BY DEF Fresh_, Entry, Timeouts, States, Modes

LEMMA NetInitInv == NetInit => NetInv
BY NetFuncAssumption
   DEF NetInit, NetInv, NetTypeOK, Owners, DoneSoFar, TriesCounted, AllTried, Places, Open, Invalid,
       Timeouts

LEMMA NetInvStep == NetInv /\ [NetNext]_netVars => NetInv'
<1> SUFFICES ASSUME NetInv, [NetNext]_netVars PROVE NetInv'
  OBVIOUS
<1> USE NetFuncAssumption DEF NetInv, NetTypeOK, Owners, DoneSoFar, TriesCounted, AllTried,
        Places, Open, Invalid, Timeouts, Entry, States, Modes
<1>1. ASSUME NEW n \in 0..MaxAddresses, ConnectSync(n) \/ ConnectAsync(n) PROVE NetInv'
  BY <1>1 DEF ConnectSync, ConnectAsync, Call, Returns
<1>2. CASE StopsTrying \/ NoSocket
  BY <1>2 DEF StopsTrying, NoSocket, GivesUp, Returns, OutOfTries
<1>3. CASE Socket
  <2>1. CASE UNCHANGED table /\ fd' = Invalid
    BY <1>3, <2>1 DEF Socket, OutOfTries
  <2>2. CASE Free # {} /\ fd' = Min(Free) /\ table' = Opens("caller")
    <3>1. /\ Open' = Open \cup {fd'} /\ fd' \notin Open /\ fd' \in 0..Descriptors - 1
          /\ table'[fd'] = Fresh_("caller")
          /\ \A f \in Open : table'[f] = table[f]
      BY <2>2, FreeIsFree DEF Opens
    <3>2. fd = Invalid
      BY <1>3 DEF Socket
    <3>3. Owners'
      BY <3>1, <3>2, FreshIsEntry
    <3>4. TriesCounted' /\ AllTried' /\ iCount' \in 0..Limit /\ tried' \in Nat
      BY <1>3 DEF Socket, OutOfTries
    <3>5. NetTypeOK'
      BY <1>3, <3>1, <3>4, FreshIsEntry DEF Socket
    <3>6. DoneSoFar'
      BY <1>3, <3>1, FreshIsEntry DEF Socket
    <3> QED
      BY <3>3, <3>4, <3>5, <3>6
  <2> QED
    BY <1>3, <2>1, <2>2 DEF Socket
<1>4. ASSUME NEW option \in Timeouts, NEW next \in Places, SetTimeout(option, next),
             option = "SO_SNDTIMEO" => next = "SO_RCVTIMEO",
             option = "SO_RCVTIMEO" => next = IF sync THEN "connect" ELSE "noblock"
      PROVE  NetInv'
  BY <1>4 DEF SetTimeout, Closed
<1>5. CASE SetSendTimeout \/ SetReceiveTimeout
  <2>1. CASE SetSendTimeout
    BY <1>4, <2>1 DEF SetSendTimeout
  <2>2. CASE SetReceiveTimeout
    BY <1>4, <2>2 DEF SetReceiveTimeout
  <2> QED
    BY <1>5, <2>1, <2>2
<1>6. CASE SyncNoBlock \/ AsyncNoBlock
  <2>1. /\ at_ = "noblock" /\ at_' = IF sync THEN "returned" ELSE "connect"
        /\ UNCHANGED <<sync, addresses, iCount, fd, tried>>
    BY <1>6 DEF SyncNoBlock, AsyncNoBlock, SetNoBlockMode
  <2>4. PICK answer \in {"set", "refused"} :
          table' = IF fd \in Open THEN [table EXCEPT ![fd].nonblocking = answer] ELSE table
    BY <1>6 DEF SyncNoBlock, AsyncNoBlock, SetNoBlockMode
  <2>2. CASE fd \notin Open
    BY <2>1, <2>2, <2>4
  <2>3. CASE fd \in Open
    <3>1. /\ Open' = Open /\ \A f \in Open : f # fd => table'[f] = table[f]
          /\ table'[fd] = [table[fd] EXCEPT !.nonblocking = answer]
      BY <2>3, <2>4
    <3>2. table[fd].owner = "caller"
      BY <2>3
    <3>3. /\ table'[fd] \in Entry /\ table'[fd].owner = "caller"
          /\ table'[fd].nonblocking = answer
          /\ table'[fd].timeouts = table[fd].timeouts
          /\ table'[fd].state = table[fd].state
      BY <2>3, <3>1, <3>2
    <3>4. NetTypeOK' /\ Owners'
      BY <2>1, <3>1, <3>3
    <3>5. DoneSoFar' /\ TriesCounted' /\ AllTried'
      BY <2>1, <2>3, <2>4, <3>1, <3>3
    <3> QED
      BY <3>4, <3>5
  <2> QED
    BY <2>2, <2>3
<1>7. CASE Connect
  BY <1>7 DEF Connect, Becomes_, Fresh_
<1>8. CASE Interrupted
  BY <1>8 DEF Interrupted, Closed
<1>9. CASE Fails_
  BY <1>9 DEF Fails_, Closed, GivesUp, Returns
<1>10. CASE OthersOpen
  <2>1. PICK f \in 0..Descriptors - 1 :
          /\ f \notin Open /\ Open' = Open \cup {f}
          /\ table'[f] = Fresh_("others")
          /\ \A g \in Open : table'[g] = table[g]
    BY <1>10, FreeIsFree DEF OthersOpen, Opens
  <2>2. fd' = fd /\ fd # f
    BY <1>10, <2>1 DEF OthersOpen
  <2>3. Owners'
    BY <2>1, <2>2, FreshIsEntry
  <2>4. NetTypeOK' /\ DoneSoFar'
    BY <1>10, <2>1, <2>2, FreshIsEntry DEF OthersOpen
  <2> QED
    BY <1>10, <2>2, <2>3, <2>4 DEF OthersOpen
<1>11. ASSUME NEW f \in Open, OthersClose(f) PROVE NetInv'
  BY <1>11 DEF OthersClose, Closed
<1>12. CASE UNCHANGED netVars
  BY <1>12 DEF netVars
<1> QED
  BY <1>1, <1>2, <1>3, <1>5, <1>6, <1>7, <1>8, <1>9, <1>10, <1>11, <1>12 DEF NetNext

THEOREM NetInvariance == NetSpec => []NetInv
BY NetInitInv, NetInvStep, PTL DEF NetSpec

\* ConnectSync and ConnectAsync leave no descriptor open and touch nobody
\* else's; a socket they return is non-blocking, has its timeouts and is
\* connected or on its way; they make at most Limit attempts at an address.
THEOREM NoSocketLost == NetSpec => []SocketsAccounted
<1>1. NetInv => SocketsAccounted
  BY NetFuncAssumption
     DEF NetInv, NetTypeOK, Owners, DoneSoFar, TriesCounted, AllTried, SocketsAccounted,
         Open, Timeouts, Entry, States, Places
<1> QED
  BY NetInvariance, <1>1, PTL

-----------------------------------------------------------------------------
\* cbLogFrm: what a thread knows of m_cbFunc at each place of its call.
Calling == {"Fail", "Warn", "Info", "Trace", "Debug", "Debug1", "Debug2", "Debug3", "Debug4",
            "Debug5"}
Level == {"FAIL", "WARN", "INFO", "TRACE", "DEBUG_1", "DEBUG_2", "DEBUG_3", "DEBUG_4",
          "DEBUG_5"}
LogEntry ==
    [at : {"out"}] \cup
    [at : {"test", "dropped", "call", "returned", "crashed"}, name : Calling, emLev : Level,
     since : SUBSET (Callbacks \cup {NoCallback}), to : Callbacks \cup {NoCallback}]

CallbackInv ==
    /\ m_cbFunc \in Callbacks \cup {NoCallback}
    /\ log \in [Loggers -> LogEntry]
    /\ \A t \in Loggers :
          /\ log[t].at \in {"test", "call"} => m_cbFunc \in log[t].since
          /\ log[t].at = "test" => log[t].to = NoCallback
          /\ log[t].at = "call" => log[t].since \ {NoCallback} # {}
    /\ CallbackSafe

LEMMA CallbackStep == CallbackInv /\ [CallbackNext]_callbackVars => CallbackInv'
<1> SUFFICES ASSUME CallbackInv, [CallbackNext]_callbackVars PROVE CallbackInv'
  OBVIOUS
<1> DEFINE Functions == Callbacks \cup {NoCallback}
           Under == [at : {"test", "dropped", "call", "returned", "crashed"}, name : Calling,
                     emLev : Level, since : SUBSET Functions, to : Functions]
\* One thread's entry tells whether the invariant holds of it.
<1> DEFINE Fits(e, f) ==
        /\ e \in LogEntry
        /\ e.at \in {"test", "call"} => f \in e.since
        /\ e.at = "test" => e.to = NoCallback
        /\ e.at = "call" => e.since \ {NoCallback} # {}
        /\ e.at = "returned" => IF e.to = NoCallback THEN NoCallback \in e.since
                                ELSE e.to \in e.since
        /\ e.at = "crashed" => {} # e.since \ {NoCallback} /\ NoCallback \in e.since
<1>1. m_cbFunc \in Functions /\ log \in [Loggers -> LogEntry]
      /\ \A t \in Loggers : Fits(log[t], m_cbFunc)
  BY DEF CallbackInv, CallbackSafe
<1>2. SUFFICES m_cbFunc' \in Functions /\ log' \in [Loggers -> LogEntry]
               /\ \A t \in Loggers : Fits(log'[t], m_cbFunc')
  BY <1>2 DEF CallbackInv, CallbackSafe
<1>3. \A e \in LogEntry : e.at # "out" => e \in Under
  BY DEF LogEntry
<1>4. Under \subseteq LogEntry
  BY DEF LogEntry
<1>5. CASE \E f \in Functions : SetCBFuncLog(f)
  <2>1. PICK f \in Functions : SetCBFuncLog(f)
    BY <1>5
  <2>2. ASSUME NEW t \in Loggers PROVE Fits(log'[t], f)
    <3>1. CASE log[t].at \in {"test", "call"}
      <4>1. PICK e : e = [log[t] EXCEPT !.since = @ \cup {f}]
        OBVIOUS
      <4>2. log[t] \in Under
        BY <3>1, <1>1, <1>3
      <4>3. e \in Under /\ e.at = log[t].at /\ f \in e.since /\ log[t].since \subseteq e.since
              /\ e.to = log[t].to
        BY <4>1, <4>2
      <4>4. log'[t] = e
        BY <4>1, <3>1, <2>1 DEF SetCBFuncLog
      <4> QED
        BY <4>3, <4>4, <1>1, <1>4, <3>1
    <3>2. CASE log[t].at \notin {"test", "call"}
      <4>1. log'[t] = log[t]
        BY <3>2, <2>1 DEF SetCBFuncLog
      <4> QED
        BY <4>1, <3>2, <1>1
    <3> QED
      BY <3>1, <3>2
  <2>3. m_cbFunc' = f /\ log' = [t \in Loggers |-> log'[t]]
    BY <2>1 DEF SetCBFuncLog
  <2> QED
    BY <2>1, <2>2, <2>3
\* The other steps are of one thread and leave m_cbFunc alone.
<1>6. ASSUME NEW t \in Loggers, NEW e, Fits(e, m_cbFunc), log' = [log EXCEPT ![t] = e],
             UNCHANGED m_cbFunc
      PROVE  m_cbFunc' \in Functions /\ log' \in [Loggers -> LogEntry]
             /\ \A u \in Loggers : Fits(log'[u], m_cbFunc')
  <2>1. log'[t] = e /\ \A u \in Loggers \ {t} : log'[u] = log[u]
    BY <1>1, <1>6
  <2>2. \A u \in Loggers : Fits(log'[u], m_cbFunc)
    BY <2>1, <1>1, <1>6
  <2> QED
    BY <2>2, <1>1, <1>6
<1>7. ASSUME NEW t \in Loggers, NEW name \in Calling, NEW emLev \in Level, Message(t, name, emLev)
      PROVE  m_cbFunc' \in Functions /\ log' \in [Loggers -> LogEntry]
             /\ \A u \in Loggers : Fits(log'[u], m_cbFunc')
  <2>1. PICK at \in {"test", "dropped"} :
            log' = [log EXCEPT ![t] = [at |-> at, name |-> name, emLev |-> emLev,
                                       since |-> {m_cbFunc}, to |-> NoCallback]]
    BY <1>7 DEF Message
  <2>2. PICK e : e = [at |-> at, name |-> name, emLev |-> emLev,
                      since |-> {m_cbFunc}, to |-> NoCallback]
    OBVIOUS
  <2>3. e \in Under
    BY <2>2, <1>1
  <2>4. e \in LogEntry /\ e.at \in {"test", "dropped"} /\ m_cbFunc \in e.since
              /\ e.to = NoCallback
    BY <2>2, <2>3, <1>4
  <2>5. Fits(e, m_cbFunc)
    BY <2>4
  <2>6. log' = [log EXCEPT ![t] = e] /\ UNCHANGED m_cbFunc
    BY <2>1, <2>2, <1>7 DEF Message
  <2> HIDE DEF Fits
  <2> QED
    BY <2>5, <2>6, <1>6
<1>8. ASSUME NEW t \in Loggers, Tests(t)
      PROVE  m_cbFunc' \in Functions /\ log' \in [Loggers -> LogEntry]
             /\ \A u \in Loggers : Fits(log'[u], m_cbFunc')
  <2>1. PICK e : e = [log[t] EXCEPT !.at = IF m_cbFunc = NoCallback THEN "returned" ELSE "call"]
    OBVIOUS
  <2>2. log[t] \in Under /\ log[t].at = "test"
    BY <1>1, <1>3, <1>8 DEF Tests
  <2>3. /\ e \in Under /\ e.since = log[t].since /\ e.to = log[t].to
        /\ e.at = IF m_cbFunc = NoCallback THEN "returned" ELSE "call"
    BY <2>1, <2>2
  <2>4. m_cbFunc \in e.since
    BY <2>2, <2>3, <1>1
  <2>5. e.to = NoCallback /\ e \in LogEntry
    BY <2>2, <2>3, <1>1, <1>4
  <2>7. ASSUME m_cbFunc = NoCallback PROVE Fits(e, m_cbFunc)
    <3>1. e.at = "returned"
      BY <2>3, <2>7
    <3> QED
      BY <3>1, <2>4, <2>5, <2>7
  <2>8. ASSUME m_cbFunc # NoCallback PROVE Fits(e, m_cbFunc)
    <3>1. e.at = "call" /\ m_cbFunc \in e.since \ {NoCallback}
      BY <2>3, <2>4, <2>8
    <3> QED
      BY <3>1, <2>4, <2>5
  <2>6. log' = [log EXCEPT ![t] = e] /\ UNCHANGED m_cbFunc
    BY <2>1, <1>8, <1>1 DEF Tests
  <2>9. Fits(e, m_cbFunc)
    BY <2>7, <2>8
  <2> HIDE DEF Fits
  <2> QED
    BY <2>9, <2>6, <1>6
<1>9. ASSUME NEW t \in Loggers, Calls(t)
      PROVE  m_cbFunc' \in Functions /\ log' \in [Loggers -> LogEntry]
             /\ \A u \in Loggers : Fits(log'[u], m_cbFunc')
  <2>1. PICK e : e = [log[t] EXCEPT !.at = IF m_cbFunc = NoCallback THEN "crashed" ELSE "returned",
                                    !.to = m_cbFunc]
    OBVIOUS
  <2>2. log[t] \in Under /\ log[t].at = "call"
    BY <1>1, <1>3, <1>9 DEF Calls
  <2>3. /\ e \in Under /\ e.since = log[t].since /\ e.to = m_cbFunc
        /\ e.at = IF m_cbFunc = NoCallback THEN "crashed" ELSE "returned"
    BY <2>1, <2>2, <1>1
  <2>4. m_cbFunc \in e.since /\ e.since \ {NoCallback} # {}
    BY <2>2, <2>3, <1>1
  <2>5. Fits(e, m_cbFunc)
    BY <2>3, <2>4, <1>4
  <2>6. log' = [log EXCEPT ![t] = e] /\ UNCHANGED m_cbFunc
    BY <2>1, <1>9, <1>1 DEF Calls
  <2> HIDE DEF Fits
  <2> QED
    BY <2>5, <2>6, <1>6
<1>10. CASE UNCHANGED callbackVars
  BY <1>10, <1>1 DEF callbackVars
<1> HIDE DEF Fits, Functions
<1>11. CASE \E t \in Loggers : \/ Fail(t) \/ Warn(t) \/ Info(t) \/ Trace(t) \/ Debug(t)
                               \/ Debug1(t) \/ Debug2(t) \/ Debug3(t) \/ Debug4(t) \/ Debug5(t)
  <2>1. \E t \in Loggers, name \in Calling, emLev \in Level : Message(t, name, emLev)
    BY <1>11 DEF Calling, Level, Fail, Warn, Info, Trace, Debug, Debug1, Debug2, Debug3, Debug4,
                 Debug5
  <2> QED
    BY <2>1, <1>7
<1> QED
  BY <1>5, <1>8, <1>9, <1>10, <1>11 DEF CallbackNext, Functions

LEMMA CallbacksSafe == CallbackSpec => []CallbackSafe
<1>1. CallbackInit => CallbackInv
  BY DEF CallbackInit, CallbackInv, CallbackSafe, LogEntry
<1>2. CallbackInv => CallbackSafe
  BY DEF CallbackInv
<1> QED
  BY <1>1, <1>2, CallbackStep, PTL DEF CallbackSpec

-----------------------------------------------------------------------------
\* The calls of FileHelpers by their kind; one of a kind stays of it.
IdleCall == [at : {"idle", "NULL", "refused"}, result : {FALSE}]
PathCall == [at : {"access", "mkdir", "returned", "refused"}, result : BOOLEAN, i : 1 .. Depth,
             kind : {"directory", "locked"}]
MapCall ==
    [at : {"lseek", "ftruncate", "mmap", "memset", "mapped", "MAP_FAILED", "crashed", "wrote",
           "unmapped"},
     result : {FALSE}, length : Lengths, len : Int, bCanInit : BOOLEAN, near : SUBSET Callers,
     short : BOOLEAN]
Contents == FilePaths \cup {"part", None}
FileCall == [at : {"delete", "copy", "move", "rename", "returned", "refused"}, result : BOOLEAN,
             from : FilePaths, to : FilePaths, seen : Contents]

FileTypeOK ==
    /\ entry \in [1 .. Depth -> {None, "directory", "locked", "file"}]
    /\ madeBy \in [1 .. Depth -> Callers \cup {None}]
    /\ size \in Int
    /\ unit \in [Units -> Callers \cup {"zero"}]
    /\ file \in [FilePaths -> Contents]
    /\ call \in [Callers -> IdleCall \cup PathCall \cup MapCall \cup FileCall]

LEMMA CallKinds ==
    /\ \A r \in IdleCall : r.at \in {"idle", "NULL", "refused"} /\ "kind" \notin DOMAIN r /\ "seen" \notin DOMAIN r
                           /\ "near" \notin DOMAIN r
    /\ \A r \in PathCall : "kind" \in DOMAIN r /\ "seen" \notin DOMAIN r /\ "near" \notin DOMAIN r
    /\ \A r \in MapCall : "kind" \notin DOMAIN r /\ "seen" \notin DOMAIN r /\ "near" \in DOMAIN r
    /\ \A r \in FileCall : "kind" \notin DOMAIN r /\ "seen" \in DOMAIN r /\ "near" \notin DOMAIN r
BY DEF IdleCall, PathCall, MapCall, FileCall

\* A call that is under way has its kind.
LEMMA KindAt ==
    ASSUME FileTypeOK, NEW c \in Callers
    PROVE  /\ At_(c) = "idle" => call[c] \in IdleCall
           /\ At_(c) \in {"access", "mkdir"} => call[c] \in PathCall
           /\ At_(c) \in {"lseek", "ftruncate", "mmap", "memset", "mapped", "MAP_FAILED",
                          "crashed", "wrote", "unmapped"} => call[c] \in MapCall
           /\ At_(c) \in Operations => call[c] \in FileCall
BY DEF FileTypeOK, At_, IdleCall, PathCall, MapCall, FileCall, Operations

-----------------------------------------------------------------------------
\* createDirectory.  What is not a directory has nothing below it.
NothingBelow == \A i \in 1 .. Depth - 1 : entry[i] # "directory" => entry[i + 1] = None

\* What a call knows of the prefixes it has gone past.
PathFits(c) ==
    /\ At_(c) \in {"access", "mkdir"} => \A j \in 1 .. call[c].i - 1 : entry[j] # None
    /\ At_(c) = "mkdir" => entry[call[c].i] = None \/ madeBy[call[c].i] \in Callers \ {c}
    /\ At_(c) = "returned" =>
          IF call[c].result
          THEN \A j \in 1 .. Depth : entry[j] # None /\ (j = Depth \/ entry[j] # "file")
          ELSE \/ \E j \in 1 .. call[c].i - 1 : entry[j] \in {"file", "locked"}
               \/ madeBy[call[c].i] \in Callers \ {c}

PathInv == NothingBelow /\ \A c \in Callers : call[c] \in PathCall => PathFits(c)

PathStep(c) == CreateDirectory(c) \/ FScreateDirctory(c) \/ Access(c) \/ MkDir(c)

\* The calls that end before they begin.
NeverBegun(c) == PathTooLong(c) \/ OpenFails(c)

\* A step of createDirectory: what changes, beside the entries.
LEMMA PathTypes ==
    ASSUME FileTypeOK, NEW c \in Callers, PathStep(c)
    PROVE  /\ call[c] \in IdleCall \cup PathCall
           /\ UNCHANGED <<size, unit, file>>
           /\ \E r \in PathCall : call' = [call EXCEPT ![c] = r]
           /\ entry' \in [1 .. Depth -> {None, "directory", "locked", "file"}]
           /\ madeBy' \in [1 .. Depth -> Callers \cup {None}]
<1> USE FileAssumption
<1>1. ASSUME NEW kind \in {"directory", "locked"}, CreatesPath(c, kind)
      PROVE  /\ call[c] \in IdleCall
             /\ UNCHANGED <<entry, madeBy, size, unit, file>>
             /\ \E r \in PathCall : call' = [call EXCEPT ![c] = r]
  <2>1. [at |-> "access", result |-> FALSE, i |-> 1, kind |-> kind] \in PathCall
    BY DEF PathCall
  <2> QED
    BY <1>1, <2>1, KindAt DEF CreatesPath
<1>2. ASSUME call[c] \in PathCall, NEW result \in BOOLEAN, Answers(c, result)
      PROVE  \E r \in PathCall : call' = [call EXCEPT ![c] = r]
  <2>1. PICK r : r = [call[c] EXCEPT !.at = "returned", !.result = result]
    OBVIOUS
  <2>2. r \in PathCall
    BY <2>1, <1>2 DEF PathCall
  <2>3. call' = [call EXCEPT ![c] = r]
    BY <1>2, <2>1 DEF Answers, FileTypeOK
  <2> QED
    BY <2>2, <2>3
<1>3. ASSUME call[c] \in PathCall, Proceeds(c, "mkdir")
      PROVE  \E r \in PathCall : call' = [call EXCEPT ![c] = r]
  <2>1. PICK r : r = [call[c] EXCEPT !.at = "mkdir"]
    OBVIOUS
  <2>2. r \in PathCall
    BY <2>1, <1>3 DEF PathCall
  <2>3. call' = [call EXCEPT ![c] = r]
    BY <1>3, <2>1 DEF Proceeds, FileTypeOK
  <2> QED
    BY <2>2, <2>3
<1>4. ASSUME call[c] \in PathCall, NextPrefix(c)
      PROVE  \E r \in PathCall : call' = [call EXCEPT ![c] = r]
  <2>1. PICK r : r = [call[c] EXCEPT !.at = "access", !.i = @ + 1]
    OBVIOUS
  <2>2. call[c].i # Depth => r \in PathCall
    <3>1. r = [at |-> "access", result |-> call[c].result, i |-> call[c].i + 1,
               kind |-> call[c].kind]
      BY <2>1, <1>4 DEF PathCall
    <3>2. call[c].i \in 1 .. Depth /\ call[c].result \in BOOLEAN
          /\ call[c].kind \in {"directory", "locked"}
      BY <1>4 DEF PathCall
    <3>3. call[c].i # Depth => call[c].i + 1 \in 1 .. Depth
      BY <3>2
    <3> QED
      BY <3>1, <3>2, <3>3 DEF PathCall
  <2>3. call[c].i # Depth => call' = [call EXCEPT ![c] = r]
    BY <1>4, <2>1 DEF NextPrefix, FileTypeOK
  <2>4. call[c].i = Depth => Answers(c, TRUE)
    BY <1>4 DEF NextPrefix
  <2> QED
    BY <2>2, <2>3, <2>4, <1>2, <1>4
<1>8. ASSUME call[c] \in PathCall, Refused(c)
      PROVE  \E r \in PathCall : call' = [call EXCEPT ![c] = r]
  <2>1. PICK r : r = [call[c] EXCEPT !.at = "refused", !.result = FALSE]
    OBVIOUS
  <2>2. r \in PathCall
    BY <2>1, <1>8 DEF PathCall
  <2>3. call' = [call EXCEPT ![c] = r]
    BY <1>8, <2>1 DEF Refused, FileTypeOK
  <2> QED
    BY <2>2, <2>3
<1>5. CASE CreateDirectory(c) \/ FScreateDirctory(c)
  <2>1. \E kind \in {"directory", "locked"} : CreatesPath(c, kind)
    BY <1>5 DEF CreateDirectory, FScreateDirctory
  <2> QED
    BY <2>1, <1>1 DEF FileTypeOK
<1>6. CASE Access(c)
  <2>1. call[c] \in PathCall
    BY <1>6, KindAt DEF Access
  <2>2. NextPrefix(c) \/ Answers(c, FALSE) \/ Proceeds(c, "mkdir") \/ Refused(c)
    BY <1>6 DEF Access
  <2> QED
    BY <2>1, <2>2, <1>2, <1>3, <1>4, <1>6, <1>8 DEF Access, FileTypeOK
<1>7. CASE MkDir(c)
  <2>1. call[c] \in PathCall
    BY <1>7, KindAt DEF MkDir
  <2>2. NextPrefix(c) \/ Answers(c, FALSE) \/ Refused(c)
    BY <1>7 DEF MkDir
  <2>3. /\ entry' \in [1 .. Depth -> {None, "directory", "locked", "file"}]
        /\ madeBy' \in [1 .. Depth -> Callers \cup {None}]
    <3>1. call[c].kind \in {"directory", "locked"} /\ call[c].i \in 1 .. Depth
      BY <2>1 DEF PathCall
    <3>2. \/ UNCHANGED <<entry, madeBy>>
          \/ /\ entry' = [entry EXCEPT ![call[c].i] = call[c].kind]
             /\ madeBy' = [madeBy EXCEPT ![call[c].i] = c]
      BY <1>7 DEF MkDir
    <3> QED
      BY <3>1, <3>2 DEF FileTypeOK
  <2> QED
    BY <2>1, <2>2, <2>3, <1>2, <1>4, <1>7, <1>8 DEF MkDir
<1> QED
  BY <1>5, <1>6, <1>7 DEF PathStep

LEMMA PathKept ==
    ASSUME FileTypeOK, PathInv, NEW c \in Callers, PathStep(c) PROVE PathInv'
<1> USE FileAssumption
<1>1. PICK r \in PathCall : call' = [call EXCEPT ![c] = r]
  BY PathTypes
<1>2. call'[c] = r /\ \A d \in Callers \ {c} : call'[d] = call[d]
  BY <1>1 DEF FileTypeOK
<1>3. call[c] \in PathCall => PathFits(c)
  BY DEF PathInv
\* What is there stays, and what is new was made by c.
<1>4. /\ \A j \in 1 .. Depth : entry[j] # None => entry'[j] = entry[j]
      /\ \A j \in 1 .. Depth : entry'[j] = entry[j] \/ madeBy'[j] = c
      /\ \A j \in 1 .. Depth : madeBy'[j] = madeBy[j] \/ madeBy'[j] = c
  <2>1. UNCHANGED <<entry, madeBy>> \/ MkDir(c)
    BY DEF PathStep, CreateDirectory, FScreateDirctory, CreatesPath, Access
  <2>2. CASE MkDir(c)
    <3>1. \/ UNCHANGED <<entry, madeBy>>
          \/ /\ entry[call[c].i] = None
             /\ entry' = [entry EXCEPT ![call[c].i] = call[c].kind]
             /\ madeBy' = [madeBy EXCEPT ![call[c].i] = c]
      BY <2>2 DEF MkDir
    <3> QED
      BY <3>1 DEF FileTypeOK
  <2> QED
    BY <2>1, <2>2
<1>5. NothingBelow'
  <2>1. UNCHANGED entry \/ MkDir(c)
    BY DEF PathStep, CreateDirectory, FScreateDirctory, CreatesPath, Access
  <2>2. CASE MkDir(c)
    <3>1. call[c].i \in 1 .. Depth
      BY <2>2, KindAt DEF MkDir, PathCall
    <3>2. \/ UNCHANGED entry
          \/ /\ entry[call[c].i] = None
             /\ call[c].i > 1 => entry[call[c].i - 1] = "directory"
             /\ entry' = [entry EXCEPT ![call[c].i] = call[c].kind]
      BY <2>2 DEF MkDir
    <3>3. NothingBelow
      BY DEF PathInv
    <3>4. CASE UNCHANGED entry
      BY <3>3, <3>4 DEF NothingBelow
    <3>5. CASE ~UNCHANGED entry
      <4>1. SUFFICES ASSUME NEW j \in 1 .. Depth - 1, entry'[j] # "directory"
                     PROVE  entry'[j + 1] = None
        BY DEF NothingBelow
      <4>2. j \in 1 .. Depth /\ j + 1 \in 1 .. Depth
        BY <4>1
      <4>3. entry[j] # "directory"
        BY <4>1, <4>2, <1>4, <3>3, <3>5, <3>2 DEF FileTypeOK, None
      <4>4. entry[j + 1] = None
        BY <4>3, <3>3 DEF NothingBelow
      <4>5. j + 1 # call[c].i
        BY <3>2, <3>5, <4>3, <3>1
      <4> QED
        BY <4>4, <4>5, <4>2, <3>2, <3>5 DEF FileTypeOK
    <3> QED
      BY <3>4, <3>5
  <2>3. CASE UNCHANGED entry
    BY <2>3 DEF PathInv, NothingBelow
  <2> QED
    BY <2>1, <2>2, <2>3
<1>6. ASSUME NEW d \in Callers \ {c}, call'[d] \in PathCall PROVE PathFits(d)'
  <2>1. call'[d] = call[d] /\ At_(d)' = At_(d) /\ PathFits(d)
    BY <1>2, <1>6 DEF PathInv, At_
  <2>2. call[d].i \in 1 .. Depth
    BY <2>1, <1>6 DEF PathCall
  <2>3. At_(d) \in {"access", "mkdir"} => \A j \in 1 .. call[d].i - 1 : entry'[j] # None
    BY <2>1, <2>2, <1>4 DEF PathFits
  <2>4. madeBy[call[d].i] \in Callers \ {d} => madeBy'[call[d].i] \in Callers \ {d}
    BY <2>2, <1>4
  <2>5. At_(d) = "mkdir" => entry'[call[d].i] = None \/ madeBy'[call[d].i] \in Callers \ {d}
    BY <2>1, <2>2, <2>4, <1>4 DEF PathFits
  <2>6. At_(d) = "returned" /\ call[d].result =>
            \A j \in 1 .. Depth : entry'[j] # None /\ (j = Depth \/ entry'[j] # "file")
    BY <2>1, <1>4 DEF PathFits
  <2>7. \A j \in 1 .. call[d].i - 1 : entry[j] \in {"file", "locked"} => entry'[j] = entry[j]
    BY <2>2, <1>4 DEF None
  <2>8. At_(d) = "returned" /\ ~call[d].result =>
            \/ \E j \in 1 .. call[d].i - 1 : entry'[j] \in {"file", "locked"}
            \/ madeBy'[call[d].i] \in Callers \ {d}
    BY <2>1, <2>4, <2>7 DEF PathFits
  <2> QED
    BY <2>1, <2>3, <2>5, <2>6, <2>8 DEF PathFits
<1>7. At_(c)' = r.at /\ call'[c] = r
  BY <1>2 DEF At_
<1>8. ASSUME call[c] \in PathCall, NextPrefix(c), \A j \in 1 .. call[c].i : entry'[j] # None
      PROVE  PathFits(c)'
  <2>1. call[c].i \in 1 .. Depth
    BY <1>8 DEF PathCall
  <2>2. CASE call[c].i = Depth
    <3>1. call'[c] = [call[c] EXCEPT !.at = "returned", !.result = TRUE]
      BY <2>2, <1>8 DEF NextPrefix, Answers, FileTypeOK
    <3>2. r.at = "returned" /\ r.result
      BY <3>1, <1>7, <1>8 DEF PathCall
    <3>3. \A j \in 1 .. Depth : entry'[j] # None
      BY <2>2, <1>8
    <3>4. ASSUME NEW j \in 1 .. Depth, j # Depth PROVE entry'[j] # "file"
      <4>1. j \in 1 .. Depth - 1 /\ j + 1 \in 1 .. Depth
        BY <3>4
      <4>2. entry'[j] # "directory" => entry'[j + 1] = None
        BY <4>1, <1>5 DEF NothingBelow
      <4> QED
        BY <4>1, <4>2, <3>3
    <3> QED
      BY <3>2, <3>3, <3>4, <1>7 DEF PathFits
  <2>3. CASE call[c].i # Depth
    <3>1. call'[c] = [call[c] EXCEPT !.at = "access", !.i = @ + 1]
      BY <2>3, <1>8 DEF NextPrefix, FileTypeOK
    <3>2. r.at = "access" /\ r.i = call[c].i + 1
      BY <3>1, <1>7, <1>8 DEF PathCall
    <3>3. \A j \in 1 .. r.i - 1 : entry'[j] # None
      BY <3>2, <2>1, <1>8
    <3> QED
      BY <3>2, <3>3, <1>7 DEF PathFits
  <2> QED
    BY <2>2, <2>3
<1>9. ASSUME call[c] \in PathCall, Answers(c, FALSE),
             \/ \E j \in 1 .. call[c].i - 1 : entry'[j] \in {"file", "locked"}
             \/ madeBy'[call[c].i] \in Callers \ {c}
      PROVE  PathFits(c)'
  <2>1. call'[c] = [call[c] EXCEPT !.at = "returned", !.result = FALSE]
    BY <1>9 DEF Answers, FileTypeOK
  <2>2. r.at = "returned" /\ ~r.result /\ r.i = call[c].i
    BY <2>1, <1>7, <1>9 DEF PathCall
  <2> QED
    BY <2>2, <1>7, <1>9 DEF PathFits
<1>14. ASSUME call[c] \in PathCall, Refused(c) PROVE PathFits(c)'
  <2>1. call'[c] = [call[c] EXCEPT !.at = "refused", !.result = FALSE]
    BY <1>14 DEF Refused, FileTypeOK
  <2>2. r.at = "refused"
    BY <2>1, <1>7, <1>14 DEF PathCall
  <2> QED
    BY <2>2, <1>7 DEF PathFits
<1>10. ASSUME CreateDirectory(c) \/ FScreateDirctory(c) PROVE PathFits(c)'
  <2>1. PICK kind \in {"directory", "locked"} : CreatesPath(c, kind)
    BY <1>10 DEF CreateDirectory, FScreateDirctory
  <2>2. r.at = "access" /\ r.i = 1
    BY <2>1, <1>7 DEF CreatesPath, FileTypeOK
  <2> QED
    BY <2>2, <1>7 DEF PathFits
<1>11. ASSUME Access(c) PROVE PathFits(c)'
  <2>1. call[c] \in PathCall /\ At_(c) = "access"
    BY <1>11, KindAt DEF Access
  <2>2. call[c].i \in 1 .. Depth /\ UNCHANGED <<entry, madeBy>>
    BY <2>1, <1>11 DEF PathCall, Access
  <2>3. \A j \in 1 .. call[c].i - 1 : entry[j] # None
    BY <2>1, <1>3 DEF PathFits
  <2>4. CASE entry[call[c].i] # None /\ NextPrefix(c)
    BY <2>1, <2>2, <2>3, <2>4, <1>8
  <2>5. CASE Barred(call[c].i) /\ Answers(c, FALSE)
    BY <2>1, <2>2, <2>5, <1>9 DEF Barred
  <2>6. CASE entry[call[c].i] = None /\ Proceeds(c, "mkdir")
    <3>1. call'[c] = [call[c] EXCEPT !.at = "mkdir"]
      BY <2>6 DEF Proceeds, FileTypeOK
    <3>2. r.at = "mkdir" /\ r.i = call[c].i
      BY <3>1, <2>1, <1>7 DEF PathCall
    <3> QED
      BY <3>2, <2>2, <2>3, <2>6, <1>7 DEF PathFits
  <2> QED
    BY <2>1, <2>4, <2>5, <2>6, <1>11, <1>14 DEF Access
<1>12. ASSUME MkDir(c) PROVE PathFits(c)'
  <2>1. call[c] \in PathCall /\ At_(c) = "mkdir"
    BY <1>12, KindAt DEF MkDir
  <2>2. call[c].i \in 1 .. Depth /\ call[c].kind # None
    BY <2>1 DEF PathCall, None
  <2>3. \A j \in 1 .. call[c].i - 1 : entry[j] # None
    BY <2>1, <1>3 DEF PathFits
  <2>4. CASE /\ entry' = [entry EXCEPT ![call[c].i] = call[c].kind]
             /\ NextPrefix(c)
    BY <2>1, <2>2, <2>3, <2>4, <1>8 DEF FileTypeOK
  <2>5. CASE /\ UNCHANGED <<entry, madeBy>> /\ Answers(c, FALSE)
             /\ ~(entry[call[c].i] = None
                  /\ (call[c].i > 1 => entry[call[c].i - 1] = "directory"))
    <3>1. CASE entry[call[c].i] # None
      <4>1. madeBy[call[c].i] \in Callers \ {c}
        BY <3>1, <2>1, <1>3 DEF PathFits
      <4> QED
        BY <4>1, <2>1, <2>5, <1>9
    <3>2. CASE call[c].i > 1 /\ entry[call[c].i - 1] # "directory"
      <4>1. call[c].i - 1 \in 1 .. call[c].i - 1 /\ call[c].i - 1 \in 1 .. Depth
        BY <3>2, <2>2
      <4>2. entry[call[c].i - 1] \in {"file", "locked"}
        BY <4>1, <3>2, <2>3 DEF FileTypeOK
      <4> QED
        BY <4>1, <4>2, <2>1, <2>5, <1>9
    <3> QED
      BY <3>1, <3>2, <2>5
  <2> QED
    BY <2>1, <2>4, <2>5, <1>12, <1>14 DEF MkDir
<1>13. PathFits(c)'
  BY <1>10, <1>11, <1>12 DEF PathStep
<1> QED
  BY <1>2, <1>5, <1>6, <1>13 DEF PathInv

-----------------------------------------------------------------------------
\* MapMemFile.  c could not make the file long enough, or a call that maps less, or
\* one that clears the file, was open at some time while c's was.
Shorter(c) == call[c].short \/ \E d \in call[c].near : call[d].length < call[c].length
Cleared(c) == \E d \in call[c].near : call[d].bCanInit

Mapping == {"mmap", "memset", "mapped", "wrote"}

\* Of two calls that are open at once each knows the other; of one that clears
\* the file every other one does.
NearKnown ==
    /\ \A c \in Callers : call[c] \in MapCall =>
          size >= 0 /\ \A d \in call[c].near : call[d] \in MapCall
    /\ \A c, d \in Callers : c # d /\ call[c] \in MapCall /\ d \in Opening =>
          (c \in Opening \/ call[d].bCanInit => d \in call[c].near)

\* The file is long enough for a mapping and stays so: who would still cut it
\* off measured it when it was as long as that, and so finds it long enough.
MapFits(c) ==
    /\ At_(c) = "ftruncate" =>
          call[c].len < call[c].length \/ call[c].length <= size \/ Shorter(c)
    /\ At_(c) \in Mapping => call[c].length <= size \/ Shorter(c)
    /\ At_(c) \in Mapping =>
          \A d \in Callers \ call[c].near :
             d # c /\ At_(d) = "ftruncate" =>
                Shorter(c) \/ call[d].len >= call[d].length \/ call[d].length >= call[c].length
    /\ At_(c) = "wrote" =>
          /\ call[c].len \in Units /\ call[c].len <= call[c].length
          /\ unit[call[c].len] = c \/ Shorter(c) \/ Cleared(c)
    /\ At_(c) = "memset" => call[c].bCanInit

MapInv ==
    /\ size >= -1
    /\ NearKnown
    /\ \A c \in Callers : call[c] \in MapCall => MapFits(c)

MapMove(c) == \/ LSeek(c) \/ FTruncate(c) \/ MMap(c) \/ MemSet(c)
              \/ (\E u \in Units : Writes(c, u)) \/ UnMapMemFile(c) \/ Dies(c)

\* What no step changes of a call that maps.
Stay == \A d \in Callers : call[d] \in MapCall =>
            /\ call'[d] \in MapCall
            /\ call'[d].length = call[d].length /\ call'[d].bCanInit = call[d].bCanInit
            /\ call[d].near \subseteq call'[d].near
            /\ call[d].short => call'[d].short

\* A call that goes on: where it may go, and what it keeps.
Moves(c, r) ==
    /\ call' = [call EXCEPT ![c] = r] /\ r \in MapCall
    /\ r.length = call[c].length /\ r.bCanInit = call[c].bCanInit /\ r.near = call[c].near
    /\ call[c].short => r.short
    /\ At_(c) \notin {"lseek", "mapped"} => r.len = call[c].len
    /\ r.at = "memset" => r.bCanInit
    /\ \/ At_(c) = "lseek" /\ r.at \in {"ftruncate", "crashed"}
       \/ At_(c) = "ftruncate" /\ r.at \in {"mmap", "crashed"}
       \/ At_(c) = "mmap" /\ r.at \in {"memset", "mapped", "crashed", "MAP_FAILED"}
       \/ At_(c) = "memset" /\ r.at \in {"mapped", "crashed"}
       \/ At_(c) = "mapped" /\ r.at \in {"wrote", "unmapped"}
       \/ At_(c) = "wrote" /\ r.at = "unmapped"

LEMMA LengthsCount == \A n \in Lengths : n \in Int /\ n \in Nat /\ n > 0
BY FileAssumption

LEMMA Proceeding ==
    ASSUME FileTypeOK, NEW c \in Callers, call[c] \in MapCall,
           NEW step \in {"mmap", "memset", "mapped", "MAP_FAILED", "crashed", "unmapped"},
           Proceeds(c, step)
    PROVE  \E r \in MapCall :
              /\ call' = [call EXCEPT ![c] = r]
              /\ r.at = step /\ r.length = call[c].length /\ r.bCanInit = call[c].bCanInit
              /\ r.near = call[c].near /\ r.len = call[c].len /\ r.short = call[c].short
<1>1. PICK r : r = [call[c] EXCEPT !.at = step]
  OBVIOUS
<1>2. r \in MapCall /\ r.at = step /\ r.length = call[c].length /\ r.bCanInit = call[c].bCanInit
      /\ r.near = call[c].near /\ r.len = call[c].len /\ r.short = call[c].short
  BY <1>1 DEF MapCall
<1>3. call' = [call EXCEPT ![c] = r]
  BY <1>1 DEF Proceeds, FileTypeOK
<1> QED
  BY <1>2, <1>3

LEMMA MapTypes ==
    ASSUME FileTypeOK, NEW c \in Callers, MapMove(c)
    PROVE  /\ call[c] \in MapCall
           /\ UNCHANGED <<entry, madeBy, file>>
           /\ size' \in Int /\ unit' \in [Units -> Callers \cup {"zero"}]
           /\ \E r : Moves(c, r)
<1> USE FileAssumption
<1>1. CASE LSeek(c)
  <2>1. call[c] \in MapCall /\ At_(c) = "lseek"
    BY <1>1, KindAt DEF LSeek
  <2>2. PICK r : r = [call[c] EXCEPT !.at = "ftruncate", !.len = size]
    OBVIOUS
  <2>3. r \in MapCall /\ r.at = "ftruncate" /\ r.length = call[c].length
        /\ r.bCanInit = call[c].bCanInit /\ r.near = call[c].near /\ r.short = call[c].short
    BY <2>1, <2>2 DEF MapCall, FileTypeOK
  <2>4. call' = [call EXCEPT ![c] = r]
    BY <1>1, <2>2 DEF LSeek, FileTypeOK
  <2>5. Moves(c, r)
    BY <2>1, <2>3, <2>4 DEF Moves
  <2> QED
    BY <2>1, <2>5, <1>1 DEF LSeek, FileTypeOK
<1>2. CASE \E u \in Units : Writes(c, u)
  <2>1. PICK u \in Units : Writes(c, u)
    BY <1>2
  <2>2. call[c] \in MapCall /\ At_(c) = "mapped"
    BY <2>1, KindAt DEF Writes
  <2>3. PICK r : r = [call[c] EXCEPT !.at = "wrote", !.len = u]
    OBVIOUS
  <2>4. u \in Int
    BY DEF Units
  <2>5. r \in MapCall /\ r.at = "wrote" /\ r.length = call[c].length
        /\ r.bCanInit = call[c].bCanInit /\ r.near = call[c].near /\ r.short = call[c].short
    BY <2>2, <2>3, <2>4 DEF MapCall
  <2>6. call' = [call EXCEPT ![c] = r]
    BY <2>1, <2>3 DEF Writes, FileTypeOK
  <2>7. Moves(c, r)
    BY <2>2, <2>5, <2>6 DEF Moves
  <2> QED
    BY <2>2, <2>7, <2>1 DEF Writes, FileTypeOK
<1>4. CASE FTruncate(c) /\ ~Proceeds(c, "mmap")
  <2>1. call[c] \in MapCall /\ At_(c) = "ftruncate"
    BY <1>4, KindAt DEF FTruncate
  <2>2. PICK r : r = [call[c] EXCEPT !.at = "mmap", !.short = TRUE]
    OBVIOUS
  <2>3. r \in MapCall /\ r.at = "mmap" /\ r.length = call[c].length /\ r.len = call[c].len
        /\ r.bCanInit = call[c].bCanInit /\ r.near = call[c].near /\ r.short
    BY <2>1, <2>2 DEF MapCall
  <2>4. call' = [call EXCEPT ![c] = r]
    BY <1>4, <2>2 DEF FTruncate, FileTypeOK
  <2>5. Moves(c, r)
    BY <2>1, <2>3, <2>4 DEF Moves
  <2> QED
    BY <2>1, <2>5, <1>4 DEF FTruncate, FileTypeOK
<1>3. CASE \/ FTruncate(c) /\ Proceeds(c, "mmap")
           \/ MMap(c) \/ MemSet(c) \/ UnMapMemFile(c) \/ Dies(c)
  <2>1. call[c] \in MapCall
    BY <1>3, KindAt DEF FTruncate, MMap, MemSet, UnMapMemFile, Dies, Opening
  <2>2. PICK step \in {"mmap", "memset", "mapped", "MAP_FAILED", "crashed", "unmapped"} :
            /\ Proceeds(c, step)
            /\ step = "memset" => call[c].bCanInit
            /\ \/ At_(c) = "lseek" /\ step = "crashed"
               \/ At_(c) = "ftruncate" /\ step \in {"mmap", "crashed"}
               \/ At_(c) = "mmap" /\ step \in {"memset", "mapped", "crashed", "MAP_FAILED"}
               \/ At_(c) = "memset" /\ step \in {"mapped", "crashed"}
               \/ At_(c) = "mapped" /\ step = "unmapped"
               \/ At_(c) = "wrote" /\ step = "unmapped"
    BY <1>3 DEF FTruncate, MMap, MemSet, UnMapMemFile, Dies, Opening
  <2>3. PICK r \in MapCall :
              /\ call' = [call EXCEPT ![c] = r]
              /\ r.at = step /\ r.length = call[c].length /\ r.bCanInit = call[c].bCanInit
              /\ r.near = call[c].near /\ r.len = call[c].len /\ r.short = call[c].short
    BY <2>1, <2>2, Proceeding
  <2>8. \/ At_(c) = "lseek" /\ r.at \in {"ftruncate", "crashed"}
        \/ At_(c) = "ftruncate" /\ r.at \in {"mmap", "crashed"}
        \/ At_(c) = "mmap" /\ r.at \in {"memset", "mapped", "crashed", "MAP_FAILED"}
        \/ At_(c) = "memset" /\ r.at \in {"mapped", "crashed"}
        \/ At_(c) = "mapped" /\ r.at \in {"wrote", "unmapped"}
        \/ At_(c) = "wrote" /\ r.at = "unmapped"
    BY <2>2, <2>3
  <2>10. r.at = "memset" => r.bCanInit
    BY <2>2, <2>3
  <2>4. Moves(c, r)
    BY <2>3, <2>8, <2>10 DEF Moves
  <2>9. call[c].length \in Lengths
    BY <2>1 DEF MapCall
  <2>5. call[c].length \in Int
    BY <2>9, LengthsCount, Zenon
  <2>6. size' \in Int /\ unit' \in [Units -> Callers \cup {"zero"}]
    BY <1>3, <2>5 DEF FTruncate, MMap, MemSet, UnMapMemFile, Dies, FileTypeOK
  <2>7. UNCHANGED <<entry, madeBy, file>>
    BY <1>3 DEF FTruncate, MMap, MemSet, UnMapMemFile, Dies
  <2> QED
    BY <2>1, <2>4, <2>6, <2>7
<1> QED
  BY <1>1, <1>2, <1>3, <1>4 DEF MapMove

LEMMA OpenTypes ==
    ASSUME FileTypeOK, NEW c \in Callers, Open_(c)
    PROVE  /\ call[c] \in IdleCall
           /\ UNCHANGED <<entry, madeBy, unit, file>>
           /\ size' = IF size = -1 THEN 0 ELSE size
           /\ DOMAIN call' = Callers /\ call' = [d \in Callers |-> call'[d]]
           /\ call'[c] \in MapCall
           /\ call'[c].at = IF size = -1 THEN "ftruncate" ELSE "lseek"
           /\ call'[c].bCanInit = (size = -1) /\ call'[c].near = Opening
           /\ call'[c].len = 0 /\ call'[c].length > 0
           /\ \A d \in Opening : /\ call'[d] \in MapCall /\ call'[d].at = call[d].at
                                 /\ call'[d].length = call[d].length /\ call'[d].len = call[d].len
                                 /\ call'[d].bCanInit = call[d].bCanInit
                                 /\ call'[d].near = call[d].near \cup {c}
                                 /\ call'[d].short = call[d].short
           /\ \A d \in Callers \ (Opening \cup {c}) : call'[d] = call[d]
<1> USE FileAssumption
<1>1. c \notin Opening /\ call[c] \in IdleCall /\ Opening \subseteq Callers
  BY KindAt DEF Open_, Opening
<1>2. PICK n \in Lengths :
          call' = [d \in Callers |->
              IF d = c THEN [at |-> IF size = -1 THEN "ftruncate" ELSE "lseek", result |-> FALSE,
                             length |-> n, len |-> 0, bCanInit |-> size = -1, near |-> Opening,
                             short |-> FALSE]
              ELSE IF d \in Opening THEN [call[d] EXCEPT !.near = @ \cup {c}]
              ELSE call[d]]
  BY DEF Open_
<1>3. PICK r : r = [at |-> IF size = -1 THEN "ftruncate" ELSE "lseek", result |-> FALSE,
                    length |-> n, len |-> 0, bCanInit |-> size = -1, near |-> Opening,
                    short |-> FALSE]
  OBVIOUS
<1>4. r \in MapCall /\ r.at = (IF size = -1 THEN "ftruncate" ELSE "lseek")
      /\ r.bCanInit = (size = -1) /\ r.near = Opening /\ r.len = 0 /\ r.length > 0
  <2>1. r.at \in {"ftruncate", "lseek"} /\ r.result = FALSE /\ r.length = n /\ r.len = 0
        /\ r.bCanInit = (size = -1) /\ r.near = Opening
    BY <1>3
  <2>2. r \in MapCall
    BY <2>1, <1>1, <1>3 DEF MapCall
  <2> QED
    BY <2>1, <2>2, <1>3
<1>5. call'[c] = r
  BY <1>2, <1>3
<1>6. ASSUME NEW d \in Opening
      PROVE  /\ call'[d] \in MapCall /\ call'[d].at = call[d].at
             /\ call'[d].length = call[d].length /\ call'[d].len = call[d].len
             /\ call'[d].bCanInit = call[d].bCanInit
             /\ call'[d].near = call[d].near \cup {c} /\ call'[d].short = call[d].short
  <2>1. PICK e : e = [call[d] EXCEPT !.near = @ \cup {c}]
    OBVIOUS
  <2>2. call'[d] = e
    BY <1>1, <1>2, <2>1
  <2>3. call[d] \in MapCall
    BY <1>1, KindAt DEF Opening
  <2>4. e.at = call[d].at /\ e.length = call[d].length /\ e.len = call[d].len
        /\ e.bCanInit = call[d].bCanInit /\ e.near = call[d].near \cup {c}
        /\ e.short = call[d].short
    BY <2>1, <2>3 DEF MapCall
  <2>5. e \in MapCall
    BY <2>1, <2>3 DEF MapCall
  <2> QED
    BY <2>2, <2>4, <2>5
<1>7. \A d \in Callers \ (Opening \cup {c}) : call'[d] = call[d]
  BY <1>2
<1>8. UNCHANGED <<entry, madeBy, unit, file>> /\ size' = IF size = -1 THEN 0 ELSE size
  BY DEF Open_
<1>9. DOMAIN call' = Callers /\ call' = [d \in Callers |-> call'[d]]
  BY <1>2
<1> QED
  BY <1>1, <1>4, <1>5, <1>6, <1>7, <1>8, <1>9

LEMMA NearStays ==
    ASSUME FileTypeOK, NearKnown, Stay, NEW c \in Callers, call[c] \in MapCall
    PROVE  /\ Shorter(c) => Shorter(c)'
           /\ Cleared(c) => Cleared(c)'
           /\ \A d \in call[c].near : d \in Callers /\ call'[d] \in MapCall
<1>1. call[c].near \subseteq Callers
  BY DEF MapCall
<1>2. ASSUME NEW d \in call[c].near
      PROVE  /\ d \in Callers /\ call'[d] \in MapCall /\ d \in call'[c].near
             /\ call'[d].length = call[d].length /\ call'[d].bCanInit = call[d].bCanInit
  BY <1>1, <1>2 DEF NearKnown, Stay
<1>3. call'[c].length = call[c].length /\ (call[c].short => call'[c].short)
  BY DEF Stay
<1> QED
  BY <1>2, <1>3 DEF Shorter, Cleared

LEMMA MoveStays ==
    ASSUME FileTypeOK, NEW c \in Callers, NEW r, call[c] \in MapCall, Moves(c, r)
    PROVE  /\ Stay /\ call'[c] = r /\ \A d \in Callers \ {c} : call'[d] = call[d]
           /\ Opening' \subseteq Opening
           /\ \A d \in Callers : call'[d] \in MapCall => call[d] \in MapCall
<1>1. call'[c] = r /\ \A d \in Callers \ {c} : call'[d] = call[d]
  BY DEF Moves, FileTypeOK
<1>2. Opening' \subseteq Opening
  BY <1>1 DEF Opening, Moves, At_
<1> QED
  BY <1>1, <1>2 DEF Moves, Stay

LEMMA MoveNear ==
    ASSUME FileTypeOK, MapInv, NEW c \in Callers, MapMove(c) PROVE NearKnown' /\ size' >= -1
<1>1. PICK r : Moves(c, r)
  BY MapTypes
<1>2. call[c] \in MapCall
  BY MapTypes
<1>3. /\ Stay /\ call'[c] = r /\ \A d \in Callers \ {c} : call'[d] = call[d]
      /\ Opening' \subseteq Opening
      /\ \A d \in Callers : call'[d] \in MapCall => call[d] \in MapCall
  BY <1>1, <1>2, MoveStays
<1>4. size >= 0 /\ size \in Int
  BY <1>2 DEF MapInv, NearKnown, FileTypeOK
<1>5. call[c].length \in Lengths
  BY <1>2 DEF MapCall
<1>6. size' >= 0 /\ size' \in Int
  <2>1. call[c].length \in Int /\ call[c].length > 0
    BY <1>5, LengthsCount, Zenon
  <2>2. size' = size \/ size' = call[c].length
    BY DEF MapMove, LSeek, FTruncate, MMap, MemSet, Writes, UnMapMemFile, Dies
  <2> QED
    BY <1>4, <2>1, <2>2
<1>7. \A d \in Callers : call'[d] \in MapCall => call'[d].near = call[d].near
  BY <1>1, <1>3 DEF Moves
<1>8. NearKnown
  BY DEF MapInv
<1>9. ASSUME NEW d \in Callers, call'[d] \in MapCall, NEW e \in call'[d].near
      PROVE  call'[e] \in MapCall
  <2>1. call[d] \in MapCall /\ e \in call[d].near
    BY <1>9, <1>3, <1>7
  <2> QED
    BY <2>1, <1>3, <1>8, NearStays
<1>10. ASSUME NEW d \in Callers, NEW e \in Callers, d # e, call'[d] \in MapCall, e \in Opening',
              d \in Opening' \/ call'[e].bCanInit
       PROVE  e \in call'[d].near
  <2>1. call[d] \in MapCall /\ e \in Opening
    BY <1>10, <1>3
  <2>2. call[e] \in MapCall
    BY <2>1, KindAt DEF Opening
  <2>3. d \in Opening \/ call[e].bCanInit
    BY <1>10, <1>3, <2>2 DEF Stay
  <2>4. e \in call[d].near
    BY <2>1, <2>3, <1>8, <1>10 DEF NearKnown
  <2> QED
    BY <2>4, <1>7, <1>10
<1>11. -1 \in Int /\ size' >= -1
  BY <1>6
<1> QED
  BY <1>6, <1>9, <1>10, <1>11 DEF NearKnown

\* Where a call has got to tells which step took it there.
LEMMA MoveIs ==
    ASSUME FileTypeOK, NEW c \in Callers, MapMove(c)
    PROVE  /\ call'[c].at = "ftruncate" => LSeek(c)
           /\ call'[c].at = "mmap" => FTruncate(c)
           /\ call'[c].at = "wrote" => \E u \in Units : Writes(c, u)
<1>1. call[c] \in MapCall
  BY MapTypes
<1>2. ASSUME NEW step \in {"mmap", "memset", "mapped", "MAP_FAILED", "crashed", "unmapped"},
             Proceeds(c, step)
      PROVE  call'[c].at = step
  <2>1. PICK r : call' = [call EXCEPT ![c] = r] /\ r.at = step
    BY <1>1, <1>2, Proceeding
  <2> QED
    BY <2>1 DEF FileTypeOK
<1>3. CASE LSeek(c)
  <2>1. call'[c].at = "ftruncate"
    BY <1>1, <1>3 DEF LSeek, FileTypeOK, MapCall
  <2> QED
    BY <2>1, <1>3
<1>4. CASE FTruncate(c)
  <2>1. call'[c].at = "mmap"
    <3>1. CASE Proceeds(c, "mmap")
      BY <1>2, <3>1
    <3>2. CASE ~Proceeds(c, "mmap")
      BY <1>1, <1>4, <3>2 DEF FTruncate, FileTypeOK, MapCall
    <3> QED
      BY <3>1, <3>2
  <2> QED
    BY <2>1, <1>4
<1>5. CASE \E u \in Units : Writes(c, u)
  <2>1. call'[c].at = "wrote"
    BY <1>1, <1>5 DEF Writes, FileTypeOK, MapCall
  <2> QED
    BY <2>1, <1>5
<1>6. CASE MMap(c) \/ MemSet(c) \/ UnMapMemFile(c) \/ Dies(c)
  <2>1. \E step \in {"memset", "mapped", "MAP_FAILED", "crashed", "unmapped"} : Proceeds(c, step)
    BY <1>6 DEF MMap, MemSet, UnMapMemFile, Dies
  <2>2. call'[c].at \in {"memset", "mapped", "MAP_FAILED", "crashed", "unmapped"}
    BY <2>1, <1>2
  <2> QED
    BY <2>2
<1> QED
  BY <1>3, <1>4, <1>5, <1>6 DEF MapMove

LEMMA MoveFits ==
    ASSUME FileTypeOK, MapInv, NEW c \in Callers, MapMove(c), NEW d \in Callers,
           call'[d] \in MapCall
    PROVE  MapFits(d)'
<1>1. PICK r : Moves(c, r)
  BY MapTypes
<1>2. call[c] \in MapCall
  BY MapTypes
<1>3. /\ Stay /\ call'[c] = r /\ \A e \in Callers \ {c} : call'[e] = call[e]
      /\ Opening' \subseteq Opening
      /\ \A e \in Callers : call'[e] \in MapCall => call[e] \in MapCall
  BY <1>1, <1>2, MoveStays
<1>4. call[d] \in MapCall /\ MapFits(d) /\ MapFits(c) /\ NearKnown
  BY <1>2, <1>3 DEF MapInv
<1>5. /\ call'[d].length = call[d].length /\ call'[d].near = call[d].near
      /\ call'[d].bCanInit = call[d].bCanInit
  BY <1>1, <1>3, <1>4 DEF Moves
<1>6. /\ Shorter(d) => Shorter(d)'
      /\ Cleared(d) => Cleared(d)'
  BY <1>3, <1>4, NearStays
<1>7. call[d].length \in Int /\ call[d].length > 0 /\ call[c].length \in Int /\ call[c].length > 0
  <2>1. call[d].length \in Lengths /\ call[c].length \in Lengths
    BY <1>2, <1>4 DEF MapCall
  <2> QED
    BY <2>1, LengthsCount, Zenon
<1>8. size \in Int /\ size' \in Int /\ call[d].len \in Int /\ call[c].len \in Int
  BY <1>2, <1>4, MapTypes DEF FileTypeOK, MapCall
\* The file changes its length only here.
<1>9. \/ size' = size
      \/ /\ FTruncate(c) /\ At_(c) = "ftruncate" /\ call[c].len < call[c].length
         /\ size' = call[c].length
  BY DEF MapMove, LSeek, FTruncate, MMap, MemSet, Writes, UnMapMemFile, Dies
\* Whoever measures finds at least the length of d, or what excuses d.
<1>10. At_(d) \in Mapping => call[d].length <= size \/ Shorter(d)
  BY <1>4 DEF MapFits
<1>11. d # c /\ At_(d) \in Mapping => call[d].length <= size' \/ Shorter(d)
  <2>1. SUFFICES ASSUME d # c, At_(d) \in Mapping, ~Shorter(d) PROVE call[d].length <= size'
    OBVIOUS
  <2>2. CASE size' = size
    BY <2>1, <2>2, <1>10
  <2>3. CASE /\ At_(c) = "ftruncate" /\ call[c].len < call[c].length /\ size' = call[c].length
    <3>1. c \in call[d].near => call[c].length >= call[d].length
      BY <2>1, <1>7 DEF Shorter
    <3>2. c \notin call[d].near =>
              call[c].len >= call[c].length \/ call[c].length >= call[d].length
      BY <2>1, <2>3, <1>4 DEF MapFits
    <3> QED
      BY <3>1, <3>2, <2>3, <1>7, <1>8
  <2> QED
    BY <2>2, <2>3, <1>9
<1>12. At_(d)' = call'[d].at /\ At_(c)' = r.at
  BY <1>3 DEF At_
<1>13. At_(d)' = "ftruncate" =>
          call'[d].len < call'[d].length \/ call'[d].length <= size' \/ Shorter(d)'
  <2>1. SUFFICES ASSUME At_(d)' = "ftruncate", ~Shorter(d)'
                 PROVE  call'[d].len < call'[d].length \/ call'[d].length <= size'
    OBVIOUS
  <2>2. CASE d = c
    <3>1. At_(c) = "lseek" /\ LSeek(c)
      BY <2>1, <2>2, MoveIs DEF LSeek, At_
    <3>2. r.len = size /\ size' = size
      BY <3>1, <1>2, <1>3 DEF LSeek, FileTypeOK, MapCall
    <3> QED
      BY <3>2, <2>2, <1>3, <1>5, <1>7, <1>8
  <2>3. CASE d # c
    <3>1. call'[d] = call[d] /\ At_(d) = "ftruncate"
      BY <2>1, <2>3, <1>3, <1>12 DEF At_
    <3>2. call[d].len < call[d].length \/ call[d].length <= size
      BY <2>1, <3>1, <1>4, <1>6 DEF MapFits
    <3>3. At_(c) = "ftruncate" => c \in call[d].near
      BY <2>3, <3>1, <1>4 DEF NearKnown, Opening
    <3>4. At_(c) = "ftruncate" => call[c].length >= call[d].length
      BY <3>3, <2>1, <1>6, <1>7 DEF Shorter
    <3> QED
      BY <3>1, <3>2, <3>4, <1>7, <1>8, <1>9
  <2> QED
    BY <2>2, <2>3
<1>14. At_(d)' \in Mapping => call'[d].length <= size' \/ Shorter(d)'
  <2>1. SUFFICES ASSUME At_(d)' \in Mapping, ~Shorter(d)' PROVE call'[d].length <= size'
    OBVIOUS
  <2>2. CASE d = c /\ At_(c) = "ftruncate"
    <3>1. r.at = "mmap"
      BY <2>1, <2>2, <1>1, <1>12 DEF Moves, Mapping
    <3>2. FTruncate(c)
      BY <3>1, <1>3, MoveIs
    <3>3. size' = IF call[c].len < call[c].length THEN call[c].length ELSE size
      <4>1. ASSUME call' = [call EXCEPT ![c].at = "mmap", ![c].short = TRUE] PROVE FALSE
        <5>1. call'[c].short
          BY <4>1, <1>2 DEF FileTypeOK, MapCall
        <5> QED
          BY <5>1, <2>1, <2>2 DEF Shorter
      <4> QED
        BY <4>1, <3>2 DEF FTruncate
    <3>4. call[c].len < call[c].length \/ call[c].length <= size
      BY <2>1, <2>2, <1>4, <1>6 DEF MapFits
    <3> QED
      BY <3>3, <3>4, <2>2, <1>5, <1>7, <1>8
  <2>3. CASE d = c /\ At_(c) # "ftruncate"
    <3>1. At_(c) \in Mapping
      BY <2>1, <2>3, <1>1, <1>12 DEF Moves, Mapping
    <3> QED
      BY <3>1, <2>1, <2>3, <1>5, <1>6, <1>9, <1>10
  <2>4. CASE d # c
    <3>1. At_(d) \in Mapping
      BY <2>1, <2>4, <1>3, <1>12 DEF At_
    <3> QED
      BY <3>1, <2>1, <2>4, <1>5, <1>6, <1>11
  <2> QED
    BY <2>2, <2>3, <2>4
<1>15. At_(d)' \in Mapping =>
          \A e \in Callers \ call'[d].near :
             e # d /\ At_(e)' = "ftruncate" =>
                \/ Shorter(d)' \/ call'[e].len >= call'[e].length
                \/ call'[e].length >= call'[d].length
  <2>1. SUFFICES ASSUME At_(d)' \in Mapping, NEW e \in Callers \ call'[d].near, e # d,
                        At_(e)' = "ftruncate", ~Shorter(d)'
                 PROVE  \/ call'[e].len >= call'[e].length
                        \/ call'[e].length >= call'[d].length
    OBVIOUS
  <2>2. CASE e = c
    <3>1. LSeek(c)
      BY <2>1, <2>2, MoveIs DEF At_
    <3>2. r.len = size /\ r.length = call[c].length
      BY <3>1, <1>1, <1>2, <1>3 DEF LSeek, FileTypeOK, MapCall, Moves
    <3>3. At_(d) \in Mapping
      BY <2>1, <2>2, <1>3 DEF At_
    <3>4. call[d].length <= size
      BY <3>3, <2>1, <1>6, <1>10
    <3> QED
      BY <3>2, <3>4, <2>2, <1>3, <1>5, <1>7, <1>8
  <2>3. CASE e # c
    <3>1. call'[e] = call[e] /\ At_(e) = "ftruncate" /\ e \in Opening
      BY <2>1, <2>3, <1>3 DEF At_, Opening
    <3>2. d \notin Opening
      BY <3>1, <2>1, <1>4, <1>5 DEF NearKnown
    <3>3. At_(d) \in Mapping
      BY <3>2, <2>1, <1>1, <1>3, <1>12 DEF Moves, Mapping, Opening, At_
    <3>4. call[e].len >= call[e].length \/ call[e].length >= call[d].length
      BY <3>1, <3>3, <2>1, <1>4, <1>5, <1>6 DEF MapFits
    <3> QED
      BY <3>1, <3>4, <1>5
  <2> QED
    BY <2>2, <2>3
<1>16. At_(d)' = "wrote" =>
          /\ call'[d].len \in Units /\ call'[d].len <= call'[d].length
          /\ unit'[call'[d].len] = d \/ Shorter(d)' \/ Cleared(d)'
  <2>1. SUFFICES ASSUME At_(d)' = "wrote"
                 PROVE  /\ call'[d].len \in Units /\ call'[d].len <= call'[d].length
                        /\ unit'[call'[d].len] = d \/ Shorter(d)' \/ Cleared(d)'
    OBVIOUS
  <2>2. CASE d = c
    <3>1. PICK u \in Units : Writes(c, u)
      BY <2>1, <2>2, MoveIs DEF At_
    <3>2. r.len = u /\ u <= call[c].length /\ unit'[u] = c
      BY <3>1, <1>2, <1>3 DEF Writes, FileTypeOK, MapCall
    <3> QED
      BY <3>1, <3>2, <2>2, <1>3, <1>5
  <2>3. CASE d # c
    <3>1. call'[d] = call[d] /\ At_(d) = "wrote"
      BY <2>1, <2>3, <1>3 DEF At_
    <3>2. /\ call[d].len \in Units /\ call[d].len <= call[d].length
          /\ unit[call[d].len] = d \/ Shorter(d) \/ Cleared(d)
      BY <3>1, <1>4 DEF MapFits
    <3>3. SUFFICES ASSUME unit[call[d].len] = d, ~Shorter(d), ~Cleared(d)
                   PROVE  unit'[call[d].len] = d
      BY <3>1, <3>2, <1>5, <1>6
    <3>4. CASE FTruncate(c)
      <4>1. call[d].len <= size'
        BY <3>1, <3>2, <3>3, <2>3, <1>7, <1>8, <1>11 DEF Mapping
      <4> QED
        BY <4>1, <3>2, <3>3, <3>4, <1>8 DEF FTruncate
    <3>5. CASE MemSet(c)
      <4>1. call[c].bCanInit /\ c \in Opening
        BY <3>5, <1>4 DEF MemSet, MapFits, Opening
      <4>2. c \in call[d].near
        BY <4>1, <2>3, <1>4 DEF NearKnown
      <4> QED
        BY <4>1, <4>2, <3>3 DEF Cleared
    <3>6. CASE \E u \in Units : Writes(c, u)
      <4>1. d # "zero"
        BY FileAssumption
      <4>2. PICK u \in Units : unit[u] = "zero" /\ unit' = [unit EXCEPT ![u] = c]
        BY <3>6 DEF Writes
      <4> QED
        BY <4>1, <4>2, <3>2, <3>3 DEF FileTypeOK
    <3>7. CASE UNCHANGED unit
      BY <3>3, <3>7
    <3> QED
      BY <3>4, <3>5, <3>6, <3>7 DEF MapMove, LSeek, MMap, UnMapMemFile, Dies
  <2> QED
    BY <2>2, <2>3
<1>17. At_(d)' = "memset" => call'[d].bCanInit
  <2>1. CASE d = c
    BY <2>1, <1>1, <1>12, <1>3 DEF Moves
  <2>2. CASE d # c
    BY <2>2, <1>3, <1>4 DEF MapFits, At_
  <2> QED
    BY <2>1, <2>2
<1> QED
  BY <1>13, <1>14, <1>15, <1>16, <1>17 DEF MapFits

LEMMA OpenKept ==
    ASSUME FileTypeOK, MapInv, NEW c \in Callers, Open_(c) PROVE MapInv'
<1> DEFINE new == call'
<1>1. /\ call[c] \in IdleCall /\ UNCHANGED unit
      /\ size' = IF size = -1 THEN 0 ELSE size
      /\ new[c] \in MapCall /\ new[c].at = (IF size = -1 THEN "ftruncate" ELSE "lseek")
      /\ new[c].bCanInit = (size = -1) /\ new[c].near = Opening
      /\ new[c].len = 0 /\ new[c].length > 0
      /\ \A d \in Opening : /\ new[d] \in MapCall /\ new[d].at = call[d].at
                            /\ new[d].length = call[d].length /\ new[d].len = call[d].len
                            /\ new[d].bCanInit = call[d].bCanInit
                            /\ new[d].near = call[d].near \cup {c}
                            /\ new[d].short = call[d].short
      /\ \A d \in Callers \ (Opening \cup {c}) : new[d] = call[d]
  BY OpenTypes
<1>2. Opening \subseteq Callers /\ c \notin Opening /\ call[c] \notin MapCall
  BY <1>1, CallKinds, KindAt DEF Open_, Opening
<1>3. \A d \in Callers \ {c} :
          /\ new[d] \in MapCall <=> call[d] \in MapCall
          /\ call[d] \in MapCall =>
                /\ new[d].at = call[d].at /\ new[d].length = call[d].length
                /\ new[d].len = call[d].len /\ new[d].bCanInit = call[d].bCanInit
                /\ call[d].near \subseteq new[d].near /\ new[d].near \subseteq call[d].near \cup {c}
                /\ new[d].short = call[d].short
          /\ d \in Opening => c \in new[d].near
  <2>1. \A d \in Opening : call[d] \in MapCall
    BY KindAt DEF Opening
  <2>2. ASSUME NEW d \in Callers \ {c}, d \notin Opening
        PROVE  new[d] = call[d]
    BY <2>2, <1>1
  <2> QED
    BY <1>1, <2>1, <2>2
<1>4. Stay
  BY <1>2, <1>3 DEF Stay
<1>5. Opening' = Opening \cup {c}
  <2>1. c \in Opening'
    BY <1>1 DEF Opening, At_
  <2>2. \A d \in Opening : d \in Opening'
    BY <1>1, <1>2 DEF Opening, At_
  <2>3. \A d \in Callers \ (Opening \cup {c}) : d \notin Opening'
    BY <1>1 DEF Opening, At_
  <2> QED
    BY <2>1, <2>2, <2>3, <1>2 DEF Opening
<1>6. size \in Int /\ size >= -1 /\ NearKnown
  BY DEF FileTypeOK, MapInv
<1>7. size' \in Int /\ size' >= 0 /\ size' >= -1
  BY <1>1, <1>6
<1>8. \A d \in Callers \ {c} : call[d] \in MapCall => size # -1 /\ size' = size
  BY <1>1, <1>6 DEF NearKnown
<1> HIDE DEF new
<1>9. NearKnown'
  <2>1. ASSUME NEW d \in Callers, new[d] \in MapCall, NEW e \in new[d].near
        PROVE  new[e] \in MapCall
    <3>1. CASE d = c \/ e = c
      BY <3>1, <2>1, <1>1
    <3>2. CASE d # c /\ e # c
      <4>1. call[d] \in MapCall /\ e \in call[d].near
        BY <3>2, <2>1, <1>3
      <4>2. e \in Callers /\ call[e] \in MapCall
        BY <4>1, <1>4, <1>6, NearStays DEF NearKnown
      <4> QED
        BY <4>2, <3>2, <1>3
    <3> QED
      BY <3>1, <3>2
  <2>2. ASSUME NEW d \in Callers, NEW e \in Callers, d # e, new[d] \in MapCall, e \in Opening',
               d \in Opening' \/ new[e].bCanInit
        PROVE  e \in new[d].near
    <3>1. CASE e = c
      <4>1. call[d] \in MapCall
        BY <3>1, <2>2, <1>3
      <4>2. ~new[c].bCanInit
        BY <4>1, <3>1, <2>2, <1>1, <1>8
      <4> QED
        BY <4>2, <3>1, <2>2, <1>3, <1>5
    <3>2. CASE e # c /\ d = c
      BY <3>2, <2>2, <1>1, <1>5
    <3>3. CASE e # c /\ d # c
      <4>1. call[d] \in MapCall /\ e \in Opening /\ call[e] \in MapCall
        BY <3>3, <2>2, <1>3, <1>5, KindAt DEF Opening
      <4>2. d \in Opening \/ call[e].bCanInit
        BY <3>3, <4>1, <2>2, <1>3, <1>5
      <4>3. e \in call[d].near
        BY <4>1, <4>2, <2>2, <1>6 DEF NearKnown
      <4> QED
        BY <4>1, <4>3, <3>3, <1>3
    <3> QED
      BY <3>1, <3>2, <3>3
  <2> QED
    BY <2>1, <2>2, <1>7 DEF NearKnown, new
<1>10. ASSUME NEW d \in Callers, new[d] \in MapCall PROVE MapFits(d)'
  <2>1. CASE d = c
    <3>1. At_(d)' \in {"ftruncate", "lseek"} /\ call'[d].len < call'[d].length
      BY <2>1, <1>1 DEF At_, new
    <3> QED
      BY <3>1 DEF MapFits, Mapping
  <2>2. CASE d # c
    <3>1. call[d] \in MapCall /\ MapFits(d)
      BY <2>2, <1>3, <1>10 DEF MapInv
    <3>2. /\ At_(d)' = At_(d) /\ call'[d].length = call[d].length /\ call'[d].len = call[d].len
          /\ call'[d].bCanInit = call[d].bCanInit /\ call[d].near \subseteq call'[d].near
      BY <3>1, <2>2, <1>3 DEF At_, new
    <3>3. size' = size /\ size # -1
      BY <3>1, <2>2, <1>8
    <3>4. (Shorter(d) => Shorter(d)') /\ (Cleared(d) => Cleared(d)')
      BY <3>1, <1>4, <1>6, NearStays
    <3>5. ASSUME At_(d) \in Mapping, NEW e \in Callers \ call'[d].near, e # d,
                 At_(e)' = "ftruncate", ~Shorter(d)'
          PROVE  call'[e].len >= call'[e].length \/ call'[e].length >= call'[d].length
      <4>1. e # c
        BY <3>3, <3>5, <1>1 DEF At_, new
      <4>2. e \in Opening'
        BY <3>5 DEF Opening
      <4>3. call[e] \in MapCall
        BY <4>1, <4>2, <1>5, KindAt DEF Opening
      <4>4. /\ At_(e) = "ftruncate" /\ call'[e].length = call[e].length
            /\ call'[e].len = call[e].len
        BY <4>1, <4>3, <3>5, <1>3 DEF At_, new
      <4>5. call[e].len >= call[e].length \/ call[e].length >= call[d].length
        BY <4>4, <3>1, <3>2, <3>4, <3>5 DEF MapFits
      <4> QED
        BY <4>4, <4>5, <3>2
    <3>6. At_(d) = "ftruncate" =>
              call'[d].len < call'[d].length \/ call'[d].length <= size' \/ Shorter(d)'
      BY <3>1, <3>2, <3>3, <3>4 DEF MapFits
    <3>7. At_(d) \in Mapping => call'[d].length <= size' \/ Shorter(d)'
      BY <3>1, <3>2, <3>3, <3>4 DEF MapFits
    <3>8. At_(d) = "wrote" =>
              /\ call'[d].len \in Units /\ call'[d].len <= call'[d].length
              /\ unit'[call'[d].len] = d \/ Shorter(d)' \/ Cleared(d)'
      BY <3>1, <3>2, <3>4, <1>1 DEF MapFits
    <3>9. At_(d) = "memset" => call'[d].bCanInit
      BY <3>1, <3>2 DEF MapFits
    <3> QED
      BY <3>2, <3>5, <3>6, <3>7, <3>8, <3>9 DEF MapFits
  <2> QED
    BY <2>1, <2>2
<1> QED
  BY <1>7, <1>9, <1>10 DEF MapInv, new

LEMMA MapKept ==
    ASSUME FileTypeOK, MapInv, NEW c \in Callers, MapMove(c) PROVE MapInv'
BY MoveNear, MoveFits DEF MapInv

\* The steps of the other helpers.
LEMMA MapOthers ==
    ASSUME FileTypeOK, FileTypeOK', MapInv, UNCHANGED <<size, unit>>,
           \A d \in Callers : call[d] \in MapCall \/ call'[d] \in MapCall => call'[d] = call[d]
    PROVE  MapInv'
<1>1. \A d \in Callers :
          /\ At_(d) \in {"lseek", "ftruncate", "mmap", "memset"} => call[d] \in MapCall
          /\ At_(d)' \in {"lseek", "ftruncate", "mmap", "memset"} => call'[d] \in MapCall
  <2>1. ASSUME NEW d \in Callers
        PROVE  At_(d) \in {"lseek", "ftruncate", "mmap", "memset"} => call[d] \in MapCall
    BY KindAt
  <2>2. ASSUME NEW d \in Callers
        PROVE  At_(d)' \in {"lseek", "ftruncate", "mmap", "memset"} => call'[d] \in MapCall
    BY DEF FileTypeOK, At_, IdleCall, PathCall, MapCall, FileCall
  <2> QED
    BY <2>1, <2>2
<1>2. Opening' = Opening
  BY <1>1 DEF Opening, At_
<1>3. NearKnown'
  <2>1. ASSUME NEW d \in Callers, call'[d] \in MapCall, NEW e \in call'[d].near
        PROVE  call'[e] \in MapCall
    <3>1. call[d] \in MapCall /\ e \in call[d].near /\ e \in Callers
      BY <2>1 DEF MapCall
    <3> QED
      BY <3>1 DEF MapInv, NearKnown
  <2>2. \A d, e \in Callers : d # e /\ call'[d] \in MapCall /\ e \in Opening' =>
            (d \in Opening' \/ call'[e].bCanInit => e \in call'[d].near)
    <3>1. \A e \in Opening : e \in Callers /\ call[e] \in MapCall /\ call'[e] = call[e]
      BY <1>1 DEF Opening
    <3> QED
      BY <3>1, <1>2 DEF MapInv, NearKnown
  <2> QED
    BY <2>1, <2>2 DEF MapInv, NearKnown
<1>4. ASSUME NEW d \in Callers, call'[d] \in MapCall PROVE MapFits(d)'
  <2>1. call'[d] = call[d] /\ At_(d)' = At_(d) /\ MapFits(d) /\ call[d] \in MapCall
    BY <1>4 DEF MapInv, At_
  <2>2. \A e \in call[d].near : e \in Callers /\ call'[e] = call[e]
    BY <2>1 DEF MapCall, MapInv, NearKnown
  <2>3. (Shorter(d) => Shorter(d)') /\ (Cleared(d) => Cleared(d)')
    BY <2>1, <2>2 DEF Shorter, Cleared
  <2>4. \A e \in Callers : At_(e)' = "ftruncate" => call'[e] = call[e] /\ At_(e) = "ftruncate"
    BY <1>1 DEF At_
  <2>5. At_(d) \in Mapping =>
            \A e \in Callers \ call'[d].near :
               e # d /\ At_(e)' = "ftruncate" =>
                  \/ Shorter(d)' \/ call'[e].len >= call'[e].length
                  \/ call'[e].length >= call'[d].length
    BY <2>1, <2>3, <2>4 DEF MapFits
  <2> QED
    BY <2>1, <2>3, <2>5 DEF MapFits
<1> QED
  BY <1>3, <1>4 DEF MapInv

-----------------------------------------------------------------------------
\* filestat.  Another call took the source of c's.
Went(c) == \E d \in Callers \ {c} :
    At_(d) = "returned" /\ call[d].result /\ call[d].from = call[c].from

FileFits(c) ==
    /\ At_(c) \in Operations => file[call[c].from] # None \/ Went(c)
    /\ At_(c) = "returned" /\ call[c].seen # None /\ ~call[c].result => Went(c)

FileInv == \A c \in Callers : call[c] \in FileCall => FileFits(c)

FileAct(c) == FSdeleteFile(c) \/ FScopyFile(c) \/ FSmoveFile(c) \/ FSrenameFile(c)

LEMMA CheckTypes ==
    ASSUME FileTypeOK, NEW c \in Callers, NEW operation \in Operations, NEW from \in FilePaths,
           NEW to \in FilePaths, FScheckFileExist(c, operation, from, to)
    PROVE  /\ call[c] \in IdleCall /\ UNCHANGED <<entry, madeBy, size, unit, file>>
           /\ \E r \in FileCall :
                 /\ call' = [call EXCEPT ![c] = r] /\ r.from = from
                 /\ \/ r.at = operation /\ file[from] # None
                    \/ r.at \in {"returned", "refused"} /\ r.seen = None
<1>1. call[c] \in IdleCall /\ UNCHANGED <<entry, madeBy, size, unit, file>>
  BY KindAt DEF FScheckFileExist
<1>2. PICK answer \in {operation, "refused", "returned"} :
          /\ answer = operation => file[from] # None
          /\ call' = [call EXCEPT ![c] =
                [at |-> answer, result |-> answer # operation /\ operation = "delete",
                 from |-> from, to |-> to,
                 seen |-> IF answer = operation THEN file[from] ELSE None]]
  <2>1. operation # "returned" /\ operation # "refused"
    BY DEF Operations
  <2> QED
    BY <2>1 DEF FScheckFileExist
<1>3. PICK r : r = [at |-> answer, result |-> answer # operation /\ operation = "delete",
                    from |-> from, to |-> to,
                    seen |-> IF answer = operation THEN file[from] ELSE None]
  OBVIOUS
<1>4. /\ r \in FileCall /\ r.from = from /\ r.at = answer
      /\ answer # operation => r.seen = None
  <2>1. r.seen \in Contents /\ (answer # operation => r.seen = None)
    BY <1>3 DEF FileTypeOK, Contents
  <2>2. r.at \in {"delete", "copy", "move", "rename", "returned", "refused"}
    BY <1>3 DEF Operations
  <2> QED
    BY <2>1, <2>2, <1>3 DEF FileCall
<1>5. call' = [call EXCEPT ![c] = r]
  BY <1>2, <1>3
<1> QED
  BY <1>1, <1>2, <1>4, <1>5

LEMMA ActTypes ==
    ASSUME FileTypeOK, NEW c \in Callers, FileAct(c)
    PROVE  /\ call[c] \in FileCall /\ At_(c) \in Operations
           /\ UNCHANGED <<entry, madeBy, size, unit>>
           /\ file' \in [FilePaths -> Contents]
           /\ \A p \in FilePaths \ {call[c].from} : file[p] # None => file'[p] # None
           /\ \E r \in FileCall :
                 /\ call' = [call EXCEPT ![c] = r]
                 /\ r.from = call[c].from /\ r.seen = call[c].seen
                 /\ \/ r.at = "returned" /\ r.result = (file[call[c].from] # None)
                    \/ /\ r.at = "refused"
                       /\ file[call[c].from] # None => file'[call[c].from] # None
<1>1. PICK operation, after, failed :
          /\ operation \in Operations /\ Acts(c, operation, after, failed)
          /\ after \in {[file EXCEPT ![call[c].from] = None],
                        Copied(c, file[call[c].from]), Moved(c)}
          /\ failed \subseteq HalfCopied(c)
  BY DEF FileAct, FSdeleteFile, FScopyFile, FSmoveFile, FSrenameFile, Operations, HalfCopied
<1>2. call[c] \in FileCall /\ At_(c) \in Operations
  BY <1>1, KindAt DEF Acts
<1>3. call[c].from \in FilePaths /\ call[c].to \in FilePaths /\ None \in Contents
      /\ "part" \in Contents /\ "part" # None
  BY <1>2 DEF FileCall, Contents, None
<1>4. UNCHANGED <<entry, madeBy, size, unit>>
  BY <1>1 DEF Acts
<1>5. CASE /\ file' = (IF file[call[c].from] = None THEN file ELSE after)
           /\ Answers(c, file[call[c].from] # None)
  <2>1. /\ file' \in [FilePaths -> Contents]
        /\ \A p \in FilePaths \ {call[c].from} : file[p] # None => file'[p] # None
    BY <1>1, <1>3, <1>5 DEF FileTypeOK, Moved, Copied
  <2>2. PICK r : r = [call[c] EXCEPT !.at = "returned", !.result = (file[call[c].from] # None)]
    OBVIOUS
  <2>3. r \in FileCall /\ r.at = "returned" /\ r.from = call[c].from /\ r.seen = call[c].seen
        /\ r.result = (file[call[c].from] # None)
    BY <1>2, <2>2 DEF FileCall
  <2>4. call' = [call EXCEPT ![c] = r]
    BY <1>5, <2>2 DEF Answers, FileTypeOK
  <2> QED
    BY <1>2, <1>4, <2>1, <2>3, <2>4
<1>6. CASE file[call[c].from] # None /\ file' \in failed /\ Refused(c)
  <2>1. /\ file' \in [FilePaths -> Contents]
        /\ \A p \in FilePaths : file[p] # None => file'[p] # None
    BY <1>1, <1>3, <1>6 DEF FileTypeOK, HalfCopied, Copied
  <2>2. PICK r : r = [call[c] EXCEPT !.at = "refused", !.result = FALSE]
    OBVIOUS
  <2>3. r \in FileCall /\ r.at = "refused" /\ r.from = call[c].from /\ r.seen = call[c].seen
    BY <1>2, <2>2 DEF FileCall
  <2>4. call' = [call EXCEPT ![c] = r]
    BY <1>6, <2>2 DEF Refused, FileTypeOK
  <2> QED
    BY <1>2, <1>3, <1>4, <2>1, <2>3, <2>4
<1> QED
  BY <1>1, <1>5, <1>6 DEF Acts

\* A call that has returned stays as it is.
ReturnedStay == \A d \in Callers : At_(d) = "returned" => call'[d] = call[d]

LEMMA WentStays ==
    ASSUME ReturnedStay, NEW c \in Callers, call'[c].from = call[c].from PROVE Went(c) => Went(c)'
BY DEF ReturnedStay, Went, At_

LEMMA CheckKept ==
    ASSUME FileTypeOK, FileInv, NEW c \in Callers, NEW operation \in Operations,
           NEW from \in FilePaths, NEW to \in FilePaths, FScheckFileExist(c, operation, from, to)
    PROVE  FileInv'
<1>1. PICK r \in FileCall :
          /\ call' = [call EXCEPT ![c] = r] /\ r.from = from
          /\ \/ r.at = operation /\ file[from] # None
             \/ r.at \in {"returned", "refused"} /\ r.seen = None
  BY CheckTypes
<1>2. file' = file /\ call'[c] = r /\ \A d \in Callers \ {c} : call'[d] = call[d]
  BY <1>1, CheckTypes DEF FileTypeOK
<1>3. ReturnedStay
  BY <1>2 DEF ReturnedStay, FScheckFileExist
<1>4. FileFits(c)'
  BY <1>1, <1>2 DEF FileFits, At_, Operations
<1>5. ASSUME NEW d \in Callers \ {c}, call'[d] \in FileCall PROVE FileFits(d)'
  <2>1. call'[d] = call[d] /\ FileFits(d) /\ At_(d)' = At_(d)
    BY <1>2, <1>5 DEF FileInv, At_
  <2>2. Went(d) => Went(d)'
    BY <2>1, <1>3, WentStays
  <2> QED
    BY <2>1, <2>2, <1>2 DEF FileFits
<1> QED
  BY <1>4, <1>5 DEF FileInv

LEMMA ActKept ==
    ASSUME FileTypeOK, FileInv, NEW c \in Callers, FileAct(c) PROVE FileInv'
<1>1. PICK r \in FileCall :
          /\ call' = [call EXCEPT ![c] = r]
          /\ r.from = call[c].from /\ r.seen = call[c].seen
          /\ \/ r.at = "returned" /\ r.result = (file[call[c].from] # None)
             \/ /\ r.at = "refused"
                /\ file[call[c].from] # None => file'[call[c].from] # None
  BY ActTypes
<1>2. call'[c] = r /\ \A d \in Callers \ {c} : call'[d] = call[d]
  BY <1>1 DEF FileTypeOK
<1>3. call[c] \in FileCall /\ At_(c) \in Operations /\ FileFits(c)
  BY ActTypes DEF FileInv
<1>4. ReturnedStay
  BY <1>2, <1>3 DEF ReturnedStay, Operations
<1>5. FileFits(c)'
  <2>1. r.at = "returned" /\ ~r.result => Went(c)
    BY <1>1, <1>3 DEF FileFits
  <2>2. r.at = "returned" /\ ~r.result => Went(c)'
    BY <2>1, <1>1, <1>2, <1>4, WentStays
  <2> QED
    BY <2>2, <1>1, <1>2 DEF FileFits, At_, Operations
<1>6. ASSUME NEW d \in Callers \ {c}, call'[d] \in FileCall PROVE FileFits(d)'
  <2>1. call'[d] = call[d] /\ FileFits(d) /\ At_(d)' = At_(d) /\ call[d].from \in FilePaths
    BY <1>2, <1>6 DEF FileInv, At_, FileCall
  <2>2. Went(d) => Went(d)'
    BY <2>1, <1>4, WentStays
  <2>3. file[call[d].from] # None /\ file'[call[d].from] = None => Went(d)'
    <3>1. SUFFICES ASSUME file[call[d].from] # None, file'[call[d].from] = None
                   PROVE  Went(d)'
      OBVIOUS
    <3>2. call[d].from = call[c].from
      BY <3>1, <2>1, ActTypes
    <3>4. r.at = "returned" /\ r.result
      BY <3>1, <3>2, <1>1
    <3>3. At_(c)' = "returned" /\ call'[c].result /\ call'[c].from = call'[d].from
      BY <3>2, <3>4, <2>1, <1>1, <1>2 DEF At_
    <3> QED
      BY <3>3 DEF Went
  <2> QED
    BY <2>1, <2>2, <2>3 DEF FileFits
<1> QED
  BY <1>5, <1>6 DEF FileInv

LEMMA FileOthers ==
    ASSUME FileInv, ReturnedStay, UNCHANGED file,
           \A d \in Callers : call'[d] \in FileCall => call'[d] = call[d]
    PROVE  FileInv'
<1>1. ASSUME NEW d \in Callers, call'[d] \in FileCall PROVE FileFits(d)'
  <2>1. call'[d] = call[d] /\ FileFits(d) /\ At_(d)' = At_(d)
    BY <1>1 DEF FileInv, At_
  <2>2. Went(d) => Went(d)'
    BY <2>1, WentStays
  <2> QED
    BY <2>1, <2>2 DEF FileFits
<1> QED
  BY <1>1 DEF FileInv

LEMMA PathOthers ==
    ASSUME PathInv, UNCHANGED <<entry, madeBy>>,
           \A d \in Callers : call'[d] \in PathCall => call'[d] = call[d]
    PROVE  PathInv'
BY DEF PathInv, NothingBelow, PathFits, At_

-----------------------------------------------------------------------------
HelpersInv == FileTypeOK /\ PathInv /\ MapInv /\ FileInv

LEMMA KindsApart ==
    /\ PathCall \cap MapCall = {} /\ PathCall \cap FileCall = {} /\ MapCall \cap FileCall = {}
    /\ IdleCall \cap PathCall = {} /\ IdleCall \cap MapCall = {} /\ IdleCall \cap FileCall = {}
<1>1. \A r \in IdleCall : r \notin PathCall /\ r \notin MapCall /\ r \notin FileCall
  BY CallKinds
<1>2. \A r \in PathCall : r \notin MapCall /\ r \notin FileCall
  BY CallKinds
<1>3. \A r \in MapCall : r \notin FileCall
  BY CallKinds
<1> QED
  BY <1>1, <1>2, <1>3

LEMMA HelpersStep ==
    HelpersInv /\ [DirectoryNext \/ MappingNext \/ FileNext]_fileVars => HelpersInv'
<1> SUFFICES ASSUME HelpersInv, [DirectoryNext \/ MappingNext \/ FileNext]_fileVars
             PROVE  HelpersInv'
  OBVIOUS
<1> DEFINE Entries == IdleCall \cup PathCall \cup MapCall \cup FileCall
<1>1. FileTypeOK /\ PathInv /\ MapInv /\ FileInv /\ call \in [Callers -> Entries]
  BY DEF HelpersInv, FileTypeOK
<1>2. ASSUME NEW c \in Callers, PathStep(c) PROVE HelpersInv'
  <2>1. /\ call[c] \in IdleCall \cup PathCall
        /\ UNCHANGED <<size, unit, file>>
        /\ entry' \in [1 .. Depth -> {None, "directory", "locked", "file"}]
        /\ madeBy' \in [1 .. Depth -> Callers \cup {None}]
    BY <1>1, <1>2, PathTypes
  <2>2. PICK r \in PathCall : call' = [call EXCEPT ![c] = r]
    BY <1>1, <1>2, PathTypes
  <2>3. call'[c] = r /\ \A d \in Callers \ {c} : call'[d] = call[d]
    BY <1>1, <2>2
  <2>4. FileTypeOK'
    BY <1>1, <2>1, <2>2 DEF FileTypeOK
  <2>5. PathInv'
    BY <1>1, <1>2, PathKept
  <2>6. \A d \in Callers : call[d] \in MapCall \/ call'[d] \in MapCall => call'[d] = call[d]
    BY <2>1, <2>3, KindsApart
  <2>7. \A d \in Callers : call'[d] \in FileCall => call'[d] = call[d]
    BY <2>3, KindsApart
  <2>8. At_(c) # "returned"
    BY <1>2 DEF PathStep, CreateDirectory, FScreateDirctory, CreatesPath, Access, MkDir
  <2>9. ReturnedStay
    BY <2>3, <2>8 DEF ReturnedStay
  <2>10. MapInv'
    BY <1>1, <2>1, <2>4, <2>6, MapOthers
  <2>11. FileInv'
    BY <1>1, <2>1, <2>7, <2>9, FileOthers
  <2> QED
    BY <2>4, <2>5, <2>10, <2>11 DEF HelpersInv
<1>3. ASSUME NEW c \in Callers, MapMove(c) PROVE HelpersInv'
  <2>1. /\ call[c] \in MapCall
        /\ UNCHANGED <<entry, madeBy, file>>
        /\ size' \in Int /\ unit' \in [Units -> Callers \cup {"zero"}]
    BY <1>1, <1>3, MapTypes
  <2>2. PICK r : Moves(c, r)
    BY <1>1, <1>3, MapTypes
  <2>3. r \in MapCall /\ call' = [call EXCEPT ![c] = r]
    BY <2>2 DEF Moves
  <2>4. call'[c] = r /\ \A d \in Callers \ {c} : call'[d] = call[d]
    BY <1>1, <2>3
  <2>5. FileTypeOK'
    BY <1>1, <2>1, <2>3 DEF FileTypeOK
  <2>6. \A d \in Callers : call'[d] \in PathCall \cup FileCall => call'[d] = call[d]
    BY <2>3, <2>4, KindsApart
  <2>7. At_(c) # "returned"
    BY <2>1 DEF MapCall, At_
  <2>8. ReturnedStay
    BY <2>4, <2>7 DEF ReturnedStay
  <2>9. PathInv' /\ FileInv'
    BY <1>1, <2>1, <2>6, <2>8, PathOthers, FileOthers
  <2> QED
    BY <1>1, <1>3, <2>5, <2>9, MapKept DEF HelpersInv
<1>4. ASSUME NEW c \in Callers, Open_(c) PROVE HelpersInv'
  <2>1. /\ call[c] \in IdleCall
        /\ UNCHANGED <<entry, madeBy, unit, file>>
        /\ size' = IF size = -1 THEN 0 ELSE size
        /\ call' = [d \in Callers |-> call'[d]]
        /\ call'[c] \in MapCall
        /\ \A d \in Opening : call'[d] \in MapCall /\ call'[d].at = call[d].at
        /\ \A d \in Callers \ (Opening \cup {c}) : call'[d] = call[d]
    BY <1>1, <1>4, OpenTypes
  <2>2. \A d \in Callers : call'[d] \in Entries
    BY <1>1, <2>1
  <2>3. FileTypeOK'
    <3>1. size' \in Int
      BY <1>1, <2>1 DEF FileTypeOK
    <3>2. call' \in [Callers -> Entries]
      BY <2>1, <2>2
    <3> QED
      BY <1>1, <2>1, <3>1, <3>2 DEF FileTypeOK
  <2>4. \A d \in Callers : call'[d] \in PathCall \cup FileCall => call'[d] = call[d]
    BY <2>1, KindsApart
  <2>5. \A d \in Opening \cup {c} : At_(d) # "returned"
    BY <1>4 DEF Opening, Open_
  <2>6. ReturnedStay
    BY <2>1, <2>5 DEF ReturnedStay
  <2>7. PathInv' /\ FileInv'
    BY <1>1, <2>1, <2>4, <2>6, PathOthers, FileOthers
  <2> QED
    BY <1>1, <1>4, <2>3, <2>7, OpenKept DEF HelpersInv
\* The two steps of filestat.
<1>5. ASSUME NEW c \in Callers, NEW r \in FileCall, call' = [call EXCEPT ![c] = r],
             call[c] \in IdleCall \cup FileCall, At_(c) # "returned",
             UNCHANGED <<entry, madeBy, size, unit>>,
             file' \in [FilePaths -> Contents], FileInv'
      PROVE  HelpersInv'
  <2>1. call'[c] = r /\ \A d \in Callers \ {c} : call'[d] = call[d]
    BY <1>1, <1>5
  <2>2. FileTypeOK'
    BY <1>1, <1>5 DEF FileTypeOK
  <2>3. \A d \in Callers : call'[d] \in PathCall => call'[d] = call[d]
    BY <2>1, KindsApart
  <2>4. \A d \in Callers : call[d] \in MapCall \/ call'[d] \in MapCall => call'[d] = call[d]
    BY <2>1, <1>5, KindsApart
  <2>5. PathInv' /\ MapInv'
    BY <1>1, <1>5, <2>2, <2>3, <2>4, PathOthers, MapOthers
  <2> QED
    BY <1>5, <2>2, <2>5 DEF HelpersInv
<1>6. ASSUME NEW c \in Callers, NEW operation \in Operations, NEW from \in FilePaths,
             NEW to \in FilePaths, FScheckFileExist(c, operation, from, to)
      PROVE  HelpersInv'
  <2>1. /\ call[c] \in IdleCall /\ UNCHANGED <<entry, madeBy, size, unit, file>>
        /\ \E r \in FileCall : call' = [call EXCEPT ![c] = r]
    BY <1>1, <1>6, CheckTypes
  <2>2. FileInv'
    BY <1>1, <1>6, CheckKept
  <2>3. At_(c) # "returned"
    BY <1>6 DEF FScheckFileExist
  <2> QED
    BY <1>1, <2>1, <2>2, <2>3, <1>5 DEF FileTypeOK
<1>7. ASSUME NEW c \in Callers, FileAct(c) PROVE HelpersInv'
  <2>1. /\ call[c] \in FileCall /\ At_(c) \in Operations
        /\ UNCHANGED <<entry, madeBy, size, unit>>
        /\ file' \in [FilePaths -> Contents]
        /\ \E r \in FileCall : call' = [call EXCEPT ![c] = r]
    BY <1>1, <1>7, ActTypes
  <2>2. FileInv'
    BY <1>1, <1>7, ActKept
  <2>3. At_(c) # "returned"
    BY <2>1 DEF Operations
  <2> QED
    BY <2>1, <2>2, <2>3, <1>5
<1>8. CASE UNCHANGED fileVars
  <2>1. FileTypeOK'
    BY <1>1, <1>8 DEF FileTypeOK, fileVars
  <2>2. ReturnedStay /\ call' = call /\ UNCHANGED <<entry, madeBy, size, unit, file>>
    BY <1>8 DEF ReturnedStay, fileVars
  <2>3. PathInv' /\ MapInv' /\ FileInv'
    BY <1>1, <2>1, <2>2, PathOthers, MapOthers, FileOthers
  <2> QED
    BY <2>1, <2>3 DEF HelpersInv
<1>12. ASSUME NEW c \in Callers, NeverBegun(c) PROVE HelpersInv'
  <2>1. PICK r \in IdleCall : call' = [call EXCEPT ![c] = r]
    <3>1. call[c] \in IdleCall
      BY <1>1, <1>12, KindAt DEF NeverBegun, PathTooLong, OpenFails
    <3>2. PICK a : a = [call[c] EXCEPT !.at = "NULL"]
      OBVIOUS
    <3>3. PICK b : b = [call[c] EXCEPT !.at = "refused", !.result = FALSE]
      OBVIOUS
    <3>4. a \in IdleCall /\ b \in IdleCall
      BY <3>1, <3>2, <3>3 DEF IdleCall
    <3>5. call' = [call EXCEPT ![c] = a] \/ call' = [call EXCEPT ![c] = b]
      BY <1>1, <1>12, <3>2, <3>3 DEF NeverBegun, PathTooLong, OpenFails, Refused, Proceeds
    <3> QED
      BY <3>4, <3>5
  <2>2. /\ call[c] \in IdleCall /\ At_(c) # "returned"
        /\ UNCHANGED <<entry, madeBy, size, unit, file>>
    BY <1>1, <1>12, KindAt DEF NeverBegun, PathTooLong, OpenFails
  <2>3. call'[c] = r /\ \A d \in Callers \ {c} : call'[d] = call[d]
    BY <1>1, <2>1
  <2>4. FileTypeOK'
    BY <1>1, <2>1, <2>2 DEF FileTypeOK
  <2>5. \A d \in Callers : call'[d] \in PathCall \cup FileCall => call'[d] = call[d]
    BY <2>2, <2>3, KindsApart
  <2>6. \A d \in Callers : call[d] \in MapCall \/ call'[d] \in MapCall => call'[d] = call[d]
    BY <2>2, <2>3, KindsApart
  <2>7. ReturnedStay
    BY <2>2, <2>3 DEF ReturnedStay
  <2>8. PathInv' /\ MapInv' /\ FileInv'
    BY <1>1, <2>2, <2>4, <2>5, <2>6, <2>7, PathOthers, MapOthers, FileOthers
  <2> QED
    BY <2>4, <2>8 DEF HelpersInv
<1>9. CASE DirectoryNext
  BY <1>9, <1>2, <1>12 DEF DirectoryNext, PathStep, NeverBegun
<1>10. CASE MappingNext
  BY <1>10, <1>3, <1>4, <1>12 DEF NeverBegun, MappingNext, MapMove
<1>11. CASE FileNext
  BY <1>11, <1>6, <1>7 DEF FileNext, FileAct
<1> QED
  BY <1>8, <1>9, <1>10, <1>11

LEMMA HelpersInit == FileInit => HelpersInv
<1> SUFFICES ASSUME FileInit PROVE HelpersInv
  OBVIOUS
<1> USE FileAssumption
<1>1. call = [c \in Callers |-> Begun("idle")] /\ Begun("idle") \in IdleCall
  BY DEF FileInit, Begun, IdleCall
<1>2. size \in Int /\ size >= -1
  <2>1. size = -1 \/ size \in Lengths
    BY DEF FileInit
  <2>2. size \in Lengths => size \in Int /\ size > 0
    BY LengthsCount, Zenon
  <2> QED
    BY <2>1, <2>2
<1>3. /\ entry \in [1 .. Depth -> {None, "directory", "locked", "file"}]
      /\ NothingBelow
  BY DEF FileInit, Directories, NothingBelow
<1>4. /\ madeBy \in [1 .. Depth -> Callers \cup {None}]
      /\ unit \in [Units -> Callers \cup {"zero"}]
      /\ file \in [FilePaths -> Contents]
  BY DEF FileInit, Contents
<1>5. FileTypeOK
  BY <1>1, <1>2, <1>3, <1>4 DEF FileTypeOK
<1>6. \A c \in Callers : call[c] \notin PathCall /\ call[c] \notin MapCall /\ call[c] \notin FileCall
  BY <1>1, KindsApart
<1> QED
  BY <1>2, <1>3, <1>5, <1>6 DEF HelpersInv, PathInv, MapInv, NearKnown, FileInv

LEMMA HelpersSafe == HelpersInv => FilesAgree
<1> SUFFICES ASSUME HelpersInv PROVE FilesAgree
  OBVIOUS
<1>1. FileTypeOK /\ PathInv /\ MapInv /\ FileInv
  BY DEF HelpersInv
<1>2. PathMade
  <2>1. ASSUME NEW c \in Callers, At_(c) = "returned", "kind" \in DOMAIN call[c]
        PROVE  PathFits(c)
    BY <1>1, <2>1, CallKinds DEF FileTypeOK, PathInv
  <2> QED
    BY <2>1 DEF PathMade, PathFits
<1>3. MappingKept
  <2>1. ASSUME NEW c \in Callers, At_(c) \in {"mapped", "wrote"} PROVE MapFits(c)
    BY <1>1, <2>1, KindAt DEF MapInv
  <2>2. ASSUME NEW c \in Callers, At_(c) \in {"mapped", "wrote"}
        PROVE  /\ call[c].length <= size \/ Shorter(c)
               /\ At_(c) = "wrote" => unit[call[c].len] = c \/ Shorter(c) \/ Cleared(c)
    BY <2>1, <2>2 DEF MapFits, Mapping
  <2> QED
    BY <2>2 DEF MappingKept, Shorter, Cleared
<1>4. AnswerExplained
  <2>1. ASSUME NEW c \in Callers, At_(c) = "returned", "seen" \in DOMAIN call[c]
        PROVE  FileFits(c)
    BY <1>1, <2>1, CallKinds DEF FileTypeOK, FileInv
  <2> QED
    BY <2>1 DEF AnswerExplained, FileFits, Went
<1> QED
  BY <1>2, <1>3, <1>4 DEF FilesAgree

(* Whatever other processes and threads do meanwhile, the answers of       *)
(* createDirectory, MapMemFile and filestat and the messages of the        *)
(* callback log are explained by what was there during the call, unless a  *)
(* system call was refused or ftruncate failed in it.                      *)
THEOREM AnswersAreTrue == FileSpec /\ CallbackSpec => []CallsAgree
<1>1. FileSpec => []HelpersInv
  BY HelpersInit, HelpersStep, PTL DEF FileSpec
<1>2. FilesAgree /\ CallbackSafe => CallsAgree
  BY DEF CallsAgree
<1> QED
  BY <1>1, <1>2, HelpersSafe, CallbacksSafe, PTL
=============================================================================
