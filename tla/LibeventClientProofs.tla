------------------------ MODULE LibeventClientProofs ------------------------
(***************************************************************************)
(* SilentServerDropped, ReadBufIsStream and SentInOrder of LibeventClient  *)
(* for any messages, intervals and buffer sizes.                           *)
(*                                                                         *)
(* AgeInv: a connection that is up has a last heartbeat.  ReadInv: without *)
(* a bufferevent the read buffer is empty.  LineInv: the wire, the output, *)
(* m_pSendBuffer and the list are one queue, in that order.                *)
(***************************************************************************)
EXTENDS LibeventClient, DataLemmas

AgeInv ==
    /\ lastR \in 0 .. IntervalR + 1 \cup {Never}
    /\ bev = "up" => lastR # Never
    /\ SilentServerDropped

LEMMA AgeStep == AgeInv /\ [Next]_vars => AgeInv'
<1> SUFFICES ASSUME AgeInv, [Next]_vars PROVE AgeInv'
  OBVIOUS
<1>0. /\ IntervalR \in Nat \ {0} /\ IntervalS \in Nat \ {0}
      /\ Never \in Nat /\ Never > IntervalR + 1
  BY LibeventClientAssumption DEF Never
<1> USE <1>0 DEF AgeInv, SilentServerDropped
<1>1. CASE \/ SetExitFlag \/ CheckExitFlag \/ LoopEnds
           \/ cb_WriteNothing \/ cb_Write \/ cb_WriteFails
           \/ (\E m \in Msg : SendMsg(m))
  BY <1>1 DEF SetExitFlag, CheckExitFlag, LoopEnds, cb_WriteNothing, cb_Write, cb_WriteFails,
              SendMsg, Drained, netvars
<1>2. CASE Tick
  <2>1. lastR' \in 0 .. IntervalR + 1 \cup {Never} /\ (lastR # Never => lastR' # Never)
    <3>1. lastR' = IF lastR = Never \/ lastR = IntervalR + 1 THEN lastR ELSE lastR + 1
      BY <1>2 DEF Tick, Older
    <3> QED
      BY <3>1
  <2>2. pc' # "loop" /\ bev' = bev
    BY <1>2 DEF Tick, netvars
  <2> QED
    BY <2>1, <2>2
<1>3. CASE StartSvr \/ StartSvrFails \/ CheckConn \/ CheckConnFails
  <2>1. pc' # "loop" /\ lastR' = lastR /\ (bev' = "up" => bev = "up")
    BY <1>3 DEF StartSvr, StartSvrFails, CheckConn, CheckConnFails, InitialModel, NewConnection,
                netvars
  <2> QED
    BY <2>1
<1>4. CASE CheckAlive
  BY <1>4 DEF CheckAlive, RecvOverdue
<1>5. CASE \/ CheckAliveFails \/ cb_Lost
           \/ (\E n \in 1 .. MaxRecv : cb_ReadFails(n))
  BY <1>5 DEF CheckAliveFails, cb_Lost, cb_ReadFails, DisconnSvr
<1>6. CASE \/ cb_Connected \/ \E n \in 1 .. MaxRecv, d \in 0 .. MaxRecv : cb_Read(n, d)
  <2>1. lastR' = 0
    BY <1>6 DEF cb_Connected, cb_Read
  <2> QED
    BY <2>1
<1>7. CASE UNCHANGED vars
  BY <1>7 DEF vars
<1> QED
  BY <1>1, <1>2, <1>3, <1>4, <1>5, <1>6, <1>7 DEF Next, Runloop, Libevent

\* Whatever the interval, no callback runs on a connection whose server was
\* not heard of within it, if the receive check is on.
THEOREM NoCallbackOnSilence == Spec => []SilentServerDropped
<1>1. Init => AgeInv
  BY DEF Init, AgeInv, SilentServerDropped
<1>2. AgeInv => SilentServerDropped
  BY DEF AgeInv
<1> QED
  BY <1>1, <1>2, AgeStep, PTL DEF Spec

-----------------------------------------------------------------------------
(* What is received.                                                       *)

ReadInv ==
    /\ got \in Nat /\ iMax \in Nat
    /\ readBuf \in Seq(Nat)
    /\ iCur <= iMax /\ iCur <= got
    /\ bev = "none" => readBuf = <<>>
    /\ readBuf = Newest(got, iCur)

LEMMA ReadInvEmpty ==
    ASSUME readBuf' = <<>>, got' \in Nat, iMax' \in Nat PROVE ReadInv'
<1>1. readBuf' \in Seq(Nat) /\ iCur' = 0
  BY DEF iCur
<1>2. Newest(got', 0) = <<>>
  BY DEF Newest
<1> QED
  BY <1>1, <1>2 DEF ReadInv

\* cb_read, and what dealData takes.
LEMMA ReadInvReceived ==
    ASSUME ReadInv, NEW n \in 1 .. MaxRecv, NEW d \in 0 .. MaxRecv, cb_Read(n, d)
    PROVE  ReadInv'
<1> DEFINE all == readBuf \o [i \in 1 .. n |-> got + i]
<1>1. n \in Nat /\ d \in Nat /\ iCur \in 0 .. got /\ got \in Nat /\ iMax \in Nat /\ iCur <= iMax
  BY LibeventClientAssumption DEF ReadInv, iCur
<1>2. /\ iMax' = GrownMax(n) /\ got' = got + n /\ bev' = bev /\ bev = "up"
      /\ d <= Len(all) /\ readBuf' = SubSeq(all, d + 1, Len(all))
  BY DEF cb_Read, Callback
<1>3. all = Newest(got, iCur) \o Following(got, n)
  BY DEF ReadInv, Following
<1> HIDE DEF all
<1>4. /\ Len(Newest(got, iCur) \o Following(got, n)) = iCur + n
      /\ \A x \in 0 .. (iCur + n) :
             SubSeq(Newest(got, iCur) \o Following(got, n), x + 1, iCur + n)
                 = Newest(got + n, iCur + n - x)
  BY <1>1, ReceivedAreNewest, Zenon
<1>5. Len(all) = iCur + n /\ d \in 0 .. iCur + n
  BY <1>1, <1>2, <1>3, <1>4
<1>6. readBuf' = Newest(got + n, iCur + n - d)
  <2>1. readBuf' = SubSeq(all, d + 1, iCur + n)
    BY <1>2, <1>5
  <2> QED
    BY <1>3, <1>4, <1>5, <2>1, Zenon
<1>7. got + n \in Nat /\ iCur + n - d \in 0 .. got + n
  BY <1>1, <1>5
<1>8. readBuf' \in Seq(Nat) /\ iCur' = iCur + n - d
  BY <1>6, <1>7, NewestIsSeq DEF iCur
<1>9. iCur' <= iMax' /\ iMax' \in Nat
  BY <1>1, <1>2, <1>5, <1>8 DEF GrownMax
<1>10. got' \in Nat /\ iCur' <= got'
  BY <1>2, <1>7, <1>8
<1>11. readBuf' = Newest(got', iCur')
  BY <1>2, <1>6, <1>8, Zenon
<1>12. bev' # "none"
  BY <1>2
<1>13. readBuf' \in Seq(Nat)
  BY <1>8
<1> QED
  BY <1>9, <1>10, <1>11, <1>12, <1>13, Zenon DEF ReadInv

LEMMA ReadStep == ReadInv /\ [Next]_vars => ReadInv'
<1> SUFFICES ASSUME ReadInv, [Next]_vars PROVE ReadInv'
  OBVIOUS
<1>1. CASE \/ SetExitFlag \/ CheckExitFlag \/ LoopEnds \/ Tick \/ CheckAlive \/ cb_Connected
           \/ cb_WriteNothing \/ cb_Write \/ cb_WriteFails
           \/ (\E m \in Msg : SendMsg(m)) \/ UNCHANGED vars
  <2>1. UNCHANGED <<got, iMax, readBuf>> /\ (bev' = "none" => bev = "none")
    BY <1>1 DEF SetExitFlag, CheckExitFlag, LoopEnds, Tick, CheckAlive, cb_Connected,
                cb_WriteNothing, cb_Write, cb_WriteFails, SendMsg, Drained, netvars, vars
  <2> QED
    BY <2>1 DEF ReadInv, iCur
<1>2. CASE StartSvr \/ StartSvrFails \/ CheckConn \/ CheckConnFails
  <2>1. \/ UNCHANGED <<got, iMax, readBuf>> /\ bev' # "none"
        \/ bev = "none" /\ got' = 0 /\ UNCHANGED <<readBuf, iMax>>
    BY <1>2 DEF StartSvr, StartSvrFails, CheckConn, CheckConnFails, InitialModel, NewConnection,
                netvars
  <2>2. CASE UNCHANGED <<got, iMax, readBuf>> /\ bev' # "none"
    BY <2>2 DEF ReadInv, iCur
  <2>3. CASE bev = "none" /\ got' = 0 /\ UNCHANGED <<readBuf, iMax>>
    BY <2>3, ReadInvEmpty DEF ReadInv
  <2> QED
    BY <2>1, <2>2, <2>3
<1>3. CASE CheckAliveFails \/ cb_Lost
  BY <1>3, ReadInvEmpty DEF CheckAliveFails, cb_Lost, DisconnSvr, ReadInv
<1>4. ASSUME NEW n \in 1 .. MaxRecv, cb_ReadFails(n) PROVE ReadInv'
  <2>1. n \in Nat /\ iCur \in Nat /\ iMax \in Nat
    BY LibeventClientAssumption DEF ReadInv, iCur
  <2>2. readBuf' = <<>> /\ got' = got /\ iMax' = GrownMax(n)
    BY <1>4 DEF cb_ReadFails
  <2> QED
    BY <2>1, <2>2, ReadInvEmpty DEF ReadInv, GrownMax
<1>5. CASE \E n \in 1 .. MaxRecv, d \in 0 .. MaxRecv : cb_Read(n, d)
  BY <1>5, ReadInvReceived
<1> QED
  BY <1>1, <1>2, <1>3, <1>4, <1>5 DEF Next, Runloop, Libevent

\* dealData sees the bytes of one connection, each once and in order, and
\* m_pReadBuffer is large enough for what is copied out of libevent.
THEOREM ReadsTheStream == Spec => []ReadBufIsStream
<1>1. Init => ReadInv
  <2> SUFFICES ASSUME Init PROVE ReadInv
    OBVIOUS
  <2>1. got = 0 /\ iMax \in Nat /\ readBuf = <<>> /\ readBuf \in Seq(Nat) /\ iCur = 0
    BY LibeventClientAssumption DEF Init, iCur
  <2> QED
    BY <2>1 DEF ReadInv, Newest
<1>2. ReadInv => ReadBufIsStream
  BY DEF ReadInv, ReadBufIsStream, Newest
<1> QED
  BY <1>1, <1>2, ReadStep, PTL DEF Spec

-----------------------------------------------------------------------------
(* What is sent.                                                           *)

\* Sequences of queued messages by the places the messages have in queued.
IsQueued(s) == s \in Seq(Msg) /\ \A i \in 1 .. Len(s) : s[i] \in Queued
InOrder(s) == \A i, j \in 1 .. Len(s) : i < j => PlaceOf(s[i]) < PlaceOf(s[j])
Before(s, t) == \A i \in 1 .. Len(s), j \in 1 .. Len(t) : PlaceOf(s[i]) < PlaceOf(t[j])

\* These four, one after the other, are in order.
InLine(w, o, d, l) ==
    /\ IsQueued(w) /\ IsQueued(o) /\ IsQueued(d) /\ IsQueued(l)
    /\ InOrder(w) /\ InOrder(o) /\ InOrder(d) /\ InOrder(l)
    /\ Before(w, o) /\ Before(w, d) /\ Before(w, l)
    /\ Before(o, d) /\ Before(o, l) /\ Before(d, l)

\* Every message was queued once.
QueuedOnce ==
    /\ queued \in Seq(Msg)
    /\ \A i, j \in 1 .. Len(queued) : queued[i] = queued[j] => i = j

LineInv ==
    /\ QueuedOnce
    /\ sendBuf \in [held : BOOLEAN, data : Seq(Msg)]
    /\ ~sendBuf.held => sendBuf.data = <<>>
    /\ InLine(wire, out, sendBuf.data, m_lstSendBuf)

LEMMA PlaceOfQueued ==
    ASSUME QueuedOnce, NEW m \in Queued
    PROVE  PlaceOf(m) \in 1 .. Len(queued) /\ queued[PlaceOf(m)] = m
BY DEF Queued, PlaceOf

LEMMA EmptyInLine ==
    /\ IsQueued(<<>>) /\ InOrder(<<>>)
    /\ \A s : Before(<<>>, s) /\ Before(s, <<>>)
BY DEF IsQueued, InOrder, Before

\* What is drained joins what was sent.
LEMMA JoinsInOrder ==
    ASSUME NEW s, NEW t, IsQueued(s), IsQueued(t), InOrder(s), InOrder(t), Before(s, t)
    PROVE  /\ IsQueued(s \o t) /\ InOrder(s \o t)
           /\ \A u : Before(s, u) /\ Before(t, u) => Before(s \o t, u)
<1>1. /\ s \in Seq(Msg) /\ t \in Seq(Msg) /\ Len(s) \in Nat /\ Len(t) \in Nat
  BY DEF IsQueued
<1> DEFINE both == s \o t
<1>2. /\ both \in Seq(Msg) /\ Len(both) = Len(s) + Len(t)
      /\ \A i \in 1 .. Len(s) + Len(t) : both[i] = IF i <= Len(s) THEN s[i] ELSE t[i - Len(s)]
  BY <1>1, ConcatProperties, Zenon
<1> HIDE DEF both
<1>3. ASSUME NEW i \in 1 .. Len(both)
      PROVE  \/ i \in 1 .. Len(s) /\ both[i] = s[i]
             \/ i > Len(s) /\ i - Len(s) \in 1 .. Len(t) /\ both[i] = t[i - Len(s)]
  BY <1>1, <1>2
<1>4. IsQueued(both)
  BY <1>2, <1>3 DEF IsQueued
<1>5. InOrder(both)
  <2> SUFFICES ASSUME NEW i \in 1 .. Len(both), NEW j \in 1 .. Len(both), i < j
               PROVE  PlaceOf(both[i]) < PlaceOf(both[j])
    BY DEF InOrder
  <2>1. CASE i \in 1 .. Len(s) /\ both[i] = s[i]
    BY <1>1, <1>3, <2>1 DEF InOrder, Before
  <2>2. CASE i > Len(s) /\ i - Len(s) \in 1 .. Len(t) /\ both[i] = t[i - Len(s)]
    <3>1. /\ j > Len(s) /\ j - Len(s) \in 1 .. Len(t) /\ both[j] = t[j - Len(s)]
          /\ i - Len(s) < j - Len(s)
      BY <1>1, <1>2, <1>3, <2>2
    <3> QED
      BY <2>2, <3>1 DEF InOrder
  <2> QED
    BY <1>3, <2>1, <2>2
<1>6. ASSUME NEW u, Before(s, u), Before(t, u) PROVE Before(both, u)
  BY <1>3, <1>6 DEF Before
<1> QED
  BY <1>4, <1>5, <1>6 DEF both

\* What cb_write takes from the head of the list stays in line with the rest.
LEMMA HeadInLine ==
    ASSUME NEW l, IsQueued(l), InOrder(l), l # <<>>
    PROVE  /\ IsQueued(<<Head(l)>>) /\ InOrder(<<Head(l)>>)
           /\ IsQueued(Tail(l)) /\ InOrder(Tail(l)) /\ Before(<<Head(l)>>, Tail(l))
           /\ \A s : Before(s, l) => Before(s, <<Head(l)>>) /\ Before(s, Tail(l))
<1>1. /\ l \in Seq(Msg) /\ Len(l) \in Nat \ {0} /\ Head(l) = l[1]
      /\ \A i \in 1 .. Len(l) : l[i] \in Queued
  BY DEF IsQueued
<1> DEFINE h == <<Head(l)>>
           r == Tail(l)
<1>2. h \in Seq(Msg) /\ Len(h) = 1 /\ h[1] = l[1]
  BY <1>1
<1>3. /\ r \in Seq(Msg) /\ Len(r) = Len(l) - 1
      /\ \A i \in 1 .. Len(r) : r[i] = l[i + 1]
  BY <1>1
<1> HIDE DEF h, r
<1>4. \A i \in 1 .. Len(h) : i = 1 /\ h[i] = l[1] /\ 1 \in 1 .. Len(l)
  BY <1>1, <1>2
<1>5. \A i \in 1 .. Len(r) : i + 1 \in 1 .. Len(l) /\ 1 < i + 1 /\ r[i] = l[i + 1]
  BY <1>1, <1>3
<1>6. IsQueued(h) /\ InOrder(h)
  BY <1>1, <1>2, <1>4 DEF IsQueued, InOrder
<1>7. IsQueued(r)
  BY <1>1, <1>3, <1>5 DEF IsQueued
<1>8. InOrder(r)
  <2> SUFFICES ASSUME NEW i \in 1 .. Len(r), NEW j \in 1 .. Len(r), i < j
               PROVE  PlaceOf(r[i]) < PlaceOf(r[j])
    BY DEF InOrder
  <2>1. i + 1 \in 1 .. Len(l) /\ j + 1 \in 1 .. Len(l) /\ i + 1 < j + 1
    BY <1>5
  <2> QED
    BY <1>5, <2>1 DEF InOrder
<1>9. Before(h, r)
  BY <1>4, <1>5 DEF Before, InOrder
<1>10. ASSUME NEW s, Before(s, l) PROVE Before(s, h) /\ Before(s, r)
  BY <1>4, <1>5, <1>10 DEF Before
<1> QED
  BY <1>6, <1>7, <1>8, <1>9, <1>10 DEF h, r

\* The places of queued messages do not change when another one is queued
\* behind them.
LEMMA QueuedLast ==
    ASSUME QueuedOnce, NEW m \in Msg, m \notin Queued, queued' = Append(queued, m)
    PROVE  /\ QueuedOnce'
           /\ Queued' = Queued \cup {m}
           /\ \A x \in Queued : PlaceOf(x)' = PlaceOf(x) /\ PlaceOf(x) < PlaceOf(m)'
<1>1. /\ queued' \in Seq(Msg) /\ Len(queued) \in Nat /\ Len(queued') = Len(queued) + 1
      /\ \A i \in 1 .. Len(queued) : queued'[i] = queued[i]
      /\ queued'[Len(queued) + 1] = m
  BY DEF QueuedOnce
<1>2. \A i \in 1 .. Len(queued) : queued[i] # m
  BY DEF Queued
<1>3. QueuedOnce'
  <2>1. ASSUME NEW i \in 1 .. Len(queued'), NEW j \in 1 .. Len(queued'), queued'[i] = queued'[j]
        PROVE  i = j
    <3>1. CASE i \in 1 .. Len(queued) /\ j \in 1 .. Len(queued)
      BY <1>1, <2>1, <3>1 DEF QueuedOnce
    <3>2. CASE i = Len(queued) + 1 \/ j = Len(queued) + 1
      BY <1>1, <1>2, <2>1, <3>2
    <3> QED
      BY <1>1, <3>1, <3>2
  <2> QED
    BY <1>1, <2>1 DEF QueuedOnce
<1>4. Queued' = Queued \cup {m}
  <2>1. 1 .. Len(queued') = (1 .. Len(queued)) \cup {Len(queued) + 1}
    BY <1>1
  <2> QED
    BY <1>1, <2>1 DEF Queued
<1>5. PlaceOf(m)' = Len(queued) + 1
  <2>1. Len(queued) + 1 \in 1 .. Len(queued')
    BY <1>1
  <2>2. \A i \in 1 .. Len(queued') : queued'[i] = m <=> i = Len(queued) + 1
    BY <1>1, <1>2
  <2> QED
    BY <1>1, <2>1, <2>2 DEF PlaceOf
<1>6. ASSUME NEW x \in Queued PROVE PlaceOf(x)' = PlaceOf(x)
  <2>1. PlaceOf(x) \in 1 .. Len(queued) /\ queued[PlaceOf(x)] = x
    BY PlaceOfQueued
  <2>2. PlaceOf(x) \in 1 .. Len(queued') /\ queued'[PlaceOf(x)] = x
    BY <1>1, <2>1
  <2>3. \A i \in 1 .. Len(queued') : queued'[i] = x => i = PlaceOf(x)
    BY <1>3, <2>2 DEF QueuedOnce
  <2> QED
    BY <2>2, <2>3 DEF PlaceOf
<1> QED
  BY <1>1, <1>3, <1>4, <1>5, <1>6, PlaceOfQueued

\* LineInv is about values that are in line; queued itself stays.
LEMMA LineKept ==
    ASSUME LineInv, queued' = queued, sendBuf' \in [held : BOOLEAN, data : Seq(Msg)],
           ~sendBuf'.held => sendBuf'.data = <<>>,
           InLine(wire', out', sendBuf'.data, m_lstSendBuf')
    PROVE  LineInv'
<1>1. QueuedOnce'
  BY DEF LineInv, QueuedOnce
<1>2. InLine(wire, out, sendBuf.data, m_lstSendBuf)'
  <2>1. Queued' = Queued
    BY DEF Queued
  <2>2. \A x : PlaceOf(x)' = PlaceOf(x)
    BY DEF PlaceOf
  <2>3. /\ IsQueued(wire)' /\ IsQueued(out)' /\ IsQueued(sendBuf.data)' /\ IsQueued(m_lstSendBuf)'
    BY <2>1 DEF InLine, IsQueued
  <2>4. /\ InOrder(wire)' /\ InOrder(out)' /\ InOrder(sendBuf.data)' /\ InOrder(m_lstSendBuf)'
    BY <2>2 DEF InLine, InOrder
  <2>5. /\ Before(wire, out)' /\ Before(wire, sendBuf.data)' /\ Before(wire, m_lstSendBuf)'
        /\ Before(out, sendBuf.data)' /\ Before(out, m_lstSendBuf)'
        /\ Before(sendBuf.data, m_lstSendBuf)'
    BY <2>2 DEF InLine, Before
  <2> QED
    BY <2>3, <2>4, <2>5 DEF InLine
<1> QED
  BY <1>1, <1>2 DEF LineInv

\* What a lost connection or a new one drops.
LEMMA DroppedInLine ==
    ASSUME LineInv, queued' = queued, wire' = wire, m_lstSendBuf' = m_lstSendBuf,
           out' \in {out, <<>>}, sendBuf' \in {sendBuf, [sendBuf EXCEPT !.data = <<>>]}
    PROVE  LineInv'
<1>1. /\ sendBuf' \in [held : BOOLEAN, data : Seq(Msg)]
      /\ ~sendBuf'.held => sendBuf'.data = <<>>
      /\ sendBuf'.data \in {sendBuf.data, <<>>}
  <2>1. sendBuf \in [held : BOOLEAN, data : Seq(Msg)] /\ (~sendBuf.held => sendBuf.data = <<>>)
    BY DEF LineInv
  <2>2. CASE sendBuf' = sendBuf
    BY <2>1, <2>2
  <2>3. CASE sendBuf' = [sendBuf EXCEPT !.data = <<>>]
    <3>1. <<>> \in Seq(Msg)
      OBVIOUS
    <3>2. sendBuf' = [held |-> sendBuf.held, data |-> <<>>]
      BY <2>1, <2>3
    <3> QED
      BY <2>1, <3>1, <3>2
  <2> QED
    BY <2>2, <2>3
<1>2. InLine(wire', out', sendBuf'.data, m_lstSendBuf')
  BY <1>1, EmptyInLine DEF LineInv, InLine
<1> QED
  BY <1>1, <1>2, LineKept

\* The write callback: the output has gone out, and the next message, if there
\* is one, is in the output or in m_pSendBuffer.
LEMMA DrainedInLine ==
    ASSUME LineInv, queued' = queued, wire' = wire \o out,
           \/ /\ out' = <<>> /\ UNCHANGED <<sendBuf, m_lstSendBuf>>
           \/ /\ m_lstSendBuf # <<>> /\ m_lstSendBuf' = Remaining
              /\ \/ out' = Pending /\ sendBuf' = NoBuffer
                 \/ out' = <<>> /\ sendBuf' = [held |-> TRUE, data |-> Pending]
    PROVE  LineInv'
<1> DEFINE d == sendBuf.data
           l == m_lstSendBuf
<1>1. /\ InLine(wire, out, d, l) /\ sendBuf \in [held : BOOLEAN, data : Seq(Msg)]
      /\ ~sendBuf.held => d = <<>>
  BY DEF LineInv
<1>2. /\ IsQueued(wire') /\ InOrder(wire')
      /\ \A u : Before(wire, u) /\ Before(out, u) => Before(wire', u)
  BY <1>1, JoinsInOrder DEF InLine
<1>3. CASE out' = <<>> /\ UNCHANGED <<sendBuf, m_lstSendBuf>>
  <2>1. InLine(wire', out', sendBuf'.data, m_lstSendBuf')
    BY <1>1, <1>2, <1>3, EmptyInLine DEF InLine
  <2> QED
    BY <1>1, <1>3, <2>1, LineKept
<1>4. CASE l # <<>> /\ m_lstSendBuf' = Remaining
  <2>1. /\ IsQueued(Pending) /\ InOrder(Pending) /\ IsQueued(Remaining) /\ InOrder(Remaining)
        /\ Before(Pending, Remaining) /\ Before(wire', Pending) /\ Before(wire', Remaining)
    <3>1. CASE sendBuf.held
      <4>1. Pending = d /\ Remaining = l
        BY <3>1 DEF Pending, Remaining
      <4> QED
        BY <1>1, <1>2, <4>1 DEF InLine
    <3>2. CASE ~sendBuf.held
      <4>1. Pending = <<Head(l)>> /\ Remaining = Tail(l)
        BY <3>2 DEF Pending, Remaining
      <4>2. Before(wire', l)
        BY <1>1, <1>2 DEF InLine
      <4> QED
        BY <1>1, <1>4, <4>1, <4>2, HeadInLine DEF InLine
    <3> QED
      BY <3>1, <3>2
  <2>2. CASE out' = Pending /\ sendBuf' = NoBuffer
    <3>1. /\ sendBuf' \in [held : BOOLEAN, data : Seq(Msg)] /\ sendBuf'.data = <<>>
      BY <2>2 DEF NoBuffer
    <3>2. InLine(wire', out', sendBuf'.data, m_lstSendBuf')
      BY <1>2, <1>4, <2>1, <2>2, <3>1, EmptyInLine DEF InLine
    <3> QED
      BY <3>1, <3>2, LineKept
  <2>3. CASE out' = <<>> /\ sendBuf' = [held |-> TRUE, data |-> Pending]
    <3>1. /\ sendBuf' \in [held : BOOLEAN, data : Seq(Msg)] /\ sendBuf'.held
          /\ sendBuf'.data = Pending
      BY <2>1, <2>3 DEF IsQueued
    <3>2. InLine(wire', out', sendBuf'.data, m_lstSendBuf')
      BY <1>2, <1>4, <2>1, <2>3, <3>1, EmptyInLine DEF InLine
    <3> QED
      BY <3>1, <3>2, LineKept
  <2>4. \/ out' = Pending /\ sendBuf' = NoBuffer
        \/ out' = <<>> /\ sendBuf' = [held |-> TRUE, data |-> Pending]
        \/ out' = <<>> /\ UNCHANGED <<sendBuf, m_lstSendBuf>>
    OBVIOUS
  <2> QED
    BY <1>3, <2>2, <2>3, <2>4
<1> QED
  BY <1>3, <1>4

\* sendMsg queues a message behind all others.
LEMMA SendMsgInLine == ASSUME LineInv, NEW m \in Msg, SendMsg(m) PROVE LineInv'
<1> DEFINE l == m_lstSendBuf
<1>1. /\ m \notin Queued /\ queued' = Append(queued, m) /\ m_lstSendBuf' = Append(l, m)
      /\ UNCHANGED <<wire, out, sendBuf>>
  BY DEF SendMsg, netvars
<1>2. /\ QueuedOnce' /\ Queued' = Queued \cup {m}
      /\ \A x \in Queued : PlaceOf(x)' = PlaceOf(x) /\ PlaceOf(x) < PlaceOf(m)'
  BY <1>1, QueuedLast DEF LineInv
<1>3. InLine(wire, out, sendBuf.data, l)
  BY DEF LineInv
<1>4. /\ l \in Seq(Msg) /\ Len(l) \in Nat
      /\ m_lstSendBuf' \in Seq(Msg) /\ Len(m_lstSendBuf') = Len(l) + 1
      /\ \A i \in 1 .. Len(l) : m_lstSendBuf'[i] = l[i]
      /\ m_lstSendBuf'[Len(l) + 1] = m
  BY <1>1, <1>3 DEF InLine, IsQueued
<1>5. \A i \in 1 .. Len(m_lstSendBuf') :
          \/ i \in 1 .. Len(l) /\ m_lstSendBuf'[i] = l[i] /\ l[i] \in Queued
          \/ i = Len(l) + 1 /\ m_lstSendBuf'[i] = m
  BY <1>3, <1>4 DEF InLine, IsQueued
<1>6. /\ IsQueued(wire)' /\ IsQueued(out)' /\ IsQueued(sendBuf.data)'
      /\ InOrder(wire)' /\ InOrder(out)' /\ InOrder(sendBuf.data)'
      /\ Before(wire, out)' /\ Before(wire, sendBuf.data)' /\ Before(out, sendBuf.data)'
  BY <1>1, <1>2, <1>3 DEF InLine, IsQueued, InOrder, Before
<1>7. IsQueued(m_lstSendBuf)'
  BY <1>2, <1>4, <1>5 DEF IsQueued
<1>8. InOrder(m_lstSendBuf)'
  <2> SUFFICES ASSUME NEW i \in 1 .. Len(m_lstSendBuf'), NEW j \in 1 .. Len(m_lstSendBuf'), i < j
               PROVE  PlaceOf(m_lstSendBuf[i])' < PlaceOf(m_lstSendBuf[j])'
    BY DEF InOrder
  <2>1. i \in 1 .. Len(l) /\ m_lstSendBuf'[i] = l[i] /\ l[i] \in Queued
    BY <1>4, <1>5
  <2> QED
    BY <1>2, <1>3, <1>5, <2>1 DEF InLine, InOrder
<1>9. Before(wire, m_lstSendBuf)' /\ Before(out, m_lstSendBuf)' /\ Before(sendBuf.data, m_lstSendBuf)'
  <2>1. /\ \A i \in 1 .. Len(wire) : wire'[i] = wire[i] /\ wire[i] \in Queued
        /\ \A i \in 1 .. Len(out) : out'[i] = out[i] /\ out[i] \in Queued
        /\ \A i \in 1 .. Len(sendBuf.data) :
               sendBuf'.data[i] = sendBuf.data[i] /\ sendBuf.data[i] \in Queued
        /\ wire' = wire /\ out' = out /\ sendBuf' = sendBuf
    BY <1>1, <1>3 DEF InLine, IsQueued
  <2>2. Before(wire, l) /\ Before(out, l) /\ Before(sendBuf.data, l)
    BY <1>3 DEF InLine
  <2> HIDE DEF l
  <2>3. Before(wire, m_lstSendBuf)'
    BY <1>2, <1>5, <2>1, <2>2 DEF Before
  <2>4. Before(out, m_lstSendBuf)'
    BY <1>2, <1>5, <2>1, <2>2 DEF Before
  <2>5. Before(sendBuf.data, m_lstSendBuf)'
    BY <1>2, <1>5, <2>1, <2>2 DEF Before
  <2> QED
    BY <2>3, <2>4, <2>5
<1> QED
  BY <1>1, <1>2, <1>6, <1>7, <1>8, <1>9 DEF LineInv, InLine

LEMMA LineStep == LineInv /\ [Next]_vars => LineInv'
<1> SUFFICES ASSUME LineInv, [Next]_vars PROVE LineInv'
  OBVIOUS
<1>1. CASE \E m \in Msg : SendMsg(m)
  BY <1>1, SendMsgInLine
<1>2. CASE cb_WriteNothing \/ cb_Write \/ cb_WriteFails
  <2>1. queued' = queued /\ wire' = wire \o out
    BY <1>2 DEF cb_WriteNothing, cb_Write, cb_WriteFails, Drained
  <2> QED
    BY <1>2, <2>1, DrainedInLine DEF cb_WriteNothing, cb_Write, cb_WriteFails
<1>3. CASE \/ Tick \/ SetExitFlag \/ StartSvr \/ StartSvrFails
           \/ CheckExitFlag \/ CheckConn \/ CheckConnFails \/ CheckAlive \/ CheckAliveFails
           \/ LoopEnds \/ cb_Connected \/ cb_Lost
           \/ (\E n \in 1 .. MaxRecv, d \in 0 .. MaxRecv : cb_Read(n, d))
           \/ (\E n \in 1 .. MaxRecv : cb_ReadFails(n)) \/ UNCHANGED vars
  <2>1. /\ UNCHANGED <<queued, wire, m_lstSendBuf>> /\ out' \in {out, <<>>}
        /\ sendBuf' \in {sendBuf, [sendBuf EXCEPT !.data = <<>>]}
    BY <1>3 DEF Tick, SetExitFlag, StartSvr, StartSvrFails, InitialModel, NewConnection,
                CheckExitFlag, CheckConn, CheckConnFails, CheckAlive, CheckAliveFails, LoopEnds,
                cb_Connected, cb_Lost, cb_Read, cb_ReadFails, DisconnSvr, netvars, sendvars, vars
  <2> QED
    BY <2>1, DroppedInLine
<1> QED
  BY <1>1, <1>2, <1>3 DEF Next, Runloop, Libevent

\* Over all connections no message goes out twice or before one that was
\* queued earlier, although m_pSendBuffer outlives a connection.
THEOREM SendsInOrder == Spec => []SentInOrder
<1>1. Init => LineInv
  <2> SUFFICES ASSUME Init PROVE LineInv
    OBVIOUS
  <2>1. /\ sendBuf \in [held : BOOLEAN, data : Seq(Msg)] /\ sendBuf.data = <<>>
        /\ queued = <<>> /\ QueuedOnce
    BY DEF Init, NoBuffer, QueuedOnce
  <2> QED
    BY <2>1, EmptyInLine DEF Init, LineInv, InLine
<1>2. LineInv => SentInOrder
  BY DEF LineInv, InLine, InOrder, SentInOrder
<1> QED
  BY <1>1, <1>2, LineStep, PTL DEF Spec
=============================================================================
