--------------------------- MODULE EpollCtxProofs ---------------------------
(***************************************************************************)
(* The safety of EpollCtx for any contexts, descriptors and threads.       *)
(*                                                                         *)
(* A call looks at _socket, gets the lock and reads _socket again.  What   *)
(* makes that safe is NoneMeets: while no call has overlapped a Close, no  *)
(* thread is between close(_socket) and _socket = -1 of a context that     *)
(* another one has a call for or is about to close; so the number that a   *)
(* call holds is still its context's (HoldsOwn).                           *)
(*                                                                         *)
(* GoneInv: what is closed is registered nowhere, so no later batch has an *)
(* event of it, and a batch has one event of a context.                    *)
(*                                                                         *)
(* SendInv: what there is to send is watched, or some thread is on its way *)
(* to ask for that or to remove the context, or to look; what comes while  *)
(* a call asks for EPOLLIN is noted as overtaken.                          *)
(***************************************************************************)
EXTENDS EpollCtx, TLAPS

Call == [op : {"none", "add", "modify", "remove"}, ctx : Ctx \cup {NoCtx},
         events : Events, fd : Fd \cup {NoFd}]
Place == InCall \cup {"idle", "data", "close", "reset"}

Types ==
    /\ socket \in [Ctx -> Fd \cup {NoFd}]
    /\ owner \in [Fd -> Ctx \cup {NoCtx}]
    /\ reg \in [Fd -> [ctx : Ctx, events : Events] \cup {NoReg}]
    /\ pc \in [Thread -> Place]
    /\ call \in [Thread -> Call]
    /\ batch \subseteq [ctx : Ctx, in : BOOLEAN, out : BOOLEAN]
    /\ \A t \in Thread : pc[t] # "idle" => call[t].ctx \in Ctx

NoneMeets ==
    \A t, u \in Thread :
        pc[t] \in InCall \cup {"close"} /\ pc[u] = "reset" => call[t].ctx # call[u].ctx

HoldsOwn ==
    \A t \in Thread :
        /\ pc[t] \in {"lock", "ctl"} => socket[call[t].ctx] # NoFd
        /\ pc[t] = "ctl" => call[t].fd = socket[call[t].ctx]

IInv ==
    /\ Types
    /\ ~raced => NoneMeets /\ HoldsOwn
    /\ OwnDescriptor

LEMMA InitInv == Init => IInv
<1> SUFFICES ASSUME Init PROVE IInv
  OBVIOUS
<1>1. NoCall \in Call
  BY DEF NoCall, Call, Events
<1> QED
  BY <1>1 DEF Init, IInv, Types, NoneMeets, HoldsOwn, OwnDescriptor, Place, InCall, NoReg

\* Steps of one thread that change neither the descriptors nor _socket, are not
\* in the middle of a Close, and register contexts for their own descriptors.
LEMMA CallStep ==
    ASSUME IInv, ~raced, NEW t \in Thread, NEW p \in Place, NEW x \in Call,
           UNCHANGED <<socket, owner>>,
           reg' \in [Fd -> [ctx : Ctx, events : Events] \cup {NoReg}],
           \A f \in Fd : reg'[f] # NoReg => reg'[f].ctx = owner[f],
           batch' \subseteq [ctx : Ctx, in : BOOLEAN, out : BOOLEAN],
           pc' = [pc EXCEPT ![t] = p], call' = [call EXCEPT ![t] = x],
           pc[t] # "reset", p # "reset",
           p # "idle" => x.ctx \in Ctx,
           p \in InCall \cup {"close"} /\ ~raced' =>
               \A u \in Thread \ {t} : pc[u] = "reset" => x.ctx # call[u].ctx,
           p \in {"lock", "ctl"} => socket[x.ctx] # NoFd,
           p = "ctl" => x.fd = socket[x.ctx]
    PROVE  IInv'
<1>1. /\ pc'[t] = p /\ call'[t] = x
      /\ \A u \in Thread : u # t => pc'[u] = pc[u] /\ call'[u] = call[u]
  BY DEF IInv, Types
<1>2. Types'
  BY <1>1 DEF IInv, Types
<1>3. ~raced' => NoneMeets'
  BY <1>1 DEF IInv, NoneMeets
<1>4. HoldsOwn'
  BY <1>1 DEF IInv, HoldsOwn
<1>5. OwnDescriptor'
  <2>1. ASSUME NEW c \in Ctx, socket[c] # NoFd
        PROVE  \/ owner[socket[c]] = c
               \/ \E u \in Thread : pc'[u] = "reset" /\ call'[u].ctx = c
    <3>1. CASE owner[socket[c]] = c
      BY <3>1
    <3>2. CASE owner[socket[c]] # c
      <4>1. PICK u \in Thread : pc[u] = "reset" /\ call[u].ctx = c
        BY <2>1, <3>2 DEF IInv, OwnDescriptor
      <4> QED
        BY <1>1, <4>1
    <3> QED
      BY <3>1, <3>2
  <2> QED
    BY <2>1 DEF IInv, OwnDescriptor
<1> QED
  BY <1>2, <1>3, <1>4, <1>5 DEF IInv

\* A step that leaves reg alone keeps it right.
LEMMA RegKept ==
    ASSUME IInv, reg' = reg
    PROVE  /\ reg' \in [Fd -> [ctx : Ctx, events : Events] \cup {NoReg}]
           /\ \A f \in Fd : reg'[f] # NoReg => reg'[f].ctx = owner[f]
BY DEF IInv, Types, OwnDescriptor

LEMMA EnterStep ==
    ASSUME IInv, ~raced, NEW t \in Thread, NEW op \in {"add", "modify", "remove"}, NEW c \in Ctx,
           NEW events \in Events, Enter(t, op, c, events), pc[t] # "reset",
           UNCHANGED <<socket, owner, reg>>,
           batch' \subseteq [ctx : Ctx, in : BOOLEAN, out : BOOLEAN]
    PROVE  IInv'
<1> DEFINE x == [op |-> op, ctx |-> c, events |-> events, fd |-> NoFd]
<1>1. x \in Call /\ "check" \in Place
  BY DEF Call, Place, InCall
<1>2. /\ pc' = [pc EXCEPT ![t] = "check"] /\ call' = [call EXCEPT ![t] = x]
      /\ raced' = Elsewhere(t, c, {"reset"})
  BY DEF Enter
<1>3. ~raced' => \A u \in Thread \ {t} : pc[u] = "reset" => x.ctx # call[u].ctx
  BY <1>2 DEF Elsewhere
<1> QED
  BY <1>1, <1>2, <1>3, RegKept, CallStep

\* What a call returns to.
LEMMA ReturnStep ==
    ASSUME IInv, ~raced, NEW t \in Thread, NEW ok \in BOOLEAN, Return(t, ok),
           pc[t] \in InCall,
           UNCHANGED <<socket, owner>>,
           reg' \in [Fd -> [ctx : Ctx, events : Events] \cup {NoReg}],
           \A f \in Fd : reg'[f] # NoReg => reg'[f].ctx = owner[f],
           batch' = batch
    PROVE  IInv'
<1>1. PICK p \in {"close", "data", "idle"}, x \in {NoCall, [call[t] EXCEPT !.fd = NoFd]} :
          /\ pc' = [pc EXCEPT ![t] = p] /\ call' = [call EXCEPT ![t] = x]
          /\ p # "idle" => x = [call[t] EXCEPT !.fd = NoFd]
  BY DEF Return
<1>2. p \in Place /\ p \notin InCall /\ p # "reset"
  BY DEF Place, InCall
<1>3. call[t] \in Call /\ call[t].ctx \in Ctx /\ pc[t] # "reset"
  BY DEF IInv, Types, InCall
<1>4. x \in Call /\ (p # "idle" => x.ctx \in Ctx)
  BY <1>1, <1>3 DEF Call, NoCall, Events
<1>5. batch' \subseteq [ctx : Ctx, in : BOOLEAN, out : BOOLEAN]
  BY DEF IInv, Types
<1>6. p = "close" => \A u \in Thread \ {t} : pc[u] = "reset" => x.ctx # call[u].ctx
  <2> SUFFICES ASSUME p = "close", NEW u \in Thread \ {t}, pc[u] = "reset"
               PROVE  x.ctx # call[u].ctx
    OBVIOUS
  <2>1. x.ctx = call[t].ctx
    BY <1>1, <1>3 DEF Call
  <2> QED
    BY <2>1 DEF IInv, NoneMeets
<1> QED
  BY <1>1, <1>2, <1>3, <1>4, <1>5, <1>6, CallStep DEF InCall

\* epoll_ctl registers a context for a descriptor that is its own.
LEMMA CtlStep == ASSUME IInv, ~raced, NEW t \in Thread, Ctl(t) PROVE IInv'
<1> DEFINE c == call[t].ctx
           f == call[t].fd
<1>1. /\ pc[t] = "ctl" /\ f # NoFd /\ Return(t, TRUE)
      /\ reg' = [reg EXCEPT ![f] = IF call[t].op = "remove" THEN NoReg
                                   ELSE [ctx |-> c, events |-> call[t].events]]
      /\ UNCHANGED <<socket, owner, batch>>
  BY DEF Ctl, CtlOk
<1>2. c \in Ctx /\ f \in Fd /\ call[t].events \in Events
  BY <1>1 DEF IInv, Types, Call
<1>3. owner[f] = c
  <2>1. socket[c] = f
    BY <1>1 DEF IInv, HoldsOwn
  <2>2. \A u \in Thread : ~(pc[u] = "reset" /\ call[u].ctx = c)
    BY <1>1 DEF IInv, NoneMeets, InCall
  <2> QED
    BY <1>1, <1>2, <2>1, <2>2 DEF IInv, OwnDescriptor
<1>4. reg' \in [Fd -> [ctx : Ctx, events : Events] \cup {NoReg}]
  BY <1>1, <1>2 DEF IInv, Types
<1>5. ASSUME NEW g \in Fd, reg'[g] # NoReg PROVE reg'[g].ctx = owner[g]
  BY <1>1, <1>2, <1>3, <1>5 DEF IInv, Types, OwnDescriptor
<1>6. pc[t] \in InCall
  BY <1>1 DEF InCall
<1> QED
  BY <1>1, <1>4, <1>5, <1>6, ReturnStep

\* close(_socket): the number is free, and until _socket = -1 the thread is at
\* "reset" with its context.
LEMMA CloseStep == ASSUME IInv, ~raced, NEW t \in Thread, Close(t) PROVE IInv'
<1> DEFINE c == call[t].ctx
           f == socket[c]
<1>1. /\ pc[t] = "close" /\ f # NoFd
      /\ owner' = [owner EXCEPT ![f] = NoCtx] /\ reg' = [reg EXCEPT ![f] = NoReg]
      /\ raced' = Elsewhere(t, c, InCall \cup {"close", "reset"})
      /\ pc' = [pc EXCEPT ![t] = "reset"]
      /\ UNCHANGED <<socket, batch, call>>
  BY DEF Close
<1>2. c \in Ctx /\ f \in Fd
  BY <1>1 DEF IInv, Types
<1>3. /\ pc'[t] = "reset" /\ \A u \in Thread : u # t => pc'[u] = pc[u]
      /\ pc' \in [Thread -> Place]
  BY <1>1 DEF IInv, Types, Place
<1>4. Types'
  BY <1>1, <1>2, <1>3 DEF IInv, Types
<1>5. ~raced' => NoneMeets'
  BY <1>1, <1>3 DEF IInv, NoneMeets, Elsewhere, InCall
<1>6. HoldsOwn'
  BY <1>1, <1>3 DEF IInv, HoldsOwn
<1>7. ASSUME NEW d \in Ctx, socket[d] # NoFd
      PROVE  \/ owner'[socket[d]] = d
             \/ \E u \in Thread : pc'[u] = "reset" /\ call[u].ctx = d
  <2>1. CASE d = c
    BY <1>3, <2>1
  <2>2. CASE d # c /\ owner[socket[d]] = d
    <3>1. socket[d] \in Fd
      BY <1>7 DEF IInv, Types
    <3>2. CASE socket[d] # f
      BY <1>1, <2>2, <3>1, <3>2 DEF IInv, Types
    <3>3. CASE socket[d] = f
      <4>1. owner[f] # c
        BY <2>2, <3>3
      <4>2. PICK u \in Thread : pc[u] = "reset" /\ call[u].ctx = c
        BY <1>1, <1>2, <4>1 DEF IInv, OwnDescriptor
      <4> QED
        BY <1>1, <4>2 DEF IInv, NoneMeets
    <3> QED
      BY <3>2, <3>3
  <2>3. CASE owner[socket[d]] # d
    <3>1. PICK u \in Thread : pc[u] = "reset" /\ call[u].ctx = d
      BY <1>7, <2>3 DEF IInv, OwnDescriptor
    <3> QED
      BY <1>1, <1>3, <3>1
  <2> QED
    BY <2>1, <2>2, <2>3
<1> QED
  BY <1>1, <1>2, <1>4, <1>5, <1>6, <1>7 DEF IInv, Types, OwnDescriptor

LEMMA ResetStep == ASSUME IInv, ~raced, NEW t \in Thread, Reset(t) PROVE IInv'
<1> DEFINE c == call[t].ctx
<1>1. /\ pc[t] = "reset"
      /\ socket' = [socket EXCEPT ![c] = NoFd]
      /\ pc' = [pc EXCEPT ![t] = "idle"] /\ call' = [call EXCEPT ![t] = NoCall]
      /\ UNCHANGED <<owner, reg, batch>>
  BY DEF Reset
<1>2. c \in Ctx /\ NoCall \in Call
  BY <1>1 DEF IInv, Types, NoCall, Call, Events
<1>3. /\ pc'[t] = "idle" /\ call'[t] = NoCall
      /\ \A u \in Thread : u # t => pc'[u] = pc[u] /\ call'[u] = call[u]
      /\ pc' \in [Thread -> Place] /\ call' \in [Thread -> Call]
      /\ socket' \in [Ctx -> Fd \cup {NoFd}]
      /\ socket'[c] = NoFd /\ \A d \in Ctx : d # c => socket'[d] = socket[d]
  BY <1>1, <1>2 DEF IInv, Types, Place
<1>4. Types'
  BY <1>1, <1>3 DEF IInv, Types
<1>5. NoneMeets'
  BY <1>3 DEF IInv, NoneMeets, InCall
<1>6. HoldsOwn'
  <2>1. ASSUME NEW u \in Thread, pc'[u] \in {"lock", "ctl"}
        PROVE  socket'[call'[u].ctx] = socket[call[u].ctx] /\ pc'[u] = pc[u] /\ call'[u] = call[u]
    <3>1. u # t /\ pc'[u] = pc[u] /\ call'[u] = call[u] /\ call[u].ctx \in Ctx
      BY <1>3, <2>1 DEF IInv, Types
    <3>2. call[u].ctx # c
      BY <1>1, <2>1, <3>1 DEF IInv, NoneMeets, InCall
    <3> QED
      BY <1>3, <3>1, <3>2
  <2>2. HoldsOwn
    BY DEF IInv
  <2> QED
    BY <2>1, <2>2 DEF HoldsOwn
<1>7. ASSUME NEW d \in Ctx, socket'[d] # NoFd
      PROVE  \/ owner[socket'[d]] = d
             \/ \E u \in Thread : pc'[u] = "reset" /\ call'[u].ctx = d
  <2>1. d # c /\ socket'[d] = socket[d]
    BY <1>3, <1>7
  <2>2. CASE owner[socket[d]] # d
    <3>1. PICK u \in Thread : pc[u] = "reset" /\ call[u].ctx = d
      BY <1>7, <2>1, <2>2 DEF IInv, OwnDescriptor
    <3> QED
      BY <1>3, <2>1, <3>1
  <2> QED
    BY <2>1, <2>2
<1> QED
  BY <1>1, <1>4, <1>5, <1>6, <1>7 DEF IInv, OwnDescriptor

\* A context gets a descriptor that no context has.
LEMMA ConnectStep ==
    ASSUME IInv, ~raced, NEW t \in App, NEW c \in Ctx, Connect(t, c) PROVE IInv'
<1>1. PICK f \in Fd :
          /\ pc[t] = "idle" /\ socket[c] = NoFd /\ owner[f] = NoCtx
          /\ owner' = [owner EXCEPT ![f] = c] /\ socket' = [socket EXCEPT ![c] = f]
          /\ UNCHANGED <<reg, pc, call, batch>>
  BY DEF Connect
<1>2. /\ socket'[c] = f /\ \A d \in Ctx : d # c => socket'[d] = socket[d]
      /\ owner'[f] = c /\ \A g \in Fd : g # f => owner'[g] = owner[g]
      /\ f # NoFd /\ c # NoCtx
  BY <1>1, EpollCtxAssumption DEF IInv, Types
<1>3. Types'
  BY <1>1 DEF IInv, Types
<1>4. ~raced' => NoneMeets'
  BY <1>1 DEF IInv, NoneMeets
<1>5. HoldsOwn'
  <2>1. ASSUME NEW u \in Thread, pc[u] \in {"lock", "ctl"}
        PROVE  socket'[call[u].ctx] = socket[call[u].ctx]
    <3>1. call[u].ctx \in Ctx /\ socket[call[u].ctx] # NoFd
      BY <2>1 DEF IInv, Types, HoldsOwn
    <3> QED
      BY <1>1, <1>2, <3>1
  <2>2. HoldsOwn
    BY DEF IInv
  <2> QED
    BY <1>1, <2>1, <2>2 DEF HoldsOwn
<1>6. ASSUME NEW d \in Ctx, socket'[d] # NoFd
      PROVE  \/ owner'[socket'[d]] = d
             \/ \E u \in Thread : pc[u] = "reset" /\ call[u].ctx = d
  <2>1. CASE d = c
    BY <1>2, <2>1
  <2>2. CASE d # c
    <3>1. socket'[d] = socket[d] /\ socket[d] \in Fd
      BY <1>2, <1>6, <2>2 DEF IInv, Types
    <3>2. CASE owner[socket[d]] = d
      <4>1. d # NoCtx
        BY EpollCtxAssumption
      <4> QED
        BY <1>1, <1>2, <3>1, <3>2, <4>1
    <3>3. CASE owner[socket[d]] # d
      BY <1>6, <3>1, <3>3 DEF IInv, OwnDescriptor
    <3> QED
      BY <3>2, <3>3
  <2> QED
    BY <2>1, <2>2
<1>7. ASSUME NEW g \in Fd, reg[g] # NoReg PROVE reg[g].ctx = owner'[g]
  <2>1. reg[g].ctx \in Ctx /\ reg[g].ctx = owner[g]
    BY <1>7 DEF IInv, Types, OwnDescriptor
  <2>2. g # f
    BY <1>1, <2>1, EpollCtxAssumption
  <2> QED
    BY <1>2, <2>1, <2>2
<1> QED
  BY <1>1, <1>3, <1>4, <1>5, <1>6, <1>7 DEF IInv, OwnDescriptor

\* The steps of a call before epoll_ctl, and its failure.
LEMMA OtherStep ==
    ASSUME IInv, ~raced, NEW t \in Thread,
           Check(t) \/ Lock(t) \/ CtlFails(t) \/ CloseNothing(t)
    PROVE  IInv'
<1>0. batch \subseteq [ctx : Ctx, in : BOOLEAN, out : BOOLEAN] /\ pc[t] \in Place /\ call[t] \in Call
      /\ pc \in [Thread -> Place] /\ call \in [Thread -> Call]
      /\ (pc[t] # "idle" => call[t].ctx \in Ctx)
  BY DEF IInv, Types
<1>1. CASE Check(t)
  <2>1. pc[t] = "check" /\ UNCHANGED <<socket, owner, reg, batch>>
    BY <1>1 DEF Check, kernel
  <2>2. CASE CheckOk(t)
    <3>1. /\ pc' = [pc EXCEPT ![t] = "lock"] /\ call' = [call EXCEPT ![t] = call[t]]
          /\ socket[call[t].ctx] # NoFd
      BY <1>0, <1>1, <2>2 DEF Check, CheckOk
    <3>2. \A u \in Thread \ {t} : pc[u] = "reset" => call[t].ctx # call[u].ctx
      BY <2>1 DEF IInv, NoneMeets, InCall
    <3>3. "lock" \in Place
      BY DEF Place, InCall
    <3> QED
      BY <1>0, <2>1, <3>1, <3>2, <3>3, RegKept, CallStep
  <2>3. CASE ~CheckOk(t)
    <3>1. Return(t, FALSE)
      BY <1>1, <2>3 DEF Check
    <3>2. pc[t] \in InCall
      BY <2>1 DEF InCall
    <3> QED
      BY <2>1, <3>1, <3>2, RegKept, ReturnStep
  <2> QED
    BY <2>2, <2>3
<1>2. CASE Lock(t)
  <2> DEFINE x == [call[t] EXCEPT !.fd = socket[call[t].ctx]]
  <2>1. /\ pc[t] = "lock" /\ UNCHANGED <<socket, owner, reg, batch>>
        /\ pc' = [pc EXCEPT ![t] = "ctl"] /\ call' = [call EXCEPT ![t] = x]
    BY <1>2 DEF Lock, kernel
  <2>2. call[t].ctx \in Ctx /\ socket[call[t].ctx] \in Fd /\ socket[call[t].ctx] # NoFd
    BY <2>1 DEF IInv, Types, HoldsOwn
  <2>3. x \in Call /\ x.ctx = call[t].ctx /\ x.fd = socket[call[t].ctx]
    BY <1>0, <2>2 DEF Call
  <2>4. \A u \in Thread \ {t} : pc[u] = "reset" => x.ctx # call[u].ctx
    BY <2>1, <2>3 DEF IInv, NoneMeets, InCall
  <2>5. "ctl" \in Place
    BY DEF Place, InCall
  <2> HIDE DEF x
  <2> QED
    BY <1>0, <2>1, <2>2, <2>3, <2>4, <2>5, RegKept, CallStep
<1>3. CASE CtlFails(t)
  <2>1. pc[t] \in InCall /\ Return(t, FALSE) /\ UNCHANGED <<socket, owner, reg, batch>>
    BY <1>3 DEF CtlFails, kernel, InCall
  <2> QED
    BY <2>1, RegKept, ReturnStep
<1>4. CASE CloseNothing(t)
  <2>1. /\ pc[t] = "close" /\ UNCHANGED <<socket, owner, reg, batch>>
        /\ pc' = [pc EXCEPT ![t] = "idle"] /\ call' = [call EXCEPT ![t] = NoCall]
    BY <1>4 DEF CloseNothing, kernel
  <2>2. NoCall \in Call /\ "idle" \in Place /\ "idle" \notin InCall \cup {"close"}
    BY DEF NoCall, Call, Events, Place, InCall
  <2> QED
    BY <1>0, <2>1, <2>2, RegKept, CallStep
<1> QED
  BY <1>1, <1>2, <1>3, <1>4

LEMMA ThreadStep == ASSUME IInv, ~raced, NEW t \in Thread, Step(t) PROVE IInv'
BY OtherStep, CtlStep, CloseStep, ResetStep DEF Step

\* The detector processes an event, or looks for data to send.
LEMMA DetectorStep ==
    ASSUME IInv, ~raced,
           \/ \E e \in batch, more, bNeedRemove \in BOOLEAN : Process(e, more, bNeedRemove)
           \/ HasData2Send
    PROVE  IInv'
<1>0. Detector \in Thread /\ \A c : Wanted(c) \in Events /\ "in" \in Events
  BY DEF Thread, Wanted, Events
<1>1. ASSUME NEW e \in batch, NEW more \in BOOLEAN, NEW bNeedRemove \in BOOLEAN,
             Process(e, more, bNeedRemove)
      PROVE  IInv'
  <2>1. /\ pc[Detector] = "idle" /\ batch' = batch \ {e} /\ UNCHANGED <<socket, owner, reg>>
    BY <1>1 DEF Process, Rest, kernel
  <2>2. e.ctx \in Ctx /\ batch' \subseteq [ctx : Ctx, in : BOOLEAN, out : BOOLEAN]
    BY <2>1 DEF IInv, Types
  <2>3. CASE bNeedRemove
    <3>1. Enter(Detector, "remove", e.ctx, "in")
      BY <1>1, <2>3 DEF Process
    <3> QED
      BY <1>0, <2>1, <2>2, <3>1, EnterStep
  <2>4. CASE ~bNeedRemove
    <3> DEFINE x == [NoCall EXCEPT !.ctx = e.ctx]
    <3>1. /\ pc' = [pc EXCEPT ![Detector] = "data"]
          /\ call' = [call EXCEPT ![Detector] = x]
      BY <1>1, <2>4 DEF Process
    <3>2. x \in Call /\ x.ctx = e.ctx /\ "data" \in Place /\ "data" \notin InCall \cup {"close"}
      BY <2>2 DEF NoCall, Call, Events, Place, InCall
    <3> HIDE DEF x
    <3> QED
      BY <1>0, <2>1, <2>2, <3>1, <3>2, RegKept, CallStep
  <2> QED
    BY <2>3, <2>4
<1>2. CASE HasData2Send
  <2> DEFINE c == call[Detector].ctx
  <2>1. /\ pc[Detector] = "data" /\ Enter(Detector, "modify", c, Wanted(c))
        /\ UNCHANGED <<socket, owner, reg, batch>>
    BY <1>2 DEF HasData2Send, kernel
  <2>2. c \in Ctx /\ batch' \subseteq [ctx : Ctx, in : BOOLEAN, out : BOOLEAN]
    BY <1>0, <2>1 DEF IInv, Types
  <2> QED
    BY <1>0, <2>1, <2>2, EnterStep
<1> QED
  BY <1>1, <1>2

\* Other threads begin a call.
LEMMA AppStep ==
    ASSUME IInv, ~raced, NEW t \in App, NEW c \in Ctx,
           AddSocket(t, c) \/ Send(t, c) \/ RemoveSocket(t, c)
    PROVE  IInv'
<1>1. t \in Thread /\ Wanted(c) \in Events /\ "in" \in Events /\ "out" \in Events
  BY DEF Thread, Wanted, Events
<1>2. /\ pc[t] = "idle" /\ UNCHANGED <<socket, owner, reg, batch>>
      /\ \/ Enter(t, "add", c, Wanted(c)) \/ Enter(t, "modify", c, "out")
         \/ Enter(t, "remove", c, "in")
  BY DEF AddSocket, Send, RemoveSocket, kernel
<1>3. batch' \subseteq [ctx : Ctx, in : BOOLEAN, out : BOOLEAN]
  BY <1>2 DEF IInv, Types
<1> QED
  BY <1>1, <1>2, <1>3, EnterStep

\* epoll_wait reports what is registered.
LEMMA WaitStep == ASSUME IInv, NEW F \in SUBSET Fd, DoDetect(F) PROVE IInv'
<1>1. /\ UNCHANGED <<socket, owner, reg, pc, call, raced>>
      /\ \A f \in F : reg[f] # NoReg
  BY DEF DoDetect, kernel, ghosts
<1>2. PICK r \in [F -> UNION {Reports(f) : f \in F}] :
          (\A f \in F : r[f] \in Reports(f)) /\ batch' = {r[f] : f \in F}
  BY DEF DoDetect
<1>3. ASSUME NEW f \in F PROVE r[f] \in [ctx : Ctx, in : BOOLEAN, out : BOOLEAN]
  <2>1. reg[f].ctx \in Ctx
    BY <1>1 DEF IInv, Types
  <2> DEFINE I == {TRUE, reg[f].events = "in"}
             O == {TRUE, reg[f].events = "out"}
  <2>2. I \subseteq BOOLEAN /\ O \subseteq BOOLEAN
    BY Zenon
  <2>3. Reports(f) = [ctx : {reg[f].ctx}, in : I, out : O]
    BY Zenon DEF Reports
  <2> HIDE DEF I, O
  <2>4. r[f] \in Reports(f)
    BY <1>2
  <2>5. Reports(f) \subseteq [ctx : Ctx, in : BOOLEAN, out : BOOLEAN]
    BY <2>1, <2>2, <2>3
  <2> QED
    BY <2>4, <2>5
<1>4. batch' \subseteq [ctx : Ctx, in : BOOLEAN, out : BOOLEAN]
  BY <1>2, <1>3
<1> QED
  BY <1>1, <1>4 DEF IInv, Types, NoneMeets, HoldsOwn, OwnDescriptor

LEMMA InvStep == IInv /\ [Next]_vars => IInv'
<1> SUFFICES ASSUME IInv, [Next]_vars PROVE IInv'
  OBVIOUS
<1>1. CASE UNCHANGED vars
  BY <1>1 DEF vars, IInv, Types, NoneMeets, HoldsOwn, OwnDescriptor
<1>2. CASE ~raced /\ (InitEpoll \/ CloseEpoll)
  <2>1. /\ reg' = [f \in Fd |-> NoReg]
        /\ UNCHANGED <<socket, owner, pc, call, batch, raced>>
    BY <1>2 DEF InitEpoll, CloseEpoll, ghosts
  <2> QED
    BY <2>1 DEF IInv, Types, NoneMeets, HoldsOwn, OwnDescriptor
<1>3. CASE ~raced /\ \E t \in App, c \in Ctx :
               Connect(t, c) \/ AddSocket(t, c) \/ Send(t, c) \/ RemoveSocket(t, c)
  BY <1>3, ConnectStep, AppStep
<1>4. CASE ~raced /\ \E t \in App : Step(t)
  BY <1>4, ThreadStep DEF Thread
<1>5. CASE ~raced /\ Detect
  BY <1>5, WaitStep, DetectorStep, ThreadStep DEF Detect, Thread
<1> QED
  BY <1>1, <1>2, <1>3, <1>4, <1>5 DEF Next

THEOREM Invariance == Spec => []IInv
BY InitInv, InvStep, PTL DEF Spec

\* Until a call of a context overlaps its Close or Connect, no context uses a
\* descriptor of another and no event goes to another, although numbers are
\* used again and _socket is read without the lock.
THEOREM UsesOwnDescriptor == Spec => []OwnDescriptor
<1>1. IInv => OwnDescriptor
  BY DEF IInv
<1> QED
  BY <1>1, Invariance, PTL
-----------------------------------------------------------------------------
(* What a context has to send, and what is removed.                        *)

\* Nothing is registered, and no call is past its check, without an epoll file.
NeedsEpoll ==
    ~epfd => /\ \A f \in Fd : reg[f] = NoReg
             /\ \A t \in Thread : pc[t] \notin {"lock", "ctl"}

\* A context has one descriptor, and none that it owns while it is closed; only
\* one thread closes it.
OneDescriptor ==
    /\ \A c \in Ctx, f \in Fd : owner[f] = c =>
           socket[c] = f /\ \A t \in Thread : pc[t] = "reset" => call[t].ctx # c
    /\ \A t \in Thread : pc[t] = "reset" =>
           /\ socket[call[t].ctx] # NoFd
           /\ \A u \in Thread : pc[u] = "reset" /\ call[u].ctx = call[t].ctx => u = t

\* A thread at p with the call x asks for EPOLLIN of c; it is on its way to ask
\* for EPOLLOUT, or to remove it.
Asks(p, x, c) ==
    x.ctx = c /\ p \in InCall /\ x.op \in {"add", "modify"} /\ x.events = "in"

Heads(p, x, c) ==
    /\ x.ctx = c
    /\ \/ p = "data"
       \/ p \in InCall /\ x.op = "remove"
       \/ p \in InCall /\ x.op = "modify" /\ x.events = "out"

OnItsWay(c) == \E t \in Thread : Heads(pc[t], call[t], c)

\* Data that comes while a call asks for EPOLLIN has overtaken it.
InputOvertaken ==
    \A c \in Ctx, t \in Thread : data[c] /\ Asks(pc[t], call[t], c) => c \in overtaken

Watched ==
    \A c \in Ctx : data[c] /\ Registered(c) /\ c \notin overtaken =>
        reg[socket[c]].events = "out" \/ OnItsWay(c)

SendInv ==
    /\ data \in [Ctx -> BOOLEAN] /\ overtaken \subseteq Ctx
    /\ \A t \in Thread : pc[t] \in InCall => call[t].op # "none"
    /\ NeedsEpoll /\ InputOvertaken /\ Watched

\* What is gone is registered nowhere, so it is in no later batch; a batch has
\* one event of a context.
GoneInv ==
    /\ late \in [Ctx -> {0, 1}]
    /\ ~raced => OneDescriptor
    /\ \A c \in gone, f \in Fd : reg[f] # NoReg => reg[f].ctx # c
    /\ \A e, g \in batch : e.ctx = g.ctx => e = g
    /\ \A c \in Ctx : late[c] # 0 => c \in gone /\ \A e \in batch : e.ctx # c
\* A thread moves to another place or another call.
LEMMA Moved ==
    ASSUME IInv, NEW t \in Thread, NEW p, NEW x,
           pc' = [pc EXCEPT ![t] = p], call' = [call EXCEPT ![t] = x]
    PROVE  /\ pc'[t] = p /\ call'[t] = x
           /\ \A u \in Thread : u # t => pc'[u] = pc[u] /\ call'[u] = call[u]
BY DEF IInv, Types

\* Where a call returns to.
LEMMA Returned ==
    ASSUME NEW t, NEW ok \in BOOLEAN, Return(t, ok)
    PROVE  \E p \in {"idle", "close", "data"}, x \in {NoCall, [call[t] EXCEPT !.fd = NoFd]} :
               /\ pc' = [pc EXCEPT ![t] = p] /\ call' = [call EXCEPT ![t] = x]
               /\ call[t].op # "remove" => p = "idle"
               /\ call[t].op = "remove" /\ ~ok =>
                      p = IF t = Detector THEN "data" ELSE "idle"
               /\ p # "idle" => x = [call[t] EXCEPT !.fd = NoFd]
BY DEF Return

\* The descriptor of a call is its context's own.
LEMMA HoldsOwned ==
    ASSUME IInv, ~raced, NEW t \in Thread, pc[t] = "ctl"
    PROVE  /\ call[t].ctx \in Ctx /\ call[t].fd = socket[call[t].ctx]
           /\ call[t].fd \in Fd /\ call[t].fd # NoFd /\ owner[call[t].fd] = call[t].ctx
<1> DEFINE c == call[t].ctx
<1>1. c \in Ctx /\ socket[c] # NoFd /\ socket[c] = call[t].fd /\ socket[c] \in Fd
  BY DEF IInv, Types, HoldsOwn
<1>2. \A u \in Thread : ~(pc[u] = "reset" /\ call[u].ctx = c)
  BY DEF IInv, NoneMeets, InCall
<1> QED
  BY <1>1, <1>2 DEF IInv, OwnDescriptor

-----------------------------------------------------------------------------
(* Nothing that is gone is called back twice.                              *)

\* A step that opens and closes nothing, registers nothing new and takes no
\* events.
LEMMA GoneKept ==
    ASSUME GoneInv, ~raced' => ~raced, UNCHANGED <<socket, owner, gone, late>>,
           \A f \in Fd : reg'[f] # NoReg => reg[f] # NoReg /\ reg'[f].ctx = reg[f].ctx,
           batch' \subseteq batch,
           \A u \in Thread : pc'[u] = "reset" => pc[u] = "reset" /\ call'[u] = call[u]
    PROVE  GoneInv'
<1>1. ~raced' => OneDescriptor'
  BY DEF GoneInv, OneDescriptor
<1>2. \A c \in gone', f \in Fd : reg'[f] # NoReg => reg'[f].ctx # c
  BY DEF GoneInv
<1>3. \A e, g \in batch' : e.ctx = g.ctx => e = g
  BY DEF GoneInv
<1>4. \A c \in Ctx : late'[c] # 0 => c \in gone' /\ \A e \in batch' : e.ctx # c
  BY DEF GoneInv
<1> QED
  BY <1>1, <1>2, <1>3, <1>4 DEF GoneInv

LEMMA GoneKeptByMove ==
    ASSUME IInv, GoneInv, ~raced, NEW t \in Thread, NEW p, NEW x, p # "reset",
           pc' = [pc EXCEPT ![t] = p], call' = [call EXCEPT ![t] = x],
           UNCHANGED <<socket, owner, reg, gone, late>>, batch' \subseteq batch
    PROVE  GoneInv'
<1>1. \A u \in Thread : pc'[u] = "reset" => pc[u] = "reset" /\ call'[u] = call[u]
  BY Moved
<1> QED
  BY <1>1, GoneKept

LEMMA GoneCtl == ASSUME IInv, GoneInv, ~raced, NEW t \in Thread, Ctl(t) PROVE GoneInv'
<1> DEFINE c == call[t].ctx
           f == call[t].fd
<1>1. /\ pc[t] = "ctl" /\ Return(t, TRUE) /\ CtlOk(t)
      /\ reg' = [reg EXCEPT ![f] = IF call[t].op = "remove" THEN NoReg
                                   ELSE [ctx |-> c, events |-> call[t].events]]
      /\ IF call[t].op = "add" THEN gone' = gone \ {c} /\ late' = [late EXCEPT ![c] = 0]
                               ELSE UNCHANGED <<gone, late>>
      /\ UNCHANGED <<socket, owner, batch, raced>>
  BY DEF Ctl
<1>2. c \in Ctx /\ f \in Fd /\ f = socket[c] /\ owner[f] = c
  BY <1>1, HoldsOwned
<1>3. PICK p \in {"idle", "close", "data"}, x \in {NoCall, [call[t] EXCEPT !.fd = NoFd]} :
          pc' = [pc EXCEPT ![t] = p] /\ call' = [call EXCEPT ![t] = x]
  BY <1>1, Returned
<1>4. /\ p # "reset" /\ pc'[t] = p
      /\ \A u \in Thread : u # t => pc'[u] = pc[u] /\ call'[u] = call[u]
  BY <1>3, Moved
<1>5. OneDescriptor'
  BY <1>1, <1>4 DEF GoneInv, OneDescriptor
<1>6. reg \in [Fd -> [ctx : Ctx, events : Events] \cup {NoReg}]
  BY DEF IInv, Types
<1>7. ASSUME NEW d \in gone', NEW g \in Fd, reg'[g] # NoReg PROVE reg'[g].ctx # d
  <2>1. d \in gone /\ (call[t].op = "add" => d # c)
    BY <1>1, <1>7
  <2>2. CASE g # f
    BY <1>1, <1>2, <1>6, <1>7, <2>1, <2>2 DEF GoneInv
  <2>3. CASE g = f
    <3>1. call[t].op # "remove" /\ reg'[g].ctx = c
      BY <1>1, <1>2, <1>6, <1>7, <2>3
    <3>2. CASE call[t].op = "add"
      BY <2>1, <3>1, <3>2
    <3>3. CASE call[t].op # "add"
      <4>1. reg[f] # NoReg
        BY <1>1, <3>3 DEF CtlOk
      <4>2. reg[f].ctx = c
        BY <1>2, <4>1 DEF IInv, OwnDescriptor
      <4> QED
        BY <1>2, <2>1, <3>1, <4>1, <4>2 DEF GoneInv
    <3> QED
      BY <3>2, <3>3
  <2> QED
    BY <2>2, <2>3
<1>8. /\ late' \in [Ctx -> {0, 1}]
      /\ \A d \in Ctx : late'[d] # 0 => d \in gone' /\ \A e \in batch' : e.ctx # d
  <2>1. CASE call[t].op = "add"
    BY <1>1, <1>2, <2>1 DEF GoneInv
  <2>2. CASE call[t].op # "add"
    BY <1>1, <2>2 DEF GoneInv
  <2> QED
    BY <2>1, <2>2
<1> QED
  BY <1>1, <1>5, <1>7, <1>8 DEF GoneInv

LEMMA GoneClose == ASSUME IInv, GoneInv, ~raced, NEW t \in Thread, Close(t) PROVE GoneInv'
<1> DEFINE c == call[t].ctx
           f == socket[c]
<1>1. /\ pc[t] = "close" /\ f # NoFd
      /\ owner' = [owner EXCEPT ![f] = NoCtx] /\ reg' = [reg EXCEPT ![f] = NoReg]
      /\ raced' = Elsewhere(t, c, InCall \cup {"close", "reset"})
      /\ pc' = [pc EXCEPT ![t] = "reset"]
      /\ UNCHANGED <<socket, batch, call, gone, late>>
  BY DEF Close
<1>2. c \in Ctx /\ f \in Fd /\ NoCtx \notin Ctx
  BY <1>1, EpollCtxAssumption DEF IInv, Types
<1>3. /\ pc'[t] = "reset" /\ \A u \in Thread : u # t => pc'[u] = pc[u]
  BY <1>1 DEF IInv, Types
<1>4. ASSUME ~raced' PROVE OneDescriptor'
  <2>1. \A u \in Thread \ {t} : pc[u] = "reset" => call[u].ctx # c
    BY <1>1, <1>4 DEF Elsewhere
  <2>2. ASSUME NEW d \in Ctx, NEW g \in Fd, owner'[g] = d
        PROVE  socket[d] = g /\ \A u \in Thread : pc'[u] = "reset" => call[u].ctx # d
    <3>1. g # f /\ owner[g] = d
      BY <1>1, <1>2, <2>2 DEF IInv, Types
    <3>2. socket[d] = g /\ \A u \in Thread : pc[u] = "reset" => call[u].ctx # d
      BY <3>1 DEF GoneInv, OneDescriptor
    <3> QED
      BY <1>3, <3>1, <3>2
  <2>3. ASSUME NEW u \in Thread, pc'[u] = "reset"
        PROVE  /\ socket[call[u].ctx] # NoFd
               /\ \A v \in Thread : pc'[v] = "reset" /\ call[v].ctx = call[u].ctx => v = u
    BY <1>1, <1>3, <2>1, <2>3 DEF GoneInv, OneDescriptor
  <2> QED
    BY <1>1, <2>2, <2>3 DEF OneDescriptor
<1>5. ASSUME NEW d \in gone', NEW g \in Fd, reg'[g] # NoReg PROVE reg'[g].ctx # d
  <2>1. g # f /\ reg'[g] = reg[g]
    BY <1>1, <1>2, <1>5 DEF IInv, Types
  <2> QED
    BY <1>1, <1>5, <2>1 DEF GoneInv
<1> QED
  BY <1>1, <1>4, <1>5 DEF GoneInv

\* The context that is closed owns no descriptor any more, so it is registered
\* nowhere.
LEMMA GoneReset == ASSUME IInv, GoneInv, ~raced, NEW t \in Thread, Reset(t) PROVE GoneInv'
<1> DEFINE c == call[t].ctx
<1>1. /\ pc[t] = "reset" /\ socket' = [socket EXCEPT ![c] = NoFd]
      /\ gone' = gone \cup {c}
      /\ pc' = [pc EXCEPT ![t] = "idle"] /\ call' = [call EXCEPT ![t] = NoCall]
      /\ UNCHANGED <<owner, reg, batch, raced, late>>
  BY DEF Reset
<1>2. c \in Ctx /\ OneDescriptor
  BY <1>1 DEF IInv, Types, GoneInv
<1>3. /\ pc'[t] = "idle" /\ \A u \in Thread : u # t => pc'[u] = pc[u] /\ call'[u] = call[u]
      /\ \A d \in Ctx : d # c => socket'[d] = socket[d]
  BY <1>1, <1>2, Moved DEF IInv, Types
<1>4. \A f \in Fd : owner[f] # c
  BY <1>1, <1>2 DEF OneDescriptor
<1>5. OneDescriptor'
  <2>1. ASSUME NEW d \in Ctx, NEW g \in Fd, owner[g] = d
        PROVE  socket'[d] = g /\ \A u \in Thread : pc'[u] = "reset" => call'[u].ctx # d
    BY <1>2, <1>3, <1>4, <2>1 DEF OneDescriptor
  <2>2. ASSUME NEW u \in Thread, pc'[u] = "reset"
        PROVE  /\ socket'[call'[u].ctx] # NoFd
               /\ \A v \in Thread : pc'[v] = "reset" /\ call'[v].ctx = call'[u].ctx => v = u
    <3>1. u # t /\ pc[u] = "reset" /\ call'[u] = call[u] /\ call[u].ctx \in Ctx
      BY <1>3, <2>2 DEF IInv, Types
    <3>2. call[u].ctx # c /\ socket'[call[u].ctx] = socket[call[u].ctx]
      BY <1>1, <1>2, <1>3, <3>1 DEF OneDescriptor
    <3>3. ASSUME NEW v \in Thread, pc'[v] = "reset", call'[v].ctx = call'[u].ctx PROVE v = u
      <4>1. v # t /\ pc[v] = "reset" /\ call[v].ctx = call[u].ctx
        BY <1>3, <3>1, <3>3
      <4> QED
        BY <1>2, <3>1, <4>1 DEF OneDescriptor
    <3> QED
      BY <1>2, <3>1, <3>2, <3>3 DEF OneDescriptor
  <2> QED
    BY <1>1, <2>1, <2>2 DEF OneDescriptor
<1>6. ASSUME NEW d \in gone', NEW g \in Fd, reg[g] # NoReg PROVE reg[g].ctx # d
  <2>1. reg[g].ctx = owner[g]
    BY <1>6 DEF IInv, OwnDescriptor
  <2> QED
    BY <1>1, <1>4, <1>6, <2>1 DEF GoneInv
<1> QED
  BY <1>1, <1>5, <1>6 DEF GoneInv
LEMMA GoneConnect ==
    ASSUME IInv, GoneInv, ~raced, NEW t \in App, NEW c \in Ctx, Connect(t, c) PROVE GoneInv'
<1>1. PICK f \in Fd :
          /\ socket[c] = NoFd /\ owner[f] = NoCtx
          /\ owner' = [owner EXCEPT ![f] = c] /\ socket' = [socket EXCEPT ![c] = f]
          /\ UNCHANGED <<reg, pc, call, batch, gone, late>>
  BY DEF Connect
<1>2. f # NoFd /\ OneDescriptor
  BY EpollCtxAssumption DEF GoneInv
<1>3. /\ socket'[c] = f /\ \A d \in Ctx : d # c => socket'[d] = socket[d]
      /\ \A g \in Fd : g # f => owner'[g] = owner[g]
      /\ owner'[f] = c
  BY <1>1 DEF IInv, Types
<1>4. ASSUME NEW d \in Ctx, NEW g \in Fd, owner'[g] = d
      PROVE  socket'[d] = g /\ \A u \in Thread : pc[u] = "reset" => call[u].ctx # d
  <2>1. CASE g = f
    BY <1>1, <1>2, <1>3, <1>4, <2>1 DEF OneDescriptor
  <2>2. CASE g # f
    <3>1. owner[g] = d /\ socket[d] = g /\ g # NoFd
      BY <1>2, <1>3, <1>4, <2>2, EpollCtxAssumption DEF OneDescriptor
    <3>2. d # c
      BY <1>1, <3>1
    <3> QED
      BY <1>2, <1>3, <3>1, <3>2 DEF OneDescriptor
  <2> QED
    BY <2>1, <2>2
<1>5. ASSUME NEW u \in Thread, pc[u] = "reset" PROVE socket'[call[u].ctx] # NoFd
  BY <1>2, <1>3, <1>5 DEF OneDescriptor, IInv, Types
<1>6. OneDescriptor'
  BY <1>1, <1>2, <1>4, <1>5 DEF OneDescriptor
<1> QED
  BY <1>1, <1>6 DEF GoneInv

\* The event of a context leaves the batch when it is called back.
LEMMA GoneProcess ==
    ASSUME IInv, GoneInv, ~raced,
           NEW e \in batch, NEW more \in BOOLEAN, NEW bNeedRemove \in BOOLEAN,
           Process(e, more, bNeedRemove)
    PROVE  GoneInv'
<1> DEFINE c == e.ctx
<1>1. /\ batch' = batch \ {e} /\ UNCHANGED <<socket, owner, reg, gone>>
      /\ late' = [late EXCEPT ![c] = IF c \in gone /\ @ < 2 THEN @ + 1 ELSE @]
  BY DEF Process, Rest, kernel
<1>2. PICK p, x : p # "reset" /\ pc' = [pc EXCEPT ![Detector] = p] /\ call' = [call EXCEPT ![Detector] = x]
  BY DEF Process, Enter
<1>3. \A u \in Thread : pc'[u] = "reset" => pc[u] = "reset" /\ call'[u] = call[u]
  <2>1. Detector \in Thread
    BY DEF Thread
  <2> QED
    BY <1>2, <2>1, Moved
<1>4. ~raced' => OneDescriptor'
  BY <1>1, <1>3 DEF GoneInv, OneDescriptor
<1>5. /\ \A d \in gone', f \in Fd : reg'[f] # NoReg => reg'[f].ctx # d
      /\ \A g, h \in batch' : g.ctx = h.ctx => g = h
  BY <1>1 DEF GoneInv
<1>6. late[c] = 0 /\ c \in Ctx
  BY DEF GoneInv, IInv, Types
<1>7. late' = [late EXCEPT ![c] = IF c \in gone THEN 1 ELSE 0]
  BY <1>1, <1>6
<1>8. late' \in [Ctx -> {0, 1}]
  BY <1>6, <1>7 DEF GoneInv
<1>9. ASSUME NEW d \in Ctx, late'[d] # 0 PROVE d \in gone' /\ \A g \in batch' : g.ctx # d
  <2>1. CASE d = c
    BY <1>1, <1>6, <1>7, <1>9, <2>1 DEF GoneInv
  <2>2. CASE d # c
    BY <1>1, <1>6, <1>7, <1>9, <2>2 DEF GoneInv
  <2> QED
    BY <2>1, <2>2
<1> QED
  BY <1>4, <1>5, <1>8, <1>9 DEF GoneInv

\* A batch is taken when the last one is done, with one event of a descriptor.
LEMMA GoneWait ==
    ASSUME IInv, GoneInv, ~raced, NEW F \in SUBSET Fd, DoDetect(F) PROVE GoneInv'
<1>1. /\ UNCHANGED <<socket, owner, reg, pc, call, raced, gone, late>>
      /\ \A f \in F : reg[f] # NoReg
  BY DEF DoDetect, kernel, ghosts
<1>2. PICK r \in [F -> UNION {Reports(f) : f \in F}] :
          (\A f \in F : r[f] \in Reports(f)) /\ batch' = {r[f] : f \in F}
  BY DEF DoDetect
<1>3. ASSUME NEW f \in F
      PROVE  r[f].ctx = reg[f].ctx /\ reg[f].ctx = owner[f] /\ owner[f] \in Ctx
  <2> DEFINE I == {TRUE, reg[f].events = "in"}
             O == {TRUE, reg[f].events = "out"}
  <2>1. r[f] \in [ctx : {reg[f].ctx}, in : I, out : O]
    BY <1>2, Zenon DEF Reports
  <2> HIDE DEF I, O
  <2>2. r[f].ctx = reg[f].ctx
    BY <2>1
  <2> QED
    BY <1>1, <2>2 DEF IInv, Types, OwnDescriptor
<1>4. ASSUME NEW f \in F, NEW g \in F, r[f].ctx = r[g].ctx PROVE f = g
  <2>1. f \in Fd /\ g \in Fd /\ owner[f] = owner[g] /\ owner[f] \in Ctx
    BY <1>3, <1>4
  <2> QED
    BY <2>1 DEF GoneInv, OneDescriptor
<1>5. \A e, g \in batch' : e.ctx = g.ctx => e = g
  BY <1>2, <1>4
<1>6. ASSUME NEW c \in Ctx, late'[c] # 0 PROVE c \in gone' /\ \A e \in batch' : e.ctx # c
  <2>1. c \in gone
    BY <1>1, <1>6 DEF GoneInv
  <2>2. \A f \in F : r[f].ctx # c
    BY <1>1, <1>3, <2>1 DEF GoneInv
  <2> QED
    BY <1>1, <1>2, <2>1, <2>2
<1> QED
  BY <1>1, <1>5, <1>6 DEF GoneInv, OneDescriptor

LEMMA GoneStep == IInv /\ GoneInv /\ [Next]_vars => GoneInv'
<1> SUFFICES ASSUME IInv, GoneInv, [Next]_vars PROVE GoneInv'
  OBVIOUS
<1>1. CASE UNCHANGED vars
  BY <1>1, GoneKept DEF vars
<1>2. CASE ~raced /\ (InitEpoll \/ CloseEpoll)
  <2>1. /\ reg' = [f \in Fd |-> NoReg]
        /\ UNCHANGED <<socket, owner, pc, call, batch, raced, gone, late>>
    BY <1>2 DEF InitEpoll, CloseEpoll, ghosts
  <2> QED
    BY <2>1, GoneKept
<1>3. ASSUME ~raced, NEW t \in App, NEW c \in Ctx,
             AddSocket(t, c) \/ Send(t, c) \/ RemoveSocket(t, c)
      PROVE  GoneInv'
  <2>1. /\ t \in Thread /\ UNCHANGED <<socket, owner, reg, batch, gone, late>>
        /\ \E p, x : p # "reset" /\ pc' = [pc EXCEPT ![t] = p] /\ call' = [call EXCEPT ![t] = x]
    BY <1>3 DEF AddSocket, Send, RemoveSocket, Enter, kernel, Thread
  <2> QED
    BY <1>3, <2>1, GoneKeptByMove
<1>4. CASE ~raced /\ HasData2Send
  <2>1. /\ Detector \in Thread /\ UNCHANGED <<socket, owner, reg, batch, gone, late>>
        /\ \E p, x : p # "reset" /\ pc' = [pc EXCEPT ![Detector] = p] /\ call' = [call EXCEPT ![Detector] = x]
    BY <1>4 DEF HasData2Send, Enter, kernel, Thread
  <2> QED
    BY <1>4, <2>1, GoneKeptByMove
<1>5. ASSUME ~raced, NEW t \in Thread, Check(t) \/ Lock(t) \/ CtlFails(t) \/ CloseNothing(t)
      PROVE  GoneInv'
  <2>1. UNCHANGED <<socket, owner, reg, batch, gone, late>>
    BY <1>5 DEF Check, Lock, CtlFails, CloseNothing, kernel, ghosts
  <2>2. \E p, x : p # "reset" /\ pc' = [pc EXCEPT ![t] = p] /\ call' = [call EXCEPT ![t] = x]
    <3>1. CASE Return(t, FALSE)
      <4>1. PICK p \in {"idle", "close", "data"}, x \in {NoCall, [call[t] EXCEPT !.fd = NoFd]} :
                pc' = [pc EXCEPT ![t] = p] /\ call' = [call EXCEPT ![t] = x]
        BY <3>1, Returned
      <4> QED
        BY <4>1
    <3>2. CASE Check(t) /\ CheckOk(t)
      <4>1. pc' = [pc EXCEPT ![t] = "lock"] /\ call' = [call EXCEPT ![t] = call[t]]
        BY <3>2 DEF Check, IInv, Types
      <4> QED
        BY <4>1
    <3>3. CASE Lock(t) \/ CloseNothing(t)
      BY <3>3 DEF Lock, CloseNothing
    <3> QED
      BY <1>5, <3>1, <3>2, <3>3 DEF Check, CtlFails
  <2> QED
    BY <1>5, <2>1, <2>2, GoneKeptByMove
<1>6. ASSUME ~raced, NEW t \in Thread, Step(t) PROVE GoneInv'
  BY <1>5, <1>6, GoneCtl, GoneClose, GoneReset DEF Step
<1> QED
  BY <1>1, <1>2, <1>3, <1>4, <1>6, GoneConnect, GoneProcess, GoneWait
     DEF Next, Detect, Thread

\* Who has removed a context and closed it is called back for it at most once
\* more, however many events the batch had and however the calls interleave.
THEOREM GoneIsCalledOnce == Spec => []GoneCalledAtMostOnce
<1>1. Init => GoneInv
  BY EpollCtxAssumption DEF Init, GoneInv, OneDescriptor, NoReg
<1>2. GoneInv => GoneCalledAtMostOnce
  <2> SUFFICES ASSUME GoneInv, NEW c \in Ctx PROVE late[c] < 2
    BY DEF GoneCalledAtMostOnce
  <2>1. late[c] = 0 \/ late[c] = 1
    BY DEF GoneInv
  <2> QED
    BY <2>1
<1> QED
  BY <1>1, <1>2, GoneStep, Invariance, PTL DEF Spec
-----------------------------------------------------------------------------
(* What there is to send is watched for.                                   *)

LEMMA AskingIs == ASSUME NEW c PROVE AsksForInput(c) <=> \E t \in Thread : Asks(pc[t], call[t], c)
BY DEF AsksForInput, Asks

\* Without an epoll file, and with nothing at its descriptor, a context is not
\* registered.
LEMMA NotRegistered ==
    ASSUME IInv, SendInv, NEW c \in Ctx,
           ~epfd \/ socket[c] = NoFd \/ reg[socket[c]] = NoReg
    PROVE  ~Registered(c)
<1>1. NoReg.ctx = NoCtx /\ NoCtx # c
  BY EpollCtxAssumption DEF NoReg
<1>2. socket[c] # NoFd => socket[c] \in Fd
  BY DEF IInv, Types
<1> QED
  BY <1>1, <1>2 DEF Registered, SendInv, NeedsEpoll

\* A thread moves: what it was on its way to do it still is, unless there is no
\* need any more, and what it begins to ask for is right.
LEMMA SendMoved ==
    ASSUME IInv, SendInv, NEW t \in Thread, NEW p, NEW x,
           pc' = [pc EXCEPT ![t] = p], call' = [call EXCEPT ![t] = x],
           UNCHANGED <<epfd, socket, reg>>,
           data' \in [Ctx -> BOOLEAN], overtaken' \subseteq Ctx,
           p \in {"lock", "ctl"} => epfd,
           p \in InCall => x.op # "none",
           \A c \in Ctx : data'[c] /\ c \notin overtaken' =>
               (data[c] /\ c \notin overtaken) \/ Heads(p, x, c),
           \A c \in Ctx : data'[c] /\ c \notin overtaken' /\ Registered(c) /\ Heads(pc[t], call[t], c) =>
               Heads(p, x, c),
           \A c \in Ctx : data'[c] /\ AsksForInput(c) => c \in overtaken',
           \A c \in Ctx : data'[c] /\ Asks(p, x, c) => c \in overtaken'
    PROVE  SendInv'
<1>1. /\ pc'[t] = p /\ call'[t] = x
      /\ \A u \in Thread : u # t => pc'[u] = pc[u] /\ call'[u] = call[u]
  BY Moved
<1>2. NeedsEpoll'
  BY <1>1 DEF SendInv, NeedsEpoll
<1>3. InputOvertaken'
  <2> SUFFICES ASSUME NEW c \in Ctx, NEW u \in Thread, data'[c], Asks(pc'[u], call'[u], c)
               PROVE  c \in overtaken'
    BY DEF InputOvertaken
  <2>1. CASE u = t
    BY <1>1, <2>1
  <2>2. CASE u # t
    <3>1. AsksForInput(c)
      BY <1>1, <2>2, AskingIs
    <3> QED
      BY <3>1
  <2> QED
    BY <2>1, <2>2
<1>4. Watched'
  <2> SUFFICES ASSUME NEW c \in Ctx, data'[c], Registered(c)', c \notin overtaken',
                      ~Heads(p, x, c), reg[socket[c]].events # "out"
               PROVE  \E u \in Thread : Heads(pc'[u], call'[u], c)
    BY <1>1 DEF Watched, OnItsWay
  <2>1. Registered(c) /\ data[c] /\ c \notin overtaken
    BY DEF Registered
  <2>2. PICK u \in Thread : Heads(pc[u], call[u], c)
    BY <2>1 DEF SendInv, Watched, OnItsWay
  <2>3. u # t
    BY <2>1, <2>2
  <2> QED
    BY <1>1, <2>2, <2>3
<1>5. \A u \in Thread : pc'[u] \in InCall => call'[u].op # "none"
  BY <1>1 DEF SendInv
<1> QED
  BY <1>2, <1>3, <1>4, <1>5 DEF SendInv

\* Who was not on its way to anything moves, or begins a call.
LEMMA SendMovedFree ==
    ASSUME IInv, SendInv, NEW t \in Thread, NEW p, NEW x, pc[t] = "idle" \/ pc[t] = "close",
           pc' = [pc EXCEPT ![t] = p], call' = [call EXCEPT ![t] = x],
           p \notin {"lock", "ctl"}, p \in InCall => x.op # "none",
           UNCHANGED <<epfd, socket, reg, data, overtaken>>,
           \A c \in Ctx : data[c] => ~Asks(p, x, c)
    PROVE  SendInv'
<1>1. \A c \in Ctx : data[c] /\ AsksForInput(c) => c \in overtaken
  BY AskingIs DEF SendInv, InputOvertaken
<1>2. \A c \in Ctx : ~Heads(pc[t], call[t], c)
  BY DEF Heads, InCall
<1>3. data' \in [Ctx -> BOOLEAN] /\ overtaken' \subseteq Ctx
  BY DEF SendInv
<1> QED
  BY <1>1, <1>2, <1>3, SendMoved

\* A call that can register nothing returns: then its context is not
\* registered, or the detector goes on to look for data.
LEMMA SendReturned ==
    ASSUME IInv, SendInv, NEW t \in Thread, pc[t] \in InCall, Return(t, FALSE),
           UNCHANGED <<epfd, socket, reg, data, overtaken>>,
           call[t].op # "add" => ~Registered(call[t].ctx)
    PROVE  SendInv'
<1>1. PICK p \in {"idle", "close", "data"}, x \in {NoCall, [call[t] EXCEPT !.fd = NoFd]} :
          pc' = [pc EXCEPT ![t] = p] /\ call' = [call EXCEPT ![t] = x]
  BY Returned
<1>2. \A c \in Ctx : data[c] /\ AsksForInput(c) => c \in overtaken
  BY AskingIs DEF SendInv, InputOvertaken
<1>3. ASSUME NEW c \in Ctx, Registered(c) PROVE ~Heads(pc[t], call[t], c)
  BY <1>3 DEF Heads, InCall
<1>4. p \notin InCall
  BY DEF InCall
<1>5. \A c \in Ctx : ~Asks(p, x, c)
  BY <1>4 DEF Asks
<1>6. data' \in [Ctx -> BOOLEAN] /\ overtaken' \subseteq Ctx /\ p \notin {"lock", "ctl"}
  BY DEF SendInv
<1> QED
  BY <1>1, <1>2, <1>3, <1>4, <1>5, <1>6, SendMoved

LEMMA SendOther ==
    ASSUME IInv, SendInv, ~raced, NEW t \in Thread,
           Check(t) \/ Lock(t) \/ CtlFails(t) \/ CloseNothing(t)
    PROVE  SendInv'
<1>0. /\ UNCHANGED <<epfd, socket, reg, data, overtaken>>
      /\ data' \in [Ctx -> BOOLEAN] /\ overtaken' \subseteq Ctx
      /\ \A c \in Ctx : data[c] /\ AsksForInput(c) => c \in overtaken
  <2>1. \A c \in Ctx : data[c] /\ AsksForInput(c) => c \in overtaken
    BY AskingIs DEF SendInv, InputOvertaken
  <2> QED
    BY <2>1 DEF Check, Lock, CtlFails, CloseNothing, kernel, ghosts, SendInv
<1>1. CASE Check(t) /\ CheckOk(t)
  <2>1. /\ pc[t] = "check" /\ epfd /\ call[t].op # "none"
        /\ pc' = [pc EXCEPT ![t] = "lock"] /\ call' = [call EXCEPT ![t] = call[t]]
    BY <1>1 DEF Check, CheckOk, IInv, Types, SendInv, InCall
  <2>2. \A c \in Ctx : /\ Heads("lock", call[t], c) <=> Heads(pc[t], call[t], c)
                       /\ Asks("lock", call[t], c) <=> Asks(pc[t], call[t], c)
    BY <2>1 DEF Heads, Asks, InCall
  <2>3. \A c \in Ctx : data[c] /\ Asks("lock", call[t], c) => c \in overtaken
    BY <2>2 DEF SendInv, InputOvertaken
  <2> QED
    BY <1>0, <2>1, <2>2, <2>3, SendMoved
<1>2. CASE Check(t) /\ ~CheckOk(t)
  <2>1. pc[t] \in InCall /\ Return(t, FALSE)
    BY <1>2 DEF Check, InCall
  <2>2. call[t].ctx \in Ctx /\ (~epfd \/ socket[call[t].ctx] = NoFd)
    BY <1>2, <2>1 DEF CheckOk, IInv, Types, InCall
  <2> QED
    BY <1>0, <2>1, <2>2, NotRegistered, SendReturned
<1>3. CASE Lock(t)
  <2> DEFINE x == [call[t] EXCEPT !.fd = socket[call[t].ctx]]
  <2>1. /\ pc[t] = "lock"
        /\ pc' = [pc EXCEPT ![t] = "ctl"] /\ call' = [call EXCEPT ![t] = x]
    BY <1>3 DEF Lock
  <2>2. epfd /\ call[t].op # "none"
    BY <2>1 DEF SendInv, NeedsEpoll, InCall
  <2>3. call[t] \in Call
    BY DEF IInv, Types
  <2>4. x.ctx = call[t].ctx /\ x.op = call[t].op /\ x.events = call[t].events
    BY <2>3 DEF Call
  <2> HIDE DEF x
  <2>5. \A c \in Ctx : /\ Heads("ctl", x, c) <=> Heads(pc[t], call[t], c)
                       /\ Asks("ctl", x, c) <=> Asks(pc[t], call[t], c)
    BY <2>1, <2>4 DEF Heads, Asks, InCall
  <2>6. \A c \in Ctx : data[c] /\ Asks("ctl", x, c) => c \in overtaken
    BY <2>5 DEF SendInv, InputOvertaken
  <2> QED
    BY <1>0, <2>1, <2>2, <2>4, <2>5, <2>6, SendMoved
<1>4. CASE CtlFails(t)
  <2>1. pc[t] = "ctl" /\ Return(t, FALSE) /\ (~CtlOk(t) \/ call[t].op = "add")
    BY <1>4 DEF CtlFails
  <2>2. /\ call[t].ctx \in Ctx /\ call[t].fd = socket[call[t].ctx] /\ call[t].fd # NoFd
    BY <2>1, HoldsOwned
  <2>3. call[t].op # "add" => reg[call[t].fd] = NoReg
    BY <2>1, <2>2 DEF CtlOk
  <2>4. pc[t] \in InCall
    BY <2>1 DEF InCall
  <2> QED
    BY <1>0, <2>1, <2>2, <2>3, <2>4, NotRegistered, SendReturned
<1>5. CASE CloseNothing(t)
  <2>1. /\ pc[t] = "close" /\ pc' = [pc EXCEPT ![t] = "idle"] /\ call' = [call EXCEPT ![t] = NoCall]
    BY <1>5 DEF CloseNothing
  <2>2. \A c \in Ctx : data[c] => ~Asks("idle", NoCall, c)
    BY DEF Asks, InCall
  <2>3. (pc[t] = "idle" \/ pc[t] = "close") /\ "idle" \notin {"lock", "ctl"} /\ "idle" \notin InCall
    BY <2>1 DEF InCall
  <2> QED
    BY <1>0, <2>1, <2>2, <2>3, SendMovedFree
<1> QED
  BY <1>1, <1>2, <1>3, <1>4, <1>5

\* Other threads begin a call.
LEMMA SendApp ==
    ASSUME IInv, SendInv, ~raced, NEW t \in App, NEW c \in Ctx,
           AddSocket(t, c) \/ Send(t, c) \/ RemoveSocket(t, c)
    PROVE  SendInv'
<1>0. t \in Thread /\ pc[t] = "idle" /\ "check" \in InCall /\ UNCHANGED <<epfd, socket, reg>>
  BY DEF Thread, AddSocket, Send, RemoveSocket, kernel, InCall
<1>1. CASE AddSocket(t, c)
  <2> DEFINE x == [op |-> "add", ctx |-> c, events |-> Wanted(c), fd |-> NoFd]
  <2>1. /\ pc' = [pc EXCEPT ![t] = "check"] /\ call' = [call EXCEPT ![t] = x]
        /\ UNCHANGED <<data, overtaken>>
    BY <1>1 DEF AddSocket, Enter
  <2>2. x.op # "none" /\ \A d \in Ctx : data[d] => ~Asks("check", x, d)
    BY DEF Asks, Wanted
  <2> HIDE DEF x
  <2>3. (pc[t] = "idle" \/ pc[t] = "close") /\ "check" \notin {"lock", "ctl"}
    BY <1>0
  <2>4. UNCHANGED <<epfd, socket, reg, data, overtaken>>
    BY <1>0, <2>1
  <2> QED
    BY <1>0, <2>1, <2>2, <2>3, <2>4, SendMovedFree
<1>2. CASE RemoveSocket(t, c)
  <2> DEFINE x == [op |-> "remove", ctx |-> c, events |-> "in", fd |-> NoFd]
  <2>1. /\ pc' = [pc EXCEPT ![t] = "check"] /\ call' = [call EXCEPT ![t] = x]
        /\ UNCHANGED <<data, overtaken>>
    BY <1>2 DEF RemoveSocket, Enter
  <2>2. x.op # "none" /\ \A d \in Ctx : data[d] => ~Asks("check", x, d)
    BY DEF Asks
  <2> HIDE DEF x
  <2>3. (pc[t] = "idle" \/ pc[t] = "close") /\ "check" \notin {"lock", "ctl"}
    BY <1>0
  <2>4. UNCHANGED <<epfd, socket, reg, data, overtaken>>
    BY <1>0, <2>1
  <2> QED
    BY <1>0, <2>1, <2>2, <2>3, <2>4, SendMovedFree
<1>3. CASE Send(t, c)
  <2> DEFINE x == [op |-> "modify", ctx |-> c, events |-> "out", fd |-> NoFd]
  <2>1. /\ pc' = [pc EXCEPT ![t] = "check"] /\ call' = [call EXCEPT ![t] = x]
        /\ data' = [data EXCEPT ![c] = TRUE]
        /\ overtaken' = IF AsksForInput(c) THEN overtaken \cup {c} ELSE overtaken
    BY <1>3 DEF Send, Enter
  <2>2. /\ x.op # "none" /\ Heads("check", x, c)
        /\ \A d \in Ctx : ~Asks("check", x, d)
    BY <1>0 DEF Asks, Heads
  <2> HIDE DEF x
  <2>3. \A d \in Ctx : ~Heads(pc[t], call[t], d)
    BY <1>0 DEF Heads, InCall
  <2>4. \A d \in Ctx : data[d] /\ AsksForInput(d) => d \in overtaken
    BY AskingIs DEF SendInv, InputOvertaken
  <2>5. \A d \in Ctx : d # c => data'[d] = data[d] /\ (d \in overtaken' <=> d \in overtaken)
    BY <2>1 DEF SendInv
  <2>6. /\ data' \in [Ctx -> BOOLEAN] /\ overtaken' \subseteq Ctx
        /\ AsksForInput(c) => c \in overtaken'
    BY <2>1 DEF SendInv
  <2>7. \A d \in Ctx : data'[d] /\ AsksForInput(d) => d \in overtaken'
    BY <2>4, <2>5, <2>6
  <2>8. \A d \in Ctx : data'[d] /\ d \notin overtaken' =>
            (data[d] /\ d \notin overtaken) \/ Heads("check", x, d)
    BY <2>2, <2>5
  <2> QED
    BY <1>0, <2>1, <2>2, <2>3, <2>6, <2>7, <2>8, SendMoved
<1> QED
  BY <1>1, <1>2, <1>3
LEMMA SendProcess ==
    ASSUME IInv, SendInv, ~raced, NEW e \in batch, NEW more \in BOOLEAN, NEW b \in BOOLEAN,
           Process(e, more, b)
    PROVE  SendInv'
<1> DEFINE c == e.ctx
           x == IF b THEN [op |-> "remove", ctx |-> c, events |-> "in", fd |-> NoFd]
                ELSE [NoCall EXCEPT !.ctx = c]
           p == IF b THEN "check" ELSE "data"
<1>1. /\ Detector \in Thread /\ c \in Ctx /\ pc[Detector] = "idle"
      /\ data' = [data EXCEPT ![c] = more]
      /\ overtaken' = IF more /\ AsksForInput(c) THEN overtaken \cup {c} ELSE overtaken
      /\ pc' = [pc EXCEPT ![Detector] = p] /\ call' = [call EXCEPT ![Detector] = x]
      /\ UNCHANGED <<epfd, socket, reg>>
  BY DEF Process, Enter, kernel, Thread, IInv, Types
<1>2. /\ p \notin {"lock", "ctl"} /\ (p \in InCall => x.op # "none")
      /\ Heads(p, x, c) /\ \A d \in Ctx : ~Asks(p, x, d)
  BY DEF Heads, Asks, InCall, NoCall
<1> HIDE DEF x, p
<1>3. \A d \in Ctx : ~Heads(pc[Detector], call[Detector], d)
  BY <1>1 DEF Heads, InCall
<1>4. \A d \in Ctx : data[d] /\ AsksForInput(d) => d \in overtaken
  BY AskingIs DEF SendInv, InputOvertaken
<1>5. /\ data' \in [Ctx -> BOOLEAN] /\ overtaken' \subseteq Ctx
      /\ data'[c] /\ AsksForInput(c) => c \in overtaken'
      /\ \A d \in Ctx : d # c => data'[d] = data[d] /\ (d \in overtaken' <=> d \in overtaken)
  BY <1>1 DEF SendInv
<1>6. \A d \in Ctx : data'[d] /\ AsksForInput(d) => d \in overtaken'
  BY <1>4, <1>5
<1>7. \A d \in Ctx : data'[d] /\ d \notin overtaken' =>
          (data[d] /\ d \notin overtaken) \/ Heads(p, x, d)
  BY <1>2, <1>5
<1>8. /\ p \in {"lock", "ctl"} => epfd
      /\ \A d \in Ctx : data'[d] /\ d \notin overtaken' /\ Registered(d)
                            /\ Heads(pc[Detector], call[Detector], d) => Heads(p, x, d)
      /\ \A d \in Ctx : data'[d] /\ Asks(p, x, d) => d \in overtaken'
  BY <1>2, <1>3
<1> QED
  BY <1>1, <1>2, <1>5, <1>6, <1>7, <1>8, SendMoved

\* The detector looks for data: what it asks for then is right, and if no other
\* call asks for EPOLLIN nothing has overtaken.
LEMMA SendLook == ASSUME IInv, SendInv, ~raced, HasData2Send PROVE SendInv'
<1> DEFINE c == call[Detector].ctx
           x == [op |-> "modify", ctx |-> c, events |-> Wanted(c), fd |-> NoFd]
<1>1. /\ Detector \in Thread /\ c \in Ctx /\ pc[Detector] = "data"
      /\ overtaken' = IF AsksForInput(c) THEN overtaken ELSE overtaken \ {c}
      /\ pc' = [pc EXCEPT ![Detector] = "check"] /\ call' = [call EXCEPT ![Detector] = x]
      /\ UNCHANGED <<epfd, socket, reg, data>>
  BY DEF HasData2Send, Enter, kernel, Thread, IInv, Types
<1>2. /\ x.op # "none"
      /\ data[c] => Heads("check", x, c)
      /\ \A d \in Ctx : data[d] => ~Asks("check", x, d)
  BY DEF Heads, Asks, InCall, Wanted
<1> HIDE DEF x
<1>3. \A d \in Ctx : Heads(pc[Detector], call[Detector], d) => d = c
  BY DEF Heads
<1>4. \A d \in Ctx : data[d] /\ AsksForInput(d) => d \in overtaken
  BY AskingIs DEF SendInv, InputOvertaken
<1>5. /\ data' \in [Ctx -> BOOLEAN] /\ overtaken' \subseteq Ctx
      /\ \A d \in Ctx : d # c => (d \in overtaken' <=> d \in overtaken)
      /\ AsksForInput(c) => overtaken' = overtaken
  BY <1>1 DEF SendInv
<1>6. \A d \in Ctx : data'[d] /\ AsksForInput(d) => d \in overtaken'
  BY <1>1, <1>4, <1>5
<1>7. /\ \A d \in Ctx : data'[d] /\ d \notin overtaken' =>
             (data[d] /\ d \notin overtaken) \/ Heads("check", x, d)
      /\ \A d \in Ctx : data'[d] /\ d \notin overtaken' /\ Registered(d)
                            /\ Heads(pc[Detector], call[Detector], d) => Heads("check", x, d)
      /\ \A d \in Ctx : data'[d] /\ Asks("check", x, d) => d \in overtaken'
  BY <1>1, <1>2, <1>3, <1>5
<1> QED
  BY <1>1, <1>2, <1>5, <1>6, <1>7, SendMoved

\* A step that brings no data: a context that is registered now has EPOLLOUT, or
\* was so before, with the same threads on their way.
LEMMA SendKept ==
    ASSUME SendInv, data' \in [Ctx -> BOOLEAN], overtaken' \subseteq Ctx, NeedsEpoll',
           \A u \in Thread : pc'[u] \in InCall => pc[u] \in InCall /\ call'[u] = call[u],
           \A c \in Ctx : data'[c] => data[c] /\ (c \in overtaken <=> c \in overtaken'),
           \A c \in Ctx : data'[c] /\ Registered(c)' /\ c \notin overtaken' =>
               \/ reg'[socket'[c]].events = "out"
               \/ /\ Registered(c) /\ reg'[socket'[c]] = reg[socket[c]]
                  /\ \A u \in Thread : Heads(pc[u], call[u], c) => Heads(pc'[u], call'[u], c)
    PROVE  SendInv'
<1>1. InputOvertaken'
  <2> SUFFICES ASSUME NEW c \in Ctx, NEW u \in Thread, data'[c], Asks(pc'[u], call'[u], c)
               PROVE  c \in overtaken'
    BY DEF InputOvertaken
  <2>1. Asks(pc[u], call[u], c)
    BY DEF Asks
  <2> QED
    BY <2>1 DEF SendInv, InputOvertaken
<1>2. Watched'
  <2> SUFFICES ASSUME NEW c \in Ctx, data'[c], Registered(c)', c \notin overtaken',
                      reg'[socket'[c]].events # "out"
               PROVE  \E u \in Thread : Heads(pc'[u], call'[u], c)
    BY DEF Watched, OnItsWay
  <2>1. data[c] /\ c \notin overtaken /\ Registered(c) /\ reg[socket[c]].events # "out"
    BY DEF Registered
  <2>2. PICK u \in Thread : Heads(pc[u], call[u], c)
    BY <2>1 DEF SendInv, Watched, OnItsWay
  <2> QED
    BY <2>2
<1> QED
  BY <1>1, <1>2 DEF SendInv

\* epoll_ctl: EPOLLIN is asked for when there is nothing to send, or what there
\* is has overtaken.
LEMMA SendCtl == ASSUME IInv, SendInv, ~raced, NEW t \in Thread, Ctl(t) PROVE SendInv'
<1> DEFINE c == call[t].ctx
           f == call[t].fd
           v == IF call[t].op = "remove" THEN NoReg ELSE [ctx |-> c, events |-> call[t].events]
<1>1. /\ pc[t] = "ctl" /\ Return(t, TRUE)
      /\ reg' = [reg EXCEPT ![f] = v]
      /\ UNCHANGED <<epfd, socket, data, overtaken>>
  BY DEF Ctl
<1>2. c \in Ctx /\ f \in Fd /\ f = socket[c] /\ f # NoFd
  BY <1>1, HoldsOwned
<1>3. PICK p \in {"idle", "close", "data"}, x \in {NoCall, [call[t] EXCEPT !.fd = NoFd]} :
          pc' = [pc EXCEPT ![t] = p] /\ call' = [call EXCEPT ![t] = x]
  BY <1>1, Returned
<1>4. /\ pc'[t] = p /\ p \notin InCall
      /\ \A u \in Thread : u # t => pc'[u] = pc[u] /\ call'[u] = call[u]
  BY <1>3, Moved DEF InCall
<1>5. reg'[f] = v /\ \A g \in Fd : g # f => reg'[g] = reg[g]
  BY <1>1, <1>2 DEF IInv, Types
<1>6. epfd
  BY <1>1 DEF SendInv, NeedsEpoll
<1>7. NeedsEpoll'
  BY <1>1, <1>6 DEF NeedsEpoll
<1>8. v.ctx = c \/ v.ctx = NoCtx
  BY DEF NoReg
<1>9. ASSUME v.ctx = c, data[c], c \notin overtaken PROVE v.events = "out"
  <2>1. v = [ctx |-> c, events |-> call[t].events] /\ call[t].op # "remove"
    BY <1>2, <1>9, EpollCtxAssumption DEF NoReg
  <2>2. call[t].op # "none" /\ pc[t] \in InCall /\ call[t] \in Call
    BY <1>1 DEF SendInv, InCall, IInv, Types
  <2>3. call[t].op \in {"add", "modify"} /\ call[t].events \in {"in", "out"}
    BY <2>1, <2>2 DEF Call, Events
  <2>4. call[t].events # "in"
    BY <1>2, <1>9, <2>2, <2>3 DEF SendInv, InputOvertaken, Asks
  <2> QED
    BY <2>1, <2>3, <2>4
<1> HIDE DEF v
<1>10. ASSUME NEW d \in Ctx, data'[d], Registered(d)', d \notin overtaken'
       PROVE  \/ reg'[socket'[d]].events = "out"
              \/ /\ Registered(d) /\ reg'[socket'[d]] = reg[socket[d]]
                 /\ \A u \in Thread : Heads(pc[u], call[u], d) => Heads(pc'[u], call'[u], d)
  <2>1. /\ data[d] /\ d \notin overtaken /\ socket'[d] = socket[d] /\ socket[d] \in Fd
        /\ socket[d] # NoFd /\ reg'[socket[d]].ctx = d /\ d # NoCtx
    BY <1>1, <1>10, EpollCtxAssumption DEF Registered, IInv, Types
  <2>2. CASE d = c
    BY <1>2, <1>5, <1>9, <2>1, <2>2
  <2>3. CASE d # c
    <3>1. socket[d] # f
      BY <1>5, <1>8, <2>1, <2>3
    <3>2. reg'[socket[d]] = reg[socket[d]] /\ Registered(d)
      BY <1>5, <2>1, <3>1 DEF Registered
    <3>3. \A u \in Thread : Heads(pc[u], call[u], d) => u # t
      BY <2>3 DEF Heads
    <3> QED
      BY <1>4, <2>1, <3>2, <3>3
  <2> QED
    BY <2>2, <2>3
<1>11. \A u \in Thread : pc'[u] \in InCall => pc[u] \in InCall /\ call'[u] = call[u]
  BY <1>4
<1>12. data' \in [Ctx -> BOOLEAN] /\ overtaken' \subseteq Ctx
  BY <1>1 DEF SendInv
<1> QED
  BY <1>1, <1>7, <1>10, <1>11, <1>12, SendKept

\* Closing and opening: what is registered after it was so before.
LEMMA SendClose == ASSUME IInv, SendInv, ~raced, NEW t \in Thread, Close(t) PROVE SendInv'
<1> DEFINE f == socket[call[t].ctx]
<1>1. /\ pc[t] = "close" /\ f # NoFd
      /\ reg' = [reg EXCEPT ![f] = NoReg]
      /\ pc' = [pc EXCEPT ![t] = "reset"]
      /\ UNCHANGED <<epfd, socket, data, overtaken, call>>
  BY DEF Close
<1>2. call[t].ctx \in Ctx /\ f \in Fd
  BY <1>1 DEF IInv, Types
<1>3. reg'[f] = NoReg /\ \A g \in Fd : g # f => reg'[g] = reg[g]
  BY <1>1, <1>2 DEF IInv, Types
<1>4. pc'[t] = "reset" /\ \A u \in Thread : u # t => pc'[u] = pc[u]
  BY <1>1 DEF IInv, Types
<1>5. NeedsEpoll'
  BY <1>1, <1>3, <1>4 DEF SendInv, NeedsEpoll
<1>6. \A u \in Thread : pc'[u] \in InCall => pc[u] \in InCall
  BY <1>4 DEF InCall
<1>7. ASSUME NEW d \in Ctx, Registered(d)'
      PROVE  /\ Registered(d) /\ reg'[socket'[d]] = reg[socket[d]]
             /\ \A u \in Thread : Heads(pc[u], call[u], d) => Heads(pc'[u], call'[u], d)
  <2>1. /\ socket'[d] = socket[d] /\ socket[d] \in Fd /\ socket[d] # NoFd
        /\ reg'[socket[d]].ctx = d /\ d # NoCtx
    BY <1>1, <1>7, EpollCtxAssumption DEF Registered, IInv, Types
  <2>2. socket[d] # f
    BY <1>3, <2>1 DEF NoReg
  <2>3. \A u \in Thread : Heads(pc[u], call[u], d) => u # t
    BY <1>1 DEF Heads, InCall
  <2> QED
    BY <1>1, <1>3, <1>4, <2>1, <2>2, <2>3 DEF Registered
<1>8. data' \in [Ctx -> BOOLEAN] /\ overtaken' \subseteq Ctx
  BY <1>1 DEF SendInv
<1> QED
  BY <1>1, <1>5, <1>6, <1>7, <1>8, SendKept

LEMMA SendReset == ASSUME IInv, SendInv, ~raced, NEW t \in Thread, Reset(t) PROVE SendInv'
<1> DEFINE c == call[t].ctx
<1>1. /\ pc[t] = "reset"
      /\ socket' = [socket EXCEPT ![c] = NoFd]
      /\ pc' = [pc EXCEPT ![t] = "idle"] /\ call' = [call EXCEPT ![t] = NoCall]
      /\ UNCHANGED <<epfd, reg, data, overtaken>>
  BY DEF Reset
<1>2. /\ pc'[t] = "idle"
      /\ \A u \in Thread : u # t => pc'[u] = pc[u] /\ call'[u] = call[u]
  BY <1>1, Moved
<1>3. NeedsEpoll'
  BY <1>1, <1>2 DEF SendInv, NeedsEpoll
<1>4. \A u \in Thread : pc'[u] \in InCall => pc[u] \in InCall /\ call'[u] = call[u]
  BY <1>2 DEF InCall
<1>5. ASSUME NEW d \in Ctx, Registered(d)'
      PROVE  /\ Registered(d) /\ reg'[socket'[d]] = reg[socket[d]]
             /\ \A u \in Thread : Heads(pc[u], call[u], d) => Heads(pc'[u], call'[u], d)
  <2>1. socket'[d] = socket[d] /\ Registered(d) /\ reg'[socket'[d]] = reg[socket[d]]
    BY <1>1, <1>5 DEF Registered, IInv, Types
  <2>2. \A u \in Thread : Heads(pc[u], call[u], d) => u # t
    BY <1>1 DEF Heads, InCall
  <2> QED
    BY <1>2, <2>1, <2>2
<1>6. data' \in [Ctx -> BOOLEAN] /\ overtaken' \subseteq Ctx
  BY <1>1 DEF SendInv
<1> QED
  BY <1>1, <1>3, <1>4, <1>5, <1>6, SendKept

LEMMA SendConnect ==
    ASSUME IInv, SendInv, NEW t \in App, NEW c \in Ctx, Connect(t, c) PROVE SendInv'
<1>1. PICK f \in Fd :
          /\ socket' = [socket EXCEPT ![c] = f]
          /\ data' = [data EXCEPT ![c] = FALSE] /\ overtaken' = overtaken \ {c}
          /\ UNCHANGED <<epfd, reg, pc, call>>
  BY DEF Connect
<1>2. NeedsEpoll'
  BY <1>1 DEF SendInv, NeedsEpoll
<1>3. /\ data' \in [Ctx -> BOOLEAN] /\ overtaken' \subseteq Ctx
      /\ \A d \in Ctx : data'[d] => d # c /\ data[d] /\ (d \in overtaken <=> d \in overtaken')
  BY <1>1 DEF SendInv
<1>4. \A d \in Ctx : d # c /\ Registered(d)' =>
          Registered(d) /\ reg'[socket'[d]] = reg[socket[d]]
  BY <1>1 DEF Registered, IInv, Types
<1> QED
  BY <1>1, <1>2, <1>3, <1>4, SendKept

\* The old epoll file is closed and nothing is registered.
LEMMA SendNoEpoll ==
    ASSUME IInv, SendInv, InitEpoll \/ CloseEpoll PROVE SendInv'
<1>1. /\ \A t \in Thread : pc[t] = "idle"
      /\ reg' = [f \in Fd |-> NoReg]
      /\ UNCHANGED <<socket, data, overtaken, pc, call>>
  BY DEF InitEpoll, CloseEpoll, Quiet, ghosts
<1>2. NeedsEpoll'
  BY <1>1 DEF NeedsEpoll
<1>3. ASSUME NEW d \in Ctx PROVE ~Registered(d)'
  <2>1. d # NoCtx /\ (socket'[d] # NoFd => socket'[d] \in Fd)
    BY <1>1, EpollCtxAssumption DEF IInv, Types
  <2>2. socket'[d] # NoFd => reg'[socket'[d]].ctx = NoCtx
    BY <1>1, <2>1 DEF NoReg
  <2> QED
    BY <2>1, <2>2 DEF Registered
<1>4. data' \in [Ctx -> BOOLEAN] /\ overtaken' \subseteq Ctx
  BY <1>1 DEF SendInv
<1> QED
  BY <1>1, <1>2, <1>3, <1>4, SendKept

LEMMA SendUnchanged ==
    ASSUME SendInv, UNCHANGED <<epfd, socket, reg, data, pc, call, overtaken>> PROVE SendInv'
BY DEF SendInv, NeedsEpoll, InputOvertaken, Watched, OnItsWay, Registered

LEMMA SendStep == IInv /\ SendInv /\ [Next]_vars => SendInv'
<1> SUFFICES ASSUME IInv, SendInv, [Next]_vars PROVE SendInv'
  OBVIOUS
<1>1. CASE UNCHANGED vars
  BY <1>1, SendUnchanged DEF vars
<1>2. ASSUME ~raced, NEW t \in Thread, Step(t) PROVE SendInv'
  BY <1>2, SendOther, SendCtl, SendClose, SendReset DEF Step
<1>3. ASSUME NEW F \in SUBSET Fd, DoDetect(F) PROVE SendInv'
  BY <1>3, SendUnchanged DEF DoDetect, kernel, ghosts
<1> QED
  BY <1>1, <1>2, <1>3, SendApp, SendConnect, SendNoEpoll, SendProcess, SendLook
     DEF Next, Detect, Thread

\* When nobody is at work on a context that has data to send, EPOLLOUT is asked
\* for, unless the data overtook a call on its way to ask for EPOLLIN.
THEOREM WatchesData == Spec => []DataIsWatched
<1>1. Init => SendInv
  BY DEF Init, SendInv, NeedsEpoll, InputOvertaken, Watched, Asks, InCall
<1>2. ASSUME SendInv PROVE DataIsWatched
  <2>1. \A c \in Ctx : Free(c) => ~OnItsWay(c)
    BY DEF Free, OnItsWay, Heads
  <2> QED
    BY <1>2, <2>1 DEF DataIsWatched, SendInv, Watched
<1> QED
  BY <1>1, <1>2, SendStep, Invariance, PTL DEF Spec
=============================================================================
