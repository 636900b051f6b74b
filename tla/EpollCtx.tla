------------------------------ MODULE EpollCtx ------------------------------
(***************************************************************************)
(* The epoll reactor, frame/_EpollCtx.{h,cpp}.  A detector thread calls    *)
(* DoDetect: it takes a batch of events under the lock and calls their     *)
(* contexts back without it, and then removes a context or asks for its    *)
(* next events.  Other threads add, modify and remove contexts.  A call    *)
(* looks at the context's _socket before it has the lock and again when it *)
(* has it; Close of a context takes no lock.                               *)
(*                                                                         *)
(* The kernel keeps what is registered for a descriptor, forgets it when   *)
(* the descriptor is closed, and gives the number to the next socket.      *)
(* Contexts are reused and never deleted here: deleting one that is in the *)
(* batch is undefined.  So is CloseEpoll while anything is under way, and  *)
(* what follows when a thread writes _socket in Close or Connect while     *)
(* another one uses it in a call: the model stops there.                   *)
(***************************************************************************)
EXTENDS Naturals

CONSTANTS
    Ctx, Fd,        \* the contexts and the descriptors
    App, Detector,  \* the threads that call the public functions, and DoDetect
    NoCtx, NoFd     \* NULL; -1

ASSUME EpollCtxAssumption ==
    Detector \notin App /\ NoCtx \notin Ctx /\ NoFd \notin Fd

Thread == App \cup {Detector}
Events == {"in", "out"}         \* each with EPOLLERR, as in all the code's calls
NoReg == [ctx |-> NoCtx, events |-> "in"]
NoCall == [op |-> "none", ctx |-> NoCtx, events |-> "in", fd |-> NoFd]

VARIABLES
    epfd,           \* _epfd is open
    holder,         \* the threads that hold _lock
    socket,         \* _socket of each context
    owner,          \* the context that a descriptor was opened for
    reg,            \* what is registered for a descriptor
    data,           \* HasData2Send() of each context
    batch,          \* the events of _epEvents that were not processed yet
    pc,             \* where each thread is
    call,           \* the call it is in
    raced,          \* a call of a context has overlapped its Close or Connect
    overtaken,      \* ghost: data came while a call asked for EPOLLIN
    gone,           \* ghost: contexts that were removed and closed
    late            \* ghost: how often they were called back since, up to 2

kernel == <<socket, owner, reg>>
ghosts == <<raced, overtaken, gone, late>>
vars == <<epfd, holder, socket, owner, reg, data, batch, pc, call, raced,
          overtaken, gone, late>>

InCall == {"check", "lock", "ctl"}

TypeOK ==
    /\ epfd \in BOOLEAN
    /\ holder \in {{}} \cup {{t} : t \in Thread}
    /\ socket \in [Ctx -> Fd \cup {NoFd}]
    /\ owner \in [Fd -> Ctx \cup {NoCtx}]
    /\ reg \in [Fd -> [ctx : Ctx, events : Events] \cup {NoReg}]
    /\ data \in [Ctx -> BOOLEAN]
    /\ batch \subseteq [ctx : Ctx, in : BOOLEAN, out : BOOLEAN]
    /\ pc \in [Thread -> InCall \cup {"idle", "data", "close", "reset"}]
    /\ call \in [Thread -> [op : {"none", "add", "modify", "remove"}, ctx : Ctx \cup {NoCtx},
                            events : Events, fd : Fd \cup {NoFd}]]
    /\ raced \in BOOLEAN
    /\ {overtaken, gone} \subseteq SUBSET Ctx
    /\ late \in [Ctx -> 0 .. 2]

Init ==
    /\ epfd = FALSE
    /\ holder = {}
    /\ socket = [c \in Ctx |-> NoFd]
    /\ owner = [f \in Fd |-> NoCtx]
    /\ reg = [f \in Fd |-> NoReg]
    /\ data = [c \in Ctx |-> FALSE]
    /\ batch = {}
    /\ pc = [t \in Thread |-> "idle"]
    /\ call = [t \in Thread |-> NoCall]
    /\ raced = FALSE
    /\ overtaken = {} /\ gone = {}
    /\ late = [c \in Ctx |-> 0]

Registered(c) == socket[c] # NoFd /\ reg[socket[c]].ctx = c

\* A call is under way that asks for EPOLLIN of c, and no longer looks for data.
AsksForInput(c) == \E t \in Thread :
    /\ call[t].ctx = c /\ pc[t] \in InCall
    /\ call[t].op \in {"add", "modify"} /\ call[t].events = "in"

\* Mutant: EPOLLIN is asked for, whatever there is to send.
Wanted_In(c) == "in"

\* The events to ask for.
Wanted(c) == IF data[c] THEN "out" ELSE "in"

-----------------------------------------------------------------------------
(* AddSocket, ModifySocket and RemoveSocket.                               *)

\* Some other thread than t is in one of these places with c.
Elsewhere(t, c, places) == \E x \in Thread \ {t} : call[x].ctx = c /\ pc[x] \in places

\* A thread begins a call.
Enter(t, op, c, events) ==
    /\ pc' = [pc EXCEPT ![t] = "check"]
    /\ call' = [call EXCEPT ![t] = [op |-> op, ctx |-> c, events |-> events, fd |-> NoFd]]
    /\ raced' = Elsewhere(t, c, {"reset"})

\* What follows a call.  Who has removed a context closes it, the detector in
\* OnSocketRemoved.  When it could not remove one it looks for data to send.
Return(t, ok) ==
    LET next == IF call[t].op # "remove" THEN "idle"
                ELSE IF ok THEN "close"
                ELSE IF t = Detector THEN "data" ELSE "idle"
    IN  /\ pc' = [pc EXCEPT ![t] = next]
        /\ call' = [call EXCEPT ![t] = IF next = "idle" THEN NoCall
                                       ELSE [@ EXCEPT !.fd = NoFd]]

\* There is an epoll file and a socket.
CheckOk(t) == epfd /\ socket[call[t].ctx] # NoFd

Check(t) ==
    /\ pc[t] = "check"
    /\ IF CheckOk(t) THEN pc' = [pc EXCEPT ![t] = "lock"] /\ UNCHANGED call
                     ELSE Return(t, FALSE)
    /\ UNCHANGED <<epfd, holder, kernel, data, batch, ghosts>>

\* The lock is taken, and _socket is read again for epoll_ctl.
Lock(t) ==
    /\ pc[t] = "lock"
    /\ holder = {}
    /\ holder' = {t}
    /\ call' = [call EXCEPT ![t].fd = socket[call[t].ctx]]
    /\ pc' = [pc EXCEPT ![t] = "ctl"]
    /\ UNCHANGED <<epfd, kernel, data, batch, ghosts>>

\* epoll_ctl finds what it asks for.
CtlOk(t) ==
    /\ call[t].fd # NoFd
    /\ IF call[t].op = "add"
       THEN owner[call[t].fd] # NoCtx /\ reg[call[t].fd] = NoReg
       ELSE reg[call[t].fd] # NoReg

\* epoll_ctl, and unlock.
Ctl(t) ==
    LET c == call[t].ctx
    IN  /\ pc[t] = "ctl"
        /\ CtlOk(t)
        /\ reg' = [reg EXCEPT ![call[t].fd] =
               IF call[t].op = "remove" THEN NoReg ELSE [ctx |-> c, events |-> call[t].events]]
        /\ IF call[t].op = "add"
           THEN gone' = gone \ {c} /\ late' = [late EXCEPT ![c] = 0]
           ELSE UNCHANGED <<gone, late>>
        /\ holder' = {}
        /\ Return(t, TRUE)
        /\ UNCHANGED <<epfd, socket, owner, data, batch, raced, overtaken>>

\* Mutant: the lock is not given back after an error.
CtlFails_KeepLock(t) ==
    /\ pc[t] = "ctl"
    /\ ~CtlOk(t) \/ call[t].op = "add"
    /\ Return(t, FALSE)
    /\ UNCHANGED <<epfd, holder, kernel, data, batch, ghosts>>

\* It fails; adding may fail for a limit of the kernel.
CtlFails(t) ==
    /\ pc[t] = "ctl"
    /\ ~CtlOk(t) \/ call[t].op = "add"
    /\ holder' = {}
    /\ Return(t, FALSE)
    /\ UNCHANGED <<epfd, kernel, data, batch, ghosts>>

\* _SocketCtx::Close of a context that has no socket.
CloseNothing(t) ==
    /\ pc[t] = "close"
    /\ socket[call[t].ctx] = NoFd
    /\ pc' = [pc EXCEPT ![t] = "idle"]
    /\ call' = [call EXCEPT ![t] = NoCall]
    /\ UNCHANGED <<epfd, holder, kernel, data, batch, ghosts>>

\* close(_socket) ...
Close(t) ==
    LET c == call[t].ctx
    IN  /\ pc[t] = "close"
        /\ socket[c] # NoFd
        /\ owner' = [owner EXCEPT ![socket[c]] = NoCtx]
        /\ reg' = [reg EXCEPT ![socket[c]] = NoReg]
        /\ raced' = Elsewhere(t, c, InCall \cup {"close", "reset"})
        /\ pc' = [pc EXCEPT ![t] = "reset"]
        /\ UNCHANGED <<epfd, holder, socket, data, batch, call, overtaken, gone, late>>

\* Mutant: _socket keeps the number of the closed descriptor.
Reset_Keep(t) ==
    /\ pc[t] = "reset"
    /\ gone' = gone \cup {call[t].ctx}
    /\ pc' = [pc EXCEPT ![t] = "idle"]
    /\ call' = [call EXCEPT ![t] = NoCall]
    /\ UNCHANGED <<epfd, holder, kernel, data, batch, raced, overtaken, late>>

\* ... and _socket = -1.
Reset(t) ==
    /\ pc[t] = "reset"
    /\ socket' = [socket EXCEPT ![call[t].ctx] = NoFd]
    /\ gone' = gone \cup {call[t].ctx}
    /\ pc' = [pc EXCEPT ![t] = "idle"]
    /\ call' = [call EXCEPT ![t] = NoCall]
    /\ UNCHANGED <<epfd, holder, owner, reg, data, batch, raced, overtaken, late>>

Step(t) ==
    \/ Check(t) \/ Lock(t) \/ Ctl(t) \/ CtlFails(t)
    \/ CloseNothing(t) \/ Close(t) \/ Reset(t)

-----------------------------------------------------------------------------
(* The other threads.                                                      *)

\* Connect or Listen, or the program sets the descriptor that accept gave it.
Connect(t, c) ==
    /\ pc[t] = "idle"
    /\ socket[c] = NoFd
    /\ \E f \in Fd :
           /\ owner[f] = NoCtx
           /\ owner' = [owner EXCEPT ![f] = c]
           /\ socket' = [socket EXCEPT ![c] = f]
    /\ data' = [data EXCEPT ![c] = FALSE]
    /\ overtaken' = overtaken \ {c}
    /\ raced' = Elsewhere(t, c, InCall \cup {"close"})
    /\ UNCHANGED <<epfd, holder, reg, batch, pc, call, gone, late>>

\* The program adds a connected context, and asks for what it needs.
AddSocket(t, c) ==
    /\ pc[t] = "idle"
    /\ socket[c] # NoFd /\ ~Registered(c)
    /\ Enter(t, "add", c, Wanted(c))
    /\ UNCHANGED <<epfd, holder, kernel, data, batch, overtaken, gone, late>>

\* The program has data for a context and asks for EPOLLOUT.
Send(t, c) ==
    /\ pc[t] = "idle"
    /\ Registered(c)
    /\ data' = [data EXCEPT ![c] = TRUE]
    /\ Enter(t, "modify", c, "out")
    /\ overtaken' = IF AsksForInput(c) THEN overtaken \cup {c} ELSE overtaken
    /\ UNCHANGED <<epfd, holder, kernel, batch, gone, late>>

RemoveSocket(t, c) ==
    /\ pc[t] = "idle"
    /\ Registered(c)
    /\ Enter(t, "remove", c, "in")
    /\ UNCHANGED <<epfd, holder, kernel, data, batch, overtaken, gone, late>>

Quiet == batch = {} /\ \A t \in Thread : pc[t] = "idle"

\* The old epoll file is closed; epoll_create may fail.
InitEpoll ==
    /\ Quiet
    /\ epfd' \in BOOLEAN
    /\ reg' = [f \in Fd |-> NoReg]
    /\ UNCHANGED <<holder, socket, owner, data, batch, pc, call, ghosts>>

CloseEpoll ==
    /\ Quiet
    /\ epfd' = FALSE
    /\ reg' = [f \in Fd |-> NoReg]
    /\ UNCHANGED <<holder, socket, owner, data, batch, pc, call, ghosts>>

-----------------------------------------------------------------------------
(* DoDetect.                                                               *)

\* What epoll_wait can report of a descriptor.  An error counts as both.
Reports(f) ==
    [ctx : {reg[f].ctx}, in : {TRUE, reg[f].events = "in"}, out : {TRUE, reg[f].events = "out"}]

\* epoll_wait under the lock, when it reports something of the descriptors F.
DoDetect(F) ==
    /\ pc[Detector] = "idle" /\ batch = {}
    /\ epfd
    /\ holder = {}
    /\ F # {} /\ \A f \in F : reg[f] # NoReg
    /\ \E r \in [F -> UNION {Reports(f) : f \in F}] :
           /\ \A f \in F : r[f] \in Reports(f)
           /\ batch' = {r[f] : f \in F}
    /\ UNCHANGED <<epfd, holder, kernel, data, pc, call, ghosts>>

\* Mutant: an event stays and is processed again.
Rest_All(e) == batch

\* The loop goes on to the events behind e, in any order.
Rest(e) == batch \ {e}

\* ProcessEpollIn and ProcessEpollOut.  Input may make an answer, output may
\* send all there is, and each may ask for the removal.
Process(e, more, bNeedRemove) ==
    LET c == e.ctx
    IN  /\ pc[Detector] = "idle"
        /\ e \in batch
        /\ batch' = Rest(e)
        /\ more = data[c] \/ (more /\ e.in) \/ (~more /\ e.out)
        /\ data' = [data EXCEPT ![c] = more]
        /\ overtaken' = IF more /\ AsksForInput(c) THEN overtaken \cup {c} ELSE overtaken
        /\ late' = [late EXCEPT ![c] = IF c \in gone /\ @ < 2 THEN @ + 1 ELSE @]
        /\ IF bNeedRemove THEN Enter(Detector, "remove", c, "in")
           ELSE /\ pc' = [pc EXCEPT ![Detector] = "data"]
                /\ call' = [call EXCEPT ![Detector] = [NoCall EXCEPT !.ctx = c]]
                /\ UNCHANGED raced
        /\ UNCHANGED <<epfd, holder, kernel, gone>>

\* HasData2Send, and the call of ModifySocket that follows from it.
HasData2Send ==
    LET c == call[Detector].ctx
    IN  /\ pc[Detector] = "data"
        /\ Enter(Detector, "modify", c, Wanted(c))
        /\ overtaken' = IF AsksForInput(c) THEN overtaken ELSE overtaken \ {c}
        /\ UNCHANGED <<epfd, holder, kernel, data, batch, gone, late>>

Detect ==
    \/ \E F \in SUBSET Fd : DoDetect(F)
    \/ \E e \in batch, more, bNeedRemove \in BOOLEAN : Process(e, more, bNeedRemove)
    \/ HasData2Send
    \/ Step(Detector)

Next ==
    /\ ~raced
    /\ \/ \E t \in App, c \in Ctx :
              Connect(t, c) \/ AddSocket(t, c) \/ Send(t, c) \/ RemoveSocket(t, c)
       \/ \E t \in App : Step(t)
       \/ InitEpoll \/ CloseEpoll
       \/ Detect

Spec == Init /\ [][Next]_vars

\* Every thread goes on, and the detector gets the lock in the end.  The peer of
\* a socket sends and reads: there is input for it again and again, and at times
\* ProcessEpollOut can send all there is.
FairSpec ==
    /\ Spec
    /\ WF_vars(~raced /\ Detect)
    /\ SF_vars(~raced /\ Lock(Detector))
    /\ \A t \in App : WF_vars(~raced /\ Step(t))
    /\ \A c \in Ctx :
           /\ SF_vars(~raced /\ Registered(c) /\
                         \E F \in SUBSET Fd : socket[c] \in F /\ DoDetect(F))
           /\ SF_vars(~raced /\ \E e \in batch : e.ctx = c /\ Process(e, FALSE, FALSE))

-----------------------------------------------------------------------------
(* Properties.                                                             *)

\* As long as no call of a context overlaps its Close or Connect, a context uses its own
\* descriptor, whose number others had before, and events are reported to the
\* context they belong to.
OwnDescriptor ==
    /\ \A c \in Ctx : socket[c] # NoFd =>
           \/ owner[socket[c]] = c
           \/ \E t \in Thread : pc[t] = "reset" /\ call[t].ctx = c
    /\ \A f \in Fd : reg[f] # NoReg => reg[f].ctx = owner[f]

Free(c) == \A t \in Thread : call[t].ctx # c

\* When nobody is at work on a context that has data to send, EPOLLOUT is asked
\* for, unless the data came while a call asked for EPOLLIN: the detector had
\* looked for data before and was on its way.
DataIsWatched ==
    \A c \in Ctx :
        data[c] /\ Registered(c) /\ Free(c) /\ c \notin overtaken =>
            reg[socket[c]].events = "out"

\* A context that was removed and closed is called back at most once more, from
\* the batch that had been taken.
GoneCalledAtMostOnce == \A c \in Ctx : late[c] < 2

\* What a context has to send is sent, even if its EPOLLOUT was lost: the next
\* input makes the detector look again.  (Or it is removed, or things go wrong.)
DataIsSent ==
    \A c \in Ctx :
        data[c] /\ Registered(c) ~> ~data[c] \/ ~Registered(c) \/ raced
=============================================================================
