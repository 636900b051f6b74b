------------------------------ MODULE NetFunc ------------------------------
(***************************************************************************)
(* ConnectSync and ConnectAsync (src/utils/frame/_netFunc.h), one system   *)
(* call a step, in a process whose other threads open and close            *)
(* descriptors of their own: a number that is closed may be theirs at once. *)
(***************************************************************************)
EXTENDS Integers, FiniteSets, FiniteSetsExt

CONSTANTS Limit,         \* CNT_RECONN_LMT
          MaxAddresses,  \* bound: addresses of a host name
          Descriptors    \* bound: the numbers 0..Descriptors - 1 there are
ASSUME NetFuncAssumption == {Limit, MaxAddresses, Descriptors} \subseteq Nat \ {0}

VARIABLES at_,       \* what the caller does next
          sync,      \* is it in ConnectSync or in ConnectAsync
          addresses, \* addresses of the host that are left, the current one too
          iCount,    \* iCount
          fd,        \* fd, or Invalid
          table,     \* the open descriptors: whose, and what was done to them
          tried      \* the attempts at the current address

netVars == <<at_, sync, addresses, iCount, fd, table, tried>>

Invalid == -1
Open == DOMAIN table
Free == (0..Descriptors - 1) \ Open
Fresh_(owner) == [owner |-> owner, timeouts |-> {}, nonblocking |-> "no", state |-> "new"]
Opens(owner) == IF Free = {} THEN table
                ELSE [f \in Open \cup {Min(Free)} |-> IF f \in Open THEN table[f] ELSE Fresh_(owner)]
Closed(f) == [g \in Open \ {f} |-> table[g]]

NetInit == /\ at_ = "idle" /\ sync \in BOOLEAN
           /\ addresses = 0 /\ iCount = Limit /\ fd = Invalid /\ tried = 0
           /\ table = [f \in {} |-> Fresh_("caller")]

Returns(f) == at_' = "returned" /\ fd' = f

(* An address, a name with some addresses, or a name nobody knows.         *)
Call(n) == /\ at_ = "idle"
           /\ addresses' = n
           /\ IF n = 0 THEN Returns(Invalid) ELSE at_' = "socket" /\ UNCHANGED fd
           /\ UNCHANGED <<sync, iCount, table, tried>>
ConnectSync(n) == sync /\ Call(n)
ConnectAsync(n) == ~sync /\ Call(n)

(* The loop over the addresses: the next one, when this one gave nothing.  *)
GivesUp == IF addresses > 1
           THEN /\ at_' = "socket" /\ fd' = Invalid /\ addresses' = addresses - 1
                /\ iCount' = Limit /\ tried' = 0
           ELSE Returns(Invalid) /\ UNCHANGED <<addresses, iCount, tried>>

OutOfTries == sync /\ iCount - 1 < 0
Socket == /\ at_ = "socket" /\ ~OutOfTries
          /\ at_' = "SO_SNDTIMEO"
          /\ iCount' = (IF sync THEN iCount - 1 ELSE iCount)
          /\ tried' = tried + 1
          /\ \/ Free # {} /\ fd' = Min(Free) /\ table' = Opens("caller")
             \/ fd' = Invalid /\ UNCHANGED table
          /\ UNCHANGED <<sync, addresses>>
StopsTrying == /\ at_ = "socket" /\ OutOfTries
               /\ GivesUp
               /\ UNCHANGED <<sync, table>>

(* setsockopt fails on an invalid fd and may fail on another; closing the   *)
(* invalid one then does nothing.                                          *)
SetTimeout(option, next) ==
    /\ at_ = option /\ at_' = next
    /\ \/ fd \in Open /\ table' = [table EXCEPT ![fd].timeouts = @ \cup {option}] /\ UNCHANGED fd
       \/ table' = Closed(fd) /\ fd' = Invalid
    /\ UNCHANGED <<sync, addresses, iCount, tried>>
SetSendTimeout == SetTimeout("SO_SNDTIMEO", "SO_RCVTIMEO")
SetReceiveTimeout == SetTimeout("SO_RCVTIMEO", IF sync THEN "connect" ELSE "noblock")

(* Nobody looks whether fcntl did what it was asked for.                   *)
SetNoBlockMode(next) ==
    /\ at_ = "noblock" /\ at_' = next
    /\ \E answer \in {"set", "refused"} :
          table' = (IF fd \in Open THEN [table EXCEPT ![fd].nonblocking = answer] ELSE table)
    /\ UNCHANGED <<sync, addresses, iCount, fd, tried>>
SyncNoBlock == sync /\ SetNoBlockMode("returned")
AsyncNoBlock == ~sync /\ SetNoBlockMode("connect")

(* connect: done, under way (which only the asynchronous call takes for a  *)
(* success), interrupted, or failed.                                       *)
Becomes_(state, next) == /\ fd # Invalid
                         /\ table' = [table EXCEPT ![fd].state = state]
                         /\ at_' = next
                         /\ UNCHANGED <<sync, addresses, iCount, fd, tried>>
Connect == /\ at_ = "connect"
           /\ \/ Becomes_("connected", IF sync THEN "noblock" ELSE "returned")
              \/ ~sync /\ Becomes_("connecting", "returned")
NoSocket == at_ = "connect" /\ fd = Invalid /\ GivesUp /\ UNCHANGED <<sync, table>>
Interrupted_Mutation ==                \* the socket of the interrupted attempt stays open
    /\ at_ = "connect" /\ sync /\ fd # Invalid
    /\ fd' = Invalid /\ at_' = "socket"
    /\ UNCHANGED <<sync, addresses, iCount, table, tried>>
Interrupted == /\ at_ = "connect" /\ sync /\ fd # Invalid
               /\ table' = Closed(fd) /\ fd' = Invalid /\ at_' = "socket"
               /\ UNCHANGED <<sync, addresses, iCount, tried>>
Fails_ == /\ at_ = "connect" /\ fd # Invalid
          /\ table' = Closed(fd)
          /\ GivesUp
          /\ UNCHANGED sync

(* The other threads.                                                      *)
OthersOpen == /\ Free # {} /\ table' = Opens("others")
              /\ UNCHANGED <<at_, sync, addresses, iCount, fd, tried>>
OthersClose(f) == /\ table[f].owner = "others" /\ table' = Closed(f)
                  /\ UNCHANGED <<at_, sync, addresses, iCount, fd, tried>>

NetNext == \/ \E n \in 0..MaxAddresses : ConnectSync(n) \/ ConnectAsync(n)
           \/ Socket \/ StopsTrying \/ SetSendTimeout \/ SetReceiveTimeout
           \/ SyncNoBlock \/ AsyncNoBlock
           \/ Connect \/ NoSocket \/ Interrupted \/ Fails_
           \/ OthersOpen \/ \E f \in Open : OthersClose(f)

-----------------------------------------------------------------------------
(* Property SocketsAccounted: the only descriptor of the caller is fd, so  *)
(* that none is left open on any way out and none of another thread is     *)
(* touched; the one it returns is not blocking unless fcntl refused, has   *)
(* its timeouts and is connected, or on its way when asynchronous; it made *)
(* at most Limit attempts at an address, and at every address before it    *)
(* gave up.                                                                *)
SocketsAccounted ==
    /\ \A f \in Open : table[f].owner = "caller" <=> f = fd
    /\ fd # Invalid => fd \in Open
    /\ \A f \in Open : table[f].owner = "others" => table[f] = Fresh_("others")
    /\ at_ = "returned" /\ fd # Invalid =>
          /\ table[fd].nonblocking # "no" /\ table[fd].timeouts = {"SO_SNDTIMEO", "SO_RCVTIMEO"}
          /\ table[fd].state = "connected" \/ (~sync /\ table[fd].state = "connecting")
    /\ tried <= IF sync THEN Limit ELSE 1
    /\ at_ = "returned" /\ fd = Invalid => addresses <= 1
=============================================================================
