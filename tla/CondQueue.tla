----------------------------- MODULE CondQueue -----------------------------
(***************************************************************************)
(* The three queue templates of frame/: BlockingQueue (_blockQueue.h),     *)
(* BoundQueue (_boundQueue.h) and CircularQueue (_circularQueue.h).  Each  *)
(* guards a deque with a MutexLock and one or two Conditions; take is the  *)
(* same in all of them and put is what tells them apart.  A behaviour is   *)
(* about one of them, its "kind".                                          *)
(*                                                                         *)
(* put and take hold the MutexLock except while they wait, so a step is    *)
(* everything a thread does between getting the mutex and giving it up:    *)
(* the mutex is free between steps and needs no variable.  A thread woken  *)
(* from a wait needs the mutex again, and others may take it first.        *)
(***************************************************************************)
EXTENDS Naturals, Sequences, FiniteSets

CONSTANTS
    Producer,       \* the threads that call put
    Consumer,       \* the threads that call take
    Size,           \* _size of a BoundQueue or CircularQueue
    MaxPut,         \* bound: how many times each producer calls put
    MaxSpurious     \* bound: wake-ups that no notify caused

ASSUME CondQueueAssumption ==
    /\ IsFiniteSet(Producer)
    /\ IsFiniteSet(Consumer)
    /\ Producer # {}
    /\ Producer \cap Consumer = {}
    /\ Size \in Nat \ {0}
    /\ MaxPut \in Nat
    /\ MaxSpurious \in Nat

Thread == Producer \cup Consumer
Item == Producer \X (1 .. MaxPut)

VARIABLES
    kind,           \* which of the templates this is
    queue,          \* _queue
    phase,          \* where each thread is in its call
    calls,          \* the put calls each producer has made
    spurious,       \* how many wake-ups no notify caused
    accepted,       \* ghost: the items of the puts that returned true
    taken           \* ghost: the items that take handed out

vars == <<kind, queue, phase, calls, spurious, accepted, taken>>

Phase ==
    {"idle",        \* not in a call
     "waiting",     \* in waitForSeconds, on _notFull or _notEmpty by its role
     "woken",       \* a notify (or nothing) ended the wait
     "timedout"}    \* the wait ended with ETIMEDOUT

TypeOK ==
    /\ kind \in {"blocking", "bound", "circular"}
    /\ queue \in Seq(Item)
    /\ phase \in [Thread -> Phase]
    /\ calls \in [Producer -> 0 .. MaxPut]
    /\ spurious \in 0 .. MaxSpurious
    /\ accepted \in Seq(Item)
    /\ taken \in Seq(Item)

Init ==
    /\ kind \in {"blocking", "bound", "circular"}
    /\ queue = <<>>
    /\ phase = [t \in Thread |-> "idle"]
    /\ calls = [p \in Producer |-> 0]
    /\ spurious = 0
    /\ accepted = <<>>
    /\ taken = <<>>

-----------------------------------------------------------------------------
(* Condition: waitForSeconds and notify.                                   *)

In(T, ph) == {t \in T : phase[t] = ph}

\* Mutant: the notify is forgotten.
Notify_Lost(ph, T) == phase' = ph

\* notify(): one of the threads of T that wait is woken, if there is one.
\* ph is the phase of the threads with the caller's own update.
Notify(ph, T) ==
    \/ \E t \in T : ph[t] = "waiting" /\ phase' = [ph EXCEPT ![t] = "woken"]
    \/ (\A t \in T : ph[t] # "waiting") /\ phase' = ph

SetPhase(t, ph) == [phase EXCEPT ![t] = ph]

\* Mutant: the wait has no timeout.
TimesOut_Never(t) == FALSE /\ UNCHANGED vars

\* The seconds are over before a notify came.
TimesOut(t) ==
    /\ phase[t] = "waiting"
    /\ phase' = SetPhase(t, "timedout")
    /\ UNCHANGED <<kind, queue, calls, spurious, accepted, taken>>

\* POSIX lets a wait end for no reason.
WakesUp(t) ==
    /\ phase[t] = "waiting"
    /\ spurious < MaxSpurious
    /\ spurious' = spurious + 1
    /\ phase' = SetPhase(t, "woken")
    /\ UNCHANGED <<kind, queue, calls, accepted, taken>>

-----------------------------------------------------------------------------
(* put.                                                                    *)

Full == kind # "blocking" /\ Len(queue) >= Size

\* The item p is putting: named after the call.
PutItem(p) == <<p, calls[p]>>

\* A new call, or one whose wait was ended by a notify: the thread tests the
\* size.  A CircularQueue tests it once only, with an "if".
AtSizeTest(p) == phase[p] = "idle" \/ (phase[p] = "woken" /\ kind # "circular")

CountCall(p) ==
    IF phase[p] = "idle"
    THEN calls[p] < MaxPut /\ calls' = [calls EXCEPT ![p] = @ + 1]
    ELSE UNCHANGED calls

PutWaits(p) ==
    /\ AtSizeTest(p)
    /\ Full
    /\ CountCall(p)
    /\ phase' = SetPhase(p, "waiting")
    /\ UNCHANGED <<kind, queue, spurious, accepted, taken>>

\* push_back, notify, return true.  old is what eviction left of the queue.
Push(p, old, item) ==
    /\ queue' = Append(old, item)
    /\ accepted' = Append(accepted, item)
    /\ Notify(SetPhase(p, "idle"), Consumer)
    /\ UNCHANGED <<kind, spurious, taken>>

\* Mutant: BoundQueue::put tests the size with an "if" as well.
PutPushes_NoRetest(p) ==
    /\ CountCall(p)
    /\ phase[p] = "woken" \/ (phase[p] = "idle" /\ ~Full)
    /\ Push(p, queue, <<p, calls'[p]>>)

PutPushes(p) ==
    /\ CountCall(p)
    /\ (AtSizeTest(p) /\ ~Full) \/ (phase[p] = "woken" /\ kind = "circular")
    /\ Push(p, queue, <<p, calls'[p]>>)

\* BoundQueue: return false, even if there is room by now.
PutGivesUp(p) ==
    /\ kind = "bound"
    /\ phase[p] = "timedout"
    /\ phase' = SetPhase(p, "idle")
    /\ UNCHANGED <<kind, queue, calls, spurious, accepted, taken>>

\* What the pop_front loop of CircularQueue::put leaves: fewer than Size items.
Evicted ==
    IF Len(queue) >= Size THEN SubSeq(queue, Len(queue) - Size + 2, Len(queue))
                          ELSE queue

PutEvicts(p) ==
    /\ kind = "circular"
    /\ phase[p] = "timedout"
    /\ Push(p, Evicted, PutItem(p))
    /\ UNCHANGED calls

Put(p) == PutWaits(p) \/ PutPushes(p) \/ PutGivesUp(p) \/ PutEvicts(p)

-----------------------------------------------------------------------------
(* take.                                                                   *)

AtEmptyTest(c) == phase[c] \in {"idle", "woken"}

TakeWaits(c) ==
    /\ AtEmptyTest(c)
    /\ queue = <<>>
    /\ phase' = SetPhase(c, "waiting")
    /\ UNCHANGED <<kind, queue, calls, spurious, accepted, taken>>

\* Mutant: the item is copied out and stays in the queue.
TakePops_NoPop(c) ==
    /\ AtEmptyTest(c)
    /\ queue # <<>>
    /\ taken' = Append(taken, Head(queue))
    /\ IF kind = "blocking" THEN phase' = SetPhase(c, "idle")
                            ELSE Notify(SetPhase(c, "idle"), Producer)
    /\ UNCHANGED <<kind, queue, calls, spurious, accepted>>

\* front, pop_front, notify if there is a _notFull, return true.
TakePops(c) ==
    /\ AtEmptyTest(c)
    /\ queue # <<>>
    /\ taken' = Append(taken, Head(queue))
    /\ queue' = Tail(queue)
    /\ IF kind = "blocking" THEN phase' = SetPhase(c, "idle")
                            ELSE Notify(SetPhase(c, "idle"), Producer)
    /\ UNCHANGED <<kind, calls, spurious, accepted>>

\* return false, even if there is an item by now.
TakeGivesUp(c) ==
    /\ phase[c] = "timedout"
    /\ phase' = SetPhase(c, "idle")
    /\ UNCHANGED <<kind, queue, calls, spurious, accepted, taken>>

Take(c) == TakeWaits(c) \/ TakePops(c) \/ TakeGivesUp(c)

-----------------------------------------------------------------------------
Next ==
    \/ \E p \in Producer : Put(p)
    \/ \E c \in Consumer : Take(c)
    \/ \E t \in Thread : TimesOut(t) \/ WakesUp(t)

Spec == Init /\ [][Next]_vars

\* A call that was begun goes on: its wait ends and it gets the mutex.
\* Nobody has to begin a call.
FairSpec ==
    /\ Spec
    /\ \A t \in Thread : WF_vars(TimesOut(t))
    /\ \A p \in Producer : WF_vars(phase[p] # "idle" /\ Put(p))
    /\ \A c \in Consumer : WF_vars(phase[c] # "idle" /\ Take(c))

-----------------------------------------------------------------------------
(* Properties.                                                             *)

\* No notify is lost: while a consumer waits there is a woken consumer for
\* every item of the queue, and while a producer waits there is a woken
\* producer for every free place.
NoLostWakeup ==
    /\ In(Consumer, "waiting") # {} =>
           Len(queue) <= Cardinality(In(Consumer, "woken"))
    /\ In(Producer, "waiting") # {} =>
           Size <= Len(queue) + Cardinality(In(Producer, "woken"))

\* A BoundQueue never holds more than _size items (what the assertion of its
\* put says).  A CircularQueue can: a woken put pushes without a second test.
\* It exceeds _size by less than the number of producers, and by one more for
\* every spurious wake-up.
Capacity ==
    /\ kind = "bound" => Len(queue) <= Size
    /\ kind = "circular" =>
           Len(queue) + 1 <= Size + Cardinality(Producer) + spurious

\* An item whose put returned true is taken once, in the order of the puts.
\* A CircularQueue may drop items, and it never hands one out late or twice.
FifoExactlyOnce ==
    LET out == taken \o queue
    IN  IF kind = "circular"
        THEN \E f \in [1 .. Len(out) -> 1 .. Len(accepted)] :
                /\ \A i \in 1 .. Len(out) : out[i] = accepted[f[i]]
                /\ \A i, j \in 1 .. Len(out) : i < j => f[i] < f[j]
        ELSE out = accepted

\* A call of put or take returns: only calls of others that succeed can keep
\* it in its loop, and the calls of put are bounded here.
CallReturns == \A t \in Thread : phase[t] # "idle" ~> phase[t] = "idle"
=============================================================================
