---------------------------- MODULE ThreadModel ----------------------------
(***************************************************************************)
(* FCThreadModel (frame/_threadModel.{h,cpp}): an object whose owner       *)
(* starts a worker thread with startSvr and stops it with stopSvr.  The    *)
(* worker sleeps for the start delay, clears the exit flag and then calls  *)
(* the virtual runloop() until it sees the flag, when it calls exitModel() *)
(* and ends.  An exception thrown by either hook is caught and logged, and *)
(* the loop goes on.                                                       *)
(*                                                                         *)
(* The flag is a plain bool which the owner, the worker and anybody who    *)
(* calls the public setExitFlag share without a lock.  Every access is one *)
(* byte through a virtual call, so a step reads or writes it once.         *)
(***************************************************************************)
EXTENDS Naturals

CONSTANT MaxStarts      \* bound: how many threads startSvr creates in a run

ASSUME ThreadModelAssumption == MaxStarts \in Nat \ {0}

Thread == 1 .. MaxStarts
Handle == Thread \cup {0}

\* What a failed pthread_create may leave in the handle: the address of a
\* thread descriptor it has already freed.
Stale == MaxStarts + 1

VARIABLES
    m_hThread,      \* the handle, 0 when there is none, or Stale
    m_bExitFlag,    \* the exit flag
    worker,         \* where each thread is in doThreadProc
    owner,          \* where the owner is: outside the object, in stopSvr, ...
    inited,         \* ghost: initialModel() succeeded, unInitModel() not yet called
    early,          \* ghost: threads still in their start delay when the flag was set
    asked,          \* ghost: threads past their delay when the flag was set
    overlapped      \* ghost: startSvr replaced the handle of a thread never joined

ghosts == <<inited, early, asked, overlapped>>
vars == <<m_hThread, m_bExitFlag, worker, owner, inited, early, asked, overlapped>>

WorkerState ==
    {"none",        \* not created
     "delay",       \* in the usleep of the start delay
     "check",       \* at the top of the loop
     "run",         \* flag seen clear, in runloop()
     "nap",         \* runloop() returned false, in the 10 ms usleep
     "exit",        \* flag seen set, in exitModel()
     "ended"}       \* returned from doThreadProc

Looping == {"check", "run", "nap", "exit"}

TypeOK ==
    /\ m_hThread \in Handle \cup {Stale}
    /\ m_bExitFlag \in BOOLEAN
    /\ worker \in [Thread -> WorkerState]
    /\ owner \in {"outside", "joining", "destroying", "destroyed", "crashed"}
    /\ inited \in BOOLEAN
    /\ early \in SUBSET Thread
    /\ asked \in SUBSET Thread
    /\ overlapped \in BOOLEAN

Init ==
    /\ m_hThread = 0
    /\ m_bExitFlag = FALSE
    /\ worker = [t \in Thread |-> "none"]
    /\ owner = "outside"
    /\ inited = FALSE
    /\ early = {}
    /\ asked = {}
    /\ overlapped = FALSE

-----------------------------------------------------------------------------
(* The owner.                                                              *)

Created == {t \in Thread : worker[t] # "none"}

\* startSvr whose initialModel() succeeds.  Creating the thread may fail.
\* Nothing stops a second startSvr while the first thread is running.
\* (When initialModel() fails startSvr changes nothing.)
StartSvr ==
    /\ owner = "outside"
    /\ inited' = TRUE
    /\ \/ /\ m_hThread' \in {m_hThread, Stale}
          /\ UNCHANGED worker
       \/ \E t \in Thread \ Created :
             /\ \A u \in Thread \ Created : t <= u
             /\ m_hThread' = t
             /\ worker' = [worker EXCEPT ![t] = "delay"]
    /\ overlapped' = (overlapped \/ (m_hThread \in Thread /\ m_hThread' # m_hThread))
    /\ UNCHANGED <<m_bExitFlag, owner, early, asked>>

\* The assignment of setExitFlag and its record in the ghosts.
RaiseFlag ==
    /\ m_bExitFlag' = TRUE
    /\ early' = early \cup {t \in Thread : worker[t] = "delay"}
    /\ asked' = asked \cup {t \in Thread : worker[t] \in Looping}

\* setExitFlag called by anybody: the owner, a hook, a signal handler.
SetExitFlag ==
    /\ owner \in {"outside", "joining"}
    /\ RaiseFlag
    /\ UNCHANGED <<m_hThread, worker, owner, inited, overlapped>>

\* Mutant: the model is torn down before the join.
StopSvr_UninitFirst ==
    /\ owner = "outside"
    /\ RaiseFlag
    /\ owner' = IF m_hThread # 0 THEN "joining" ELSE "outside"
    /\ inited' = FALSE
    /\ UNCHANGED <<m_hThread, worker, overlapped>>

\* Mutant: stopSvr joins without setting the flag.
StopSvr_NoFlag ==
    /\ owner = "outside"
    /\ IF m_hThread # 0
       THEN owner' = "joining" /\ UNCHANGED inited
       ELSE inited' = FALSE /\ UNCHANGED owner
    /\ UNCHANGED <<m_hThread, m_bExitFlag, worker, early, asked, overlapped>>

\* stopSvr up to the join, or to its end when there is no thread to join.
StopSvr ==
    /\ owner = "outside"
    /\ RaiseFlag
    /\ IF m_hThread # 0
       THEN owner' = "joining" /\ UNCHANGED inited
       ELSE inited' = FALSE /\ UNCHANGED owner
    /\ UNCHANGED <<m_hThread, worker, overlapped>>

\* Where the owner is when the join is over, in stopSvr or in the destructor.
Joined == IF owner = "joining" THEN "outside" ELSE "destroyed"

\* pthread_join returns; the rest of stopSvr.
JoinReturns ==
    /\ owner \in {"joining", "destroying"}
    /\ m_hThread \in Thread
    /\ worker[m_hThread] = "ended"
    /\ m_hThread' = 0
    /\ inited' = FALSE
    /\ owner' = Joined
    /\ UNCHANGED <<m_bExitFlag, worker, early, asked, overlapped>>

\* pthread_join of a stale handle: an error stopSvr ignores, or a fault.
JoinStale ==
    /\ owner \in {"joining", "destroying"}
    /\ m_hThread = Stale
    /\ \/ m_hThread' = 0 /\ inited' = FALSE /\ owner' = Joined
       \/ owner' = "crashed" /\ UNCHANGED <<m_hThread, inited>>
    /\ UNCHANGED <<m_bExitFlag, worker, early, asked, overlapped>>

\* ~FCThreadModel: its stopSvr joins the thread there is.  What the derived
\* class initialised, and its hooks, are gone by then.
Destroy ==
    /\ owner = "outside"
    /\ RaiseFlag
    /\ inited' = FALSE
    /\ owner' = IF m_hThread # 0 THEN "destroying" ELSE "destroyed"
    /\ UNCHANGED <<m_hThread, worker, overlapped>>

-----------------------------------------------------------------------------
(* The worker: doThreadProc.                                               *)

Move(t, from, to) ==
    /\ owner # "crashed"
    /\ worker[t] = from
    /\ worker' = [worker EXCEPT ![t] = to]

\* Mutant: the flag is not cleared when the loop begins.
BeginLoop_KeepFlag(t) ==
    /\ Move(t, "delay", "check")
    /\ UNCHANGED <<m_hThread, m_bExitFlag, owner, ghosts>>

\* The start delay ends and the flag is cleared, whatever it was.
BeginLoop(t) ==
    /\ Move(t, "delay", "check")
    /\ m_bExitFlag' = FALSE
    /\ UNCHANGED <<m_hThread, owner, ghosts>>

CheckExitFlag(t) ==
    /\ owner \in {"outside", "joining"}
    /\ Move(t, "check", IF m_bExitFlag THEN "exit" ELSE "run")
    /\ UNCHANGED <<m_hThread, m_bExitFlag, owner, ghosts>>

\* runloop() returns true or throws, or returns false and the thread naps.
Runloop(t) ==
    /\ Move(t, "run", "check") \/ Move(t, "run", "nap")
    /\ UNCHANGED <<m_hThread, m_bExitFlag, owner, ghosts>>

NapEnds(t) ==
    /\ Move(t, "nap", "check")
    /\ UNCHANGED <<m_hThread, m_bExitFlag, owner, ghosts>>

\* Mutant: the thread clears the flag as it leaves.
ExitModel_ClearFlag(t) ==
    /\ Move(t, "exit", "check")
    /\ m_bExitFlag' = FALSE
    /\ UNCHANGED <<m_hThread, owner, ghosts>>

\* exitModel() returns and the thread ends.
ExitModel(t) ==
    /\ Move(t, "exit", "ended")
    /\ UNCHANGED <<m_hThread, m_bExitFlag, owner, ghosts>>

\* exitModel() throws: the break is skipped and the loop goes on.
ExitModelThrows(t) ==
    /\ Move(t, "exit", "check")
    /\ UNCHANGED <<m_hThread, m_bExitFlag, owner, ghosts>>

\* The thread of an object whose destructor has begun calls runloop() or
\* exitModel(), both pure virtual by then, or its hook uses what is gone.
HookGone(t) ==
    /\ owner \in {"destroying", "destroyed"}
    /\ worker[t] \in {"check", "run", "exit"}
    /\ owner' = "crashed"
    /\ UNCHANGED <<m_hThread, m_bExitFlag, worker, ghosts>>

DoThreadProc(t) ==
    \/ BeginLoop(t)
    \/ CheckExitFlag(t)
    \/ Runloop(t)
    \/ NapEnds(t)
    \/ ExitModel(t)
    \/ ExitModelThrows(t)
    \/ HookGone(t)

Next ==
    \/ StartSvr
    \/ SetExitFlag
    \/ StopSvr
    \/ JoinReturns
    \/ JoinStale
    \/ Destroy
    \/ \E t \in Thread : DoThreadProc(t)

Spec == Init /\ [][Next]_vars

\* A thread that is not blocked runs on: its sleeps end, its hooks return and
\* exitModel() does not throw every time it is called.
WorkerFairness(t) ==
    /\ WF_vars(DoThreadProc(t))
    /\ SF_vars(ExitModel(t))

FairSpec ==
    /\ Spec
    /\ WF_vars(JoinReturns \/ JoinStale)
    /\ \A t \in Thread : WorkerFairness(t)

-----------------------------------------------------------------------------
(* Properties.                                                             *)

Live == {"delay"} \cup Looping

\* The worker runs only between initialModel() and unInitModel(): stopSvr has
\* joined it before it calls unInitModel(), unless a second startSvr made the
\* owner lose its handle.  The destructor joins it too late to keep this up.
WorkerUsesInitedModel ==
    ~overlapped /\ owner \notin {"destroying", "crashed"} =>
        \A t \in Thread : worker[t] \in Live => inited

\* stopSvr can be left waiting for a thread that will not stop only when the
\* flag was set during that thread's start delay, which ends by clearing it.
FlagLostOnlyInDelay ==
    ~overlapped /\ owner = "joining" /\ ~m_bExitFlag => m_hThread \in early

\* A thread ends only if somebody set the flag after its start delay: what an
\* earlier stop left in the flag does not end a thread started later.
EndedWasAsked == \A t \in Thread : worker[t] = "ended" => t \in asked

\* stopSvr returns when the thread it joins was past its start delay.
StopReturns ==
    (/\ owner = "joining" /\ m_bExitFlag
     /\ m_hThread \in Thread /\ worker[m_hThread] \in Looping)
        ~> (owner = "outside" \/ overlapped)
=============================================================================
