---------------------------- MODULE ThreadProofs ----------------------------
(***************************************************************************)
(* The safety properties of ThreadModel for any number of threads, those   *)
(* of TimerThread, a worker of it, for any timers, intervals and requests, *)
(* and those of the locks, for any threads and objects.                    *)
(*                                                                         *)
(* None of ThreadModel's is inductive.  IInv adds that, as long as no      *)
(* handle was lost, the only thread alive is the one m_hThread names; that *)
(* a thread being joined while still in its start delay is in "early"; and *)
(* that whoever can see the flag set was asked to stop.                    *)
(***************************************************************************)
EXTENDS ThreadModel, TimerThread, LockObjects, DataLemmas

\* The handle of every thread alive is at hand, so stopSvr can join it.
OnlyHandleLives ==
    ~overlapped => \A t \in Thread : worker[t] \in Live => m_hThread = t

\* A stop that finds the thread in its start delay is recorded.
DelayedStopRecorded ==
    (~overlapped /\ owner = "joining") =>
        (m_hThread \in Thread /\ worker[m_hThread] = "delay" => m_hThread \in early)

\* A thread that sees the flag, or has seen it, was asked to stop.
FlagMeansAsked ==
    \A t \in Thread :
        \/ worker[t] \in Looping /\ m_bExitFlag
        \/ worker[t] \in {"exit", "ended"}
        => t \in asked

\* stopSvr joins only if there is a handle.
JoinHasHandle == owner = "joining" => m_hThread # 0

IInv ==
    /\ TypeOK
    /\ OnlyHandleLives
    /\ WorkerUsesInitedModel
    /\ DelayedStopRecorded
    /\ FlagLostOnlyInDelay
    /\ FlagMeansAsked
    /\ JoinHasHandle

LEMMA HandleFacts == 0 \notin Thread /\ Stale \notin Thread /\ Stale # 0
BY ThreadModelAssumption DEF Thread, Stale

LEMMA StateFacts ==
    /\ Live = {"delay", "check", "run", "nap", "exit"}
    /\ Looping = {"check", "run", "nap", "exit"}
BY DEF Live, Looping

LEMMA InitInv == Init => IInv
BY HandleFacts, StateFacts
   DEF Init, IInv, TypeOK, Handle, WorkerState, OnlyHandleLives,
       WorkerUsesInitedModel, DelayedStopRecorded, FlagLostOnlyInDelay,
       FlagMeansAsked, JoinHasHandle

LEMMA TypeStep == TypeOK /\ [Next]_vars => TypeOK'
<1> SUFFICES ASSUME TypeOK, [Next]_vars PROVE TypeOK'
  OBVIOUS
<1> USE DEF TypeOK, Handle, WorkerState
<1>1. CASE StartSvr
  BY <1>1 DEF StartSvr, Created
<1>2. CASE SetExitFlag \/ StopSvr \/ Destroy
  BY <1>2 DEF SetExitFlag, StopSvr, Destroy, RaiseFlag
<1>3. CASE JoinReturns \/ JoinStale
  BY <1>3 DEF JoinReturns, JoinStale, Joined
<1>4. ASSUME NEW t \in Thread, DoThreadProc(t) PROVE TypeOK'
  BY <1>4 DEF DoThreadProc, BeginLoop, CheckExitFlag, Runloop, NapEnds, ExitModel,
              ExitModelThrows, HookGone, Move, ghosts
<1>5. CASE UNCHANGED vars
  BY <1>5 DEF vars
<1> QED
  BY <1>1, <1>2, <1>3, <1>4, <1>5 DEF Next

LEMMA InvStep == IInv /\ [Next]_vars => IInv'
<1> SUFFICES ASSUME IInv, [Next]_vars PROVE IInv'
  OBVIOUS
<1>0. TypeOK /\ TypeOK'
  BY TypeStep DEF IInv
<1> USE <1>0, HandleFacts, StateFacts
<1> DEFINE Rest == /\ OnlyHandleLives' /\ WorkerUsesInitedModel'
                   /\ DelayedStopRecorded' /\ FlagLostOnlyInDelay'
                   /\ FlagMeansAsked' /\ JoinHasHandle'
<1>1. CASE StartSvr
  <2>1. CASE UNCHANGED worker /\ m_hThread' \in {m_hThread, Stale}
    BY <1>1, <2>1 DEF StartSvr, IInv, TypeOK, OnlyHandleLives, WorkerUsesInitedModel,
       DelayedStopRecorded, FlagLostOnlyInDelay, FlagMeansAsked, JoinHasHandle
  <2>2. ASSUME NEW t \in Thread \ Created, m_hThread' = t,
               worker' = [worker EXCEPT ![t] = "delay"]
        PROVE  Rest
    <3>1. worker[t] = "none" /\ worker'[t] = "delay"
      BY <2>2 DEF Created, TypeOK
    <3>2. \A u \in Thread : u # t => worker'[u] = worker[u]
      BY <2>2 DEF TypeOK
    <3>3. OnlyHandleLives' /\ WorkerUsesInitedModel'
      BY <1>1, <2>2, <3>1, <3>2 DEF StartSvr, IInv, OnlyHandleLives, WorkerUsesInitedModel
    <3>4. DelayedStopRecorded' /\ FlagLostOnlyInDelay' /\ JoinHasHandle'
      BY <1>1, <2>2 DEF StartSvr, DelayedStopRecorded, FlagLostOnlyInDelay, JoinHasHandle
    <3>5. FlagMeansAsked'
      BY <1>1, <3>1, <3>2 DEF StartSvr, IInv, FlagMeansAsked
    <3> QED
      BY <3>3, <3>4, <3>5
  <2> QED
    BY <1>1, <2>1, <2>2 DEF StartSvr, IInv
<1>2. CASE SetExitFlag \/ StopSvr
  BY <1>2 DEF SetExitFlag, StopSvr, RaiseFlag, IInv, TypeOK, Handle, OnlyHandleLives,
     WorkerUsesInitedModel, DelayedStopRecorded, FlagLostOnlyInDelay, FlagMeansAsked,
     JoinHasHandle
<1>3. CASE JoinReturns \/ JoinStale
  BY <1>3 DEF JoinReturns, JoinStale, Joined, IInv, OnlyHandleLives, WorkerUsesInitedModel,
     DelayedStopRecorded, FlagLostOnlyInDelay, FlagMeansAsked, JoinHasHandle
<1>4. CASE Destroy
  BY <1>4 DEF Destroy, RaiseFlag, IInv, OnlyHandleLives, WorkerUsesInitedModel,
     DelayedStopRecorded, FlagLostOnlyInDelay, FlagMeansAsked, JoinHasHandle
<1>5. ASSUME NEW t \in Thread, DoThreadProc(t) PROVE Rest
  <2>1. CASE BeginLoop(t)
    <3>1. /\ worker[t] = "delay" /\ worker'[t] = "check" /\ ~m_bExitFlag'
          /\ \A u \in Thread : u # t => worker'[u] = worker[u]
          /\ UNCHANGED <<m_hThread, owner, ghosts>>
      BY <2>1 DEF BeginLoop, Move, TypeOK
    <3>2. FlagLostOnlyInDelay'
      BY <3>1 DEF IInv, OnlyHandleLives, DelayedStopRecorded, FlagLostOnlyInDelay, ghosts
    <3>3. OnlyHandleLives' /\ WorkerUsesInitedModel' /\ DelayedStopRecorded' /\ JoinHasHandle'
      BY <3>1 DEF IInv, OnlyHandleLives, WorkerUsesInitedModel, DelayedStopRecorded,
         JoinHasHandle, ghosts
    <3>4. FlagMeansAsked'
      BY <3>1 DEF IInv, FlagMeansAsked, ghosts
    <3> QED
      BY <3>2, <3>3, <3>4
  <2>2. CASE \/ CheckExitFlag(t) \/ Runloop(t) \/ NapEnds(t)
             \/ ExitModel(t) \/ ExitModelThrows(t)
    <3>1. /\ worker[t] \in Looping /\ worker'[t] \in Looping \cup {"ended"}
          /\ worker'[t] \in {"exit", "ended"} =>
                 worker[t] = "exit" \/ (worker[t] \in Looping /\ m_bExitFlag)
          /\ \A u \in Thread : u # t => worker'[u] = worker[u]
          /\ UNCHANGED <<m_hThread, m_bExitFlag, owner, ghosts>>
      BY <2>2 DEF CheckExitFlag, Runloop, NapEnds, ExitModel, ExitModelThrows, Move, TypeOK
    <3>2. OnlyHandleLives' /\ WorkerUsesInitedModel' /\ DelayedStopRecorded'
      BY <3>1 DEF IInv, OnlyHandleLives, WorkerUsesInitedModel, DelayedStopRecorded, ghosts
    <3>3. FlagLostOnlyInDelay' /\ JoinHasHandle'
      BY <3>1 DEF IInv, FlagLostOnlyInDelay, JoinHasHandle, ghosts
    <3>4. FlagMeansAsked'
      BY <3>1 DEF IInv, FlagMeansAsked, ghosts
    <3> QED
      BY <3>2, <3>3, <3>4
  <2>3. CASE HookGone(t)
    BY <2>3 DEF HookGone, IInv, OnlyHandleLives, WorkerUsesInitedModel,
       DelayedStopRecorded, FlagLostOnlyInDelay, FlagMeansAsked, JoinHasHandle, ghosts
  <2> QED
    BY <1>5, <2>1, <2>2, <2>3 DEF DoThreadProc
<1>6. CASE UNCHANGED vars
  BY <1>6 DEF vars, IInv, OnlyHandleLives, WorkerUsesInitedModel, DelayedStopRecorded,
     FlagLostOnlyInDelay, FlagMeansAsked, JoinHasHandle
<1> QED
  BY <1>1, <1>2, <1>3, <1>4, <1>5, <1>6 DEF Next, IInv

THEOREM Invariance == Spec => []IInv
BY InitInv, InvStep, PTL DEF Spec

\* The variables keep their types.
THEOREM TypeCorrect == Spec => []TypeOK
<1>1. IInv => TypeOK
  BY DEF IInv
<1> QED
  BY Invariance, <1>1, PTL

\* stopSvr calls unInitModel() only when the worker no longer runs, unless a
\* second startSvr made the owner lose a handle.
THEOREM WorkerUsesInited == Spec => []WorkerUsesInitedModel
<1>1. IInv => WorkerUsesInitedModel
  BY DEF IInv
<1> QED
  BY Invariance, <1>1, PTL

\* A stop is lost only in the start delay.
THEOREM LostOnlyInDelay == Spec => []FlagLostOnlyInDelay
<1>1. IInv => FlagLostOnlyInDelay
  BY DEF IInv
<1> QED
  BY Invariance, <1>1, PTL

\* A thread ends only when it was asked to after its start delay.
THEOREM EndsOnlyAsked == Spec => []EndedWasAsked
<1>1. IInv => EndedWasAsked
  BY DEF IInv, FlagMeansAsked, EndedWasAsked
<1> QED
  BY Invariance, <1>1, PTL

-----------------------------------------------------------------------------
(* SetTimer and KillTimer: TimerThread.                                    *)

\* f is what the map becomes with the first n requests.
Run(f, n, events, rs) ==
    f = [i \in 0 .. n |-> IF i = 0 THEN events ELSE Applied(f[i - 1], rs[i])]

LEMMA RunExists ==
    ASSUME NEW events, NEW rs, NEW n \in Nat PROVE \E f : Run(f, n, events, rs)
<1> DEFINE S == {m \in Nat : \E f : Run(f, m, events, rs)}
<1>1. 0 \in S
  <2> DEFINE f == [i \in 0 .. 0 |-> events]
  <2>1. f = [i \in 0 .. 0 |-> IF i = 0 THEN events ELSE Applied(f[i - 1], rs[i])]
    OBVIOUS
  <2> QED
    BY <2>1 DEF Run
<1>2. ASSUME NEW m \in 1 .. n, m - 1 \in S PROVE m \in S
  <2>1. PICK g : Run(g, m - 1, events, rs)
    BY <1>2
  <2> DEFINE f == [i \in 0 .. m |-> IF i = m THEN Applied(g[m - 1], rs[m]) ELSE g[i]]
  <2>2. \A i \in 0 .. m - 1 : g[i] = IF i = 0 THEN events ELSE Applied(g[i - 1], rs[i])
    BY <2>1 DEF Run
  <2>3. ASSUME NEW i \in 0 .. m
        PROVE  f[i] = IF i = 0 THEN events ELSE Applied(f[i - 1], rs[i])
    <3>1. CASE i = m
      <4>1. m - 1 \in 0 .. m /\ m - 1 # m /\ m # 0
        OBVIOUS
      <4> QED
        BY <3>1, <4>1
    <3>2. CASE i # m
      <4>1. i \in 0 .. m - 1 /\ (i # 0 => i - 1 \in 0 .. m /\ i - 1 # m)
        BY <3>2
      <4> QED
        BY <2>2, <3>2, <4>1
    <3> QED
      BY <3>1, <3>2
  <2>4. Run(f, m, events, rs)
    BY <2>3 DEF Run
  <2> QED
    BY <2>4
<1>3. \A i \in 0 .. n : i \in S
  <2> HIDE DEF S
  <2> QED
    BY <1>1, <1>2, Counting
<1>4. n \in 0 .. n
  OBVIOUS
<1> QED
  BY <1>3, <1>4

LEMMA AllAppliedIs ==
    ASSUME NEW events, NEW rs, Len(rs) \in Nat
    PROVE  \E f : Run(f, Len(rs), events, rs) /\ AllApplied(events, rs) = f[Len(rs)]
<1> DEFINE f == CHOOSE g : Run(g, Len(rs), events, rs)
<1>1. Run(f, Len(rs), events, rs)
  BY RunExists
<1>2. AllApplied(events, rs) = f[Len(rs)]
  BY DEF AllApplied, Run
<1> QED
  BY <1>1, <1>2

\* Request j is the last one for k among the first n.
LastFor(k, j, n, rs) == rs[j].key = k /\ \A h \in j + 1 .. n : rs[h].key # k

\* What the first n requests make of the map: the last one for a key counts.
Outcome(events, rs, n, result) ==
    /\ DOMAIN result \subseteq Key
    /\ \A k \in Key :
           \/ /\ \A h \in 1 .. n : rs[h].key # k
              /\ k \in DOMAIN result <=> k \in DOMAIN events
           \/ \E j \in 1 .. n :
                  /\ LastFor(k, j, n, rs)
                  /\ k \in DOMAIN result <=> rs[j].uType = "set"

LEMMA OutcomeStep ==
    ASSUME NEW events, NEW rs, NEW n \in Nat, NEW old, Outcome(events, rs, n, old),
           rs[n + 1] \in Request
    PROVE  Outcome(events, rs, n + 1, Applied(old, rs[n + 1]))
<1> DEFINE r == rs[n + 1]
           new == Applied(old, r)
<1>1. r.key \in Key /\ r.uType \in {"set", "kill"}
  BY DEF Request
<1>2. DOMAIN new = IF r.uType = "set" THEN DOMAIN old \cup {r.key} ELSE DOMAIN old \ {r.key}
  BY DEF Applied
<1>3. DOMAIN new \subseteq Key
  BY <1>1, <1>2 DEF Outcome
<1>4. \A h \in 1 .. n + 1 : h = n + 1 \/ h \in 1 .. n
  OBVIOUS
<1>5. 1 .. n \subseteq 1 .. n + 1 /\ n + 1 \in 1 .. n + 1 /\ (n + 1) + 1 .. n + 1 = {}
  OBVIOUS
<1> HIDE DEF new
<1>6. ASSUME NEW k \in Key
      PROVE  \/ /\ \A h \in 1 .. n + 1 : rs[h].key # k
                /\ k \in DOMAIN new <=> k \in DOMAIN events
             \/ \E j \in 1 .. n + 1 :
                    /\ LastFor(k, j, n + 1, rs)
                    /\ k \in DOMAIN new <=> rs[j].uType = "set"
  <2>1. CASE r.key = k
    <3>1. LastFor(k, n + 1, n + 1, rs)
      BY <1>5, <2>1 DEF LastFor
    <3>2. k \in DOMAIN new <=> r.uType = "set"
      BY <1>1, <1>2, <2>1
    <3> QED
      BY <1>5, <3>1, <3>2
  <2>2. CASE r.key # k
    <3>1. k \in DOMAIN new <=> k \in DOMAIN old
      BY <1>2, <2>2
    <3>2. CASE (\A h \in 1 .. n : rs[h].key # k) /\ (k \in DOMAIN old <=> k \in DOMAIN events)
      BY <1>4, <2>2, <3>1, <3>2
    <3>3. ASSUME NEW j \in 1 .. n, LastFor(k, j, n, rs), k \in DOMAIN old <=> rs[j].uType = "set"
          PROVE  j \in 1 .. n + 1 /\ LastFor(k, j, n + 1, rs)
      <4>1. \A h \in j + 1 .. n + 1 : h = n + 1 \/ h \in j + 1 .. n
        BY <3>3
      <4> QED
        BY <1>5, <2>2, <3>3, <4>1 DEF LastFor
    <3> QED
      BY <3>1, <3>2, <3>3 DEF Outcome
  <2> QED
    BY <2>1, <2>2
<1> QED
  BY <1>3, <1>6 DEF Outcome, new

LEMMA AppliedOutcome ==
    ASSUME NEW events, DOMAIN events \subseteq Key, NEW rs \in Seq(Request)
    PROVE  Outcome(events, rs, Len(rs), AllApplied(events, rs))
<1>1. Len(rs) \in Nat /\ \A i \in 1 .. Len(rs) : rs[i] \in Request
  OBVIOUS
<1>2. PICK f : Run(f, Len(rs), events, rs) /\ AllApplied(events, rs) = f[Len(rs)]
  BY <1>1, AllAppliedIs
<1>3. \A i \in 0 .. Len(rs) : f[i] = IF i = 0 THEN events ELSE Applied(f[i - 1], rs[i])
  BY <1>2 DEF Run
<1> DEFINE n == Len(rs)
           S == {m \in Nat : Outcome(events, rs, m, f[m])}
<1> HIDE DEF n
<1>4. 0 \in S
  <2>1. f[0] = events
    BY <1>1, <1>3 DEF n
  <2>2. Outcome(events, rs, 0, events)
    BY DEF Outcome
  <2> QED
    BY <2>1, <2>2
<1>5. ASSUME NEW m \in 1 .. n, m - 1 \in S PROVE m \in S
  <2>1. n \in Nat /\ m \in Nat /\ m # 0 /\ m \in 0 .. n /\ (m - 1) + 1 = m /\ m - 1 \in Nat
    BY <1>1 DEF n
  <2>2. f[m] = Applied(f[m - 1], rs[m]) /\ rs[m] \in Request
    BY <1>1, <1>3, <2>1 DEF n
  <2>3. Outcome(events, rs, m - 1, f[m - 1])
    BY <1>5
  <2>4. Outcome(events, rs, (m - 1) + 1, Applied(f[m - 1], rs[(m - 1) + 1]))
    BY <2>1, <2>2, <2>3, OutcomeStep
  <2> QED
    BY <2>1, <2>2, <2>4
<1>6. Outcome(events, rs, n, f[n])
  <2>1. n \in Nat /\ n \in 0 .. n
    BY <1>1 DEF n
  <2>2. \A i \in 0 .. n : i \in S
    BY <1>4, <1>5, <2>1, Counting
  <2> QED
    BY <2>1, <2>2
<1> QED
  BY <1>2, <1>6 DEF n

-----------------------------------------------------------------------------
\* The last request that waits for a key is the last that was made.
WaitCounts ==
    \A k \in Key, j \in 1 .. Len(m_lstEventWait) :
        LastFor(k, j, Len(m_lstEventWait), m_lstEventWait) =>
            wanted[k] = m_lstEventWait[j].uType

\* An event that was killed and has been called back since lies behind the walk.
KilledIsBehind ==
    \A k \in Key :
        late[k] # 0 => wanted[k] = "kill" /\ (k \in DOMAIN m_mapEvent => k <= walk)

TimerInv ==
    /\ m_lstEventWait \in Seq(Request)
    /\ DOMAIN m_mapEvent \subseteq Key
    /\ walk \in 0 .. Idle
    /\ wanted \in [Key -> {"none", "set", "kill"}]
    /\ late \in [Key -> {0, 1}]
    /\ WaitCounts /\ LastRequestCounts /\ KilledIsBehind

LEMMA TimerInitInv == TimerInit => TimerInv
BY TimerThreadAssumption
   DEF TimerInit, TimerInv, WaitCounts, LastRequestCounts, KilledIsBehind, Idle, Key

LEMMA AskStep == ASSUME TimerInv, NEW r \in Request, Ask(r) PROVE TimerInv'
<1> DEFINE w == m_lstEventWait
           n == Len(w)
<1>1. /\ w' = Append(w, r) /\ wanted' = [wanted EXCEPT ![r.key] = r.uType]
      /\ late' = [late EXCEPT ![r.key] = 0]
      /\ UNCHANGED <<m_mapEvent, walk>>
      /\ r.key \in Key /\ r.uType \in {"set", "kill"}
  BY DEF Ask, Request
<1>2. /\ n \in Nat /\ w' \in Seq(Request) /\ Len(w') = n + 1 /\ w'[n + 1] = r
      /\ \A i \in 1 .. n : w'[i] = w[i]
  BY <1>1 DEF TimerInv
<1>3. /\ wanted' \in [Key -> {"none", "set", "kill"}] /\ wanted'[r.key] = r.uType
      /\ \A k \in Key : k # r.key => wanted'[k] = wanted[k]
      /\ late' \in [Key -> {0, 1}] /\ late'[r.key] = 0
      /\ \A k \in Key : k # r.key => late'[k] = late[k]
  BY <1>1 DEF TimerInv
<1> HIDE DEF n
<1>4. 1 .. n \subseteq 1 .. n + 1 /\ n + 1 \in 1 .. n + 1 /\ \A i \in 1 .. n + 1 : i = n + 1 \/ i \in 1 .. n
  BY <1>2
<1>5. ASSUME NEW k \in Key, NEW j \in 1 .. n + 1, LastFor(k, j, n + 1, w') PROVE wanted'[k] = w'[j].uType
  <2>1. CASE j = n + 1
    BY <1>2, <1>3, <1>5, <2>1 DEF LastFor
  <2>2. CASE j # n + 1
    <3>1. j \in 1 .. n /\ n + 1 \in j + 1 .. n + 1 /\ \A h \in j + 1 .. n : h \in j + 1 .. n + 1 /\ h \in 1 .. n
      BY <1>2, <1>5, <2>2
    <3>2. r.key # k /\ LastFor(k, j, n, w)
      BY <1>2, <1>5, <3>1 DEF LastFor
    <3>3. wanted[k] = w[j].uType
      BY <3>1, <3>2 DEF TimerInv, WaitCounts, n
    <3> QED
      BY <1>2, <1>3, <3>1, <3>2, <3>3
  <2> QED
    BY <2>1, <2>2
<1>6. WaitCounts'
  BY <1>2, <1>5 DEF WaitCounts
<1>7. LastRequestCounts'
  <2> SUFFICES ASSUME NEW k \in Key, \A i \in 1 .. n + 1 : w'[i].key # k
               PROVE  k \in DOMAIN m_mapEvent <=> wanted'[k] = "set"
    BY <1>1, <1>2 DEF LastRequestCounts
  <2>1. r.key # k /\ \A i \in 1 .. n : w[i].key # k
    BY <1>2, <1>4
  <2> QED
    BY <1>3, <2>1 DEF TimerInv, LastRequestCounts, n
<1>8. KilledIsBehind'
  BY <1>1, <1>3 DEF TimerInv, KilledIsBehind
<1> QED
  BY <1>1, <1>2, <1>3, <1>6, <1>7, <1>8 DEF TimerInv

\* With all requests taken, the events are those that SetTimer was the last to be
\* called for.
LEMMA BeginStep == ASSUME TimerInv, BeginPass PROVE TimerInv'
<1> DEFINE w == m_lstEventWait
<1>1. /\ m_mapEvent' = AllApplied(m_mapEvent, w) /\ w' = <<>> /\ walk' = 0
      /\ UNCHANGED <<wanted, late>>
  BY DEF BeginPass
<1>2. Outcome(m_mapEvent, w, Len(w), m_mapEvent')
  BY <1>1, AppliedOutcome DEF TimerInv
<1>3. ASSUME NEW k \in Key PROVE k \in DOMAIN m_mapEvent' <=> wanted[k] = "set"
  <2>1. CASE (\A h \in 1 .. Len(w) : w[h].key # k) /\ (k \in DOMAIN m_mapEvent' <=> k \in DOMAIN m_mapEvent)
    BY <2>1 DEF TimerInv, LastRequestCounts
  <2>2. ASSUME NEW j \in 1 .. Len(w), LastFor(k, j, Len(w), w),
               k \in DOMAIN m_mapEvent' <=> w[j].uType = "set"
        PROVE  k \in DOMAIN m_mapEvent' <=> wanted[k] = "set"
    BY <2>2 DEF TimerInv, WaitCounts
  <2> QED
    BY <1>2, <2>1, <2>2 DEF Outcome
<1>4. WaitCounts' /\ LastRequestCounts'
  BY <1>1, <1>3 DEF WaitCounts, LastRequestCounts
<1>5. KilledIsBehind'
  BY <1>1, <1>3 DEF TimerInv, KilledIsBehind
<1>6. 0 \in 0 .. Idle /\ <<>> \in Seq(Request)
  BY TimerThreadAssumption DEF Idle
<1> QED
  BY <1>1, <1>2, <1>4, <1>5, <1>6 DEF TimerInv, Outcome

\* The walk comes to an event ahead of it.
LEMMA FireStep == ASSUME TimerInv, NEW k \in Key, Fire(k) PROVE TimerInv'
<1>1. /\ k \in DOMAIN m_mapEvent /\ k > walk /\ walk' = k
      /\ late' = [late EXCEPT ![k] = IF wanted[k] = "kill" /\ @ < 2 THEN @ + 1 ELSE @]
      /\ UNCHANGED <<m_lstEventWait, m_mapEvent, wanted>>
  BY DEF Fire, DueAhead
<1>2. k \in Nat /\ walk \in Nat /\ k \in 0 .. Idle /\ \A j \in Key : j \in Nat
  BY TimerThreadAssumption DEF TimerInv, Key, Idle
<1>3. late[k] = 0
  <2>1. ~(k <= walk)
    BY <1>1, <1>2
  <2> QED
    BY <1>1, <2>1 DEF TimerInv, KilledIsBehind
<1>4. /\ late' \in [Key -> {0, 1}]
      /\ late'[k] # 0 => wanted[k] = "kill"
      /\ \A j \in Key : j # k => late'[j] = late[j]
  BY <1>1, <1>3 DEF TimerInv
<1>5. KilledIsBehind'
  <2> SUFFICES ASSUME NEW j \in Key, late'[j] # 0
               PROVE  wanted[j] = "kill" /\ (j \in DOMAIN m_mapEvent => j <= k)
    BY <1>1 DEF KilledIsBehind
  <2>1. CASE j = k
    BY <1>2, <1>4, <2>1
  <2>2. CASE j # k
    <3>1. wanted[j] = "kill" /\ (j \in DOMAIN m_mapEvent => j <= walk)
      BY <1>4, <2>2 DEF TimerInv, KilledIsBehind
    <3> QED
      BY <1>1, <1>2, <3>1
  <2> QED
    BY <2>1, <2>2
<1> QED
  BY <1>1, <1>2, <1>4, <1>5 DEF TimerInv, WaitCounts, LastRequestCounts

\* The events and the requests stay, and the walk is over or goes no way back.
LEMMA KeptStep ==
    ASSUME TimerInv, UNCHANGED <<m_lstEventWait, wanted, late>>, DOMAIN m_mapEvent' = DOMAIN m_mapEvent,
           walk' = walk \/ walk' = Idle
    PROVE  TimerInv'
<1>1. \A k \in Key : k <= Idle
  BY TimerThreadAssumption DEF Key, Idle
<1>2. walk' \in 0 .. Idle
  BY TimerThreadAssumption DEF TimerInv, Idle
<1> QED
  BY <1>1, <1>2 DEF TimerInv, WaitCounts, LastRequestCounts, KilledIsBehind

LEMMA TimerInvStep == TimerInv /\ [TimerNext]_timerVars => TimerInv'
<1> SUFFICES ASSUME TimerInv, [TimerNext]_timerVars PROVE TimerInv'
  OBVIOUS
<1>1. ASSUME NEW k \in Key, NEW e \in Elapses, SetTimer(k, e) PROVE TimerInv'
  <2>1. [uType |-> "set", key |-> k, uElapse |-> e] \in Request
    BY DEF Request
  <2> QED
    BY <1>1, <2>1, AskStep DEF SetTimer
<1>2. ASSUME NEW k \in Key, KillTimer(k) PROVE TimerInv'
  <2>1. [uType |-> "kill", key |-> k, uElapse |-> 0] \in Request
    BY DEF Request
  <2> QED
    BY <1>2, <2>1, AskStep DEF KillTimer
<1>3. CASE UNCHANGED timerVars
  BY <1>3, KeptStep DEF timerVars
<1>4. ASSUME NEW k \in Key, CallbackReturns(k) PROVE TimerInv'
  BY <1>4, KeptStep DEF CallbackReturns
<1>5. ASSUME NEW k \in Key, CallbackThrows(k) PROVE TimerInv'
  BY <1>5, KeptStep DEF CallbackThrows
<1>6. CASE EndPass
  BY <1>6, KeptStep DEF EndPass
<1>7. CASE Tick
  BY <1>7, KeptStep DEF Tick
<1> QED
  BY <1>1, <1>2, <1>3, <1>4, <1>5, <1>6, <1>7, BeginStep, FireStep DEF TimerNext, DealTimer

LEMMA TimerInvariance == TimerSpec => []TimerInv
BY TimerInitInv, TimerInvStep, PTL DEF TimerSpec

\* When no request waits for a timer, it is in the map exactly if SetTimer was the
\* last to be called for it, however many requests were taken at once.
THEOREM LastCallCounts == TimerSpec => []LastRequestCounts
<1>1. TimerInv => LastRequestCounts
  BY DEF TimerInv
<1> QED
  BY <1>1, TimerInvariance, PTL

\* A timer that was killed is called back at most once more, in the walk that
\* was under way.
THEOREM KillIsFinal == TimerSpec => []KilledFiresAtMostOnce
<1>1. TimerInv => KilledFiresAtMostOnce
  <2> SUFFICES ASSUME TimerInv, NEW k \in Key PROVE late[k] < 2
    BY DEF KilledFiresAtMostOnce
  <2>1. late[k] = 0 \/ late[k] = 1
    BY DEF TimerInv
  <2> QED
    BY <2>1
<1> QED
  BY <1>1, TimerInvariance, PTL

-----------------------------------------------------------------------------
(* LockObjects.  How often a thread's objects took their locks is a sum,   *)
(* which an object adds to at the end and in the middle.                   *)

Classes == {"auto", "manual", "autoR", "manualR", "autoW", "manualW"}
LockObject == [class : Classes, lock : BOOLEAN, owns : BOOLEAN, took : Nat]
Counts(o, classes) == IF o.class \in classes THEN o.took ELSE 0

\* f sums up the first n objects.
Summed(f, n, os, classes) ==
    f = [k \in 0 .. n |-> IF k = 0 THEN 0
                          ELSE f[k - 1] + (IF os[k].class \in classes THEN os[k].took ELSE 0)]

LEMMA SumsExist == ASSUME NEW os, NEW classes, NEW n \in Nat PROVE \E f : Summed(f, n, os, classes)
<1> DEFINE S == {m \in Nat : \E f : Summed(f, m, os, classes)}
           c(k) == IF os[k].class \in classes THEN os[k].took ELSE 0
<1>1. 0 \in S
  <2> DEFINE f == [k \in 0 .. 0 |-> 0]
  <2>1. Summed(f, 0, os, classes)
    BY DEF Summed
  <2> QED
    BY <2>1
<1>2. ASSUME NEW m \in 1 .. n, m - 1 \in S PROVE m \in S
  <2>1. PICK g : Summed(g, m - 1, os, classes)
    BY <1>2
  <2> DEFINE next == g[m - 1] + c(m)
             f == [k \in 0 .. m |-> IF k = m THEN next ELSE g[k]]
  <2>2. \A k \in 0 .. m - 1 : g[k] = IF k = 0 THEN 0 ELSE g[k - 1] + c(k)
    BY <2>1 DEF Summed
  <2> HIDE DEF c
  <2>3. ASSUME NEW k \in 0 .. m PROVE f[k] = IF k = 0 THEN 0 ELSE f[k - 1] + c(k)
    <3>1. CASE k = m
      <4>1. m - 1 \in 0 .. m /\ m - 1 # m /\ m # 0
        OBVIOUS
      <4> QED
        BY <3>1, <4>1
    <3>2. CASE k # m
      <4>1. k \in 0 .. m - 1 /\ (k # 0 => k - 1 \in 0 .. m /\ k - 1 # m)
        BY <3>2
      <4> HIDE DEF next
      <4> QED
        BY <2>2, <3>2, <4>1
    <3> QED
      BY <3>1, <3>2
  <2>4. Summed(f, m, os, classes)
    BY <2>3 DEF Summed, c
  <2> QED
    BY <2>4
<1>3. \A m \in 0 .. n : m \in S
  <2> HIDE DEF S
  <2> QED
    BY <1>1, <1>2, Counting
<1>4. n \in 0 .. n
  OBVIOUS
<1> QED
  BY <1>3, <1>4

LEMMA TookIs ==
    ASSUME NEW os \in Seq(LockObject), NEW classes
    PROVE  \E f : /\ Took(os, classes) = f[Len(os)]
                  /\ f[0] = 0
                  /\ \A k \in 1 .. Len(os) : f[k] = f[k - 1] + Counts(os[k], classes)
                  /\ \A k \in 0 .. Len(os) : f[k] \in Nat
<1> DEFINE f == CHOOSE g : Summed(g, Len(os), os, classes)
           n == Len(os)
<1>0. n \in Nat /\ n \in 0 .. n /\ \A k \in 1 .. n : os[k] \in LockObject /\ k - 1 \in 0 .. n
  BY Beginnings
<1>1. Summed(f, n, os, classes)
  BY <1>0, SumsExist
<1>2. Took(os, classes) = f[n]
  BY DEF Took, Summed
<1> HIDE DEF f, n
<1>3. \A k \in 0 .. n : f[k] = IF k = 0 THEN 0 ELSE f[k - 1] + Counts(os[k], classes)
  BY <1>1 DEF Summed, Counts
<1>4. f[0] = 0 /\ \A k \in 1 .. n : f[k] = f[k - 1] + Counts(os[k], classes)
  BY <1>0, <1>3
<1>5. \A k \in 1 .. n : Counts(os[k], classes) \in Nat
  BY <1>0 DEF Counts, LockObject
<1> DEFINE S == {k \in Nat : f[k] \in Nat}
<1>6. 0 \in S
  BY <1>4
<1>7. ASSUME NEW k \in 1 .. n, k - 1 \in S PROVE k \in S
  BY <1>0, <1>4, <1>5, <1>7
<1>8. \A k \in 0 .. n : k \in S
  <2> HIDE DEF S
  <2> QED
    BY <1>0, <1>6, <1>7, Counting
<1> QED
  BY <1>2, <1>4, <1>8 DEF n

\* Two lists that differ in one place at most.
LEMMA TookChange ==
    ASSUME NEW os \in Seq(LockObject), NEW classes, NEW k \in 1 .. Len(os), NEW o \in LockObject
    PROVE  LET new == [os EXCEPT ![k] = o]
           IN  /\ Took(new, classes) \in Nat /\ Took(os, classes) \in Nat
               /\ Took(new, classes) + Counts(os[k], classes) = Took(os, classes) + Counts(o, classes)
<1> DEFINE n == Len(os)
           new == [os EXCEPT ![k] = o]
           a == Counts(os[k], classes)
           b == Counts(o, classes)
<1>1. /\ n \in Nat /\ n \in 0 .. n /\ new \in Seq(LockObject) /\ Len(new) = n /\ k \in 1 .. n
      /\ \A i \in 1 .. n : new[i] = IF i = k THEN o ELSE os[i]
      /\ os[k] \in LockObject
  OBVIOUS
<1>2. a \in Nat /\ b \in Nat
  BY <1>1 DEF Counts, LockObject
<1> HIDE DEF n, new, a, b
<1>3. PICK f : /\ Took(os, classes) = f[n] /\ f[0] = 0
               /\ \A i \in 1 .. n : f[i] = f[i - 1] + Counts(os[i], classes)
               /\ \A i \in 0 .. n : f[i] \in Nat
  BY TookIs DEF n
<1>4. PICK g : /\ Took(new, classes) = g[n] /\ g[0] = 0
               /\ \A i \in 1 .. n : g[i] = g[i - 1] + Counts(new[i], classes)
               /\ \A i \in 0 .. n : g[i] \in Nat
  <2>1. PICK g : /\ Took(new, classes) = g[Len(new)] /\ g[0] = 0
                 /\ \A i \in 1 .. Len(new) : g[i] = g[i - 1] + Counts(new[i], classes)
                 /\ \A i \in 0 .. Len(new) : g[i] \in Nat
    <3>1. new \in Seq(LockObject)
      BY <1>1
    <3> QED
      BY <3>1, TookIs
  <2>2. Len(new) = n
    BY <1>1
  <2> QED
    BY <2>1, <2>2
<1> DEFINE S == {i \in Nat : IF i < k THEN g[i] = f[i] ELSE g[i] + a = f[i] + b}
<1>5. 0 \in S
  BY <1>1, <1>3, <1>4
<1>6. ASSUME NEW i \in 1 .. n, i - 1 \in S PROVE i \in S
  <2>1. i \in Nat /\ k \in Nat /\ i - 1 \in 0 .. n /\ i \in 0 .. n
    BY <1>1
  <2>2. f[i] \in Nat /\ g[i] \in Nat /\ f[i - 1] \in Nat /\ g[i - 1] \in Nat
    BY <1>3, <1>4, <2>1
  <2>3. CASE i < k
    <3>1. new[i] = os[i] /\ g[i - 1] = f[i - 1]
      BY <1>1, <1>6, <2>1, <2>3
    <3> QED
      BY <1>3, <1>4, <2>1, <2>3, <3>1
  <2>4. CASE i = k
    <3>1. new[i] = o /\ g[i - 1] = f[i - 1]
      BY <1>1, <1>6, <2>1, <2>4
    <3>2. f[i] = f[i - 1] + a /\ g[i] = g[i - 1] + b
      BY <1>3, <1>4, <2>4, <3>1 DEF a, b
    <3>3. g[i] + a = f[i] + b
      BY <1>2, <2>2, <3>1, <3>2
    <3> QED
      BY <2>1, <2>4, <3>3
  <2>5. CASE i > k
    <3>1. new[i] = os[i] /\ g[i - 1] + a = f[i - 1] + b
      BY <1>1, <1>6, <2>1, <2>5
    <3> DEFINE c == Counts(os[i], classes)
    <3>2. f[i] = f[i - 1] + c /\ g[i] = g[i - 1] + c
      BY <1>3, <1>4, <3>1
    <3>3. c \in Nat
      <4>1. os[i] \in LockObject
        BY Beginnings DEF n
      <4> QED
        BY <4>1 DEF Counts, LockObject
    <3> HIDE DEF c
    <3>4. \A x, y \in Nat : x + a = y + b => (x + c) + a = (y + c) + b
      BY <1>2, <3>3
    <3>5. g[i] + a = f[i] + b
      BY <2>2, <3>1, <3>2, <3>4
    <3> QED
      BY <2>1, <2>5, <3>5
  <2> QED
    BY <2>1, <2>3, <2>4, <2>5
<1>7. g[n] + a = f[n] + b /\ g[n] \in Nat /\ f[n] \in Nat
  <2> HIDE DEF S
  <2>1. \A i \in 0 .. n : i \in S
    BY <1>1, <1>5, <1>6, Counting
  <2>2. n \in S /\ ~(n < k)
    BY <1>1, <2>1
  <2> QED
    BY <1>1, <1>3, <1>4, <2>2 DEF S
<1> QED
  BY <1>3, <1>4, <1>7 DEF new, a, b

LEMMA TookAppend ==
    ASSUME NEW os \in Seq(LockObject), NEW o \in LockObject, NEW classes
    PROVE  /\ Took(os, classes) \in Nat
           /\ Took(Append(os, o), classes) = Took(os, classes) + Counts(o, classes)
<1> DEFINE n == Len(os)
           new == Append(os, o)
<1>1. /\ n \in Nat /\ n \in 0 .. n /\ new \in Seq(LockObject) /\ Len(new) = n + 1
      /\ new[n + 1] = o /\ \A i \in 1 .. n : new[i] = os[i]
  OBVIOUS
<1> HIDE DEF new, n
<1>2. PICK f : /\ Took(os, classes) = f[n] /\ f[0] = 0
               /\ \A i \in 1 .. n : f[i] = f[i - 1] + Counts(os[i], classes)
               /\ \A i \in 0 .. n : f[i] \in Nat
  BY TookIs DEF n
<1>3. PICK g : /\ Took(new, classes) = g[n + 1] /\ g[0] = 0
               /\ \A i \in 1 .. n + 1 : g[i] = g[i - 1] + Counts(new[i], classes)
  <2>1. PICK g : /\ Took(new, classes) = g[Len(new)] /\ g[0] = 0
                 /\ \A i \in 1 .. Len(new) : g[i] = g[i - 1] + Counts(new[i], classes)
    <3>1. new \in Seq(LockObject)
      BY <1>1
    <3> QED
      BY <3>1, TookIs
  <2>2. Len(new) = n + 1
    BY <1>1
  <2> QED
    BY <2>1, <2>2
<1> DEFINE S == {i \in Nat : g[i] = f[i]}
<1>4. 0 \in S
  BY <1>2, <1>3
<1>5. ASSUME NEW i \in 1 .. n, i - 1 \in S PROVE i \in S
  <2>1. i \in Nat /\ i \in 1 .. n + 1 /\ g[i - 1] = f[i - 1] /\ new[i] = os[i]
    BY <1>1, <1>5
  <2> QED
    BY <1>2, <1>3, <2>1
<1>6. g[n] = f[n]
  <2> HIDE DEF S
  <2>1. \A i \in 0 .. n : i \in S
    BY <1>1, <1>4, <1>5, Counting
  <2> QED
    BY <1>1, <2>1 DEF S
<1>7. n + 1 \in 1 .. n + 1 /\ (n + 1) - 1 = n
  BY <1>1
<1>8. g[n + 1] = g[(n + 1) - 1] + Counts(new[n + 1], classes)
  BY <1>3, <1>7
<1> QED
  BY <1>1, <1>2, <1>3, <1>6, <1>7, <1>8 DEF new

LEMMA TookFront ==
    ASSUME NEW os \in Seq(LockObject), NEW classes, os # <<>>
    PROVE  /\ Front(os) \in Seq(LockObject) /\ Last(os) \in LockObject
           /\ Took(Front(os), classes) \in Nat
           /\ Took(os, classes) = Took(Front(os), classes) + Counts(Last(os), classes)
           /\ \A k \in 1 .. Len(Front(os)) : k \in 1 .. Len(os) /\ Front(os)[k] = os[k]
           /\ Len(os) \in 1 .. Len(os) /\ Last(os) = os[Len(os)]
<1> DEFINE n == Len(os)
<1>1. n \in Nat \ {0} /\ n \in 1 .. n /\ n - 1 \in 0 .. n
  OBVIOUS
<1>2. /\ Last(os) = os[n] /\ os[n] \in LockObject
      /\ Front(os) = SubSeq(os, 1, n - 1)
  BY <1>1 DEF Front, Last
<1>3. /\ SubSeq(os, 1, n - 1) \in Seq(LockObject) /\ Len(SubSeq(os, 1, n - 1)) = n - 1
      /\ \A k \in 1 .. n - 1 : SubSeq(os, 1, n - 1)[k] = os[k]
      /\ os = Append(SubSeq(os, 1, n - 1), os[n])
  BY <1>1, Beginnings
<1> HIDE DEF n
<1>4. \A k \in 1 .. n - 1 : k \in 1 .. n
  BY <1>1
<1> DEFINE front == SubSeq(os, 1, n - 1)
           last == os[n]
<1>5. front \in Seq(LockObject) /\ last \in LockObject /\ os = Append(front, last) /\ Len(front) = n - 1
  BY <1>2, <1>3
<1> HIDE DEF front, last
<1>6. /\ Took(front, classes) \in Nat
      /\ Took(os, classes) = Took(front, classes) + Counts(last, classes)
  BY <1>5, TookAppend
<1>7. Front(os) = front /\ Last(os) = last /\ \A k \in 1 .. n - 1 : front[k] = os[k]
  BY <1>2, <1>3 DEF front, last
<1>8. n = Len(os) /\ last = os[n]
  BY DEF n, last
<1> QED
  BY <1>1, <1>4, <1>5, <1>6, <1>7, <1>8

\* An object that took its lock is in the sum.
LEMMA TookHas ==
    ASSUME NEW os \in Seq(LockObject), NEW classes, NEW k \in 1 .. Len(os)
    PROVE  /\ Took(os, classes) \in Nat /\ Counts(os[k], classes) \in Nat
           /\ Counts(os[k], classes) <= Took(os, classes)
<1> DEFINE o == [class |-> "auto", lock |-> FALSE, owns |-> FALSE, took |-> 0]
<1>1. o \in LockObject /\ Counts(o, classes) = 0 /\ os[k] \in LockObject
  <2>1. os[k] \in LockObject
    OBVIOUS
  <2> QED
    BY <2>1 DEF LockObject, Counts, Classes
<1>2. Counts(os[k], classes) \in Nat
  BY <1>1 DEF Counts, LockObject
<1> HIDE DEF o
<1>3. PICK t \in Nat : /\ Took(os, classes) \in Nat
                       /\ t + Counts(os[k], classes) = Took(os, classes) + 0
  BY <1>1, TookChange
<1> QED
  BY <1>2, <1>3

LEMMA TookNothing == ASSUME NEW classes PROVE Took(<<>>, classes) = 0
<1>1. <<>> \in Seq(LockObject) /\ Len(<<>>) = 0
  OBVIOUS
<1> QED
  BY <1>1, TookIs

\* Until the first misuse an object took its lock once or not at all, it knows
\* so if it has an m_bLock, and its pointer is set as long as it has the lock.
Sound(o) ==
    /\ o.took \in {0, 1}
    /\ o.took = 1 => o.lock
    /\ o.class \in {"auto", "manual", "manualW"} => (o.owns <=> o.took = 1)
    /\ o.class \in {"autoR", "autoW"} => o.took = 1

Exclusive == writer # Nobody => \A u \in Threads : readers[u] = 0

LockTypeOK ==
    /\ writer \in Threads \cup {Nobody}
    /\ cs \in [Threads -> Nat]
    /\ readers \in [Threads -> Nat]
    /\ objects \in [Threads -> Seq(LockObject)]

LockInv ==
    /\ LockTypeOK
    /\ misuse = {} => Exclusive /\ \A t \in Threads : \A k \in 1 .. Len(objects[t]) : Sound(objects[t][k])
    /\ Balanced
    /\ LostByRetry

CSClasses == {"auto", "manual"}
RClasses == {"autoR", "manualR"}
WClasses == {"autoW", "manualW"}

\* What a step of thread t makes of its objects "new" and of the locks.
LEMMA OwnStep ==
    ASSUME LockInv, misuse = {}, NEW t \in Threads, NEW new \in Seq(LockObject),
           objects' = [objects EXCEPT ![t] = new],
           writer' \in Threads \cup {Nobody}, {cs', readers'} \subseteq [Threads -> Nat],
           misuse' = {} =>
               /\ \A k \in 1 .. Len(new) : Sound(new[k])
               /\ Exclusive'
               /\ \A u \in Threads \ {t} : /\ cs'[u] = cs[u]
                                           /\ readers'[u] = readers[u]
                                           /\ writer' = u <=> writer = u
               /\ Took(new, CSClasses) = cs'[t]
               /\ Took(new, RClasses) = readers'[t]
               /\ Took(new, WClasses) = IF writer' = t THEN 1 ELSE 0,
           misuse' = {"retry"} =>
               \/ cs'[t] > Took(new, CSClasses)
               \/ writer' = t /\ Took(new, WClasses) = 0
               \/ \E k \in 1 .. Len(new) : new[k].took > 1
    PROVE  LockInv'
<1>1. /\ objects \in [Threads -> Seq(LockObject)]
      /\ objects'[t] = new /\ \A u \in Threads \ {t} : objects'[u] = objects[u]
      /\ objects' \in [Threads -> Seq(LockObject)]
  BY DEF LockInv, LockTypeOK
<1>2. LockTypeOK'
  BY <1>1 DEF LockTypeOK
<1>3. ASSUME misuse' = {}
      PROVE  Exclusive' /\ \A u \in Threads : \A k \in 1 .. Len(objects'[u]) : Sound(objects'[u][k])
  <2>1. ASSUME NEW u \in Threads, NEW k \in 1 .. Len(objects'[u]) PROVE Sound(objects'[u][k])
    <3>1. CASE u = t
      BY <1>1, <1>3, <3>1
    <3>2. CASE u # t
      <4>1. objects'[u] = objects[u] /\ u \in Threads
        BY <1>1, <3>2
      <4> QED
        BY <4>1 DEF LockInv
    <3> QED
      BY <3>1, <3>2
  <2> QED
    BY <1>3, <2>1
<1>4. ASSUME misuse' = {}, NEW u \in Threads
      PROVE  /\ Took(objects'[u], CSClasses) = cs'[u]
             /\ Took(objects'[u], RClasses) = readers'[u]
             /\ Took(objects'[u], WClasses) = IF writer' = u THEN 1 ELSE 0
  <2>1. CASE u = t
    BY <1>1, <1>4, <2>1
  <2>2. CASE u # t
    <3>1. objects'[u] = objects[u] /\ cs'[u] = cs[u] /\ readers'[u] = readers[u]
          /\ (writer' = u <=> writer = u)
      BY <1>1, <1>4, <2>2
    <3>2. /\ Took(objects[u], CSClasses) = cs[u]
          /\ Took(objects[u], RClasses) = readers[u]
          /\ Took(objects[u], WClasses) = IF writer = u THEN 1 ELSE 0
      BY DEF LockInv, Balanced, Taken, CSClasses, RClasses, WClasses
    <3> QED
      BY <3>1, <3>2
  <2> QED
    BY <2>1, <2>2
<1>5. Balanced'
  BY <1>4 DEF Balanced, Taken, CSClasses, RClasses, WClasses
<1>6. LostByRetry'
  <2> SUFFICES ASSUME misuse' = {"retry"}
               PROVE  \/ cs'[t] > Took(objects'[t], CSClasses)
                      \/ writer' = t /\ Took(objects'[t], WClasses) = 0
                      \/ \E k \in DOMAIN objects'[t] : objects'[t][k].took > 1
    BY DEF LostByRetry, Taken, CSClasses, WClasses
  <2>1. DOMAIN objects'[t] = 1 .. Len(new)
    BY <1>1
  <2> QED
    BY <1>1, <2>1
<1> QED
  BY <1>2, <1>3, <1>5, <1>6 DEF LockInv

Locked(o) == [o EXCEPT !.owns = TRUE, !.took = 1]
LockedAgain(o) == [o EXCEPT !.took = @ + 1]

LEMMA ObjectFacts ==
    ASSUME NEW o \in LockObject
    PROVE  /\ o.class \in Classes /\ o.lock \in BOOLEAN /\ o.owns \in BOOLEAN /\ o.took \in Nat
           /\ Gone(o) \in LockObject /\ Gone(o).class = o.class /\ Gone(o).lock = FALSE /\ Gone(o).owns = FALSE
           /\ Gone(o).took = 0
           /\ Locked(o) \in LockObject /\ Locked(o).class = o.class /\ Locked(o).lock = o.lock
           /\ Locked(o).owns = TRUE /\ Locked(o).took = 1
           /\ LockedAgain(o) \in LockObject /\ LockedAgain(o).class = o.class
           /\ LockedAgain(o).lock = o.lock /\ LockedAgain(o).owns = o.owns
           /\ LockedAgain(o).took = o.took + 1
<1>1. PICK g : g = [o EXCEPT !.lock = FALSE, !.owns = FALSE, !.took = 0]
  OBVIOUS
<1>2. PICK l : l = [o EXCEPT !.owns = TRUE, !.took = 1]
  OBVIOUS
<1>3. LockedAgain(o) = [o EXCEPT !.took = @ + 1]
  BY DEF LockedAgain
<1>4. g \in LockObject /\ g.class = o.class /\ g.lock = FALSE /\ g.owns = FALSE /\ g.took = 0
  BY <1>1 DEF LockObject
<1>5. l \in LockObject /\ l.class = o.class /\ l.lock = o.lock /\ l.owns = TRUE /\ l.took = 1
  BY <1>2 DEF LockObject
<1>6. /\ LockedAgain(o) \in LockObject /\ LockedAgain(o).class = o.class
      /\ LockedAgain(o).lock = o.lock /\ LockedAgain(o).owns = o.owns
      /\ LockedAgain(o).took = o.took + 1
  BY <1>3 DEF LockObject
<1>7. o.class \in Classes /\ o.lock \in BOOLEAN /\ o.owns \in BOOLEAN /\ o.took \in Nat
  BY DEF LockObject
<1>8. Gone(o) = g /\ Locked(o) = l
  BY <1>1, <1>2 DEF Gone, Locked
<1> QED
  BY <1>4, <1>5, <1>6, <1>7, <1>8

\* A class of objects shares one lock.
LEMMA CountsIs ==
    ASSUME NEW o \in LockObject
    PROVE  /\ o.class \in CSClasses => /\ Counts(o, CSClasses) = o.took
                                       /\ Counts(o, RClasses) = 0 /\ Counts(o, WClasses) = 0
           /\ o.class \in RClasses => /\ Counts(o, RClasses) = o.took
                                      /\ Counts(o, CSClasses) = 0 /\ Counts(o, WClasses) = 0
           /\ o.class \in WClasses => /\ Counts(o, WClasses) = o.took
                                      /\ Counts(o, CSClasses) = 0 /\ Counts(o, RClasses) = 0
           /\ o.class \in CSClasses \cup RClasses \cup WClasses
BY ObjectFacts DEF Counts, CSClasses, RClasses, WClasses, Classes

\* What the invariant says of one thread.
LEMMA HeldIs ==
    ASSUME LockInv, misuse = {}, NEW t \in Threads
    PROVE  /\ objects[t] \in Seq(LockObject)
           /\ \A k \in 1 .. Len(objects[t]) : Sound(objects[t][k])
           /\ Took(objects[t], CSClasses) = cs[t]
           /\ Took(objects[t], RClasses) = readers[t]
           /\ Took(objects[t], WClasses) = IF writer = t THEN 1 ELSE 0
           /\ readers[t] \in Nat /\ t # Nobody
           /\ writer # Nobody => readers[t] = 0
           /\ writer \in Threads \cup {Nobody} /\ {cs, readers} \subseteq [Threads -> Nat]
BY NobodyAssumption
   DEF LockInv, LockTypeOK, Balanced, Taken, CSClasses, RClasses, WClasses, Exclusive

\* A new object.
LEMMA NewStep ==
    ASSUME LockInv, misuse = {}, NEW t \in Threads, NEW lock \in BOOLEAN,
           NEW class \in {"manual", "manualR", "manualW"},
           NewAutoLock(t, lock) \/ NewManual(t, class) \/ NewAutoSRWLockR(t) \/ NewAutoSRWLockW(t)
    PROVE  LockInv'
<1>1. \A k \in 1 .. Len(objects[t]) : Sound(objects[t][k])
  BY HeldIs
<1>2. ASSUME NEW o \in LockObject
      PROVE  LET new == Append(objects[t], o)
             IN  /\ new \in Seq(LockObject)
                 /\ Sound(o) => \A k \in 1 .. Len(new) : Sound(new[k])
                 /\ Took(new, CSClasses) = cs[t] + Counts(o, CSClasses)
                 /\ Took(new, RClasses) = readers[t] + Counts(o, RClasses)
                 /\ Took(new, WClasses) = (IF writer = t THEN 1 ELSE 0) + Counts(o, WClasses)
  <2> DEFINE new == Append(objects[t], o)
  <2>1. objects[t] \in Seq(LockObject)
    BY HeldIs
  <2>2. /\ new \in Seq(LockObject)
        /\ \A k \in 1 .. Len(new) : new[k] = o \/ (k \in 1 .. Len(objects[t]) /\ new[k] = objects[t][k])
    BY <2>1
  <2> HIDE DEF new
  <2>3. \A classes : Took(new, classes) = Took(objects[t], classes) + Counts(o, classes)
    BY <2>1, TookAppend DEF new
  <2> QED
    BY <1>1, <2>2, <2>3, HeldIs DEF new
<1>3. CASE NewAutoLock(t, lock)
  <2> DEFINE o == Object("auto", TRUE, lock, IF lock THEN 1 ELSE 0)
             new == Append(objects[t], o)
  <2>1. /\ objects' = [objects EXCEPT ![t] = new] /\ UNCHANGED <<readers, writer, misuse>>
        /\ cs' = IF lock THEN [cs EXCEPT ![t] = @ + 1] ELSE cs
    BY <1>3 DEF NewAutoLock, Push_, EnterCriticalSection
  <2>2. /\ o \in LockObject /\ o.class \in CSClasses /\ o.took = IF lock THEN 1 ELSE 0
        /\ Sound(o)
    BY DEF Object, LockObject, Classes, CSClasses, Sound
  <2> HIDE DEF o
  <2>3. /\ new \in Seq(LockObject) /\ \A k \in 1 .. Len(new) : Sound(new[k])
        /\ Took(new, CSClasses) = cs[t] + o.took
        /\ Took(new, RClasses) = readers[t] /\ Took(new, WClasses) = IF writer = t THEN 1 ELSE 0
    BY <1>2, <2>2, CountsIs, HeldIs
  <2>4. Took(new, CSClasses) = cs'[t]
    BY <2>1, <2>2, <2>3, HeldIs
  <2>5. Exclusive' /\ writer' \in Threads \cup {Nobody} /\ {cs', readers'} \subseteq [Threads -> Nat]
    BY <2>1, HeldIs DEF Exclusive, LockInv
  <2>6. \A u \in Threads \ {t} : cs'[u] = cs[u]
    BY <2>1, HeldIs
  <2> HIDE DEF new
  <2> QED
    BY <2>1, <2>3, <2>4, <2>5, <2>6, OwnStep
<1>4. CASE NewManual(t, class)
  <2> DEFINE o == Object(class, TRUE, FALSE, 0)
             new == Append(objects[t], o)
  <2>1. objects' = [objects EXCEPT ![t] = new] /\ UNCHANGED <<cs, readers, writer, misuse>>
    BY <1>4 DEF NewManual, Push_
  <2>2. o \in LockObject /\ o.took = 0 /\ Sound(o)
    BY DEF Object, LockObject, Classes, Sound
  <2> HIDE DEF o
  <2>3. /\ new \in Seq(LockObject) /\ \A k \in 1 .. Len(new) : Sound(new[k])
        /\ Took(new, CSClasses) = cs[t]
        /\ Took(new, RClasses) = readers[t] /\ Took(new, WClasses) = IF writer = t THEN 1 ELSE 0
    BY <1>2, <2>2, CountsIs, HeldIs
  <2>4. Exclusive' /\ writer' \in Threads \cup {Nobody} /\ {cs', readers'} \subseteq [Threads -> Nat]
    BY <2>1, HeldIs DEF Exclusive, LockInv
  <2> HIDE DEF new
  <2> QED
    BY <2>1, <2>3, <2>4, OwnStep
<1>5. CASE NewAutoSRWLockR(t)
  <2> DEFINE o == Object("autoR", TRUE, FALSE, 1)
             new == Append(objects[t], o)
  <2>1. objects' = [objects EXCEPT ![t] = new] /\ cs' = cs /\ AcquireShared(t)
    BY <1>5 DEF NewAutoSRWLockR, Push_
  <2>2. o \in LockObject /\ o.took = 1 /\ o.class \in RClasses /\ Sound(o)
    BY DEF Object, LockObject, Classes, Sound, RClasses
  <2> HIDE DEF o
  <2>3. /\ new \in Seq(LockObject) /\ \A k \in 1 .. Len(new) : Sound(new[k])
        /\ Took(new, CSClasses) = cs[t]
        /\ Took(new, RClasses) = readers[t] + 1 /\ Took(new, WClasses) = IF writer = t THEN 1 ELSE 0
    BY <1>2, <2>2, CountsIs, HeldIs
  <2> HIDE DEF new
  <2>4. CASE writer = t
    <3>1. misuse' = {"nested"} /\ UNCHANGED <<readers, writer>>
      BY <2>1, <2>4 DEF AcquireShared, Notes
    <3>2. misuse' # {} /\ misuse' # {"retry"}
      BY <3>1
    <3> QED
      BY <2>1, <2>3, <3>1, <3>2, HeldIs, OwnStep
  <2>5. CASE writer # t
    <3>1. writer = Nobody /\ readers' = [readers EXCEPT ![t] = @ + 1] /\ UNCHANGED <<writer, misuse>>
      BY <2>1, <2>5 DEF AcquireShared, CanRead
    <3>2. /\ readers' \in [Threads -> Nat] /\ readers'[t] = readers[t] + 1
          /\ \A u \in Threads \ {t} : readers'[u] = readers[u]
      BY <3>1, HeldIs
    <3>3. Exclusive'
      BY <3>1 DEF Exclusive
    <3> QED
      BY <2>1, <2>3, <3>1, <3>2, <3>3, HeldIs, OwnStep
  <2> QED
    BY <2>4, <2>5
<1>6. CASE NewAutoSRWLockW(t)
  <2> DEFINE o == Object("autoW", TRUE, FALSE, 1)
             new == Append(objects[t], o)
  <2>1. objects' = [objects EXCEPT ![t] = new] /\ cs' = cs /\ AcquireExclusive(t)
    BY <1>6 DEF NewAutoSRWLockW, Push_
  <2>2. o \in LockObject /\ o.took = 1 /\ o.class \in WClasses /\ Sound(o)
    BY DEF Object, LockObject, Classes, Sound, WClasses
  <2> HIDE DEF o
  <2>3. /\ new \in Seq(LockObject) /\ \A k \in 1 .. Len(new) : Sound(new[k])
        /\ Took(new, CSClasses) = cs[t]
        /\ Took(new, RClasses) = readers[t] /\ Took(new, WClasses) = (IF writer = t THEN 1 ELSE 0) + 1
    BY <1>2, <2>2, CountsIs, HeldIs
  <2> HIDE DEF new
  <2>4. CASE writer = t
    <3>1. misuse' = {"nested"} /\ UNCHANGED <<readers, writer>>
      BY <2>1, <2>4 DEF AcquireExclusive, Notes
    <3>2. misuse' # {} /\ misuse' # {"retry"}
      BY <3>1
    <3> QED
      BY <2>1, <2>3, <3>1, <3>2, HeldIs, OwnStep
  <2>5. CASE writer # t
    <3>1. /\ writer = Nobody /\ (\A u \in Threads : readers[u] = 0) /\ writer' = t
          /\ UNCHANGED <<readers, misuse>>
      BY <2>1, <2>5 DEF AcquireExclusive, CanWrite
    <3>2. /\ Exclusive' /\ (\A u \in Threads \ {t} : writer' = u <=> writer = u)
          /\ Took(new, WClasses) = 1
      BY <2>3, <3>1, HeldIs, NobodyAssumption DEF Exclusive
    <3> QED
      BY <2>1, <2>3, <3>1, <3>2, HeldIs, OwnStep
  <2> QED
    BY <2>4, <2>5
<1> QED
  BY <1>3, <1>4, <1>5, <1>6

\* An object that stays, with another state and the same class.
LEMMA ChangeFacts ==
    ASSUME LockInv, misuse = {}, NEW t \in Threads, NEW k \in DOMAIN objects[t],
           NEW o \in LockObject, o.class = objects[t][k].class
    PROVE  LET new == [objects[t] EXCEPT ![k] = o]
           IN  /\ objects[t][k] \in LockObject /\ Sound(objects[t][k])
               /\ new \in Seq(LockObject) /\ k \in 1 .. Len(new) /\ new[k] = o
               /\ Sound(o) => \A i \in 1 .. Len(new) : Sound(new[i])
               /\ Change(t, k, o) => objects' = [objects EXCEPT ![t] = new]
               /\ \A c \in {CSClasses, RClasses, WClasses} :
                      /\ Took(new, c) \in Nat /\ Counts(objects[t][k], c) <= Took(objects[t], c)
                      /\ objects[t][k].class \in c =>
                             Took(new, c) + objects[t][k].took = Took(objects[t], c) + o.took
                      /\ objects[t][k].class \notin c => Took(new, c) = Took(objects[t], c)
<1> DEFINE os == objects[t]
           new == [os EXCEPT ![k] = o]
<1>1. os \in Seq(LockObject) /\ \A i \in 1 .. Len(os) : Sound(os[i])
  BY HeldIs
<1>2. k \in 1 .. Len(os)
  BY <1>1
<1>3. /\ new \in Seq(LockObject) /\ Len(new) = Len(os) /\ os[k] \in LockObject /\ new[k] = o
      /\ \A i \in 1 .. Len(os) : new[i] = o \/ new[i] = os[i]
  BY <1>1, <1>2
<1>4. Change(t, k, o) => objects' = [objects EXCEPT ![t] = new]
  BY DEF Change
<1>5. ASSUME NEW c
      PROVE  /\ Took(new, c) \in Nat /\ Counts(os[k], c) <= Took(os, c)
             /\ os[k].class \in c => Took(new, c) + os[k].took = Took(os, c) + o.took
             /\ os[k].class \notin c => Took(new, c) = Took(os, c)
  <2>1. /\ Took(new, c) \in Nat /\ Took(os, c) \in Nat /\ Counts(os[k], c) <= Took(os, c)
        /\ Took(new, c) + Counts(os[k], c) = Took(os, c) + Counts(o, c)
    BY <1>1, <1>2, TookChange, TookHas
  <2>2. os[k].took \in Nat /\ o.took \in Nat
    BY <1>3, ObjectFacts
  <2> HIDE DEF new, os
  <2>3. CASE os[k].class \in c
    <3>1. Counts(os[k], c) = os[k].took /\ Counts(o, c) = o.took
      BY <2>3 DEF Counts, os
    <3> QED
      BY <2>1, <2>3, <3>1
  <2>4. CASE os[k].class \notin c
    <3>1. Counts(os[k], c) = 0 /\ Counts(o, c) = 0
      BY <2>4 DEF Counts, os
    <3> QED
      BY <2>1, <2>4, <3>1
  <2> QED
    BY <2>3, <2>4
<1>6. Sound(os[k]) /\ (Sound(o) => \A i \in 1 .. Len(new) : Sound(new[i]))
  BY <1>1, <1>2, <1>3
<1> HIDE DEF new
<1> QED
  BY <1>2, <1>3, <1>4, <1>5, <1>6 DEF new

LEMMA TryStep ==
    ASSUME LockInv, misuse = {}, NEW t \in Threads, NEW k \in DOMAIN objects[t],
           TryLock(t, k) \/ TryLockR(t, k) \/ TryLockW(t, k)
    PROVE  LockInv'
<1> DEFINE o == objects[t][k]
           gone == [objects[t] EXCEPT ![k] = Gone(o)]
           locked == [objects[t] EXCEPT ![k] = Locked(o)]
           again == [objects[t] EXCEPT ![k] = LockedAgain(o)]
<1>1. /\ o \in LockObject /\ Sound(o) /\ o.class \in Classes
      /\ Gone(o) \in LockObject /\ Gone(o).class = o.class /\ Gone(o).took = 0
      /\ Locked(o) \in LockObject /\ Locked(o).class = o.class /\ Locked(o).took = 1
      /\ LockedAgain(o) \in LockObject /\ LockedAgain(o).class = o.class
      /\ LockedAgain(o).took = o.took + 1 /\ LockedAgain(o).lock = o.lock
      /\ Gone(o).owns = FALSE /\ Locked(o).owns = TRUE /\ Locked(o).lock = o.lock
  <2>1. o \in LockObject /\ Sound(o)
    <3>1. objects[t] \in Seq(LockObject) /\ k \in 1 .. Len(objects[t])
      BY HeldIs
    <3> QED
      BY <3>1, HeldIs
  <2> HIDE DEF o
  <2> QED
    BY <2>1, ObjectFacts
<1>2. /\ writer \in Threads \cup {Nobody} /\ {cs, readers} \subseteq [Threads -> Nat]
      /\ readers[t] \in Nat /\ t # Nobody /\ Exclusive
      /\ Took(objects[t], CSClasses) = cs[t]
      /\ Took(objects[t], RClasses) = readers[t]
      /\ Took(objects[t], WClasses) = IF writer = t THEN 1 ELSE 0
      /\ writer # Nobody => readers[t] = 0
  BY HeldIs DEF LockInv
<1>3. /\ CSClasses \cap RClasses = {} /\ CSClasses \cap WClasses = {} /\ RClasses \cap WClasses = {}
      /\ "manual" \in CSClasses /\ "manualR" \in RClasses /\ "manualW" \in WClasses
  BY DEF CSClasses, RClasses, WClasses
<1>4. ASSUME NEW p \in LockObject, p.class = o.class
      PROVE  LET new == [objects[t] EXCEPT ![k] = p]
             IN  /\ new \in Seq(LockObject) /\ k \in 1 .. Len(new) /\ new[k] = p
                 /\ Sound(p) => \A i \in 1 .. Len(new) : Sound(new[i])
                 /\ Change(t, k, p) => objects' = [objects EXCEPT ![t] = new]
                 /\ \A c \in {CSClasses, RClasses, WClasses} :
                        /\ Took(new, c) \in Nat
                        /\ o.class \in c => o.took <= Took(objects[t], c)
                        /\ o.class \in c => Took(new, c) + o.took = Took(objects[t], c) + p.took
                        /\ o.class \notin c => Took(new, c) = Took(objects[t], c)
  BY <1>4, ChangeFacts DEF Counts
<1> HIDE DEF o
<1>5. Sound(Gone(o)) <=> o.class \notin {"autoR", "autoW"}
  BY <1>1 DEF Sound
<1>6. misuse' = Retry(o) => (o.took = 0 => misuse' = {}) /\ (o.took = 1 => misuse' = {"retry"})
  BY DEF Retry
<1>7. CASE TryLock(t, k)
  <2>1. /\ o.class = "manual" /\ UNCHANGED <<readers, writer>> /\ misuse' = Retry(o)
        /\ \/ ~o.owns /\ o.lock /\ Change(t, k, Locked(o)) /\ cs' = [cs EXCEPT ![t] = @ + 1]
           \/ Change(t, k, Gone(o)) /\ UNCHANGED cs
    BY <1>7 DEF TryLock, Notes, Locked, EnterCriticalSection, o
  <2>2. o.took \in {0, 1} /\ (o.owns <=> o.took = 1)
    BY <1>1, <2>1 DEF Sound
  <2>3. CASE ~o.owns /\ o.lock /\ Change(t, k, Locked(o)) /\ cs' = [cs EXCEPT ![t] = @ + 1]
    <3>1. /\ locked \in Seq(LockObject) /\ objects' = [objects EXCEPT ![t] = locked]
          /\ Sound(Locked(o)) => \A i \in 1 .. Len(locked) : Sound(locked[i])
          /\ Took(locked, CSClasses) \in Nat /\ Took(locked, CSClasses) + 0 = cs[t] + 1
          /\ Took(locked, RClasses) = readers[t] /\ Took(locked, WClasses) = IF writer = t THEN 1 ELSE 0
      BY <1>1, <1>2, <1>3, <1>4, <2>1, <2>2, <2>3
    <3>2. Sound(Locked(o))
      BY <1>1, <2>1, <2>3 DEF Sound
    <3>3. misuse' = {}
      BY <1>6, <2>1, <2>2, <2>3
    <3>4. Exclusive' /\ cs' \in [Threads -> Nat] /\ \A u \in Threads \ {t} : cs'[u] = cs[u]
      BY <1>2, <2>1, <2>3 DEF Exclusive
    <3>5. Took(locked, CSClasses) = cs'[t]
      BY <1>2, <2>3, <3>1
    <3> HIDE DEF locked
    <3> QED
      BY <1>2, <2>1, <2>3, <3>1, <3>2, <3>3, <3>4, <3>5, OwnStep
  <2>4. CASE Change(t, k, Gone(o)) /\ UNCHANGED cs
    <3>1. /\ gone \in Seq(LockObject) /\ objects' = [objects EXCEPT ![t] = gone]
          /\ \A i \in 1 .. Len(gone) : Sound(gone[i])
          /\ Took(gone, CSClasses) \in Nat
          /\ Took(gone, CSClasses) + o.took = cs[t] + 0
          /\ Took(gone, RClasses) = readers[t] /\ Took(gone, WClasses) = IF writer = t THEN 1 ELSE 0
      BY <1>1, <1>2, <1>3, <1>4, <1>5, <2>1, <2>4
    <3> HIDE DEF gone
    <3>2. Exclusive'
      BY <1>2, <2>1 DEF Exclusive
    <3>3. o.took = 1 => cs'[t] > Took(gone, CSClasses)
      BY <1>2, <2>4, <3>1
    <3>4. o.took = 0 => Took(gone, CSClasses) = cs'[t]
      BY <1>2, <2>4, <3>1
    <3>5. (misuse' = {} => o.took = 0) /\ (misuse' = {"retry"} => o.took = 1)
      BY <1>6, <2>1, <2>2
    <3> QED
      BY <1>2, <2>1, <2>4, <3>1, <3>2, <3>3, <3>4, <3>5, OwnStep
  <2> QED
    BY <2>1, <2>3, <2>4
<1>8. CASE TryLockW(t, k)
  <2>1. /\ o.class = "manualW" /\ UNCHANGED <<readers, cs>> /\ misuse' = Retry(o)
        /\ \/ ~o.owns /\ CanWrite(t) /\ o.lock /\ Change(t, k, Locked(o)) /\ writer' = t
           \/ Change(t, k, Gone(o)) /\ UNCHANGED writer
    BY <1>8 DEF TryLockW, Notes, Locked, o
  <2>2. o.took \in {0, 1} /\ (o.owns <=> o.took = 1)
    BY <1>1, <2>1 DEF Sound
  <2>3. CASE ~o.owns /\ CanWrite(t) /\ o.lock /\ Change(t, k, Locked(o)) /\ writer' = t
    <3>0. writer = Nobody /\ \A u \in Threads : readers[u] = 0
      BY <2>3 DEF CanWrite
    <3>1. /\ locked \in Seq(LockObject) /\ objects' = [objects EXCEPT ![t] = locked]
          /\ Sound(Locked(o)) => \A i \in 1 .. Len(locked) : Sound(locked[i])
          /\ Took(locked, WClasses) + 0 = 0 + 1 /\ Took(locked, WClasses) \in Nat
          /\ Took(locked, RClasses) = readers[t] /\ Took(locked, CSClasses) = cs[t]
      BY <1>1, <1>2, <1>3, <1>4, <2>1, <2>2, <2>3, <3>0
    <3>2. Sound(Locked(o))
      BY <1>1, <2>1, <2>3 DEF Sound
    <3>3. misuse' = {}
      BY <1>6, <2>1, <2>2, <2>3
    <3>4. Exclusive' /\ \A u \in Threads \ {t} : writer' = u <=> writer = u
      BY <2>1, <2>3, <3>0, NobodyAssumption DEF Exclusive
    <3>5. Took(locked, WClasses) = 1
      BY <3>1
    <3> HIDE DEF locked
    <3> QED
      BY <1>2, <2>1, <2>3, <3>1, <3>2, <3>3, <3>4, <3>5, OwnStep
  <2>4. CASE Change(t, k, Gone(o)) /\ UNCHANGED writer
    <3>1. /\ gone \in Seq(LockObject) /\ objects' = [objects EXCEPT ![t] = gone]
          /\ \A i \in 1 .. Len(gone) : Sound(gone[i])
          /\ Took(gone, WClasses) \in Nat
          /\ Took(gone, WClasses) + o.took = (IF writer = t THEN 1 ELSE 0) + 0
          /\ Took(gone, RClasses) = readers[t] /\ Took(gone, CSClasses) = cs[t]
      BY <1>1, <1>2, <1>3, <1>4, <1>5, <2>1, <2>4
    <3> HIDE DEF gone
    <3>2. Exclusive'
      BY <1>2, <2>1, <2>4 DEF Exclusive
    <3>3. o.took = 1 => writer = t /\ Took(gone, WClasses) = 0
      BY <3>1
    <3>4. o.took = 0 => Took(gone, WClasses) = IF writer = t THEN 1 ELSE 0
      BY <3>1
    <3>5. (misuse' = {} => o.took = 0) /\ (misuse' = {"retry"} => o.took = 1)
      BY <1>6, <2>1, <2>2
    <3> QED
      BY <1>2, <2>1, <2>4, <3>1, <3>2, <3>3, <3>4, <3>5, OwnStep
  <2> QED
    BY <2>1, <2>3, <2>4
<1>9. CASE TryLockR(t, k)
  <2>1. /\ o.class = "manualR" /\ UNCHANGED <<writer, cs>> /\ misuse' = Retry(o)
        /\ \/ /\ o.lock /\ CanRead /\ Change(t, k, LockedAgain(o))
              /\ readers' = [readers EXCEPT ![t] = @ + 1]
           \/ ~(o.lock /\ CanRead) /\ Change(t, k, Gone(o)) /\ UNCHANGED readers
    BY <1>9 DEF TryLockR, Notes, LockedAgain, o
  <2>2. o.took \in {0, 1} /\ (o.took = 1 => o.lock)
    BY <1>1 DEF Sound
  <2>3. CASE /\ o.lock /\ CanRead /\ Change(t, k, LockedAgain(o))
             /\ readers' = [readers EXCEPT ![t] = @ + 1]
    <3>1. /\ again \in Seq(LockObject) /\ objects' = [objects EXCEPT ![t] = again]
          /\ k \in 1 .. Len(again) /\ again[k].took = o.took + 1
          /\ Sound(LockedAgain(o)) => \A i \in 1 .. Len(again) : Sound(again[i])
          /\ Took(again, RClasses) + o.took = readers[t] + (o.took + 1)
          /\ Took(again, RClasses) \in Nat
          /\ Took(again, CSClasses) = cs[t]
          /\ Took(again, WClasses) = IF writer = t THEN 1 ELSE 0
      BY <1>1, <1>2, <1>3, <1>4, <2>1, <2>3
    <3>2. o.took = 0 => Sound(LockedAgain(o))
      BY <1>1, <2>1, <2>3 DEF Sound
    <3> HIDE DEF again
    <3>3. Took(again, RClasses) = readers[t] + 1
      BY <1>2, <2>2, <3>1
    <3>4. /\ readers' \in [Threads -> Nat] /\ readers'[t] = readers[t] + 1
          /\ \A u \in Threads \ {t} : readers'[u] = readers[u]
      BY <1>2, <2>3
    <3>5. Exclusive'
      BY <2>1, <2>3 DEF Exclusive, CanRead
    <3>6. (misuse' = {} => o.took = 0) /\ (misuse' = {"retry"} => again[k].took > 1)
      <4>1. (misuse' = {} => o.took = 0) /\ (misuse' = {"retry"} => o.took = 1)
        BY <1>6, <2>1, <2>2
      <4>2. o.took = 1 => again[k].took = 2
        BY <3>1
      <4> QED
        BY <4>1, <4>2
    <3> QED
      BY <1>2, <2>1, <3>1, <3>2, <3>3, <3>4, <3>5, <3>6, OwnStep
  <2>4. CASE ~(o.lock /\ CanRead) /\ Change(t, k, Gone(o)) /\ UNCHANGED readers
    <3>1. /\ gone \in Seq(LockObject) /\ objects' = [objects EXCEPT ![t] = gone]
          /\ \A i \in 1 .. Len(gone) : Sound(gone[i])
          /\ Took(gone, RClasses) \in Nat /\ o.took <= readers[t]
          /\ Took(gone, RClasses) + o.took = readers[t] + 0
          /\ Took(gone, CSClasses) = cs[t]
          /\ Took(gone, WClasses) = IF writer = t THEN 1 ELSE 0
      BY <1>1, <1>2, <1>3, <1>4, <1>5, <2>1, <2>4
    <3> HIDE DEF gone
    <3>2. Exclusive'
      BY <1>2, <2>1, <2>4 DEF Exclusive
    <3>3. o.took = 0
      <4>1. ASSUME o.took = 1 PROVE FALSE
        <5>1. readers[t] # 0
          BY <1>2, <3>1, <4>1
        <5>2. writer = Nobody /\ o.lock
          BY <1>2, <2>2, <4>1, <5>1
        <5> QED
          BY <2>4, <5>2 DEF CanRead
      <4> QED
        BY <2>2, <4>1
    <3>4. Took(gone, RClasses) = readers[t] /\ misuse' = {}
      BY <1>2, <1>6, <2>1, <3>1, <3>3
    <3> QED
      BY <1>2, <2>1, <2>4, <3>1, <3>2, <3>4, OwnStep
  <2> QED
    BY <2>1, <2>3, <2>4
<1> QED
  BY <1>7, <1>8, <1>9

\* Letting go of the lock: what an object took is given back, whichever lock it is.
Given(t, o) ==
    /\ writer' \in Threads \cup {Nobody} /\ {cs', readers'} \subseteq [Threads -> Nat]
    /\ misuse' # {"retry"}
    /\ misuse' = {} =>
           /\ Exclusive'
           /\ \A u \in Threads \ {t} : /\ cs'[u] = cs[u]
                                       /\ readers'[u] = readers[u]
                                       /\ writer' = u <=> writer = u
           /\ cs'[t] + Counts(o, CSClasses) = cs[t]
           /\ readers'[t] + Counts(o, RClasses) = readers[t]
           /\ (IF writer' = t THEN 1 ELSE 0) + Counts(o, WClasses) = IF writer = t THEN 1 ELSE 0

LEMMA LetGoGives ==
    ASSUME LockInv, misuse = {}, NEW t \in Threads, NEW k \in DOMAIN objects[t],
           LetGo(t, objects[t][k])
    PROVE  Given(t, objects[t][k])
<1> DEFINE o == objects[t][k]
<1>1. /\ o \in LockObject /\ Sound(o)
      /\ Counts(o, CSClasses) <= cs[t]
      /\ Counts(o, RClasses) <= readers[t]
      /\ Counts(o, WClasses) <= (IF writer = t THEN 1 ELSE 0)
  <2>1. objects[t] \in Seq(LockObject) /\ k \in 1 .. Len(objects[t])
    BY HeldIs
  <2> QED
    BY <2>1, HeldIs, TookHas
<1>2. /\ writer \in Threads \cup {Nobody} /\ {cs, readers} \subseteq [Threads -> Nat]
      /\ readers[t] \in Nat /\ t # Nobody /\ Exclusive
      /\ writer # Nobody => readers[t] = 0
  BY HeldIs DEF LockInv
<1> HIDE DEF o
<1>3. o.took \in {0, 1} /\ o.lock \in BOOLEAN /\ o.owns \in BOOLEAN /\ o.class \in Classes
  BY <1>1, ObjectFacts DEF Sound
<1>4. CASE o.class \in CSClasses
  <2>1. /\ cs' = IF o.lock /\ o.owns THEN [cs EXCEPT ![t] = IF @ > 0 THEN @ - 1 ELSE 0] ELSE cs
        /\ UNCHANGED <<readers, writer, misuse>>
    BY <1>4 DEF LetGo, LetGoCS, LeaveCriticalSection, CSClasses, o
  <2>2. /\ Counts(o, CSClasses) = o.took /\ Counts(o, RClasses) = 0 /\ Counts(o, WClasses) = 0
        /\ o.took = 1 <=> o.lock /\ o.owns
    BY <1>1, <1>4, CountsIs DEF Sound, CSClasses
  <2>3. Exclusive'
    BY <1>2, <2>1 DEF Exclusive
  <2>4. CASE o.took = 1
    <3>1. cs[t] \in Nat /\ cs[t] > 0
      BY <1>1, <1>2, <2>2, <2>4
    <3>2. cs' = [cs EXCEPT ![t] = cs[t] - 1]
      BY <1>2, <2>1, <2>2, <2>4, <3>1
    <3>3. /\ cs' \in [Threads -> Nat] /\ cs'[t] + 1 = cs[t]
          /\ \A u \in Threads \ {t} : cs'[u] = cs[u]
      BY <1>2, <3>1, <3>2
    <3> QED
      BY <1>2, <2>1, <2>2, <2>3, <2>4, <3>3 DEF Given, o
  <2>5. CASE o.took = 0
    BY <1>2, <2>1, <2>2, <2>3, <2>5 DEF Given, o
  <2> QED
    BY <1>3, <2>4, <2>5
<1>5. CASE o.class \in RClasses
  <2>1. /\ IF o.lock THEN ReleaseSRW(t) ELSE UNCHANGED <<readers, writer>>
        /\ misuse' = IF o.lock /\ o.took = 0 THEN {"unheld"} ELSE {}
        /\ UNCHANGED cs
    BY <1>5 DEF LetGo, LetGoR, Notes, RClasses, o
  <2>2. /\ Counts(o, RClasses) = o.took /\ Counts(o, CSClasses) = 0 /\ Counts(o, WClasses) = 0
        /\ o.took = 1 => o.lock
    BY <1>1, <1>5, CountsIs DEF Sound
  <2>3. CASE o.took = 1
    <3>1. readers[t] > 0 /\ writer = Nobody /\ o.lock
      BY <1>1, <1>2, <2>2, <2>3
    <3>2. readers' = [readers EXCEPT ![t] = @ - 1] /\ UNCHANGED writer
      BY <1>2, <2>1, <3>1 DEF ReleaseSRW
    <3>3. /\ readers' \in [Threads -> Nat] /\ readers'[t] + 1 = readers[t]
          /\ \A u \in Threads \ {t} : readers'[u] = readers[u]
      BY <1>2, <3>1, <3>2
    <3>4. Exclusive' /\ misuse' = {}
      BY <2>1, <2>3, <3>1, <3>2 DEF Exclusive
    <3> QED
      BY <1>2, <2>1, <2>2, <2>3, <3>2, <3>3, <3>4 DEF Given, o
  <2>4. CASE o.took = 0 /\ o.lock
    <3>1. misuse' = {"unheld"} /\ misuse' # {} /\ misuse' # {"retry"}
      BY <2>1, <2>4
    <3>2. readers' \in [Threads -> Nat] /\ writer' \in Threads \cup {Nobody}
      BY <1>2, <2>1, <2>4 DEF ReleaseSRW
    <3> QED
      BY <1>2, <2>1, <3>1, <3>2 DEF Given
  <2>5. CASE o.took = 0 /\ ~o.lock
    <3>1. UNCHANGED <<cs, readers, writer>> /\ misuse' = {} /\ Exclusive'
      BY <1>2, <2>1, <2>5 DEF Exclusive
    <3> QED
      BY <1>2, <2>2, <2>5, <3>1 DEF Given, o
  <2> QED
    BY <1>3, <2>3, <2>4, <2>5
<1>6. CASE o.class \in WClasses
  <2>1. /\ Counts(o, WClasses) = o.took /\ Counts(o, CSClasses) = 0 /\ Counts(o, RClasses) = 0
        /\ o.took = 1 => o.lock
        /\ o.class = "autoW" => o.took = 1
        /\ o.class = "manualW" => (o.owns <=> o.took = 1)
        /\ o.class \in {"autoW", "manualW"}
    BY <1>1, <1>6, CountsIs DEF Sound, WClasses
  <2>2. CASE o.took = 1
    <3>1. writer = t /\ o.lock
      BY <1>1, <2>1, <2>2
    <3>2. ReleaseSRW(t) /\ UNCHANGED cs /\ misuse' = {}
      BY <2>1, <2>2, <3>1 DEF LetGo, LetGoR, LetGoW, Notes, o
    <3>3. writer' = Nobody /\ UNCHANGED readers /\ Exclusive'
      BY <3>1, <3>2 DEF ReleaseSRW, Exclusive
    <3> QED
      BY <1>2, <2>1, <2>2, <3>1, <3>2, <3>3, NobodyAssumption DEF Given, o
  <2>3. CASE o.took = 0
    <3>1. UNCHANGED <<cs, readers, writer, misuse>>
      BY <2>1, <2>3 DEF LetGo, LetGoW, o
    <3>2. Exclusive'
      BY <1>2, <3>1 DEF Exclusive
    <3> QED
      BY <1>2, <2>1, <2>3, <3>1, <3>2 DEF Given, o
  <2> QED
    BY <1>3, <2>2, <2>3
<1> QED
  BY <1>1, <1>4, <1>5, <1>6, CountsIs

LEMMA LetGoStep ==
    ASSUME LockInv, misuse = {}, NEW t \in Threads,
           Destroy_(t) \/ \E k \in DOMAIN objects[t] : ReleaseLock(t, k)
    PROVE  LockInv'
<1>1. /\ objects[t] \in Seq(LockObject)
      /\ Took(objects[t], CSClasses) = cs[t]
      /\ Took(objects[t], RClasses) = readers[t]
      /\ Took(objects[t], WClasses) = IF writer = t THEN 1 ELSE 0
      /\ \A k \in 1 .. Len(objects[t]) : Sound(objects[t][k])
  BY HeldIs
<1>2. ASSUME NEW o \in LockObject, Given(t, o), NEW new \in Seq(LockObject),
             objects' = [objects EXCEPT ![t] = new],
             misuse' = {} => \A i \in 1 .. Len(new) : Sound(new[i]),
             \A c \in {CSClasses, RClasses, WClasses} :
                 Took(new, c) \in Nat /\ Took(new, c) + Counts(o, c) = Took(objects[t], c)
      PROVE  LockInv'
  <2>1. ASSUME misuse' = {}
        PROVE  /\ Took(new, CSClasses) = cs'[t]
               /\ Took(new, RClasses) = readers'[t]
               /\ Took(new, WClasses) = IF writer' = t THEN 1 ELSE 0
    <3>1. \A c : Counts(o, c) \in Nat
      BY DEF Counts, LockObject
    <3>2. readers'[t] \in Nat /\ cs'[t] \in Nat
      BY <1>2 DEF Given
    <3>3. /\ cs'[t] + Counts(o, CSClasses) = Took(objects[t], CSClasses)
          /\ readers'[t] + Counts(o, RClasses) = Took(objects[t], RClasses)
          /\ (IF writer' = t THEN 1 ELSE 0) + Counts(o, WClasses) = Took(objects[t], WClasses)
      <4>1. /\ cs'[t] + Counts(o, CSClasses) = cs[t]
            /\ readers'[t] + Counts(o, RClasses) = readers[t]
            /\ (IF writer' = t THEN 1 ELSE 0) + Counts(o, WClasses) = IF writer = t THEN 1 ELSE 0
        BY <1>2, <2>1 DEF Given
      <4> QED
        BY <1>1, <4>1, Zenon
    <3>4. \A c \in {CSClasses, RClasses, WClasses} :
              Took(new, c) \in Nat /\ Took(new, c) + Counts(o, c) = Took(objects[t], c)
      BY <1>2
    <3> QED
      BY <3>1, <3>2, <3>3, <3>4
  <2> QED
    BY <1>2, <2>1, OwnStep DEF Given
<1>3. CASE Destroy_(t)
  <2> DEFINE o == Last(objects[t])
             new == Front(objects[t])
  <2>1. objects[t] # <<>> /\ LetGo(t, o) /\ objects' = [objects EXCEPT ![t] = new]
    BY <1>3 DEF Destroy_
  <2>2. \A c : /\ new \in Seq(LockObject) /\ o \in LockObject
               /\ Took(new, c) \in Nat /\ Took(objects[t], c) = Took(new, c) + Counts(o, c)
               /\ \A k \in 1 .. Len(new) : k \in 1 .. Len(objects[t]) /\ new[k] = objects[t][k]
               /\ Len(objects[t]) \in 1 .. Len(objects[t]) /\ o = objects[t][Len(objects[t])]
    BY <1>1, <2>1, TookFront
  <2> HIDE DEF o, new
  <2>3. Given(t, o)
    <3>1. Len(objects[t]) \in DOMAIN objects[t] /\ LetGo(t, objects[t][Len(objects[t])])
      BY <1>1, <2>1, <2>2
    <3>2. Given(t, objects[t][Len(objects[t])])
      BY <3>1, LetGoGives
    <3> QED
      BY <2>2, <3>2
  <2>4. \A i \in 1 .. Len(new) : Sound(new[i])
    BY <1>1, <2>2
  <2> QED
    BY <1>2, <2>1, <2>2, <2>3, <2>4
<1>4. ASSUME NEW k \in DOMAIN objects[t], ReleaseLock(t, k) PROVE LockInv'
  <2> DEFINE o == objects[t][k]
             new == [objects[t] EXCEPT ![k] = Gone(o)]
  <2>1. o.class \in {"manual", "manualR", "manualW"} /\ LetGo(t, o) /\ Change(t, k, Gone(o))
    BY <1>4 DEF ReleaseLock
  <2>2. o \in LockObject
    BY <1>1
  <2>3. /\ Gone(o) \in LockObject /\ Gone(o).class = o.class /\ Gone(o).took = 0
        /\ Gone(o).owns = FALSE /\ o.took \in Nat
    <3> HIDE DEF o
    <3> QED
      BY <2>2, ObjectFacts
  <2>4. Sound(Gone(o))
    BY <2>1, <2>3 DEF Sound
  <2>5. /\ new \in Seq(LockObject) /\ \A i \in 1 .. Len(new) : Sound(new[i])
        /\ objects' = [objects EXCEPT ![t] = new]
        /\ \A c \in {CSClasses, RClasses, WClasses} :
               /\ Took(new, c) \in Nat
               /\ o.class \in c => Took(new, c) + o.took = Took(objects[t], c) + 0
               /\ o.class \notin c => Took(new, c) = Took(objects[t], c)
    BY <2>1, <2>3, <2>4, ChangeFacts
  <2>6. Given(t, o)
    BY <2>1, LetGoGives
  <2> HIDE DEF new, o
  <2>7. \A c \in {CSClasses, RClasses, WClasses} :
            Took(new, c) \in Nat /\ Took(new, c) + Counts(o, c) = Took(objects[t], c)
    <3>1. \A c \in {CSClasses, RClasses, WClasses} : Took(objects[t], c) \in Nat
      BY <1>1, HeldIs
    <3> QED
      BY <2>3, <2>5, <3>1 DEF Counts
  <2> QED
    BY <1>2, <2>2, <2>5, <2>6, <2>7
<1> QED
  BY <1>3, <1>4

\* MutexLock: who is between lock() and unlock() has the mutex, and only who works
\* under it is named.
Under == {"assign", "inside", "unlock", "wait"}
MutexInv ==
    /\ at \in [Threads -> Under \cup {"out", "waiting"}]
    /\ mutex \in Threads \cup {Nobody}
    /\ \A t \in Threads : mutex = t <=> at[t] \in Under
    /\ holder # Nobody => holder \in Threads /\ at[holder] = "inside"
    /\ \A t \in Threads : at[t] = "inside" => holder = t

LEMMA MutexStep ==
    ASSUME MutexInv, [MutexNext]_mutexVars PROVE MutexInv'
<1> USE NobodyAssumption DEF MutexInv, Under
<1>1. CASE UNCHANGED mutexVars
  BY <1>1 DEF mutexVars
<1>2. ASSUME NEW t \in Threads, Lock(t) \/ WaitReturns(t) PROVE MutexInv'
  <2>1. /\ at[t] \in {"out", "waiting"} /\ at' = [at EXCEPT ![t] = "assign"]
        /\ mutex = Nobody /\ mutex' = t /\ holder' = holder
    BY <1>2 DEF Lock, WaitReturns, Goes
  <2> QED
    BY <2>1
<1>3. ASSUME NEW t \in Threads, AssignHolder(t) PROVE MutexInv'
  BY <1>3 DEF AssignHolder, Goes
<1>4. ASSUME NEW t \in Threads, UnassignHolder(t) PROVE MutexInv'
  BY <1>4 DEF UnassignHolder, Goes
<1>5. ASSUME NEW t \in Threads, WaitUnassigns(t) PROVE MutexInv'
  BY <1>5 DEF WaitUnassigns, Goes
<1>6. ASSUME NEW t \in Threads, Unlock(t) \/ WaitReleases(t) PROVE MutexInv'
  <2>1. /\ at[t] \in {"unlock", "wait"} /\ mutex' = Nobody /\ holder' = holder
        /\ \E to \in {"out", "waiting"} : at' = [at EXCEPT ![t] = to]
    BY <1>6 DEF Unlock, WaitReleases, Goes
  <2> QED
    BY <2>1
<1> QED
  BY <1>1, <1>2, <1>3, <1>4, <1>5, <1>6 DEF MutexNext

LEMMA ObjectStep ==
    ASSUME LockInv, [ObjectNext]_objectVars PROVE LockInv'
<1>1. CASE UNCHANGED objectVars
  BY <1>1 DEF objectVars, LockInv, LockTypeOK, Exclusive, Balanced, LostByRetry, Taken
<1>2. CASE ObjectNext
  <2>1. misuse = {}
    BY <1>2 DEF ObjectNext
  <2>2. PICK t \in Threads :
            \/ NewAutoLock(t, TRUE) \/ NewAutoLock(t, FALSE)
            \/ \E class \in {"manual", "manualR", "manualW"} : NewManual(t, class)
            \/ NewAutoSRWLockR(t) \/ NewAutoSRWLockW(t)
            \/ \E k \in DOMAIN objects[t] :
                  TryLock(t, k) \/ TryLockR(t, k) \/ TryLockW(t, k) \/ ReleaseLock(t, k)
            \/ Destroy_(t)
    BY <1>2 DEF ObjectNext
  <2>3. TRUE \in BOOLEAN /\ FALSE \in BOOLEAN /\ "manual" \in {"manual", "manualR", "manualW"}
    OBVIOUS
  <2> QED
    BY <2>1, <2>2, <2>3, NewStep, TryStep, LetGoStep
<1> QED
  BY <1>1, <1>2

\* _lock.h and _mutexlock.h, for any number of threads and lock objects: no lock
\* object keeps, loses or takes away a lock until it is misused, and MutexLock never
\* names a thread that does not have it.
THEOREM LocksStayBalanced == LockSpec => []LocksBalanced
<1> DEFINE Inv == LockInv /\ MutexInv
<1>1. LockInit => Inv
  <2> SUFFICES ASSUME LockInit PROVE Inv
    OBVIOUS
  <2>1. \A t \in Threads : objects[t] = <<>> /\ \A c : Took(objects[t], c) = 0
    BY TookNothing DEF LockInit
  <2>2. \A t \in Threads : Len(objects[t]) = 0 /\ objects[t] \in Seq(LockObject)
    <3>1. Len(<<>>) = 0 /\ <<>> \in Seq(LockObject)
      OBVIOUS
    <3> QED
      BY <2>1, <3>1
  <2>3. LockTypeOK
    BY <2>2 DEF LockInit, LockTypeOK
  <2>4. Balanced /\ LostByRetry /\ Exclusive
    BY <2>1, NobodyAssumption DEF LockInit, Balanced, LostByRetry, Taken, Exclusive
  <2>5. MutexInv
    BY NobodyAssumption DEF LockInit, MutexInv, Under
  <2> QED
    BY <2>2, <2>3, <2>4, <2>5 DEF LockInv
<1>2. Inv /\ [ObjectNext \/ MutexNext]_lockVars => Inv'
  <2> SUFFICES ASSUME Inv, [ObjectNext \/ MutexNext]_lockVars PROVE Inv'
    OBVIOUS
  <2>1. ObjectNext => UNCHANGED mutexVars
    BY DEF ObjectNext, NewAutoLock, NewManual, NewAutoSRWLockR, NewAutoSRWLockW, TryLock, TryLockR,
           TryLockW, ReleaseLock, Destroy_
  <2>2. MutexNext => UNCHANGED objectVars
    BY DEF MutexNext, Lock, AssignHolder, UnassignHolder, Unlock, WaitUnassigns, WaitReleases,
           WaitReturns, Goes
  <2>3. [ObjectNext]_objectVars /\ [MutexNext]_mutexVars
    BY <2>1, <2>2 DEF lockVars
  <2> QED
    BY <2>3, ObjectStep, MutexStep
<1>3. Inv => LocksBalanced
  <2> SUFFICES ASSUME Inv PROVE HolderOwns
    BY DEF LocksBalanced, LockInv
  <2>1. holder # Nobody => holder = mutex
    BY DEF MutexInv, Under
  <2>2. (\A t \in Threads : at[t] \in {"out", "waiting"}) => holder = Nobody /\ mutex = Nobody
    BY DEF MutexInv, Under
  <2> QED
    BY <2>1, <2>2 DEF HolderOwns, MutexInv
<1> QED
  BY <1>1, <1>2, <1>3, PTL DEF LockSpec
=============================================================================
