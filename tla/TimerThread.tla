---------------------------- MODULE TimerThread ----------------------------
(***************************************************************************)
(* Timer and TimerThread (frame/timerThread.h).  SetTimer and KillTimer    *)
(* append a request to m_lstEventWait under m_csLockW, from any thread and *)
(* from the callbacks.  The worker's runloop() calls DealTimer: it takes   *)
(* the requests, applies them in order to its map, and walks the map in    *)
(* key order, calling back the events that are due.                        *)
(*                                                                         *)
(* Only the worker uses the map, so taking and applying the requests is    *)
(* one step.  DealTimer reads the clock once, at its start (tmNow), and a  *)
(* callback may take time: "lag" is how long ago that was.  The time since *)
(* an event fired stops growing where it no longer matters.                *)
(***************************************************************************)
EXTENDS Naturals, Sequences, FiniteSets

CONSTANTS
    NumKeys,        \* the timers are 1 .. NumKeys, in the order of the map
    Elapses,        \* the intervals that SetTimer is called with
    MaxWait,        \* bound: requests in m_lstEventWait
    MaxLag          \* bound: the time a pass over the map takes

ASSUME TimerThreadAssumption ==
    /\ NumKeys \in Nat \ {0}
    /\ IsFiniteSet(Elapses) /\ Elapses \subseteq Nat /\ Elapses # {}
    /\ MaxWait \in Nat /\ MaxLag \in Nat

Key == 1 .. NumKeys
Longest == CHOOSE e \in Elapses : \A f \in Elapses : f <= e
Old == Longest + MaxLag     \* as long ago as matters; an event that never fired

Request == [uType : {"set", "kill"}, key : Key, uElapse : Elapses \cup {0}]
Event == [uElapse : Elapses, since : 0 .. Old]

VARIABLES
    m_lstEventWait, \* the requests not yet taken
    m_mapEvent,     \* the events by key
    walk,           \* "idle", at a key in the walk, or 0 before the first
    firing,         \* whether the callback of the event at walk is running
    lag,            \* time since the walk's tmNow
    wanted,         \* ghost: the last request made for each key
    late            \* ghost: callbacks of a key begun after it was killed, up to 2

timerVars == <<m_lstEventWait, m_mapEvent, walk, firing, lag, wanted, late>>

TimerTypeOK ==
    /\ m_lstEventWait \in Seq(Request)
    /\ DOMAIN m_mapEvent \subseteq Key
    /\ \A k \in DOMAIN m_mapEvent : m_mapEvent[k] \in Event
    /\ walk \in 0 .. NumKeys + 1
    /\ firing \in BOOLEAN
    /\ lag \in 0 .. MaxLag
    /\ wanted \in [Key -> {"none", "set", "kill"}]
    /\ late \in [Key -> 0 .. 2]

\* The worker is between two calls of DealTimer.
Idle == NumKeys + 1

TimerInit ==
    /\ m_lstEventWait = <<>>
    /\ m_mapEvent = <<>>
    /\ walk = Idle
    /\ firing = FALSE
    /\ lag = 0
    /\ wanted = [k \in Key |-> "none"]
    /\ late = [k \in Key |-> 0]

-----------------------------------------------------------------------------
(* SetTimer and KillTimer.                                                 *)

Ask(r) ==
    /\ Len(m_lstEventWait) < MaxWait
    /\ m_lstEventWait' = Append(m_lstEventWait, r)
    /\ wanted' = [wanted EXCEPT ![r.key] = r.uType]
    /\ late' = [late EXCEPT ![r.key] = 0]
    /\ UNCHANGED <<m_mapEvent, walk, firing, lag>>

SetTimer(k, e) == Ask([uType |-> "set", key |-> k, uElapse |-> e])

KillTimer(k) == Ask([uType |-> "kill", key |-> k, uElapse |-> 0])

-----------------------------------------------------------------------------
(* DealTimer.                                                              *)

\* Mutant: a kill is carried out only if it is the first request for its key.
Applied_SetLast(events, r) ==
    IF r.uType = "set"
    THEN [k \in DOMAIN events \cup {r.key} |->
             IF k = r.key THEN [uElapse |-> r.uElapse, since |-> Old] ELSE events[k]]
    ELSE IF \E i \in 1 .. Len(m_lstEventWait) :
               m_lstEventWait[i].key = r.key /\ m_lstEventWait[i].uType = "set"
         THEN events
         ELSE [k \in DOMAIN events \ {r.key} |-> events[k]]

\* One request.  insert leaves an event that is there as it is; a new event
\* has uLastTM 0, so it is due at once.
Applied(events, r) ==
    IF r.uType = "set"
    THEN [k \in DOMAIN events \cup {r.key} |->
             IF k \in DOMAIN events THEN events[k] ELSE [uElapse |-> r.uElapse, since |-> Old]]
    ELSE [k \in DOMAIN events \ {r.key} |-> events[k]]

\* The requests rs one after the other.
AllApplied(events, rs) ==
    LET after[i \in 0 .. Len(rs)] == IF i = 0 THEN events ELSE Applied(after[i - 1], rs[i])
    IN  after[Len(rs)]

\* Mutant: the walk begins without taking the requests when there are events.
BeginPass_Events ==
    /\ walk = Idle
    /\ m_lstEventWait # <<>> \/ m_mapEvent # <<>>
    /\ m_mapEvent' = IF m_mapEvent = <<>>
                     THEN AllApplied(m_mapEvent, m_lstEventWait) ELSE m_mapEvent
    /\ m_lstEventWait' = <<>>
    /\ walk' = 0
    /\ lag' = 0
    /\ UNCHANGED <<firing, wanted, late>>

\* The requests are taken and applied; without any, and without events,
\* DealTimer returns at once.
BeginPass ==
    /\ walk = Idle
    /\ m_lstEventWait # <<>> \/ m_mapEvent # <<>>
    /\ m_mapEvent' = AllApplied(m_mapEvent, m_lstEventWait)
    /\ m_lstEventWait' = <<>>
    /\ walk' = 0
    /\ lag' = 0
    /\ UNCHANGED <<firing, wanted, late>>

\* uElapse + uLastTM <= tmNow.
IsDue(k) == m_mapEvent[k].uElapse + lag <= m_mapEvent[k].since

DueAhead == {k \in DOMAIN m_mapEvent : k > walk /\ IsDue(k)}

\* Mutant: the walk comes to one event only, the last that is due.
Fire_Last(k) ==
    /\ walk = 0
    /\ ~firing
    /\ k \in DueAhead
    /\ \A j \in DueAhead : j <= k
    /\ walk' = k
    /\ firing' = TRUE
    /\ late' = [late EXCEPT ![k] = IF wanted[k] = "kill" /\ @ < 2 THEN @ + 1 ELSE @]
    /\ UNCHANGED <<m_lstEventWait, m_mapEvent, lag, wanted>>

\* The walk reaches the next event that is due and its callback begins.
Fire(k) ==
    /\ walk # Idle
    /\ ~firing
    /\ k \in DueAhead
    /\ \A j \in DueAhead : k <= j
    /\ walk' = k
    /\ firing' = TRUE
    /\ late' = [late EXCEPT ![k] = IF wanted[k] = "kill" /\ @ < 2 THEN @ + 1 ELSE @]
    /\ UNCHANGED <<m_lstEventWait, m_mapEvent, lag, wanted>>

\* uLastTM becomes tmNow.
CallbackReturns(k) ==
    /\ firing /\ walk = k
    /\ m_mapEvent' = [m_mapEvent EXCEPT ![k].since = lag]
    /\ firing' = FALSE
    /\ UNCHANGED <<m_lstEventWait, walk, lag, wanted, late>>

\* The exception leaves DealTimer: the rest of the walk is skipped and the
\* event stays due.
CallbackThrows(k) ==
    /\ firing /\ walk = k
    /\ firing' = FALSE
    /\ walk' = Idle
    /\ UNCHANGED <<m_lstEventWait, m_mapEvent, lag, wanted, late>>

EndPass ==
    /\ walk # Idle
    /\ ~firing
    /\ DueAhead = {}
    /\ walk' = Idle
    /\ UNCHANGED <<m_lstEventWait, m_mapEvent, firing, lag, wanted, late>>

\* A second passes.
Tick ==
    /\ walk = Idle \/ lag < MaxLag
    /\ lag' = IF walk = Idle THEN 0 ELSE lag + 1
    /\ m_mapEvent' = [k \in DOMAIN m_mapEvent |->
                         [m_mapEvent[k] EXCEPT !.since = IF @ < Old THEN @ + 1 ELSE Old]]
    /\ UNCHANGED <<m_lstEventWait, walk, firing, wanted, late>>

DealTimer == BeginPass \/ (\E k \in Key : Fire(k)) \/ EndPass

TimerNext ==
    \/ \E k \in Key, e \in Elapses : SetTimer(k, e)
    \/ \E k \in Key : KillTimer(k)
    \/ DealTimer
    \/ \E k \in Key : CallbackReturns(k) \/ CallbackThrows(k)
    \/ Tick

TimerSpec == TimerInit /\ [][TimerNext]_timerVars

\* The worker goes on and time passes between its passes; a callback that is
\* called again and again does not throw every time.
FairTimerSpec ==
    /\ TimerSpec
    /\ WF_timerVars(DealTimer)
    /\ SF_timerVars(Tick)
    /\ \A k \in Key : SF_timerVars(CallbackReturns(k))

-----------------------------------------------------------------------------
(* Properties.                                                             *)

\* After KillTimer returned, the callback of the event can still begin once,
\* in the walk that was under way, and never twice.
KilledFiresAtMostOnce == \A k \in Key : late[k] < 2

\* Requests count in the order they were made: when none is waiting for a key
\* its event is there if and only if SetTimer was the last to be called.
LastRequestCounts ==
    \A k \in Key :
        (\A i \in 1 .. Len(m_lstEventWait) : m_lstEventWait[i].key # k) =>
            (k \in DOMAIN m_mapEvent <=> wanted[k] = "set")

\* An event in the map is called back, unless it is killed.
TimerFires ==
    \A k \in Key :
        k \in DOMAIN m_mapEvent ~> ((firing /\ walk = k) \/ k \notin DOMAIN m_mapEvent)
=============================================================================
