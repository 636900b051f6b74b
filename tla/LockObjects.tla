---------------------------- MODULE LockObjects ----------------------------
(***************************************************************************)
(* The scoped locks of src/utils/frame/_lock.h over one CRITICAL_SECTION   *)
(* (a recursive pthread mutex) and one SRWLOCK (a pthread rwlock), and     *)
(* MutexLock of _mutexlock.h with the thread id it keeps and Condition's   *)
(* wait on it.                                                             *)
(* Each thread has a stack of lock objects; the locks themselves are the   *)
(* C library's, modelled from how the code uses them.                      *)
(***************************************************************************)
EXTENDS Naturals, FiniteSets, SequencesExt

CONSTANTS Threads,
          Nobody,       \* no thread
          MaxObjects    \* bound: lock objects there are at once, and how often
                        \* one of them takes its lock
ASSUME NobodyAssumption == Nobody \notin Threads

VARIABLES cs,       \* how often each thread is in the critical section
          readers,  \* rwlock: how often each thread holds it for reading
          writer,   \* rwlock: the thread that holds it for writing
          objects,  \* each thread's lock objects, the oldest first
          misuse,   \* what the threads did with objects that they should not
          mutex,    \* MutexLock: the thread that holds _mutex
          holder,   \* MutexLock: _holder
          at        \* MutexLock: what each thread is about to do with it

objectVars == <<cs, readers, writer, objects, misuse>>
mutexVars  == <<mutex, holder, at>>
lockVars   == <<objectVars, mutexVars>>

LockInit == /\ writer = Nobody
            /\ cs = [t \in Threads |-> 0]
            /\ readers = [t \in Threads |-> 0]
            /\ objects = [t \in Threads |-> <<>>]
            /\ misuse = {}
            /\ mutex = Nobody /\ holder = Nobody
            /\ at = [t \in Threads |-> "out"]

(* An object: its class, is its lock pointer set (m_pcs, m_csLockRW), its  *)
(* m_bLock, and how often it took its lock, which the code does not know.  *)
Object(class, lock, owns, took) == [class |-> class, lock |-> lock, owns |-> owns, took |-> took]
Gone_Mutation(o) == [o EXCEPT !.took = 0]     \* the members keep their values
Gone(o) == [o EXCEPT !.lock = FALSE, !.owns = FALSE, !.took = 0]

Alive == [t \in Threads |-> Len(objects[t])]
Push_(t, o) == /\ SumFunction(Alive) < MaxObjects
               /\ objects' = [objects EXCEPT ![t] = Append(@, o)]
Change(t, k, o) == objects' = [objects EXCEPT ![t][k] = o]

(* InitializeCriticalSection makes the mutex recursive: the thread that is *)
(* in the critical section enters it again, with one leave for each enter. *)
CanEnter(t) == \A u \in Threads \ {t} : cs[u] = 0
EnterCriticalSection(t) == cs' = [cs EXCEPT ![t] = @ + 1]
LeaveCriticalSection(t) == cs' = [cs EXCEPT ![t] = IF @ > 0 THEN @ - 1 ELSE 0]

CanWrite(t) == writer = Nobody /\ \A u \in Threads : readers[u] = 0
CanRead == writer = Nobody
Notes(what) == misuse' = misuse \cup what

(* A thread that wants to write while it reads itself waits for ever; but  *)
(* for the rwlock that it holds for writing it gets EDEADLK, at which no   *)
(* wrapper looks.                                                          *)
AcquireShared(t) ==
    IF writer = t THEN Notes({"nested"}) /\ UNCHANGED <<readers, writer>>
    ELSE /\ CanRead
         /\ readers' = [readers EXCEPT ![t] = @ + 1]
         /\ UNCHANGED <<writer, misuse>>
AcquireExclusive(t) ==
    IF writer = t THEN Notes({"nested"}) /\ UNCHANGED <<readers, writer>>
    ELSE CanWrite(t) /\ writer' = t /\ UNCHANGED <<readers, misuse>>

(* pthread_rwlock_unlock gives up a write lock of the caller, or makes the *)
(* readers one less, whoever they are.                                     *)
ReleaseSRW(t) ==
    IF writer = t THEN writer' = Nobody /\ UNCHANGED readers
    ELSE /\ \E u \in Threads :
               /\ readers[t] > 0 => u = t
               /\ readers' = [readers EXCEPT ![u] = IF @ > 0 THEN @ - 1 ELSE 0]
         /\ UNCHANGED writer

-----------------------------------------------------------------------------
NewAutoLock(t, lock) ==
    /\ Push_(t, Object("auto", TRUE, lock, IF lock THEN 1 ELSE 0))
    /\ IF lock THEN CanEnter(t) /\ EnterCriticalSection(t) ELSE UNCHANGED cs
    /\ UNCHANGED <<readers, writer, misuse, mutexVars>>

NewManual(t, class) == /\ Push_(t, Object(class, TRUE, FALSE, 0))
                       /\ UNCHANGED <<cs, readers, writer, misuse, mutexVars>>
NewAutoSRWLockR(t) == /\ Push_(t, Object("autoR", TRUE, FALSE, 1)) /\ AcquireShared(t)
                      /\ UNCHANGED <<cs, mutexVars>>
NewAutoSRWLockW(t) == /\ Push_(t, Object("autoW", TRUE, FALSE, 1)) /\ AcquireExclusive(t)
                      /\ UNCHANGED <<cs, mutexVars>>

Retry(o) == IF o.took > 0 THEN {"retry"} ELSE {}

TryLock(t, k) ==
    LET o == objects[t][k]
        takes == ~o.owns /\ o.lock /\ CanEnter(t)
    IN  /\ o.class = "manual"
        /\ IF takes
           THEN Change(t, k, [o EXCEPT !.owns = TRUE, !.took = 1]) /\ EnterCriticalSection(t)
           ELSE Change(t, k, Gone(o)) /\ UNCHANGED cs
        /\ Notes(Retry(o))
        /\ UNCHANGED <<readers, writer, mutexVars>>

(* The read lock has no m_bLock: a second trylock takes the lock again, and *)
(* a release without any gives up what somebody else holds.                *)
TryLockR(t, k) ==
    LET o == objects[t][k]
    IN  /\ o.class = "manualR" /\ o.took < MaxObjects
        /\ IF o.lock /\ CanRead
           THEN /\ Change(t, k, [o EXCEPT !.took = @ + 1])
                /\ readers' = [readers EXCEPT ![t] = @ + 1]
           ELSE Change(t, k, Gone(o)) /\ UNCHANGED readers
        /\ Notes(Retry(o))
        /\ UNCHANGED <<cs, writer, mutexVars>>

TryLockW(t, k) ==
    LET o == objects[t][k]
        takes == ~o.owns /\ o.lock /\ CanWrite(t)
    IN  /\ o.class = "manualW"
        /\ IF takes THEN Change(t, k, [o EXCEPT !.owns = TRUE, !.took = 1]) /\ writer' = t
           ELSE Change(t, k, Gone(o)) /\ UNCHANGED writer
        /\ Notes(Retry(o))
        /\ UNCHANGED <<cs, readers, mutexVars>>

(* What releaseLock, release and the destructors do with the lock.         *)
LetGoCS(t, o) == /\ IF o.lock /\ o.owns THEN LeaveCriticalSection(t) ELSE UNCHANGED cs
                 /\ UNCHANGED <<readers, writer, misuse>>
LetGoR(t, o) == /\ IF o.lock THEN ReleaseSRW(t) ELSE UNCHANGED <<readers, writer>>
                /\ Notes(IF o.lock /\ o.took = 0 THEN {"unheld"} ELSE {})
                /\ UNCHANGED cs
LetGoW(t, o) == /\ IF o.lock /\ o.owns THEN ReleaseSRW(t) ELSE UNCHANGED <<readers, writer>>
                /\ UNCHANGED <<cs, misuse>>
LetGo(t, o) == IF o.class \in {"auto", "manual"} THEN LetGoCS(t, o)
               ELSE IF o.class \in {"autoR", "manualR", "autoW"} THEN LetGoR(t, o)
               ELSE LetGoW(t, o)

ReleaseLock(t, k) ==
    LET o == objects[t][k]
    IN  /\ o.class \in {"manual", "manualR", "manualW"}
        /\ LetGo(t, o) /\ Change(t, k, Gone(o)) /\ UNCHANGED mutexVars

(* The scope ends: the youngest object's destructor runs.                  *)
Destroy_(t) == /\ objects[t] # <<>>
               /\ LetGo(t, Last(objects[t]))
               /\ objects' = [objects EXCEPT ![t] = Front(@)]
               /\ UNCHANGED mutexVars

-----------------------------------------------------------------------------
(* MutexLock, between whose two writes other threads run.                  *)
Goes(t, from, to) == /\ at[t] = from
                     /\ at' = [at EXCEPT ![t] = to]
                     /\ UNCHANGED objectVars
Lock(t)   == Goes(t, "out", "assign") /\ mutex = Nobody /\ mutex' = t /\ UNCHANGED holder
AssignHolder(t)   == Goes(t, "assign", "inside") /\ holder' = t /\ UNCHANGED mutex
UnassignHolder(t) == Goes(t, "inside", "unlock") /\ holder' = Nobody /\ UNCHANGED mutex
Unlock(t) == Goes(t, "unlock", "out") /\ mutex' = Nobody /\ UNCHANGED holder
WaitUnassigns(t)  == Goes(t, "inside", "wait") /\ holder' = Nobody /\ UNCHANGED mutex
WaitReleases(t)   == Goes(t, "wait", "waiting") /\ mutex' = Nobody /\ UNCHANGED holder
WaitReturns(t)    == Goes(t, "waiting", "assign") /\ mutex = Nobody /\ mutex' = t /\ UNCHANGED holder

(* A program is followed to its first misuse.                              *)
ObjectNext == misuse = {} /\ \E t \in Threads :
    \/ NewAutoLock(t, TRUE) \/ NewAutoLock(t, FALSE)
    \/ \E class \in {"manual", "manualR", "manualW"} : NewManual(t, class)
    \/ NewAutoSRWLockR(t) \/ NewAutoSRWLockW(t)
    \/ \E k \in DOMAIN objects[t] :
          TryLock(t, k) \/ TryLockR(t, k) \/ TryLockW(t, k) \/ ReleaseLock(t, k)
    \/ Destroy_(t)

MutexNext == \E t \in Threads :
    \/ Lock(t) \/ AssignHolder(t) \/ UnassignHolder(t) \/ Unlock(t)
    \/ WaitUnassigns(t) \/ WaitReleases(t) \/ WaitReturns(t)

LockSpec == LockInit /\ [][ObjectNext \/ MutexNext]_lockVars

-----------------------------------------------------------------------------
(* How often the objects of these classes took their locks.                *)
Took(os, classes) ==
    LET sum[k \in 0 .. Len(os)] ==
            IF k = 0 THEN 0
            ELSE sum[k - 1] + (IF os[k].class \in classes THEN os[k].took ELSE 0)
    IN  sum[Len(os)]
Taken(t, classes) == Took(objects[t], classes)

(* As long as no thread tries a lock object that has its lock, releases a  *)
(* manual read lock that has none, or nests rwlock objects below a write   *)
(* lock, every lock is held exactly by the objects that took it, and as    *)
(* often: the critical section by every nested object once.                *)
Balanced == misuse = {} =>
    \A t \in Threads : /\ Taken(t, {"auto", "manual"}) = cs[t]
                       /\ Taken(t, {"autoR", "manualR"}) = readers[t]
                       /\ Taken(t, {"autoW", "manualW"}) = IF writer = t THEN 1 ELSE 0

(* The lock of an object that is tried again while it has it stays locked: *)
(* it is held more often than there are objects that will release it.      *)
LostByRetry == misuse = {"retry"} => \E t \in Threads :
    \/ cs[t] > Taken(t, {"auto", "manual"})
    \/ writer = t /\ Taken(t, {"autoW", "manualW"}) = 0
    \/ \E k \in DOMAIN objects[t] : objects[t][k].took > 1

(* isLockedByThisThread is true of no thread but the one that has the      *)
(* mutex, it is true wherever that thread works under it, and _holder is 0 *)
(* (as ~MutexLock asserts) when nobody does.                               *)
HolderOwns == /\ holder # Nobody => holder = mutex
              /\ \A t \in Threads : at[t] = "inside" => holder = t
              /\ (\A t \in Threads : at[t] \in {"out", "waiting"}) => {holder, mutex} = {Nobody}

(* Property LocksBalanced: no lock object keeps, loses or takes away a lock *)
(* until it is misused, and MutexLock never names a thread that is outside. *)
LocksBalanced == Balanced /\ LostByRetry /\ HolderOwns
=============================================================================
