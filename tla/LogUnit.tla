------------------------------ MODULE LogUnit -------------------------------
(***************************************************************************)
(* The log files of log/_logUnit.{h,cpp} and the manager of the tags,      *)
(* log/_logMgr.{h,cpp}.  A unit writes to one file.  When the day has      *)
(* changed, the thread that logs first copies the file to a backup and     *)
(* truncates it.  The unit's lock is optional (m_bLock).  log() holds the  *)
(* manager's lock shared and initLog exclusively, so the unit of a tag is  *)
(* opened while nobody logs; initMgr takes no lock.                        *)
(*                                                                         *)
(* A file is an inode, which has a name or has lost it; a descriptor stays *)
(* with its inode when the file is renamed, and has an offset, counted in  *)
(* pieces.  A backup is named after the second it is made in.  Files hold  *)
(* messages, line ends and what is left of a message that was written in   *)
(* part or partly over.  A path without a separator has no backups.  The   *)
(* time is counted in seconds, of which a day has few.                     *)
(***************************************************************************)
EXTENDS Naturals, Sequences, FiniteSets

CONSTANTS
    Thread, Path,
    Bare,           \* the paths without a separator
    RunningLog,     \* the path of the global unit
    Tag,            \* the tags that initLog is called with
    TagLock,        \* the values of bLock that initLog is called with
    SecondsPerDay,
    MaxNow,         \* bound: the time
    MaxLines,       \* bound: the messages logged
    MaxCauses,      \* bound: when this much was spoilt, no more calls fail
    MaxStarts       \* bound: the starts of the process and repeated calls of initMgr

ASSUME LogUnitAssumption ==
    /\ "GLB" \notin Tag /\ RunningLog \in Path /\ Bare \subseteq Path
    /\ TagLock \subseteq BOOLEAN
    /\ {SecondsPerDay, MaxStarts} \subseteq Nat \ {0}
    /\ {MaxNow, MaxLines, MaxCauses} \subseteq Nat

Unit == Tag \cup {"GLB"}        \* "GLB" is m_sLogUnit
Name == Path \X (0 .. MaxNow + 1)
Log(p) == <<p, MaxNow + 1>>     \* the log file; <<p, s>> is its backup of second s
Message == 1 .. MaxLines
LineEnd == 0
Rest == MaxLines + 1            \* some bytes of a message
Piece == Message \cup {LineEnd, Rest}

VARIABLES
    now,            \* the time
    starts,         \* how often the process was started, and initMgr called again
    path,           \* m_strLogFile of each unit
    m_hFile,        \* the inode a unit has open, or -1
    m_bLock,        \* whether the unit locks
    m_dwDT,         \* the day the unit's file is for
    inode,          \* the inode of each name, or -1
    data,           \* what the inodes hold
    pos,            \* the offset of each unit's descriptor
    pc,             \* where each thread is in Log
    unit,           \* the unit it logs to
    msg,            \* the message it logs
    holder,         \* the threads that hold a unit's m_csLock
    day,            \* dwNow of checkBackUp
    logged,         \* the messages that were begun
    done,           \* ghost: the messages whose call has returned, by unit
    spoilt          \* ghost: what can have cost a unit its lines

clock == <<now, starts>>
units == <<path, m_hFile, m_bLock, m_dwDT>>
disk == <<inode, data, pos>>
threads == <<pc, unit, msg, day>>
vars == <<now, starts, path, m_hFile, m_bLock, m_dwDT, inode, data, pos, pc,
          unit, msg, holder, day, logged, done, spoilt>>

\* Two threads met at a file without a lock; cp failed; a backup was made over
\* another one; the log was opened with what it held, or not truncated; a write
\* failed; initMgr was called again.
Cause == {"race", "copy", "name", "kept", "write", "again"}

None == 0 - 1
Today == now \div SecondsPerDay

TypeOK ==
    /\ now \in 0 .. MaxNow /\ starts \in 1 .. MaxStarts
    /\ path \in [Unit -> Path]
    /\ m_hFile \in [Unit -> DOMAIN data \cup {None}]
    /\ m_bLock \in [Unit -> BOOLEAN]
    /\ m_dwDT \in [Unit -> Nat]
    /\ inode \in [Name -> DOMAIN data \cup {None}]
    /\ data \in Seq(Seq(Piece))
    /\ pos \in [Unit -> Nat]
    /\ pc \in [Thread -> {"idle", "lock", "check", "copy", "truncate", "write", "end"}]
    /\ unit \in [Thread -> Unit] /\ msg \in [Thread -> 0 .. MaxLines]
    /\ holder \in [Unit -> {{}} \cup {{t} : t \in Thread}]
    /\ day \in [Thread -> Nat]
    /\ logged \in 0 .. MaxLines
    /\ done \in [Unit -> SUBSET Message]
    /\ spoilt \in [Unit -> SUBSET Cause]

Init ==
    /\ now = 0 /\ starts = 1
    /\ path \in {f \in [Unit -> Path] : f["GLB"] = RunningLog}
    /\ m_hFile = [u \in Unit |-> None]
    /\ m_bLock = [u \in Unit |-> FALSE]
    /\ m_dwDT = [u \in Unit |-> 0]
    /\ inode = [n \in Name |-> None]
    /\ data = <<>>
    /\ pos = [u \in Unit |-> 0]
    /\ pc = [t \in Thread |-> "idle"]
    /\ unit = [t \in Thread |-> "GLB"] /\ msg = [t \in Thread |-> 0]
    /\ holder = [u \in Unit |-> {}]
    /\ day = [t \in Thread |-> 0]
    /\ logged = 0
    /\ done = [u \in Unit |-> {}]
    /\ spoilt = [u \in Unit |-> {}]

-----------------------------------------------------------------------------
(* The manager.                                                            *)

Idle == \A t \in Thread : pc[t] = "idle"

MayFail == Cardinality({c \in Unit \X Cause : c[2] \in spoilt[c[1]]}) < MaxCauses

Spoil(u, causes) == spoilt' = [spoilt EXCEPT ![u] = @ \cup causes]

\* The name of the backup is in use already.
Clash(p) == inode[Log(p)] # None /\ inode[<<p, now>>] # None

\* The names after backUpFile(true): what is at the path becomes a backup, but
\* not without a separator in the path, and nobody looks whether mv fails.
BackUpFile(p) ==
    LET moved == [inode EXCEPT ![<<p, now>>] = inode[Log(p)], ![Log(p)] = None]
    IN  {n \in {inode, moved} : IF p \in Bare \/ inode[Log(p)] = None
                                 THEN n = inode ELSE n = moved \/ MayFail}

Opening(u, names) ==
    {k \in {"name"} : names # inode /\ Clash(path[u])} \cup
    {k \in {"again"} : m_hFile[u] # None}

\* open() makes a file.
MakeFile(u, names) ==
    /\ names[Log(path[u])] = None
    /\ inode' = [names EXCEPT ![Log(path[u])] = Len(data) + 1]
    /\ data' = Append(data, <<>>)
    /\ m_hFile' = [m_hFile EXCEPT ![u] = Len(data) + 1]
    /\ Spoil(u, Opening(u, names))

\* open() takes the file that is still there, which is not truncated.
KeepFile(u, names) ==
    LET i == names[Log(path[u])]
    IN  /\ i # None
        /\ inode' = names
        /\ m_hFile' = [m_hFile EXCEPT ![u] = i]
        /\ Spoil(u, Opening(u, names) \cup {k \in {"kept"} : data[i] # <<>>})
        /\ UNCHANGED data

\* createDirectory or open() fails: the unit keeps the file it has, if any.
OpenFails(u, names) ==
    /\ MayFail
    /\ inode' = names
    /\ Spoil(u, Opening(u, names))
    /\ UNCHANGED <<m_hFile, m_dwDT, data, pos>>

\* initLogUnit.
InitLogUnit(u, lock) ==
    /\ m_bLock' = [m_bLock EXCEPT ![u] = lock]
    /\ \E names \in BackUpFile(path[u]) :
         \/ OpenFails(u, names)
         \/ /\ MakeFile(u, names) \/ KeepFile(u, names)
            /\ m_dwDT' = [m_dwDT EXCEPT ![u] = Today]
            /\ pos' = [pos EXCEPT ![u] = 0]

\* initMgr, by the program or by the first initLog.  It may be called again, for
\* the same path, also while threads log; then nothing is claimed of the unit.
InitMgr ==
    /\ m_hFile["GLB"] # None => starts < MaxStarts /\ MayFail
    /\ starts' = IF m_hFile["GLB"] = None THEN starts ELSE starts + 1
    /\ \E lock \in BOOLEAN : InitLogUnit("GLB", lock)
    /\ UNCHANGED <<now, path, threads, holder, logged, done>>

\* initLog of a tag that is new.  It goes on when initMgr has failed.
InitLog(u) ==
    /\ Idle
    /\ m_hFile[u] = None
    /\ \E lock \in TagLock : InitLogUnit(u, lock)
    /\ UNCHANGED <<clock, path, threads, holder, logged, done>>

\* The process ends at any point and starts again; the files stay.
Restart ==
    /\ starts < MaxStarts
    /\ starts' = starts + 1
    /\ m_hFile' = [u \in Unit |-> None]
    /\ pc' = [t \in Thread |-> "idle"]
    /\ holder' = [u \in Unit |-> {}]
    /\ unit' = [t \in Thread |-> "GLB"]
    /\ msg' = [t \in Thread |-> 0]
    /\ day' = [t \in Thread |-> 0]
    /\ m_bLock' = [u \in Unit |-> FALSE]
    /\ m_dwDT' = [u \in Unit |-> 0]
    /\ pos' = [u \in Unit |-> 0]
    /\ UNCHANGED <<now, path, inode, data, logged, done, spoilt>>

Tick ==
    /\ now < MaxNow
    /\ now' = now + 1
    /\ UNCHANGED <<starts, units, disk, threads, holder, logged, done, spoilt>>

-----------------------------------------------------------------------------
(* Log.                                                                    *)

Goto(t, l) == pc' = [pc EXCEPT ![t] = l]

\* log(): a tag that is not known logs to the global unit.  Log returns at
\* once when the unit has no file.
Begin(t, tag) ==
    LET u == IF m_hFile[tag] = None THEN "GLB" ELSE tag
    IN  /\ pc[t] = "idle"
        /\ m_hFile[u] # None
        /\ logged < MaxLines
        /\ logged' = logged + 1
        /\ unit' = [unit EXCEPT ![t] = u]
        /\ msg' = [msg EXCEPT ![t] = logged + 1]
        /\ Goto(t, "lock")
        /\ UNCHANGED <<clock, units, disk, holder, day, done, spoilt>>

\* Mutant: the lock is taken and given back at once.
Lock_Short(t) ==
    /\ pc[t] = "lock"
    /\ m_bLock[unit[t]] => holder[unit[t]] = {}
    /\ Goto(t, "check")
    /\ UNCHANGED <<clock, units, disk, unit, msg, holder, day, logged, done, spoilt>>

\* FCAutoLock csLock(&m_csLock, m_bLock).
Lock(t) ==
    /\ pc[t] = "lock"
    /\ IF m_bLock[unit[t]]
       THEN holder[unit[t]] = {} /\ holder' = [holder EXCEPT ![unit[t]] = {t}]
       ELSE UNCHANGED holder
    /\ Goto(t, "check")
    /\ UNCHANGED <<clock, units, disk, unit, msg, day, logged, done, spoilt>>

\* Another thread is at work on the file of t's unit, and the unit has no lock:
\* both may begin or end a day.
Raced(t) == \E x \in Thread \ {t} :
    unit[x] = unit[t] /\ pc[x] \in {"copy", "truncate", "write", "end"}

NoteRace(t) ==
    spoilt' = IF ~m_bLock[unit[t]] /\ Raced(t)
              THEN [spoilt EXCEPT ![unit[t]] = @ \cup {"race"}] ELSE spoilt

\* checkBackUp up to backUpFile.
CheckBackUp(t) ==
    /\ pc[t] = "check"
    /\ day' = [day EXCEPT ![t] = Today]
    /\ Goto(t, IF Today = m_dwDT[unit[t]] THEN "write" ELSE "copy")
    /\ NoteRace(t)
    /\ UNCHANGED <<clock, units, disk, unit, msg, holder, logged, done>>

\* backUpFile returns at once for a path without a separator; then
\* m_dwDT = dwNow.
NoBackUp(t) ==
    /\ pc[t] = "copy"
    /\ path[unit[t]] \in Bare
    /\ m_dwDT' = [m_dwDT EXCEPT ![unit[t]] = day[t]]
    /\ Goto(t, "write")
    /\ UNCHANGED <<clock, path, m_hFile, m_bLock, disk, unit, msg, holder, day,
                   logged, done, spoilt>>

\* copyFile, by the names: over what an earlier backup of the second held.
CopyFile(t) ==
    LET p == path[unit[t]]
        i == IF inode[<<p, now>>] = None THEN Len(data) + 1 ELSE inode[<<p, now>>]
    IN  /\ pc[t] = "copy"
        /\ p \notin Bare /\ inode[Log(p)] # None
        /\ inode' = [inode EXCEPT ![<<p, now>>] = i]
        /\ data' = [k \in 1 .. (IF i > Len(data) THEN i ELSE Len(data)) |->
                       IF k = i THEN data[inode[Log(p)]] ELSE data[k]]
        /\ spoilt' = IF ~Clash(p) THEN spoilt
                     ELSE [u \in Unit |-> IF path[u] = p THEN spoilt[u] \cup {"name"} ELSE spoilt[u]]
        /\ Goto(t, "truncate")
        /\ UNCHANGED <<clock, units, pos, unit, msg, holder, day, logged, done>>

\* cp fails, and nobody looks.
CopyFileFails(t) ==
    /\ pc[t] = "copy"
    /\ path[unit[t]] \notin Bare /\ (MayFail \/ inode[Log(path[unit[t]])] = None)
    /\ Spoil(unit[t], {"copy"})
    /\ Goto(t, "truncate")
    /\ UNCHANGED <<clock, units, disk, unit, msg, holder, day, logged, done>>

\* lseek and ftruncate, which may fail; then m_dwDT = dwNow.
Truncate(t) ==
    /\ pc[t] = "truncate"
    /\ \/ /\ data' = [data EXCEPT ![m_hFile[unit[t]]] = <<>>]
          /\ UNCHANGED spoilt
       \/ /\ MayFail /\ Spoil(unit[t], {"kept"})
          /\ UNCHANGED data
    /\ pos' = [pos EXCEPT ![unit[t]] = 0]
    /\ m_dwDT' = [m_dwDT EXCEPT ![unit[t]] = day[t]]
    /\ Goto(t, "write")
    /\ UNCHANGED <<clock, path, m_hFile, m_bLock, inode, unit, msg, holder, day,
                   logged, done>>

\* What a file can hold after x was written at offset k: at the end x is
\* appended, behind it there is a gap, and before it x covers the pieces up to
\* some i, whose last bytes may stay.  A line end is one byte.
Put(d, k, x) ==
    CASE k = Len(d) -> {Append(d, x)}
      [] k > Len(d) -> {d \o <<Rest, x>>}
      [] k < Len(d) ->
            LET I == (k + 1) .. (IF x = LineEnd THEN k + 1 ELSE Len(d))
            IN  {SubSeq(d, 1, k) \o <<x>> \o SubSeq(d, i + 1, Len(d)) : i \in I} \cup
                {SubSeq(d, 1, k) \o <<x, Rest>> \o SubSeq(d, i + 1, Len(d)) :
                    i \in {i \in I : d[i] # LineEnd}}

\* x is written at the offset all threads share.
WriteFile(u, x) ==
    LET d == data[m_hFile[u]]
    IN  /\ \E e \in Put(d, pos[u], x) : data' = [data EXCEPT ![m_hFile[u]] = e]
        /\ pos' = [pos EXCEPT ![u] = IF @ > Len(d) THEN Len(d) + 2 ELSE @ + 1]

\* Mutant: the lock is given back before the end of the line.
Write_Unlock(t) ==
    /\ pc[t] = "write"
    /\ WriteFile(unit[t], msg[t])
    /\ holder' = [holder EXCEPT ![unit[t]] = @ \ {t}]
    /\ Goto(t, "end")
    /\ UNCHANGED <<clock, units, inode, unit, msg, day, logged, done, spoilt>>

\* The message is written; or the call fails or writes a part, and nobody looks.
Write(t) ==
    /\ pc[t] = "write"
    /\ \/ WriteFile(unit[t], msg[t]) /\ UNCHANGED spoilt
       \/ /\ WriteFile(unit[t], Rest) \/ UNCHANGED <<data, pos>>
          /\ MayFail /\ Spoil(unit[t], {"write"})
    /\ Goto(t, "end")
    /\ UNCHANGED <<clock, units, inode, unit, msg, holder, day, logged, done>>

\* Mutant: the lock is not given back.
WriteEnd_KeepLock(t) ==
    /\ pc[t] = "end"
    /\ WriteFile(unit[t], LineEnd)
    /\ done' = [done EXCEPT ![unit[t]] = @ \cup {msg[t]}]
    /\ Goto(t, "idle")
    /\ UNCHANGED <<clock, units, inode, unit, msg, holder, day, logged, spoilt>>

\* The end of the line is written by another call, which may fail too; the lock
\* is given back.
WriteEnd(t) ==
    /\ pc[t] = "end"
    /\ \/ WriteFile(unit[t], LineEnd) /\ UNCHANGED spoilt
       \/ MayFail /\ Spoil(unit[t], {"write"}) /\ UNCHANGED <<data, pos>>
    /\ done' = [done EXCEPT ![unit[t]] = @ \cup {msg[t]}]
    /\ holder' = [holder EXCEPT ![unit[t]] = @ \ {t}]
    /\ Goto(t, "idle")
    /\ UNCHANGED <<clock, units, inode, unit, msg, day, logged>>

Step(t) ==
    \/ Lock(t) \/ CheckBackUp(t) \/ NoBackUp(t) \/ CopyFile(t) \/ CopyFileFails(t)
    \/ Truncate(t) \/ Write(t) \/ WriteEnd(t)

Next ==
    \/ InitMgr \/ (\E u \in Tag : InitLog(u)) \/ Restart \/ Tick
    \/ \E t \in Thread : (\E u \in Unit : Begin(t, u)) \/ Step(t)

Spec == Init /\ [][Next]_vars

\* A thread that logs goes on.  The calls are bounded, so nobody can have the
\* lock again and again.
FairSpec == Spec /\ \A t \in Thread : WF_vars(Step(t))

-----------------------------------------------------------------------------
(* Properties.                                                             *)

Saved(m) == \E n \in Name : inode[n] # None /\ \E i \in DOMAIN data[inode[n]] :
    data[inode[n]][i] = m

OwnPath(u) == \A x \in Unit \ {u} : path[x] # path[u]

\* A line whose call has returned can be found in the log or in a backup, over
\* any change of day and restart, unless another unit has the same path or one
\* of the causes happened that the code does not look at: two threads met at
\* the file of a unit that does not lock, cp failed, a backup was made over
\* another one of the same second, the log was opened with what it held (no
\* separator in the path, or mv failed) or was not truncated and is written
\* over from its start, a write failed, or initMgr was called again.
NothingLost ==
    \A u \in Unit : spoilt[u] = {} /\ OwnPath(u) => \A m \in done[u] : Saved(m)

\* The unit writes at the end of its file, and all it writes.
Sound(u) == spoilt[u] \cap {"kept", "write", "again"} = {}

\* With the lock a line end follows every message, and no line starts within
\* another one, unless another unit has the same path, the log is written over
\* from its start, a write failed or initMgr was called again.
WholeLines ==
    \A u \in Unit : m_bLock[u] /\ m_hFile[u] # None /\ OwnPath(u) /\ Sound(u) =>
        LET d == data[m_hFile[u]]
        IN  \A i \in DOMAIN d : d[i] = LineEnd <=> i % 2 = 0

\* A call of log returns.
LogReturns == \A t \in Thread : pc[t] # "idle" ~> pc[t] = "idle"
=============================================================================
