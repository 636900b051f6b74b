# A verification of the HuQgPrv utilities

HuQgPrv is a C++ utility library (`src/utils`): worker threads, queues, TCP
clients on `select` and on libevent, an epoll reactor, timers, log files, an INI
reader and writer, and small helpers. There is no program in the repository
apart from short demonstration files, so "the system" is the library and any
program that calls its public functions in an order they allow.

The project has TLA+ modules of the parts that keep state, TLC runs that check
them on small instances, and proofs that TLAPS checks for every value of the
constants. Three runs are expected to find a violation: they show what the code
does where a comment of the code says something else. `PROJECT.json` gives, for
each definition, the lines it models; for each property, a plausible bug that
violates it; and the list of hazards that the properties are for.

    tlc -workers 2 -config CondQueue.cfg CondQueue.tla     # one run
    tlapm ContainerProofs.tla                              # one module's proofs

## 1. The parts of the system

### FCThreadModel (`frame/_threadModel`)

State: the thread's handle `m_hThread`, the exit flag `m_bExitFlag`, and what
the derived class's `initialModel()` builds. Operations: `startSvr`, `stopSvr`,
`setExitFlag`, and `doThreadProc`, which the thread runs: a start delay, clear
the flag, then `runloop()` until the flag is set, then `exitModel()`. Everything
that has a thread of its own derives from it: both TCP clients, the timer
thread, the epoll context, the services. Hard: three parties share a flag
without a lock, and the worker itself clears it; hooks may throw; a start may be
made twice or fail half-way. Correct means: the model is not torn down under a
running worker, a stop stops, and a stale flag does not stop a later thread.

### Queues and Condition (`frame/_blockQueue.h`, `_boundQueue.h`, `_circularQueue.h`, `_condition.h`)

State: a deque, a mutex, `_notEmpty` and (two of the three) `_notFull`.
Operations: `put` and `take`, each waiting with a timeout. `BlockingQueue` has
no limit, `BoundQueue` refuses an item after a timeout, `CircularQueue` then
drops the oldest ones. Hard: who is woken, and what is true by the time the
woken thread has the mutex again. Correct means: nobody sleeps beside work,
the limit holds, items come out once and in order, calls return.

### clientFrame (`frame/clientframe`, `cbuffstt`)

State: the socket, a locked list of messages to send, the message being sent
`m_pSendBuffer`, the read buffer with fill `iCur` and capacity `iMax`, the
heartbeat time. The worker's `runloop` connects, checks the heartbeat, calls
`select` once and then receives and sends what it can; any thread calls
`sendMsg`; the program's own code is called back in `dealData`,
`afterConnectSvr` and `checkAliveMsg`. Hard: a connection lost in the middle of
a message, partial sends and receives, cleaning up on every error path. Correct
means: the peer sees whole messages in order and the program sees the stream.

### clientfrmModel and netCltFrm (`libevent/clientframe`)

The same client on libevent's bufferevents; `net/netFrm` is the same code under
another class name. State: `m_pBufEnvClt`, the event base, two heartbeat times
and intervals, the send list and buffer, the read buffer. libevent calls back
for read, write and events, inside `event_base_loop` of the worker. Hard: state
that survives a disconnection, a stop and a restart; callbacks that fail.

### Timer and TimerThread (`frame/timerThread.h`)

State: the map of events (interval, last time, callback) and a locked list of
requests. `SetTimer` and `KillTimer` only append a request; `DealTimer`, in the
worker, applies the requests and walks the map. Hard: requests that arrive
during the walk, also from its callbacks; a callback that throws.

### _EpollCtx and _SocketCtx (`frame/_EpollCtx`)

State: the epoll descriptor, the registered sockets, a count; per socket a
descriptor and a status. A detector thread calls `DoDetect`, and other threads
add, modify and remove sockets. Hard: a batch of events is processed outside the
lock, while others remove its sockets.

### Locks (`frame/_lock.h`, `frame/_mutexlock.h`)

Scoped and manual locks over a critical section or a read-write lock, with a
flag that says whether the object owns it; `MutexLock` with a `_holder`. Hard:
the manual locks' flag and pointer after `tryLock`, and unlocking what one does
not hold. Correct means: no object keeps, loses or takes away a lock.

### Log units and log manager (`log/_logUnit`, `log/_logMgr`)

State: per unit the path, the open descriptor, the day the file is for, and
whether its lock is used; in the manager the map of tags and a global unit.
`log` finds the unit and writes a line; the first line of a new day first copies
the file to a backup and truncates it. `log/log.c` does the same in C. Hard: the
change of day while several threads log, with a lock that is off by default; no
result of `mv`, `cp`, `ftruncate` or `write` is looked at.

### INI reader and writer (`rdwrini/RdWrIni`)

State: the file, a temporary file and the process's copy `g_pData`, under one
lock. A write rewrites the file line by line into the temporary file, then
`CopyFile` truncates the original and copies over it by two mappings. Hard: a
failure or a kill between the truncation and the end of the copy; comments,
repeated keys and repeated sections; `GetLine`, which takes the last two bytes for
the end of the file.

### ServiceFrame (`frame/_ServiceFrame`)

The entry of a daemon: `Debug` runs the service in a thread until a key is
pressed, `RunService` until a signal, whose handler deletes the service.

### netFunc (`frame/_netFunc.h`)

No state of its own but the descriptors of the process. `ConnectSync` and
`ConnectAsync` go through the addresses of a host, the former with retries of an
interrupted `connect`. Hard: every call can fail, and a closed number can be
another thread's at once. Correct means: the socket returned is connected and
set up as promised, and no other stays open or is touched.

### JSON (`json`)

JsonCpp, kept in the repository: `Json::Value` (a tree with sparse arrays and
comments), `Json::Path`, a reader that goes on after errors, three writers.
Hard: sparse arrays against what `value.h` says of arrays, comments and tokens
on one line, conversions between eight types. Correct means: an array is a
sequence, the ways into a value agree, and what is written is read back.

### XML (`tinyxml`)

TinyXML, kept in the repository: a tree of nodes in doubly linked lists, a
parser that condenses white space and resolves entities, a printer. Hard: the
lists are linked by hand in six operations; errors in the middle of a parse;
escapes. Correct means: the tree is the one the calls or the text spell.

### Files and directories (`tools/_tools`, `filestat`)

`createDirectory`, `MapMemFile` and the functions of `filestat` make several
system calls on paths that other processes use. No state of their own. Hard:
what others do between the calls, and a process that dies between them.

### Texts and dates (`string`, `tools/_tools`)

Pure functions: trimming, replacing, splitting, base64, URL encoding, UTF-8
detection, check sums, dates and weekdays. Hard: signed `char`, C strings in C++
strings, summer time. Correct means: they agree with what they are named for.

### cbfuncLog (`frame/cbfuncLog`)

State: the pointer `m_cbFunc`, set by one thread and used by all that log,
without a lock. `clientFrame` derives from it.

### The rest

Atomic counters, syslog, the C logger, the singleton and exception headers, and
libevent's headers and libraries.

### How they interact

    program threads --sendMsg--> list --+
    program threads --stopSvr--> flag --+--> worker of FCThreadModel
                                        |      runloop(): clientFrame, clientfrmModel,
    program <--dealData, callbacks------+                 TimerThread, _EpollCtx
    program threads --put--> queue --take--> program threads
    program threads --log--> manager --> unit --> file, backups
    program threads --WritePrivateProfileString--> temporary file --> INI file
    clients --ConnectSync--> socket          clients --cbLog*--> callback of the program
    log units --createDirectory, copyFile--> file system <--other processes

The shared state is the exit flag (no lock), the send lists (`m_csLock`), the
timer's request list (`m_csLockW`), the queues (`MutexLock`), the map of log
tags (a read-write lock), the INI lock `gcsLock` and the pointer `m_cbFunc` (no
lock). Between processes, the file system is shared. Everything else belongs to
one thread.

## 2. The modules

| Module | Models | Runs |
| --- | --- | --- |
| `ThreadModel` | `FCThreadModel` | `thread` |
| `CondQueue` | the three queues and `Condition` | `queue` |
| `ClientFrame`, `MCClientFrame` | `clientFrame` and its worker | `client`, `client_reconnect` |
| `ClientFrameProofs` | theorems about it, `NetFunc` and `SharedCalls` | |
| `LibeventClient` | `clientfrmModel`, `netCltFrm` | `libevent`, `libevent_heartbeat` |
| `LibeventClientProofs` | theorems about it | |
| `TimerThread` | `Timer` in its thread | `timer` |
| `IniStore` | what the INI functions promise: a map | |
| `IniFile`, `MCIniFile` | `RdWrIni`, shown to implement `IniStore` | `ini`, `ini_success` |
| `IniFileProofs` | theorems about it | |
| `LogUnit` | `_logUnit` under `_logMgr` | `log` |
| `LogUnitProofs` | theorems about it | |
| `EpollCtx` | `_EpollCtx` under its detector and other threads | `epoll` |
| `EpollCtxProofs` | theorems about it | |
| `Chars` | texts as sequences of bytes; the C library's functions on them | |
| `JsonValue`, `JsonTree`, `JsonText`, `JsonBuild`, `JsonDocument` | the JSON library and a program that uses it | `data` |
| `ContainerProofs` | theorems about `CondQueue`, `JsonBuild` and `XmlBuild` | |
| `XmlLinks`, `XmlBuild`, `TinyXmlText`, `TinyXmlTree`, `TinyXmlDocument` | TinyXML and a program that uses it | `data` |
| `LockObjects` | the lock classes and `MutexLock` | `data` |
| `ThreadProofs` | theorems about `ThreadModel`, `TimerThread` and `LockObjects` | |
| `NetFunc` | `ConnectSync`, `ConnectAsync` | `data` |
| `FileHelpers` | `createDirectory`, `MapMemFile`, `filestat` | `data` |
| `TextTools` | the functions on texts and dates | `data` |
| `CallbackLog` | `cbLogFrm` | `data` |
| `SharedCalls` | the calls of `FileHelpers` and `CallbackLog` on what others change without a lock | `data` |
| `MCData` | the values for TLC of the machines of `data` | `data` |
| `DataLemmas` | facts about numbers and sequences that several proofs cite | |

Names of variables and actions are the code's names where it has them. A
*ghost* variable is not in the code; it remembers what a property needs. A
definition whose comment begins with "Mutant", or whose name ends in
`_Mutation`, is a wrong version of the one after it, used only to see that a
property can fail. `TypeOK` of a module says what values its variables have; the
proofs need it, and no run spends a property on it.

### ThreadModel

`m_hThread` is 0, a thread's number, or `Stale`: what a failed `pthread_create`
may leave behind. `worker[t]` is where thread `t` is in `doThreadProc`. Every
access to the flag is one step. `StopSvr` ends at the join; `JoinReturns` and
`JoinStale` are the rest of `stopSvr`, and joining a stale handle either fails
harmlessly or crashes the program, since it is undefined. `BeginLoop` is the end
of the start delay, which clears the flag whatever it was; this is where a stop
is lost, and the model has it: `stopSvr` can then wait for ever.
`ExitModelThrows` skips the `break`. `startSvr` may be called while a thread
runs, as nothing in the code prevents it. `Destroy` is the destructor of the base
class, which calls `stopSvr` when the derived class, its hooks and what they use
are gone already: a worker that is still in its loop then calls a pure virtual
function or uses what is gone (`HookGone`), which ends the program.

### CondQueue

A step is everything a thread does between getting the mutex and giving it up,
so the mutex itself needs no variable. `kind` says which template the behaviour
is about; `take` is the same in all, `put` is not. `TimesOut` and `WakesUp` end
a wait; a woken thread needs the mutex and others may come first, which is why
`CircularQueue::put`, testing the size with an `if`, can exceed `_size`.
`TakeGivesUp` returns false even when there is an item by now, as in the code.

### ClientFrame

`pc` walks through `doThreadProc`, `runloop` and `dealNetWorkIO`. A received
byte is its position in the connection's stream and a sent byte is
`<<message, position>>`, so that order, loss and duplication can be seen and
contents need not be. `sendBuf.ptr = "freed"` is the pointer that `clearBuff`
leaves: the next use of it sets `fault` and the model stops, because what
follows is undefined. `RecvFails` may go on to `send`, because the code asks
`FD_ISSET` about a socket that is -1 by then.

### LibeventClient

`bev` is `m_pBufEnvClt`; `"dead"` is one whose connect failed and that has no
callbacks, `"orphan"` one of an earlier run's event base. The actions `cb_*` are
the callbacks libevent makes in `event_base_loop`. Heartbeat times are ages.
libevent is external: it may make any callback that the watched events allow.

### TimerThread

Requests wait in `m_lstEventWait`. `BeginPass` takes and applies all of them,
`Fire(k)` is the walk reaching the next event that is due, in key order, and
beginning its callback; during a callback, requests may come from anywhere.
`AllApplied` is the loop over the requests: the map after each of them, as a
function of how many are done. `since` is the age of `uLastTM` and `lag` how long
ago `tmNow` was read.

### IniFile and IniStore

A line is a comment, a header or a pair; names that differ in case only are one
name, and `Hash` are the keys and values with a `#`, which makes the whole line
a comment for the reader. `GetLine` reports the end of the file where two bytes
are left, so a last line of no more than two is never seen by a write: `Blank`
stands for it, and `GetLines` are the lines without it. `Rewrite` is the loop of
`WritePrivateProfileString` over these lines:
what has been copied, and whether the loop is in the section, as a function of
how many lines were read (`Start`, `Copied`), and what is added after the last of
them (`Completed`). The calls of a process follow each other (`gcsLock`),
so `pc` is one variable; each system call is a step that may fail, and `Kill`
may come between any two. A read whose `ReadIniFile` fails returns the default
(`GetReadFails`), and a write goes on as if the file were empty (`CallReadFails`).
`Grow` is the `lseek` and the `write` of one byte
before the mapping: the file is then all zeros. On zeros after text, `GetLine`
returns the same offset again and again: `GetSpins` and the state `"spin"` are a
read that does not end, `CreatSpins` and `"blanks"` a write that puts blank lines
into its temporary file until it is killed or the disk is full. The two zeros of a
blank line that was not copied yet (`"few"`) are the end of the file instead.
`maps` counts the mappings, which are never given back.

`old` is the file as the call found it, zeros included, so that `TornByKill`
can say of a call that left text with zeros behind it that it was killed or, as
one whose `open` failed, left the file alone.

`IniStore` is the abstract specification: a map from sections and keys to
values. The refinement in `IniFile` maps its store to the values that reads of
the file return, and to those of the old contents while a write is under way.

Left out: lines longer than the buffer, UTF-16 files, section names with `#` or
`]`, and two temporary files of one name in one directory (files of different
programs with equal section names). A torn copy is torn at the end of a line.

### LogUnit

A file is an inode with or without a name; a descriptor stays with its inode
when the file is renamed to a backup, and has an offset, `pos`, which all threads
share. `InitMgr` and `InitLog` open a unit (`InitLogUnit`). `BackUpFile` first moves
what is at the path to a backup, which it does not do for a path without a
separator (`Bare`), and nobody looks whether `mv` works. `open` has neither
`O_TRUNC` nor `O_APPEND`: it makes a new file (`MakeFile`) or keeps the old one with
an offset of 0 (`KeepFile`), so that the old lines are written over; `Put` says what
a file then holds. `OpenFails` leaves the unit as it was. `InitLog` has the manager's
lock, so nobody logs meanwhile; `InitMgr` has no lock and may be called again.

`Begin` to `WriteEnd` are the steps of `log`; the lock is taken only when `m_bLock`
is set. `NoBackUp` and `CopyFile` are the change of day; `cp`, `ftruncate` and each
`write` may fail or, the last one, write a part, and nobody looks. Backups are named
after the second. `Restart` ends the process at any point. The ghost `spoilt`
remembers, by unit, which of these things happened.

Left out: levels and the screen. `initLog` and `initMgr` are one step each, and
`initMgr` is called again for the same path only, so that a thread that logs while
it runs sees the unit before or after. Offsets count pieces (a message, a line end,
what is left of a message), which is exact for a file that one unit has open; of
two units with one path nothing is claimed. A thread that logs to the global unit
between the two assignments of the first `openLogUnit` (`_logUnit.cpp:141-142`)
reads an `m_dwDT` that was never set; the one step of `initMgr` hides that.

### EpollCtx

`holder` is `_lock`, `socket` the `_socket` of each context, `data` what its
`HasData2Send` answers, and `batch` the part of `_epEvents` that `DoDetect` has
not yet processed. `owner` and `reg` are the kernel's: for which context a
descriptor was opened, and what is registered for it. `AddSocket`,
`ModifySocket` and `RemoveSocket` are one call in three steps: `Check` reads
`_socket` without the lock, `Lock` takes it and reads `_socket` again, `Ctl` or
`CtlFails` is `epoll_ctl` and the unlock. `Close` and `Reset` are the two halves
of `_SocketCtx::Close`, which takes no lock; between them the kernel may give the
number to another context. A call of a context that overlaps its own Close or
Connect is a data race on `_socket`: the model sets `raced` and stops.

Left out: keep-alive options, a `lock()` that fails, the inside of `Connect` and
`Listen` (one step each), deleting a context, and `InitEpoll` and `CloseEpoll`
while anything is under way (undefined).

### JsonValue, JsonTree, JsonText, JsonBuild, JsonDocument

A value is its type, its content and its comments; a string is a sequence of
bytes, and the word of the machine is a constant, `maxUInt`, so that the bounds
of `Int` and `UInt` can be a few steps away; a real is a count of millionths. An
array's content is a function from the indices that were touched, as the code's
map is. `JsonValue` has the operations of `Json::Value` on one value and its
containers; `JsonTree` what goes down into them: the orders, the iterators and
`Json::Path`.
`JsonText` has the tokens, the values, the recovery after an error and the
placing of comments of `Json::Reader`, and `FastWriter`, `StyledWriter` and
`StyledStreamWriter`. The operators return what the functions return; what a
function that throws returns is the empty set.

`JsonBuild` is a program that builds `doc` by one call at a time, with `list`
beside it, which is what `value.h` promises of its array. It and `JsonValue` are
without recursion, for the proofs. `JsonDocument` adds the reading: `input` grows
by one token at a time, as long as the reader has not yet rejected it.

### XmlLinks, XmlBuild, TinyXmlText, TinyXmlTree, TinyXmlDocument

`XmlLinks` has nodes in a heap with the five links of `TiXmlNode`, each operation
assigning them one by one as the code does. A node takes a free place by `new` or
`Clone` and gives it back by `delete`, so following a link to what was deleted is
an error of the model. What a destructor takes down is `Below`, the least set that
its walk along `firstChild` and `next` reaches; a clone is `CopyTo`, the linked
copy that the calls of `Clone` leave. Both are stated without recursion, for the
proofs; `TinyXmlTree` has the calls of `Clone` themselves, and `ClonesAgree`
compares the two. It also has the lookups, the walks and the typed attributes. A
walk along the attributes takes one with neither name nor value for its end, unless
it is the first: `CopyTo`, `operator=` and the printers lose what follows (`Visited`,
`Carried`).

`XmlBuild` is a program that changes `heap` by one call at a time, with `kids`
beside it: the tree that the calls describe, as a sequence of children for each
node. The program is one that keeps to what the functions ask (a node is linked
once, nothing is assigned from below itself); what they do otherwise is undefined.
`TinyXmlText` has the parser (names, entities, white space, each kind of node,
errors with their position) and the printers. `TinyXmlDocument` adds the reading:
`xmlInput` grows token by token.

### LockObjects

Each thread has a stack of lock objects. `owns` is the object's `m_bLock`,
`lock` whether its pointer is set, and the ghost `took` how often it really took
the lock. A `CRITICAL_SECTION` is a recursive mutex (`datatype.h:80-88`): `cs` counts
how often each thread is in it, a thread that is enters again, and leaves as often.
(The other modules have locks of this type that no call takes twice, where counting
makes no difference.) `misuse` names what the code neither prevents nor survives: a try on
an object that has its lock, the release of a manual read lock without any, and
a read-write lock taken again under one's own write lock, which fails with
EDEADLK where nobody looks. A behaviour is followed to its first misuse.
`MutexLock` has its two writes (the mutex, `_holder`) as steps of their own, and
`UnassignGuard` around a wait.

### NetFunc

`table` is the descriptor table of the process, with what was done to each
descriptor; other threads open and close theirs between any two steps. A step
is one system call; each may fail, `fcntl` too, at whose result nobody looks
(`"refused"`). The sleep between retries is left out.

### FileHelpers

Each caller is a process that makes one call, a system call a step. `entry` is
what each prefix of one path is, `size` and `unit` one mapped file, `file` the
files of `filestat`. `near`, a ghost, remembers whose call was open at the same
time, and `madeBy` who made a directory. Processes may die within `MapMemFile`.

Every call may also be refused by the system for a reason of its own (rights, a
full disk). `PathTooLong`, a refused `access` or `mkdir`, and an operation of
`filestat` that fails with its source there end as `"refused"`, so that the
properties can tell such an answer from a wrong one; a `cp` or `mv` that fails may
leave a part of a file behind (`"part"`). `OpenFails` is either `open` of
`MapMemFile`, which then returns NULL. The result of its `ftruncate` is dropped:
`short` remembers that it failed.
`FileSpec` is the specification: calls of the three kinds in any mixture.

### TextTools

The functions as operators over texts of bytes; `char` is signed. The C
library's calendar is `Timegm` and `Gmtime`, and local time is universal time
with an offset and one summer. `text` grows byte by byte from a seed and `today`
moves on day by day: the properties compare what the functions return for each.
`ExchangeAll` is `replace`, with its loop cut off once the text could only grow.
`DecodeRoom` is what `decodeBase64Ex` allocates and `DecodeWrites` what it writes.
What follows a `char` variable in memory, which `remove` and `replace` read, is
one of `Strays`.

### CallbackLog

`log[t]` is the one call of a thread: the message is put together (or that
throws, and it is dropped), `m_cbFunc` is tested, and read again to be called:
the makefile does not optimise. `since` gathers the values it had meanwhile.
`CallbackSpec` is the specification, and `SharedCalls` states its property
together with the one of `FileHelpers`.

### MCData

The eleven machines (`LockObjects`, `TextTools` and `FileHelpers` have two, two
and three of them) share no state, and so one run checks them: `kind`
names the one that a behaviour runs, and the other variables keep their initial values.

## 3. The runs

Each property of a passing run was also seen to fail when the definition that
`PROJECT.json` names for it is made wrong.

| Run | Checks | Bounds |
| --- | --- | --- |
| `thread` | `WorkerUsesInitedModel`, `FlagLostOnlyInDelay`, `EndedWasAsked`, `StopReturns` | three threads |
| `queue` | `NoLostWakeup`, `Capacity`, `FifoExactlyOnce`, `CallReturns` | two producers of two items, two consumers, `_size` 1, one spurious wake-up |
| `client` | `WireIsWholeMessages`, `ReadBufIsStream`, `RecvHasRoom`, `QueuedLeaves` | three messages of 2, 1 and 0 bytes, two bytes received per connection |
| `client_reconnect` | `ErrorReconnects`, violated | the same |
| `libevent` | `SentInOrder`, `ReadBufIsStream`, `SilentServerDropped`, `OrphanDropped` | two messages, intervals 1 and 2, two bytes per connection |
| `libevent_heartbeat` | `HeartbeatAfterInterval`, violated | the same |
| `timer` | `KilledFiresAtMostOnce`, `LastRequestCounts`, `TimerFires` | two timers, intervals 1 and 2, two requests waiting, one second of lag |
| `ini` | `CommentsKept`, `Recoverable`, `TornByKill`, `ImplementsStore` | a file of six lines with a repeated section and two blank ones at the end, two writes, one fault each, failing reads, three mappings |
| `ini_success` | `TrueMeansWritten`, violated | the same, no faults |
| `log` | `NothingLost`, `WholeLines`, `LogReturns` | two threads, two units, two paths (one without a separator), two lines, one change of day, one restart, one failure |
| `data` | `ArrayIsList`, `ConversionsHonest`, `JsonValues`, `JsonTexts`, `LinksAgree`, `XmlTexts`, `LocksBalanced`, `SocketsAccounted`, `CallsAgree`, `TextsAndDates` | see below |
| `epoll` | `OwnDescriptor`, `DataIsWatched`, `GoneCalledAtMostOnce`, `DataIsSent` | the detector and one other thread, two contexts, two descriptors |

Why these bounds show the interesting cases:

- `thread`: three threads are a thread that was stopped, one that replaces it,
  and one that a second `startSvr` starts beside it.
- `queue`: with `_size` 1 a queue is full after one item, so that each of the
  two producers can wait, be woken and lose the race; two items each give a
  producer a second call after a timeout; two consumers are what a lost wake-up
  needs. The proofs cover the other sizes.
- `client`: a message of two bytes can be sent in part and one of none is the
  corner of `send`; connections are not bounded, bytes on each of them are.
  `RecvSize` 1 and `Unit` 2 keep the order of the code's 1024 and 4096.
- `libevent`: two messages are enough for an order; ages stop growing one past
  their interval, where no comparison tells them apart any more, so time is not
  bounded.
- `timer`: a timer before and one behind the one that is killed or that throws.
- `ini`: two writes are one that meets the fault and one after it; with three
  mappings the first write works and the second fails in the second `mmap`. Of two
  blank lines at the end, the first write loses one and the second the other.
- `log`: two days of one second: backups of one second clash and others do not.
  Two lines of two threads are what a race needs. The global unit may lock or not,
  the other one does. Every failure explains all that follows for its unit, so one
  of them, or one `initMgr` that is called again, is enough; the proofs cover more.
- `epoll`: two contexts and two descriptors are the least for a batch of two, of
  which the first callback's time is enough to remove the second, and for a
  context that gets the number another one had. Contexts connect and close
  without a bound.

- `data`, JSON: arrays of two elements, so that one of them can be a hole; `Int`
  of six bits, since every conversion is decided at a bound; one comment, in any
  of its three places at any value; texts of five tokens out of ten (colons not
  counted), which are enough for a comment before, between and after the two
  elements of an array or around the member of an object. `RightMargin` 14
  instead of 74 makes the writers break lines of such values.
- `data`, XML: four nodes, one of them not linked, are the least for a child in
  the middle of its siblings to be replaced or removed and for a subtree to be
  cloned; texts of four tokens out of eight can open two elements and close one,
  or the other.
  An attribute with neither name nor value can be set before or behind another one.
- `data`, locks: two threads and three objects: one thread nests two objects,
  also over the same lock, while the other waits. `data`, sockets: the code's
  five tries, two addresses, three descriptors for the caller and the others.
- `data`, files: two processes, a path of two separators, files of two lengths
  and two names: a race is between two. `data`, callback: two loggers and one
  function that is set and taken away.
- `data`, texts: two bytes after a seed of none to four, out of the twelve bytes
  that some function treats in a way of its own; a group of base64 has three
  bytes and the seeds begin one. Dates: the year around February 2024 and the
  days around the end of 1999, with one summer time.

`CHECK_DEADLOCK FALSE` stands in the runs in which the program may really come
to an end: the object is destroyed (`thread`), memory was misused (`client`),
all bounded calls were made (`log`, `data`), or a data race was reached (`epoll`).

What the runs show, beyond "no error":

- `thread`. A stop is lost only in the start delay. After it, `stopSvr` returns;
  the model is never torn down under a worker unless a second `startSvr` lost
  its handle, or the object is destroyed while its worker runs: the destructor of
  the base class joins too late.
- `queue`. No wake-up is lost although `put` and `take` use `notify` and never
  `notifyAll`. `BoundQueue` keeps its size; `CircularQueue` exceeds it by less
  than the number of its producers (plus the spurious wake-ups).
- `client`. Until memory is misused, the peer reads whole messages in order,
  nothing of an old connection, and the program reads the stream.
- `libevent`. Messages go out at most once and in order over all connections,
  also after failing callbacks; a silent server is dropped.
- `timer`. A callback may begin once after `KillTimer`, not twice.
- `ini`. As long as no system call fails, the old or the new contents are
  complete in one of the two files, and the comments stay, but for a last line of
  at most two bytes (a blank one, or `#` and a line end), which every write drops
  (`RdWrIni.cpp:197-200`). Nothing but a kill makes a file that `GetLine` spins on;
  on such a file a read may not end, and a write fills its temporary file with
  blank lines. Between calls the file is the abstract map, except that a read
  answers the default when it cannot read the file (`RdWrIni.cpp:496-500`), as it
  does for a key that is not there.
- `log`. A line is lost, of a unit with a path of its own, only if two threads met
  at the file of a unit that does not lock, `cp` failed, two backups had the same
  second, the log was opened with its old lines (no separator in the path, or a
  failed `mv`) or not truncated and was then written over from its start, a `write`
  failed, or `initMgr` was called again. With the lock, lines are whole but for the
  last three of these.
- `data`, JSON. An array reads as the sequence of `value.h` whatever calls built
  it, except that `resize` to a length whose last index was never touched fails
  its own assertion (`json_value.cpp:967`). What each writer writes is read back
  as the same document, though comments can get lost. The reader accepts every
  JSON text of the tokens, and more: any token separates array elements
  (`json_reader.cpp:566` joins two types by `&&`), and after a comment any token
  separates members; a comment in an empty array is an error; what follows the
  document is ignored. `asInt` of a string answers -1 where it should throw.
- `data`, XML. The lists of nodes are the trees that the calls describe, in both
  directions, and each node is owned once (`LinksAgree`). Every lookup finds
  what the tree has there, a clone is separate and equal but for the attributes
  behind one with neither name nor value, and an int that is set is the one read
  (`TreeAnswers`, a part of `XmlTexts`). Printed documents are read back, but
  for values with `&#x`, white space that is condensed, and texts side by side.
  The reader reports an element that is left open or closed by another's name,
  and accepts text after the document and a declaration without an end.
- `data`, locks. Until a program tries a lock object that has its lock
  (`_lock.h:123-136` forgets the lock then), releases a manual read lock that
  has none or nests under its own write lock, locks are held exactly by the
  objects that took them, the recursive critical section once by every nested
  object. `_holder` never names a thread that is not inside.
- `data`, sockets. No descriptor is left open, none of another thread is closed,
  and a socket returned is non-blocking (unless `fcntl` refused, which nobody
  checks), has both timeouts and is connected (or on its way, from
  `ConnectAsync`). At most five attempts are made per address.
- `data`, files. When the system refuses nothing, `createDirectory` answers false
  wrongly only when another process makes a directory just before it; a mapping is
  too short only if its own `ftruncate` failed (`_tools.cpp:466`) or
  because of callers that map less at the same time, and overwritten only by those and the
  file's creator; a process that died half-way does no harm to the next one. A
  file operation that the system does not refuse fails only when its source went;
  deleting a file that `access` may not look at answers true.
- `data`, texts and dates. base64 gives back every text unless a byte of 128 or
  more is second or third in its group (`base64.cpp:28`), and what decoding writes
  fits what was allocated when the text is padded; without the padding, which
  `testBase64_2` leaves out as well, an encoded text of 0, 1, 2, 3, 5, 6 or 9 bytes is written
  past the end of its buffer (`base64.cpp:86-88`). `replace` does not
  return when the new text contains the old one (`string_util.cpp:82`), although
  `string_util.h:21` says that it replaces the contents; a date
  in summer comes back an hour later from `getOffTM` (`_tools.cpp:187-208`); a
  text that is neither UTF-8 nor GB2312 makes `urlEncode` use a null pointer.
- `data`, callback. A message is lost, or the program stops in it, only if
  `m_cbFunc` was null at some time during the call; so a program that sets it
  before it starts its threads loses none.
- `epoll`. Until a call of a context overlaps its Close or Connect, no context
  uses a descriptor of another. A removed and closed context is called back once
  more at most. The detector can overwrite an EPOLLOUT that was asked for
  meanwhile (it looks at `HasData2Send` before `ModifySocket`); the data is sent
  when the peer next sends something.

### Fairness

- Worker steps are weakly fair: a thread that can go on does.
- `ThreadModel`: `SF(ExitModel)`: an `exitModel()` that is called again and
  again does not throw every time. Nobody has to call `stopSvr`.
- `CondQueue`: waits end (they have timeouts) and a begun call goes on. Calls
  need not be begun. No fairness says that a notify wins against a timeout.
- `ClientFrame`: strong fairness of a socket becoming writable and of a `send`
  that takes something, which says that the peer reads. Nothing else of the
  network is assumed.
- `LibeventClient`: rounds of the loop end and time passes. `Tick` is strongly
  fair because it happens between rounds. Nothing is asked of the server.
- `TimerThread`: the worker goes on, time passes, and a callback that is called
  again and again does not throw every time (strong, for the same reason).
- `LogUnit`: a thread within `log` goes on; the number of calls is bounded, so
  the lock cannot be taken away from it for ever.
- `EpollCtx`: threads go on; the detector gets the lock in the end (strong: the
  others take it in turns). The peer reads and sends: there is input for a
  registered socket again and again, and at times `ProcessEpollOut` sends all
  there is (both strong). Without input, a lost EPOLLOUT stays lost.
- `IniFile` has no liveness property: a read can spin for ever, and does. The
  machines of `data` have none: their calls end by themselves.

### What the violations show

- `client_reconnect`: `clearBuff` (`clientframe.cpp:388`) frees `m_pSendBuffer`
  and keeps the pointer. TLC shows a message sent in part, an error, and a second
  `disconnSvr` (the connect fails) that frees it again. The comment at
  `clientframe.cpp:185` says "error,reconnect".
- `libevent_heartbeat`: `checkAlive` (`clientfrm.cpp:377`) sends a heartbeat in
  every round within the interval and none after it. `clientfrm.h:93` calls the
  number the "send check interval".
- `ini_success`: `WritePrivateProfileString` returns TRUE whatever `CopyFile`
  returned (`RdWrIni.cpp:837`). Without any outside fault, `CopyFile` fails once
  the process has used up its mappings, two of which every write leaves behind;
  the file has been truncated by then and the temporary one is removed.
  `RdWrIni.cpp:692` says "TRUE  - success".

## 4. The proofs

TLAPS checks the theorems for every value of the constants that satisfies the
module's named assumption.

`ThreadProofs`, from `ThreadModelAssumption` (at least one thread),
`TimerThreadAssumption` (at least one timer, finitely many intervals) and
`NobodyAssumption`:

| Theorem | States |
| --- | --- |
| `TypeCorrect` | `Spec => []TypeOK` |
| `WorkerUsesInited` | `Spec => []WorkerUsesInitedModel` |
| `LostOnlyInDelay` | `Spec => []FlagLostOnlyInDelay` |
| `EndsOnlyAsked` | `Spec => []EndedWasAsked` |
| `LastCallCounts` | `TimerSpec => []LastRequestCounts` |
| `KillIsFinal` | `TimerSpec => []KilledFiresAtMostOnce` |
| `LocksStayBalanced` | `LockSpec => []LocksBalanced` |

Of the four for `ThreadModel`, only the types are inductive. `IInv` adds
`OnlyHandleLives` (as long as no handle was lost, only the thread of the handle
is alive), without which a join proves nothing about other threads;
`DelayedStopRecorded` (the owner joins a thread in its delay only if the ghost
`early` has it), `FlagMeansAsked` (a worker that sees the flag, has seen it or
could see it next was asked to stop) and `JoinHasHandle`. `InvStep` has a step
for each action.

`TimerInv` adds what makes the two properties of the timer inductive. As long as
requests wait, the last one for a timer is what was last asked (`WaitCounts`), and
`AllApplied` leaves a timer in the map exactly if the last of its requests set it;
that is shown request by request. A timer that was called back after its
`KillTimer` lies behind the walk or is out of the map (`KilledIsBehind`): the walk
goes upwards, and the next pass applies the request before it walks.

`LockInv` says that, until a misuse, an object took its lock at most once and
its flag tells so (`Sound`), and that a writer excludes readers; `Balanced`
counts, for each thread, what its objects took as a sum over its stack, and
compares that with the number of times the thread is in the recursive critical
section. The lemmas say how that sum changes when the top object is pushed,
popped or changed. `MutexInv` is about `MutexLock` and its `_holder`.

`ContainerProofs`, from `CondQueueAssumption` (finite sets of threads, disjoint,
at least one producer, a `_size` of at least 1), and for the arrays from
`MaxUIntAssumption` (an odd number) and `BuildAssumption` (what is assigned was
made by the constructors, the array's name is no other member's), and for the
nodes from `XmlLinksAssumption` (at least one node) and `XmlBuildAssumption` (what
an element is made with has no attribute twice):

| Theorem | States |
| --- | --- |
| `TypeCorrect` | `Spec => []TypeOK` |
| `NothingSleepsBesideWork` | `Spec => []NoLostWakeup` |
| `CapacityHolds` | `Spec => []Capacity` |
| `TakenInOrder` | `Spec => []FifoExactlyOnce` |
| `JsonArrayIsList` | `BuildSpec => []ArrayIsList` |
| `JsonConversionsHonest` | `BuildSpec => []ConversionsHonest` |
| `XmlLinksAgree` | `XmlBuildSpec => []LinksAgree` |

`NoLostWakeup` is inductive once it is known that nobody waits to put into a
BlockingQueue (`BlockingPutsAtOnce`) and that a call under way has been counted
(`CalledIfBusy`). `Capacity` is not: a woken producer of a CircularQueue pushes
without looking, so it holds a place before it has pushed. `PlacesTaken` counts
the woken producers with the items. The lemmas say by how much the numbers of
waiting and woken threads change when one thread changes its phase, and `Notify`
is treated once: either it wakes a thread, or nobody waits. `FifoExactlyOnce`
stands on `Order`: `taken` and `queue`, one after the other, are what the puts
accepted, or, in a CircularQueue, a part of it in its order.

An array of `Json::Value` is a map from the indices that were touched, and its
size is one more than the greatest of them; `ArrayIsList` alone does not say that
the next call finds it so. `BuildInv` says that every touched index is one of the
list's and holds what the list has there, that an untouched one stands for a null,
and that the last index is touched exactly as long as `aborted` is false: `resize`
to a larger size touches its last index, `resize` to a smaller one only erases, and
that is where its assertion fails. It also keeps every value of the document
`Constructed`, which is all that `ConversionsHonest` needs: the conversions are
compared type by type, for any odd `maxUInt`.

`LinksAgree` relates each node's links to its row in `kids`. That a call keeps it
rests on `Forest`: the rows are linked (`Rows`), a node with a parent is in the
parent's row (`Parents`), and the parents of every node end at a root
(`Grounded`), said as a fact about sets because the provers have no induction: a
set with every root, and with a node its children, is all of the heap. In a forest
`Below` is exactly the children, their children and so on (`BelowIs`), and no node
is below itself (`NotBelowItself`); so what RemoveChild, ReplaceChild, Clear,
`operator=` and `delete` free is closed downwards and nothing left links to it.
The calls that change one row are then alike: `ReworkedForest` says what a change
of one row, with nodes gone or one added, has to do for the forest to stay one, and
each call is shown to do that, link by link (`InsertedForest`, `UnlinkForest`,
`ExchangeForest`, `ClearForest`). `CopyForest` says it of a copy, and that nothing
old is below the copy; `CarriedOnce` that what a copy keeps of the attributes has
none twice either. This is where the order in `ReplaceChild` counts (the clone
is made before the old child is deleted, which may hold the original), and in
`operator=` (the target is cleared before it takes its copy).

`ClientFrameProofs`, from `ClientFrameAssumption` (lengths within `MaxLen`, and
`RecvSize < Unit`, as `UTL_RECV_SIZE` and `LEN_CBUFFSTAT_UNIT` are), and from the
assumptions of `NetFunc`, `FileHelpers` and `CallbackLog`:

| Theorem | States |
| --- | --- |
| `RecvAlwaysHasRoom` | `Spec => []RecvHasRoom` |
| `ReadsTheStream` | `Spec => []ReadBufIsStream` |
| `SendsWholeMessages` | `Spec => []WireIsWholeMessages` |
| `NoSocketLost` | `NetSpec => []SocketsAccounted` |
| `AnswersAreTrue` | `FileSpec /\ CallbackSpec => []CallsAgree` |

`ReadBufIsStream` is inductive once it is known that a client without a socket
has an empty read buffer: `got` starts again with the next connection
(`ReadInv`). What a receive does to the buffer is a fact about sequences,
`ReceivedAreNewest` of `DataLemmas`. `WireIsWholeMessages` needs `SendInv`: the
list is the end of `queued` (`ListInv`), and the buffer being sent goes on exactly
where the wire ends, or the wire ends with a whole message that left the list
earlier (`BufInv`). A freed buffer needs no such thing, since its next use stops
the program.

For `NoSocketLost`, `NetInv` says what has been done to `fd` at each
place (`DoneSoFar`), that `iCount` counts the attempts (`TriesCounted`), that a
call that returns no socket has no address left (`AllTried`), and that `fd` is
the caller's only descriptor (`Owners`). The system gives out the lowest free
number; that a set of numbers has a lowest one is `MinIsMember`, from the
well-foundedness of `<`.

`AnswersAreTrue` is about all that `FileSpec` and `CallbackSpec` allow, which is
more than the run does: there each process makes one call, of one kind.
`PathInv` says that nothing lies below what is no directory (`NothingBelow`) and
what a `createDirectory` under way has behind it. Refused calls are in the
theorem too: `PathMade` and `AnswerExplained` speak of the answers that are not.
`MapInv` knows whose calls were open together (`NearKnown`), and that who is
about to cut the file off measured it when it was long enough (`MapFits`): that
is why a call that maps as much as all the others keeps its pages. `FileInv` and
`CallbackInv` relate a call under way to what its ghost has seen.

`LibeventClientProofs`, from `LibeventClientAssumption` (positive constants):

| Theorem | States |
| --- | --- |
| `NoCallbackOnSilence` | `Spec => []SilentServerDropped` |
| `ReadsTheStream` | `Spec => []ReadBufIsStream` |
| `SendsInOrder` | `Spec => []SentInOrder` |

`AgeInv` adds that a connection that is up was heard of at least once, without
which the code compares with a time that is 0. `LineInv` says that wire, output,
`m_pSendBuffer` and list, one after the other, are in the order of `queued`, with
`Before` for each pair, because a lost connection drops any of the middle ones.

`EpollCtxProofs`, from `EpollCtxAssumption`:

| Theorem | States |
| --- | --- |
| `UsesOwnDescriptor` | `Spec => []OwnDescriptor` |
| `GoneIsCalledOnce` | `Spec => []GoneCalledAtMostOnce` |
| `WatchesData` | `Spec => []DataIsWatched` |

`IInv` adds `NoneMeets` (until a call has overlapped a Close, no thread is
between `close(_socket)` and `_socket = -1` of a context that another thread
calls or is about to close) and `HoldsOwn` (a call that passed its first look at
`_socket` finds the same descriptor under the lock). This is the argument for
the two reads of `_socket`: `Close` takes no lock, so it is the order of the
program's calls, and nothing else, that makes them agree. `GoneInv` says that
what is gone is registered nowhere, so that no later batch has it, and that a
batch has one event of a context. `SendInv` says that, when the data of a
registered context is not watched, some thread is on its way to ask for EPOLLOUT
or to remove it (`Watched`), and that data which comes while a call asks for
EPOLLIN is noted (`InputOvertaken`).

`LogUnitProofs`, from `LogUnitAssumption`:

| Theorem | States |
| --- | --- |
| `TypeCorrect` | `Spec => []TypeOK` |
| `LinesAreKept` | `Spec => []NothingLost` |
| `LinesAreWhole` | `Spec => []WholeLines` |

`LogUnitAssumption` says that the bare paths are paths and the bounds numbers. Both
properties are about a unit that shares its path with no other and was not spoilt.
They need
that its open file is what its path names (`OpenIsLog`), that two names never have
one inode (`NamesDiffer`), that the file of a unit never gets under another path
(`PathsApart`), that its offset is the end of its file (`AtEnd`), which is where the
old lines of a file that was kept would be written over, and that two threads are at
the file of a unit together only where
it does not lock, in which case `spoilt` has the race (`Alone`). Then what was
finished is in the log or in a backup (`Kept`), before the truncation all of it is
in a backup (`BackedUp`), and a line that was begun is in the log (`Begun`). For
whole lines, the number of entries of the file is odd exactly while somebody is
between the message and the line end (`Lines`).

`IniFileProofs`, from `IniFileAssumption`:

| Theorem | States |
| --- | --- |
| `TypeCorrect` | `Spec => []TypeOK` |
| `NothingIsLost` | `Spec => []Recoverable` |
| `TornOnlyByKill` | `Spec => []TornByKill` |
| `CommentsStay` | `Spec => []CommentsKept` |
| `IsAMap` | `KeysOnce => (Spec => ImplementsStore)` |

`IInv` follows the two files through a write: the temporary file is a beginning of
the new contents, and all of them unless the disk was full (`TmpIsMade`); the file
is the old one until it is truncated, then empty, then a beginning of the temporary
one (`FileIs`); a call ends only when one of the two is whole or a failure says why
not (`Rests`). What `Rewrite` makes of a file is proved along its lines: that the
result is lines, has the comments of the lines it read (`CommentsStay` adds the
last one that `GetLine` hides), and gives each key the value a
map would give it. `IsAMap` is the refinement: every step is a step of `IniStore`
or leaves its map alone, with a lemma for each action. `KeysOnce` says that no file
has a key twice in one section at first, a section split in two being one; a write
keeps it so. It is needed: with such a key, a write changes the first line only and
a deletion brings the second one to light, so the file is no map. The files of the
run satisfy it.

The installed provers cannot use the library's induction theorems, because these
take an operator. The proofs about functions that go along a sequence (`Rewrite`,
`AllApplied`, the search of `GetString`, the sums of `LockObjects`) use `Counting`
of `DataLemmas` instead, which is about a set: one that has 0 and, with every
number before n, the next one, has all of `0 .. n`. It follows from the
well-foundedness of `<`.

Only model-checked:

- all liveness (`StopReturns`, `CallReturns`, `QueuedLeaves`, `OrphanDropped`,
  `TimerFires`, `DataIsSent`, `LogReturns`): fairness and `ENABLED` are out of
  TLAPS's reach;
- `JsonValues`, `JsonTexts`, `XmlTexts` and `TextsAndDates`: their modules have
  recursive operators, which TLAPS does not take, and compute on data of any
  depth. That includes the lookups of TinyXML, and that the calls of `Clone` leave
  the copy that `XmlLinks` says;
- what the three violation runs show.

## 5. The plan

In the order of importance; all but the last are done.

1. `ThreadModel` and its proofs: everything with a thread stands on it.
2. `CondQueue` and its proofs.
3. `ClientFrame`, `LibeventClient`: the largest state machines of the library.
4. `TimerThread`.
5. `IniStore` and `IniFile`: the one part that keeps data over a crash, as a
   refinement of a map.
6. `LogUnit`.
7. `EpollCtx`.
8. The libraries that keep documents: JSON and TinyXML, as functions and as
   state machines with a plain reference beside them.
9. The helpers: locks, sockets, files, texts, dates, the callback log.
10. More proofs: `FifoExactlyOnce`, the timer, the log, the INI file and its
    refinement, the rest of `EpollCtx`, the locks, the files, the callback log,
    and what can be stated without recursion of the trees: the JSON arrays and
    conversions, the links of TinyXML's nodes.
11. What is left: the step-by-step facts under the liveness properties that are
    safety (what a step of another thread may not undo), and the calendar, which
    could be stated without recursion.

## 6. What is not modelled

- Durations and widths of numbers that only decide how often something happens:
  the remaining time that Linux's `select` writes back, the heartbeat that is
  sent in every round once its first interval is over.
- The destructor of `clientfrmModel` while its worker runs: undefined from its
  first step (`ThreadModel` has the destructor of the base class, and that it is too
  late). `unInitModel` while a lost thread runs, likewise.
- Races inside libevent when it is used from two threads without
  `evthread_use_pthreads`.
- `log/log.c` includes headers that are not in the repository and cannot be
  built from it. `_EpollCtx.cpp` includes some as well; its logic is modelled.
- `ServiceFrame` calls virtual functions that nothing here implements, around
  `fork`, `getopt` and signal handlers, and includes a header that is not in the
  repository. Its `prog_exit` runs in a signal handler, where what it calls
  (streams, the service's own functions) is undefined.
- Syslog, atomic counters, conversions of numbers by streams, random numbers:
  one call of the system or the compiler each. The libevent server frame, which
  is a stub. libevent's headers. The Windows branches.
- Joining a thread handle that a failed `pthread_create` left undefined
  (`_threadModel.cpp:97`): `ThreadModel` has both outcomes and no property could
  exclude the bad one. A `bufferevent_socket_connect` that fails
  (`clientfrm.cpp:341`) leaves a client that never reconnects unless the receive
  check is on: `LibeventClient` shows it as `"dead"`, and no document promises
  otherwise.
- JSON: the allocator, streams, the maps that are not compiled in; and two buffers
  of 32 bytes. `sprintf` of a double with more than 24 bytes before the point
  overflows one (`json_writer.cpp:68-72`), and the zero behind a number of exactly
  32 characters is written past the other (`json_reader.cpp:623-630`). A number of
  that length is out of TLC's reach. TinyXML:
  encodings other than UTF-8, reading from a `FILE`, `TiXmlString`, attributes
  read as `double`.
- `MapMemFile`'s `MAP_FAILED`, which its test for NULL lets through
  (`_tools.cpp:469`), is a step of the model; what the caller does with it is not.
