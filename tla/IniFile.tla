------------------------------ MODULE IniFile -------------------------------
(***************************************************************************)
(* The INI reader and writer, rdwrini/RdWrIni.{h,cpp}.  A write reads the  *)
(* file into memory (g_pData), writes the changed lines to a temporary     *)
(* file, and lets CopyFile replace the contents of the original by way of  *)
(* two mappings, which are never unmapped.  gcsLock makes the calls of a   *)
(* process follow each other; the process may be killed at any point and   *)
(* start again.                                                            *)
(*                                                                         *)
(* A line is a record.  The names stand for names that are equal but for   *)
(* their case; "Hash" are the ones that contain a '#', which turns the     *)
(* whole line into a comment.  Text is torn at the end of a line only.     *)
(* Blank is an empty line, which counts as a comment; as the last line of  *)
(* a first file it also stands for what else may be there in two bytes.    *)
(***************************************************************************)
EXTENDS Naturals, Sequences, FiniteSetsExt

CONSTANTS
    Section, Key, Value,
    Hash,           \* the keys and values that contain a '#'
    ReadAs(_),      \* a value without its spaces and quotes, NoValue if empty
    NoValue,        \* no value, and a NULL argument
    Default,        \* lpDefault
    InitFiles,      \* the contents the file may have at first
    MaxMaps,        \* how many mappings the process may have
    Faults,         \* the system calls that may fail, and "kill"
    MaxCalls,       \* bound: how many writes are called
    MaxHits         \* bound: how many failures a write meets

ASSUME IniFileAssumption ==
    /\ NoValue \notin Key \cup Value
    /\ \A v \in Value : ReadAs(v) \in Value \cup {NoValue}
    /\ Section \cap Hash = {}
    /\ Faults \subseteq {"read", "creat", "full", "open", "grow", "map", "kill"}
    /\ {MaxMaps, MaxCalls, MaxHits} \subseteq Nat

Comment == [type |-> "comment"]
Blank == [type |-> "blank"]
Header(s) == [type |-> "section", name |-> s]
Pair(k, v) == [type |-> "pair", name |-> k, value |-> v]
Line == {Comment, Blank} \cup {Header(s) : s \in Section} \cup {Pair(k, v) : k \in Key, v \in Value}

\* A write: the key NULL deletes the section, the string NULL deletes the key.
Request ==
    {r \in [app : Section, key : Key \cup {NoValue}, str : Value \cup {NoValue}] :
        r.key = NoValue => r.str = NoValue}

\* The lines of a file and the zeros behind them: "few" are the two of a blank line.
File == [lines : Seq(Line), zeros : {"no", "few", "many"}]
Empty == [lines |-> <<>>, zeros |-> "no"]

ASSUME InitFilesAssumption == \A ls \in InitFiles : ls \in Seq(Line)

VARIABLES
    file,           \* the file: its lines, and whether zeros follow them
    tmp,            \* the lines of the temporary file, none without one
    pc,             \* where WritePrivateProfileString is; GetLine's callers
                    \* never end in "spin" (a read) and "blanks" (a write)
    req,            \* its arguments
    g_pData,        \* the file as it was read
    maps,           \* the mappings of the process
    ret,            \* what the last call that ended returned
    calls,          \* the writes called
    old,            \* ghost: the file when the write was called
    hit,            \* ghost: the failures of this write
    missed          \* ghost: whether the last read could not read the file

ghosts == <<old, hit, missed>>
vars == <<file, tmp, pc, req, g_pData, maps, ret, calls, old, hit, missed>>

\* What GetLine makes of zeros: at the start of the file and where no more than
\* two bytes are left it reports the end, elsewhere it returns the same offset
\* again and again.
Endless(f) == f.zeros = "many" /\ f.lines # <<>>
Torn == Endless(file)

\* The end that GetLine reports where two bytes are left hides a last line.
EndsBlank(f) == f.zeros = "no" /\ f.lines # <<>> /\ f.lines[Len(f.lines)] = Blank
GetLines(f) == IF EndsBlank(f) THEN SubSeq(f.lines, 1, Len(f.lines) - 1) ELSE f.lines

TypeOK ==
    /\ file \in File
    /\ tmp \in Seq(Line)
    /\ pc \in {"idle", "creat", "open", "grow", "map", "copy", "remove", "spin", "blanks"}
    /\ req \in Request
    /\ g_pData \in File
    /\ maps \in 0 .. MaxMaps
    /\ ret \in Value \cup {"none", "TRUE", "FALSE", Default}
    /\ calls \in 0 .. MaxCalls
    /\ old \in File
    /\ hit \subseteq Faults \cup {"map"}
    /\ missed \in BOOLEAN

Init ==
    /\ file \in [lines : InitFiles, zeros : {"no"}]
    /\ tmp = <<>>
    /\ pc = "idle"
    /\ req \in {r \in Request : r.key = NoValue}
    /\ g_pData = Empty
    /\ maps = 0
    /\ ret = "none"
    /\ calls = 0
    /\ old = file
    /\ hit = {}
    /\ missed = FALSE

-----------------------------------------------------------------------------
(* Lines.                                                                  *)

IsComment(l) ==
    \/ l.type \in {"comment", "blank"}
    \/ l.type = "pair" /\ {l.name, l.value} \cap Hash # {}

IsSection(l) == l.type = "section"
IsKey(l, k) == l.type = "pair" /\ ~IsComment(l) /\ l.name = k

\* GetString: the lines of the first section s, and the lines of key k in it.
Body(ls, s) ==
    LET heads == {i \in DOMAIN ls : ls[i] = Header(s)}
    IN  IF heads = {} THEN {}
        ELSE {i \in DOMAIN ls : i > Min(heads) /\
                  \A j \in Min(heads) + 1 .. i : ~IsSection(ls[j])}

Hits(ls, s, k) == {i \in Body(ls, s) : IsKey(ls[i], k)}

GetString(ls, s, k) ==
    IF Hits(ls, s, k) = {} THEN NoValue ELSE ReadAs(ls[Min(Hits(ls, s, k))].value)

\* The search passes the last line: nothing ended it before.
ReachesEnd(ls, s, k) ==
    /\ Hits(ls, s, k) = {}
    /\ ~ \E i, j \in DOMAIN ls : i < j /\ ls[i] = Header(s) /\ IsSection(ls[j])

\* WriteValue without a section.
WriteValue(r) ==
    IF r.key = NoValue \/ r.str = NoValue THEN <<>> ELSE <<Pair(r.key, r.str)>>

\* Mutant: a key that its section does not have is forgotten.
EndSection_Forget(at, r) ==
    IF at.inside /\ ~at.bWrote THEN [at EXCEPT !.bWrote = TRUE] ELSE at

\* At the end of the section a key that was not found is written.
EndSection(at, r) ==
    IF at.inside /\ ~at.bWrote
    THEN [at EXCEPT !.out = @ \o WriteValue(r), !.bWrote = TRUE] ELSE at

\* Mutant: deleting a section deletes the comments in it.
InSection_Comments(at, l, r) ==
    CASE ~at.bWrote /\ IsKey(l, r.key) ->
             [at EXCEPT !.out = @ \o WriteValue(r), !.bWrote = TRUE]
      [] r.key = NoValue -> at
      [] OTHER -> [at EXCEPT !.out = Append(@, l)]

\* A line of the section: its comments stay, the first line of the key is
\* replaced, and the others stay unless the section is to be deleted.
InSection(at, l, r) ==
    CASE IsComment(l) -> [at EXCEPT !.out = Append(@, l)]
      [] ~at.bWrote /\ IsKey(l, r.key) ->
             [at EXCEPT !.out = @ \o WriteValue(r), !.bWrote = TRUE]
      [] OTHER -> IF r.key = NoValue THEN at ELSE [at EXCEPT !.out = Append(@, l)]

\* A line outside of the section, or the header that ends it.
Outside(at, l, r) ==
    [EndSection(at, r) EXCEPT
        !.inside = l = Header(r.app),
        !.out = IF l = Header(r.app) /\ r.key = NoValue THEN @ ELSE Append(@, l)]

Start == [out |-> <<>>, inside |-> FALSE, bWrote |-> FALSE]

Copied(at, l, r) ==
    IF at.inside /\ ~IsSection(l) THEN InSection(at, l, r) ELSE Outside(at, l, r)

\* After the last line: a section that was not found is added with its key.
Completed(at, r) ==
    LET end == EndSection(at, r)
    IN  IF end.bWrote \/ WriteValue(r) = <<>> THEN end.out
        ELSE end.out \o <<Header(r.app)>> \o WriteValue(r)

\* What the loop over the lines has written after the last one.
Processed(ls, r) ==
    LET at[i \in 0 .. Len(ls)] == IF i = 0 THEN Start ELSE Copied(at[i - 1], ls[i], r)
    IN  at[Len(ls)]

\* The temporary file that a write makes of the lines GetLine reports.
Rewrite(ls, r) == Completed(Processed(ls, r), r)

-----------------------------------------------------------------------------
(* Calls.                                                                  *)

\* GetPrivateProfileString, of a file that it can search.
Get(s, k) ==
    /\ pc = "idle"
    /\ ~(Torn /\ ReachesEnd(file.lines, s, k))
    /\ ret' = LET v == GetString(file.lines, s, k)
              IN  IF v = NoValue THEN Default ELSE v
    /\ missed' = FALSE
    /\ UNCHANGED <<file, tmp, pc, req, g_pData, maps, calls, old, hit>>

\* The same, but ReadIniFile returns 0: the key is not looked for.
GetReadFails ==
    /\ pc = "idle"
    /\ "read" \in Faults
    /\ ret' = Default
    /\ missed' = TRUE
    /\ UNCHANGED <<file, tmp, pc, req, g_pData, maps, calls, old, hit>>

GetSpins(s, k) ==
    /\ pc = "idle"
    /\ Torn /\ ReachesEnd(file.lines, s, k)
    /\ pc' = "spin"
    /\ UNCHANGED <<file, tmp, req, g_pData, maps, ret, calls, old, hit, missed>>

MayFail(f) == f \in Faults /\ Cardinality(hit \cup {f}) <= MaxHits
Fails(f) == MayFail(f) /\ hit' = hit \cup {f}

\* WritePrivateProfileString up to ReadIniFile.
Call(r) ==
    /\ pc = "idle"
    /\ calls < MaxCalls
    /\ calls' = calls + 1
    /\ req' = r
    /\ old' = file
    /\ hit' = {}
    /\ pc' = "creat"
    /\ g_pData' = file
    /\ UNCHANGED <<file, tmp, maps, ret, missed>>

\* The same, but ReadIniFile returns 0, which an empty file does as well.
CallReadFails(r) ==
    /\ pc = "idle"
    /\ calls < MaxCalls
    /\ "read" \in Faults
    /\ calls' = calls + 1
    /\ req' = r
    /\ old' = file
    /\ hit' = {"read"}
    /\ pc' = "creat"
    /\ g_pData' = Empty
    /\ UNCHANGED <<file, tmp, maps, ret, missed>>

\* creat, and the lines of the temporary file.
Creat ==
    /\ pc = "creat"
    /\ ~Endless(g_pData)
    /\ tmp' = Rewrite(GetLines(g_pData), req)
    /\ pc' = "open"
    /\ UNCHANGED <<file, req, g_pData, maps, ret, calls, old, hit, missed>>

\* The zeros of a torn file are read as blank lines without end, and written: one
\* of them stands for all.
CreatSpins ==
    /\ pc = "creat"
    /\ Endless(g_pData)
    /\ tmp' = Append(Processed(g_pData.lines, req).out, Blank)
    /\ pc' = "blanks"
    /\ UNCHANGED <<file, req, g_pData, maps, ret, calls, old, hit, missed>>

CreatFails ==
    /\ pc = "creat"
    /\ Fails("creat")
    /\ pc' = "idle"
    /\ ret' = "FALSE"
    /\ UNCHANGED <<file, tmp, req, g_pData, maps, calls, old, missed>>

\* Nobody looks at what the writes return.
CreatFull ==
    /\ pc = "creat"
    /\ ~Endless(g_pData)
    /\ Fails("full")
    /\ LET made == Rewrite(GetLines(g_pData), req)
       IN  \E n \in 0 .. Len(made) - 1 : tmp' = SubSeq(made, 1, n)
    /\ pc' = "open"
    /\ UNCHANGED <<file, req, g_pData, maps, ret, calls, old, missed>>

\* Mutant: the temporary file is removed as soon as CopyFile has it open.
Open_Remove ==
    /\ pc = "open"
    /\ file' = Empty
    /\ tmp' = <<>>
    /\ pc' = "grow"
    /\ UNCHANGED <<req, g_pData, maps, ret, calls, old, hit, missed>>

\* CopyFile: open, with O_TRUNC.
Open ==
    /\ pc = "open"
    /\ file' = Empty
    /\ pc' = "grow"
    /\ UNCHANGED <<tmp, req, g_pData, maps, ret, calls, old, hit, missed>>

OpenFails ==
    /\ pc = "open"
    /\ Fails("open")
    /\ pc' = "remove"
    /\ UNCHANGED <<file, tmp, req, g_pData, maps, ret, calls, old, missed>>

\* lseek to the size less 1 and write one byte.  A size of 0 is 2^32 here.
Grow ==
    /\ pc = "grow"
    /\ file' = [file EXCEPT !.zeros = "many"]
    /\ pc' = "map"
    /\ UNCHANGED <<tmp, req, g_pData, maps, ret, calls, old, hit, missed>>

GrowFails ==
    /\ pc = "grow"
    /\ Fails("grow")
    /\ pc' = "remove"
    /\ UNCHANGED <<file, tmp, req, g_pData, maps, ret, calls, old, missed>>

Map ==
    /\ pc = "map"
    /\ tmp # <<>> /\ maps + 2 <= MaxMaps
    /\ maps' = maps + 2
    /\ pc' = "copy"
    /\ UNCHANGED <<file, tmp, req, g_pData, ret, calls, old, hit, missed>>

\* mmap fails at the limit, and for the length 0, which loses nothing.
MapFails ==
    /\ pc = "map"
    /\ tmp = <<>> \/ maps + 2 > MaxMaps \/ MayFail("map")
    /\ maps' = IF tmp # <<>> /\ maps < MaxMaps THEN maps + 1 ELSE maps
    /\ hit' = IF tmp = <<>> THEN hit ELSE hit \cup {"map"}
    /\ pc' = "remove"
    /\ UNCHANGED <<file, tmp, req, g_pData, ret, calls, old, missed>>

\* The zeros behind the first n lines of the copy.
Unwritten(n) == CASE n >= Len(tmp) -> "no"
                  [] n + 1 = Len(tmp) /\ tmp[Len(tmp)] = Blank -> "few"
                  [] OTHER -> "many"

\* Mutant: memcpy of one line less.
Copy_Short ==
    /\ pc = "copy"
    /\ LET n == Len(file.lines) + 1
       IN  /\ file' = [lines |-> SubSeq(tmp, 1, n), zeros |-> Unwritten(n)]
           /\ pc' = IF n + 1 < Len(tmp) THEN "copy" ELSE "remove"
    /\ UNCHANGED <<tmp, req, g_pData, maps, ret, calls, old, hit, missed>>

\* memcpy goes on to the next line.
Copy ==
    /\ pc = "copy"
    /\ LET n == Len(file.lines) + 1
       IN  /\ file' = [lines |-> SubSeq(tmp, 1, n), zeros |-> Unwritten(n)]
           /\ pc' = IF n < Len(tmp) THEN "copy" ELSE "remove"
    /\ UNCHANGED <<tmp, req, g_pData, maps, ret, calls, old, hit, missed>>

\* remove the temporary file and return TRUE, whatever CopyFile returned.
RemoveTemp ==
    /\ pc = "remove"
    /\ tmp' = <<>>
    /\ pc' = "idle"
    /\ ret' = "TRUE"
    /\ g_pData' = Empty
    /\ UNCHANGED <<file, req, maps, calls, old, hit, missed>>

\* The process is killed and starts again, one that hangs at any rate.  The files stay.
Kill ==
    /\ "kill" \in Faults /\ (MayFail("kill") \/ pc \in {"spin", "blanks"})
    /\ hit' = hit \cup {"kill"}
    /\ pc # "idle" \/ maps > 0
    /\ pc' = "idle"
    /\ maps' = 0
    /\ g_pData' = Empty
    /\ UNCHANGED <<file, tmp, req, ret, calls, old, missed>>

Write ==
    \/ \E r \in Request : Call(r) \/ CallReadFails(r)
    \/ Creat \/ CreatSpins \/ CreatFails \/ CreatFull
    \/ Open \/ OpenFails \/ Grow \/ GrowFails \/ Map \/ MapFails \/ Copy \/ RemoveTemp

Next ==
    \/ \E s \in Section, k \in Key : Get(s, k) \/ GetSpins(s, k)
    \/ GetReadFails
    \/ Write
    \/ Kill

Spec == Init /\ [][Next]_vars

-----------------------------------------------------------------------------
(* Properties.                                                             *)

Comments(ls) ==
    LET among[i \in 0 .. Len(ls)] ==
            IF i = 0 THEN <<>>
            ELSE IF IsComment(ls[i]) THEN Append(among[i - 1], ls[i]) ELSE among[i - 1]
    IN  among[Len(ls)]

\* A write keeps the comment lines and their order, in the whole file and when it
\* deletes a section ("leave the comments intact"), but for a last line that GetLine
\* takes for the end of the file: a blank one, or a comment of at most two bytes.
CommentsKept ==
    pc = "open" /\ hit = {} /\ {req.key, req.str} \cap Hash = {} =>
        Comments(old.lines) =
            IF EndsBlank(old) THEN Append(Comments(tmp), Blank) ELSE Comments(tmp)

\* As long as the system calls of this write do not fail, the old contents or
\* the new ones are complete in one of the two files, wherever it is killed.
\* Contents without lines need no file.
Recoverable ==
    hit \subseteq {"kill"} =>
        \/ file.lines = old.lines
        \/ file.lines = Rewrite(GetLines(old), req) /\ ~Torn
        \/ tmp = Rewrite(GetLines(old), req)

\* A write leaves text followed by zeros, on which every later write spins in
\* GetLine, only if it is killed or found them and did not touch the file; a copy
\* that fails leaves zeros alone, which read as no text.
TornByKill == pc = "idle" /\ Torn => "kill" \in hit \/ file = old

\* A write that returns TRUE has been made (the comment of
\* WritePrivateProfileString: "TRUE  - success").
TrueMeansWritten ==
    pc = "idle" /\ ret = "TRUE" /\ calls > 0 =>
        LET alone == <<Header(req.app), Pair(req.key, req.str)>>
        IN  req.str # NoValue => GetString(file.lines, req.app, req.key) =
                                 GetString(alone, req.app, req.key)

View(ls) == [e \in Section \X Key |-> GetString(ls, e[1], e[2])]

Stored(k, v) == IF {k, v} \cap Hash # {} THEN NoValue ELSE ReadAs(v)

\* The file is a map, as seen between two calls: reads return what was last
\* written, or the default if they could not read the file; a write changes what it
\* names and nothing else, and one that a failure or a kill cuts short only loses
\* values.
Store == INSTANCE IniStore WITH
    ReadAs <- Stored,
    store <- IF pc \in {"idle", "spin"} THEN View(file.lines) ELSE View(old.lines),
    pending <- IF pc \in {"idle", "spin"} THEN {} ELSE {req},
    cut <- hit # {}

ImplementsStore == Store!Spec
=============================================================================
