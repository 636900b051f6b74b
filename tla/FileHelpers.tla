---------------------------- MODULE FileHelpers ----------------------------
(***************************************************************************)
(* Helpers that make several system calls on a path other processes use    *)
(* too, one call a step: createDirectory and MapMemFile                    *)
(* (src/utils/tools/_tools.cpp) and the operations on files of             *)
(* src/utils/filestat/filestat.cpp, whose FScreateDirctory is              *)
(* createDirectory with the permission its caller asks for.  Any of the    *)
(* calls may also be refused for a reason of the system's own: a right     *)
(* that is missing, a full disk, a path or a shell command that is bad.    *)
(***************************************************************************)
EXTENDS Integers, Sequences, FiniteSets

CONSTANTS Callers,  \* processes, each of which makes one call
          Depth,    \* bound: separators of the path after its first character
          Lengths,  \* bound: lengths that are mapped, in units
          FilePaths     \* bound: the files there may be
ASSUME FileAssumption == /\ Depth \in Nat \ {0} /\ Lengths \subseteq Nat \ {0}
                         /\ "zero" \notin Callers /\ "none" \notin FilePaths \cup {"part"}

VARIABLES entry,   \* what each prefix of the path is; "locked": it may not be entered
          madeBy,  \* who made each prefix, if one of them did
          size,    \* the mapped file's length, or -1 when there is none
          unit,    \* what its units hold: "zero", or the process that wrote there
          file,    \* the content of each file, by its first name: "part" when a
                   \* failing cp or mv left a part of one, None when there is no file
          call     \* each caller's call: where it is, its arguments and locals

fileVars == <<entry, madeBy, size, unit, file, call>>

None == "none"
Units == 1..CHOOSE n \in Lengths : \A m \in Lengths : n >= m
At_(c) == call[c].at
Proceeds(c, step) == call' = [call EXCEPT ![c].at = step]
Answers(c, result) == call' = [call EXCEPT ![c].at = "returned", ![c].result = result]
Refused(c) == call' = [call EXCEPT ![c].at = "refused", ![c].result = FALSE]

Directories == {s \in [1..Depth -> {None, "directory", "locked", "file"}] :
                   \A i \in 1..Depth - 1 : s[i] # "directory" => s[i + 1] = None}
Begun(step) == [at |-> step, result |-> FALSE]

FileInit == /\ entry \in Directories /\ madeBy = [i \in 1..Depth |-> None]
            /\ size \in {-1} \cup Lengths /\ unit = [u \in Units |-> "zero"]
            /\ file \in [FilePaths -> FilePaths \cup {None}]
            /\ \A p \in FilePaths : file[p] \in {p, None}
            /\ call = [c \in Callers |-> Begun("idle")]

-----------------------------------------------------------------------------
(* createDirectory always makes directories its owner may enter;           *)
(* FScreateDirctory makes what it is told to.                              *)
CreatesPath(c, kind) ==
    /\ At_(c) = "idle"
    /\ call' = [call EXCEPT ![c] = [at |-> "access", result |-> FALSE, i |-> 1, kind |-> kind]]
    /\ UNCHANGED <<entry, madeBy, size, unit, file>>
CreateDirectory(c) == CreatesPath(c, "directory")
FScreateDirctory(c) == \E kind \in {"directory", "locked"} : CreatesPath(c, kind)
PathTooLong(c) == /\ At_(c) = "idle"                  \* NULL, or more than 256 bytes
                  /\ Refused(c)
                  /\ UNCHANGED <<entry, madeBy, size, unit, file>>

NextPrefix(c) == IF call[c].i = Depth THEN Answers(c, TRUE)
           ELSE call' = [call EXCEPT ![c].at = "access", ![c].i = @ + 1]
Barred(i) == \E j \in 1..i - 1 : entry[j] = "locked"

(* access(): a regular file passes for a directory; ENOENT and ENOTDIR lead *)
(* to mkdir, EACCES and any other error end the call.                      *)
Access(c) ==
    /\ At_(c) = "access"
    /\ LET i == call[c].i IN
       \/ entry[i] # None /\ NextPrefix(c)
       \/ entry[i] = None /\ Barred(i) /\ Answers(c, FALSE)
       \/ entry[i] = None /\ ~Barred(i) /\ Proceeds(c, "mkdir")
       \/ Refused(c)
    /\ UNCHANGED <<entry, madeBy, size, unit, file>>

MkDir(c) ==
    /\ At_(c) = "mkdir"
    /\ LET i == call[c].i
           possible == entry[i] = None /\ (i > 1 => entry[i - 1] = "directory")
       IN  \/ /\ possible
              /\ entry' = [entry EXCEPT ![i] = call[c].kind]
              /\ madeBy' = [madeBy EXCEPT ![i] = c]
              /\ NextPrefix(c)
           \/ ~possible /\ Answers(c, FALSE) /\ UNCHANGED <<entry, madeBy>>
           \/ possible /\ Refused(c) /\ UNCHANGED <<entry, madeBy>>
    /\ UNCHANGED <<size, unit, file>>

-----------------------------------------------------------------------------
(* MapMemFile: the file is created (O_EXCL) or opened; only the creator    *)
(* clears it.  near gathers the callers whose call was open at some time   *)
(* while this one was; short says that ftruncate failed, which nobody sees.*)
Opening == {c \in Callers : At_(c) \in {"lseek", "ftruncate", "mmap", "memset"}}
Open_(c) ==
    /\ At_(c) = "idle"
    /\ size' = (IF size = -1 THEN 0 ELSE size)
    /\ \E n \in Lengths :
          call' = [d \in Callers |->
              IF d = c THEN [at |-> IF size = -1 THEN "ftruncate" ELSE "lseek", result |-> FALSE,
                             length |-> n, len |-> 0, bCanInit |-> size = -1, near |-> Opening,
                             short |-> FALSE]
              ELSE IF d \in Opening THEN [call[d] EXCEPT !.near = @ \cup {c}]
              ELSE call[d]]
    /\ UNCHANGED <<entry, madeBy, unit, file>>

OpenFails(c) == /\ At_(c) = "idle"                     \* the second open as well
                /\ Proceeds(c, "NULL")
                /\ UNCHANGED <<entry, madeBy, size, unit, file>>

LSeek(c) == /\ At_(c) = "lseek"
            /\ call' = [call EXCEPT ![c].at = "ftruncate", ![c].len = size]
            /\ UNCHANGED <<entry, madeBy, size, unit, file>>

(* To the length that was too short when it was measured: this may shrink  *)
(* the file, and what is cut off reads as zero when it grows again.        *)
FTruncate_Mutation(c) ==               \* whatever length was measured
    /\ At_(c) = "ftruncate"
    /\ Proceeds(c, "mmap")
    /\ size' = call[c].length
    /\ unit' = [u \in Units |-> IF u > size' THEN "zero" ELSE unit[u]]
    /\ UNCHANGED <<entry, madeBy, file>>
FTruncate(c) ==
    /\ At_(c) = "ftruncate"
    /\ \/ /\ Proceeds(c, "mmap")
          /\ size' = (IF call[c].len < call[c].length THEN call[c].length ELSE size)
          /\ unit' = [u \in Units |-> IF u > size' THEN "zero" ELSE unit[u]]
       \/ /\ call[c].len < call[c].length
          /\ call' = [call EXCEPT ![c].at = "mmap", ![c].short = TRUE]
          /\ UNCHANGED <<size, unit>>
    /\ UNCHANGED <<entry, madeBy, file>>

(* mmap reports its failure by MAP_FAILED, which the test for NULL lets    *)
(* through: the caller gets it for a pointer, and the creator's memset     *)
(* stops the process.                                                      *)
MMap(c) == /\ At_(c) = "mmap"
           /\ \/ Proceeds(c, IF call[c].bCanInit THEN "memset" ELSE "mapped")
              \/ Proceeds(c, IF call[c].bCanInit THEN "crashed" ELSE "MAP_FAILED")
           /\ UNCHANGED <<entry, madeBy, size, unit, file>>
MemSet(c) == /\ At_(c) = "memset"
             /\ Proceeds(c, IF call[c].length > size THEN "crashed" ELSE "mapped")
             /\ unit' = [u \in Units |-> IF u <= call[c].length THEN "zero" ELSE unit[u]]
             /\ UNCHANGED <<entry, madeBy, size, file>>

(* The caller at work in its mapping, the end of it (unMapMemFile), and    *)
(* the death of its process at any time.                                   *)
Writes(c, u) == /\ At_(c) = "mapped" /\ u <= call[c].length /\ u <= size
                /\ unit[u] = "zero"
                /\ unit' = [unit EXCEPT ![u] = c]
                /\ call' = [call EXCEPT ![c].at = "wrote", ![c].len = u]
                /\ UNCHANGED <<entry, madeBy, size, file>>
UnMapMemFile(c) == /\ At_(c) \in {"mapped", "wrote"}
                   /\ Proceeds(c, "unmapped")
                   /\ UNCHANGED <<entry, madeBy, size, unit, file>>
Dies(c) == /\ c \in Opening
           /\ Proceeds(c, "crashed")
           /\ UNCHANGED <<entry, madeBy, size, unit, file>>

-----------------------------------------------------------------------------
(* FSdeleteFile, FSrenameFile, FSmoveFile and FScopyFile look whether the  *)
(* source is there and then act; a file that is gone needs no deleting,    *)
(* and one that access() may not look at counts as gone.                   *)
FScheckFileExist(c, operation, from, to) ==
    /\ At_(c) = "idle"
    /\ \E answer \in IF file[from] # None THEN {operation, "refused"} ELSE {"returned"} :
          call' = [call EXCEPT ![c] =
             [at |-> answer, result |-> answer # operation /\ operation = "delete", from |-> from,
              to |-> to, seen |-> IF answer = operation THEN file[from] ELSE None]]
    /\ UNCHANGED <<entry, madeBy, size, unit, file>>

(* remove and rename fail without effect; a cp, or a mv to another file     *)
(* system, may have got to any point of the copy.                          *)
Acts(c, operation, after, failed) ==
    /\ At_(c) = operation
    /\ \/ /\ file' = (IF file[call[c].from] = None THEN file ELSE after)
          /\ Answers(c, file[call[c].from] # None)
       \/ /\ file[call[c].from] # None
          /\ file' \in failed
          /\ Refused(c)
    /\ UNCHANGED <<entry, madeBy, size, unit>>
Copied(c, content) == [file EXCEPT ![call[c].to] = content]
Moved(c) == [Copied(c, file[call[c].from]) EXCEPT ![call[c].from] = None]
HalfCopied(c) == {file, Copied(c, "part"), Copied(c, file[call[c].from])}
FSdeleteFile(c) == Acts(c, "delete", [file EXCEPT ![call[c].from] = None], {file})
FScopyFile(c) == Acts(c, "copy", Copied(c, file[call[c].from]), HalfCopied(c))
FSmoveFile(c) == Acts(c, "move", Moved(c), HalfCopied(c))
FSrenameFile(c) == Acts(c, "rename", Moved(c), {file})

-----------------------------------------------------------------------------
DirectoryNext == \E c \in Callers : \/ CreateDirectory(c) \/ FScreateDirctory(c) \/ PathTooLong(c)
                                    \/ Access(c) \/ MkDir(c)
MappingNext == \E c \in Callers : \/ Open_(c) \/ OpenFails(c) \/ LSeek(c) \/ FTruncate(c) \/ MMap(c) \/ MemSet(c)
                                  \/ (\E u \in Units : Writes(c, u)) \/ UnMapMemFile(c) \/ Dies(c)
Operations == {"delete", "copy", "move", "rename"}
FileNext == \E c \in Callers :
               \/ \E operation \in Operations, from, to \in FilePaths :
                     from # to /\ FScheckFileExist(c, operation, from, to)
               \/ FSdeleteFile(c) \/ FScopyFile(c) \/ FSmoveFile(c) \/ FSrenameFile(c)

FileSpec == FileInit /\ [][DirectoryNext \/ MappingNext \/ FileNext]_fileVars

(* createDirectory: true means that every prefix is there, and every one   *)
(* but the last a directory; false, when the path is not too long and the  *)
(* system does not refuse access or mkdir for a reason of its own, means   *)
(* that one cannot be made (a file or a directory that may not be entered  *)
(* is in the way), or that another process made it just before: then it is *)
(* there, and the call said it is not.                                     *)
PathMade == \A c \in Callers : (At_(c) = "returned" /\ "kind" \in DOMAIN call[c]) =>
    LET i == call[c].i
    IN  IF call[c].result
        THEN \A j \in 1..Depth : entry[j] # None /\ (j = Depth \/ entry[j] # "file")
        ELSE \/ \E j \in 1..i - 1 : entry[j] \in {"file", "locked"}
             \/ madeBy[i] \in Callers \ {c}

(* MapMemFile: a caller's mapping lies within the file, and what it wrote  *)
(* stays until it is done, whoever died or failed on the way, unless its   *)
(* own ftruncate failed, whose result it drops, or the call of one that    *)
(* maps less or of the creator was open at the same time.                  *)
MappingKept == \A c \in Callers : At_(c) \in {"mapped", "wrote"} =>
    /\ \/ call[c].length <= size \/ call[c].short
       \/ \E d \in call[c].near : call[d].length < call[c].length
    /\ At_(c) = "wrote" => \/ unit[call[c].len] = c \/ call[c].short
                           \/ \E d \in call[c].near :
                                 call[d].bCanInit \/ call[d].length < call[c].length

(* filestat: a call that fails found its source gone, at its look or, when *)
(* another took it in between, at its act, if the system did not refuse    *)
(* the act; deleting reports success for a file that was not there, or     *)
(* could not be looked at, and failure for one that went meanwhile.        *)
AnswerExplained == \A c \in Callers :
    (/\ At_(c) = "returned" /\ "seen" \in DOMAIN call[c]
     /\ call[c].seen # None /\ ~call[c].result) =>
       \E d \in Callers \ {c} : /\ At_(d) = "returned" /\ call[d].result
                                /\ call[d].from = call[c].from

(* Property FilesAgree: the three of them.                                 *)
FilesAgree == PathMade /\ MappingKept /\ AnswerExplained
=============================================================================
