---------------------------- MODULE LogUnitProofs ----------------------------
(***************************************************************************)
(* What LogUnit promises of a unit that shares its path with no other one, *)
(* for any threads, tags, paths and times and any number of restarts.      *)
(*                                                                         *)
(* The file a sound unit has open is what its path names (OpenIsLog), and  *)
(* its offset is the file's end (AtEnd); names have different inodes       *)
(* (NamesDiffer), and no inode changes to the names of another path        *)
(* (PathsApart).  Two threads meet at the file of a unit only where it     *)
(* does not lock, and that is noted (Alone).  Then, at the change of day,  *)
(* what was finished is in a backup before the log is truncated            *)
(* (BackedUp), and a line begun is in the log (Begun).                     *)
(***************************************************************************)
EXTENDS LogUnit, SequenceTheorems, TLAPS

Busy == {"copy", "truncate", "write", "end"}

Has(d, m) == \E i \in DOMAIN d : d[i] = m

\* A thread within Log has an open unit and a message.
HasFile == \A t \in Thread : pc[t] # "idle" => m_hFile[unit[t]] # None /\ msg[t] # 0

NamesDiffer == \A n, o \in Name : n # o /\ inode[n] # None => inode[n] # inode[o]

OpenIsLog == \A u \in Unit :
    OwnPath(u) /\ m_hFile[u] # None /\ Sound(u) => m_hFile[u] = inode[Log(path[u])]

AtEnd == \A u \in Unit :
    OwnPath(u) /\ m_hFile[u] # None /\ Sound(u) => pos[u] = Len(data[m_hFile[u]])

PathsApart == \A u \in Unit, n \in Name :
    m_hFile[u] # None /\ n[1] # path[u] => inode[n] # m_hFile[u]

\* Who is past Lock holds the lock.
Held == \A t \in Thread :
    pc[t] \in Busy \cup {"check"} /\ m_bLock[unit[t]] /\ Sound(unit[t]) => holder[unit[t]] = {t}

Alone == \A t, x \in Thread :
    t # x /\ unit[t] = unit[x] /\ pc[t] \in Busy /\ pc[x] \in Busy /\ Sound(unit[t]) =>
        ~m_bLock[unit[t]] /\ "race" \in spoilt[unit[t]]

\* Some backup of the path has the message.
InBackup(p, m) == \E s \in 0 .. MaxNow : inode[<<p, s>>] # None /\ Has(data[inode[<<p, s>>]], m)

InLog(p, m) == inode[Log(p)] # None /\ Has(data[inode[Log(p)]], m)

Kept == \A u \in Unit : spoilt[u] = {} /\ OwnPath(u) =>
    \A m \in done[u] : InLog(path[u], m) \/ InBackup(path[u], m)

BackedUp == \A t \in Thread :
    pc[t] = "truncate" /\ spoilt[unit[t]] = {} /\ OwnPath(unit[t]) =>
        \A m \in done[unit[t]] : InBackup(path[unit[t]], m)

Begun == \A t \in Thread :
    pc[t] = "end" /\ spoilt[unit[t]] = {} /\ OwnPath(unit[t]) => InLog(path[unit[t]], msg[t])

\* A line that was begun is ended before the next one is begun.
Writing(u) == \E t \in Thread : unit[t] = u /\ pc[t] = "end"

Alternates(d) == \A i \in DOMAIN d : d[i] = LineEnd <=> i % 2 = 0

Lines == \A u \in Unit : m_bLock[u] /\ m_hFile[u] # None /\ OwnPath(u) /\ Sound(u) =>
    /\ Alternates(data[m_hFile[u]])
    /\ Len(data[m_hFile[u]]) % 2 = 1 <=> Writing(u)

Files == NamesDiffer /\ OpenIsLog /\ PathsApart

Threads == HasFile /\ Held /\ Alone

IInv == TypeOK /\ Threads /\ Files /\ AtEnd

KeptInv == Kept /\ BackedUp /\ Begun

-----------------------------------------------------------------------------
(* Types.                                                                  *)

LEMMA NoneIsNone == None \notin Nat
BY DEF None

LEMMA PiecesAre == LineEnd \in Piece /\ Rest \in Piece
BY DEF Piece

LEMMA DataIs ==
    ASSUME TypeOK
    PROVE  /\ data \in Seq(Seq(Piece)) /\ Len(data) \in Nat /\ DOMAIN data = 1 .. Len(data)
           /\ inode \in [Name -> DOMAIN data \cup {None}]
           /\ m_hFile \in [Unit -> DOMAIN data \cup {None}]
           /\ pos \in [Unit -> Nat] /\ spoilt \in [Unit -> SUBSET Cause]
           /\ None \notin DOMAIN data
           /\ \A u \in Unit : path[u] \in Path
           /\ \A t \in Thread : unit[t] \in Unit
<1>1. data \in Seq(Seq(Piece))
  BY DEF TypeOK
<1>2. Len(data) \in Nat /\ DOMAIN data = 1 .. Len(data)
  BY <1>1
<1>3. /\ inode \in [Name -> DOMAIN data \cup {None}]
      /\ m_hFile \in [Unit -> DOMAIN data \cup {None}]
      /\ pos \in [Unit -> Nat] /\ spoilt \in [Unit -> SUBSET Cause]
      /\ \A u \in Unit : path[u] \in Path
      /\ \A t \in Thread : unit[t] \in Unit
  BY DEF TypeOK
<1> QED
  BY <1>1, <1>2, <1>3, NoneIsNone

\* What was spoilt stays so.
LEMMA SpoilIs ==
    ASSUME TypeOK, NEW u \in Unit, NEW c \in SUBSET Cause, Spoil(u, c)
    PROVE  /\ spoilt' \in [Unit -> SUBSET Cause]
           /\ \A x \in Unit : spoilt[x] \subseteq spoilt'[x]
           /\ \A x \in Unit : x # u => spoilt'[x] = spoilt[x]
           /\ c \subseteq spoilt'[u]
BY DEF Spoil, TypeOK

SoundAfter(u) == spoilt'[u] \cap {"kept", "write", "again"} = {}

LEMMA SoundBefore ==
    ASSUME NEW u, spoilt[u] \subseteq spoilt'[u]
    PROVE  /\ SoundAfter(u) => Sound(u)
           /\ spoilt'[u] = {} => spoilt[u] = {}
           /\ spoilt[u] = {} => Sound(u)
BY DEF Sound, SoundAfter

LEMMA TodayIs == ASSUME TypeOK PROVE Today \in Nat
<1>1. now \in Nat /\ SecondsPerDay \in Nat /\ SecondsPerDay > 0
  BY LogUnitAssumption DEF TypeOK
<1> QED
  BY <1>1 DEF Today

\* The names of a path.
LEMMA NamesAre ==
    ASSUME TypeOK, NEW p \in Path
    PROVE  /\ Log(p) \in Name /\ <<p, now>> \in Name /\ Log(p) # <<p, now>>
           /\ \A s \in 0 .. MaxNow : <<p, s>> \in Name /\ <<p, s>> # Log(p)
           /\ \A q : q # p => Log(q) # Log(p) /\ \A s, r : <<q, s>> # <<p, r>> /\ <<q, s>> # Log(p)
BY LogUnitAssumption DEF TypeOK, Name, Log

LEMMA InitOk == Init => IInv /\ KeptInv /\ Lines
<1> SUFFICES ASSUME Init PROVE IInv /\ KeptInv /\ Lines
  OBVIOUS
<1>1. "GLB" \in Unit
  BY DEF Unit
<1>2. TypeOK
  BY <1>1, LogUnitAssumption DEF Init, TypeOK
<1>3. IInv
  BY <1>2, NoneIsNone DEF Init, IInv, Threads, HasFile, Held, Alone, Busy, Files,
     NamesDiffer, OpenIsLog, PathsApart, AtEnd
<1>4. KeptInv
  BY DEF Init, KeptInv, Kept, BackedUp, Begun
<1> QED
  BY <1>3, <1>4 DEF Init, Lines

LEMMA AppendGrows ==
    ASSUME NEW S, NEW d \in Seq(S), NEW e \in S
    PROVE  Append(d, e) # d
<1>1. Len(Append(d, e)) = Len(d) + 1 /\ Len(d) \in Nat
  BY AppendProperties
<1> QED
  BY <1>1

\* How the names of u's path change when u is opened.
NamesOpened(u) ==
    LET l == Log(path[u])
        b == <<path[u], now>>
    IN  \/ inode'[l] = inode[l] /\ inode'[b] = inode[b]
        \/ /\ inode[l] # None /\ inode'[b] = inode[l]
           /\ inode'[l] \in {None, Len(data) + 1}
           /\ inode[b] = None \/ spoilt'[u] # {}
        \/ inode[l] = None /\ inode'[b] = inode[b] /\ inode'[l] = Len(data) + 1

\* What u has open then.
FileOpened(u) ==
    LET l == Log(path[u])
    IN  \/ m_hFile'[u] = m_hFile[u] /\ (m_hFile[u] # None => ~SoundAfter(u))
        \/ /\ m_hFile'[u] = inode'[l] /\ pos'[u] = 0
           /\ inode'[l] = Len(data) + 1 \/ (inode[l] # None /\ inode'[l] = inode[l])
           /\ data'[inode'[l]] = <<>> \/ ~SoundAfter(u)

LEMMA OpenIs ==
    ASSUME TypeOK, NEW u \in Unit, NEW lock \in BOOLEAN, InitLogUnit(u, lock)
    PROVE  /\ m_bLock' \in [Unit -> BOOLEAN] /\ \A x \in Unit : x # u => m_bLock'[x] = m_bLock[x]
           /\ inode' \in [Name -> DOMAIN data' \cup {None}]
           /\ data' \in Seq(Seq(Piece)) /\ DOMAIN data \subseteq DOMAIN data'
           /\ \A k \in DOMAIN data : data'[k] = data[k]
           /\ m_hFile' \in [Unit -> DOMAIN data' \cup {None}]
           /\ \A x \in Unit : x # u => m_hFile'[x] = m_hFile[x] /\ pos'[x] = pos[x]
           /\ pos' \in [Unit -> Nat] /\ m_dwDT' \in [Unit -> Nat]
           /\ spoilt' \in [Unit -> SUBSET Cause]
           /\ \A x \in Unit : spoilt[x] \subseteq spoilt'[x]
           /\ \A x \in Unit : x # u => spoilt'[x] = spoilt[x]
           /\ m_hFile[u] # None => ~SoundAfter(u)
           /\ \A n \in Name : n # Log(path[u]) /\ n # <<path[u], now>> => inode'[n] = inode[n]
           /\ NamesOpened(u) /\ FileOpened(u)
<1> DEFINE p == path[u]
           l == Log(p)
           b == <<p, now>>
           new == Len(data) + 1
           moved == [inode EXCEPT ![b] = inode[l], ![l] = None]
<1>1. PICK names \in BackUpFile(p) :
         \/ OpenFails(u, names)
         \/ /\ MakeFile(u, names) \/ KeepFile(u, names)
            /\ m_dwDT' = [m_dwDT EXCEPT ![u] = Today]
            /\ pos' = [pos EXCEPT ![u] = 0]
  BY DEF InitLogUnit
<1>2. /\ p \in Path /\ inode \in [Name -> DOMAIN data \cup {None}]
      /\ m_hFile \in [Unit -> DOMAIN data \cup {None}]
      /\ data \in Seq(Seq(Piece)) /\ Len(data) \in Nat /\ DOMAIN data = 1 .. Len(data)
      /\ None \notin DOMAIN data /\ pos \in [Unit -> Nat]
  BY DataIs
<1>3. l \in Name /\ b \in Name /\ l # b
  BY <1>2, NamesAre
<1>4. names = inode \/ (inode[l] # None /\ names = moved)
  BY DEF BackUpFile
<1> HIDE DEF l, b
<1>5. /\ names \in [Name -> DOMAIN data \cup {None}]
      /\ \A n \in Name : n # l /\ n # b => names[n] = inode[n]
      /\ \/ names = inode
         \/ inode[l] # None /\ names # inode /\ names[l] = None /\ names[b] = inode[l]
  BY <1>2, <1>3, <1>4
<1>6. Opening(u, names) \subseteq Cause
  BY DEF Opening, Cause
<1>7. /\ \E c \in SUBSET Cause : Opening(u, names) \subseteq c /\ Spoil(u, c)
      /\ KeepFile(u, names) => data[names[l]] = <<>> \/ "kept" \in spoilt'[u]
  <2>1. ASSUME KeepFile(u, names)
        PROVE  /\ \E c \in SUBSET Cause : Opening(u, names) \subseteq c /\ Spoil(u, c)
               /\ data[names[l]] = <<>> \/ "kept" \in spoilt'[u]
    <3> DEFINE k == {x \in {"kept"} : data[names[l]] # <<>>}
               c == Opening(u, names) \cup k
    <3>1. Spoil(u, c)
      BY <2>1 DEF KeepFile, l
    <3>2. c \in SUBSET Cause
      BY <1>6 DEF Cause
    <3>3. c \subseteq spoilt'[u]
      BY <3>1, <3>2, SpoilIs
    <3>4. data[names[l]] = <<>> \/ "kept" \in c
      OBVIOUS
    <3> QED
      BY <3>1, <3>2, <3>3, <3>4
  <2>2. CASE OpenFails(u, names) \/ MakeFile(u, names)
    <3>1. Spoil(u, Opening(u, names)) /\ Opening(u, names) \in SUBSET Cause
      BY <1>6, <2>2 DEF OpenFails, MakeFile
    <3> QED
      BY <2>1, <3>1
  <2> QED
    BY <1>1, <2>1, <2>2
<1>8. PICK c \in SUBSET Cause : Opening(u, names) \subseteq c /\ Spoil(u, c)
  BY <1>7
<1>9. /\ spoilt' \in [Unit -> SUBSET Cause] /\ c \subseteq spoilt'[u]
      /\ \A x \in Unit : spoilt[x] \subseteq spoilt'[x]
      /\ \A x \in Unit : x # u => spoilt'[x] = spoilt[x]
  BY <1>8, SpoilIs
<1>10. /\ m_hFile[u] # None => "again" \in spoilt'[u]
       /\ names # inode /\ inode[l] # None /\ inode[b] # None => "name" \in spoilt'[u]
  BY <1>8, <1>9 DEF Opening, Clash, l, b
<1>11. m_hFile[u] # None => ~SoundAfter(u)
  BY <1>10 DEF SoundAfter
<1>12. m_bLock' \in [Unit -> BOOLEAN] /\ \A x \in Unit : x # u => m_bLock'[x] = m_bLock[x]
  BY DEF InitLogUnit, TypeOK
<1>13. Today \in Nat /\ m_dwDT \in [Unit -> Nat]
  BY TodayIs DEF TypeOK
<1>14. \/ /\ inode' = names /\ data' = data
          /\ \/ m_hFile' = m_hFile /\ pos' = pos
             \/ /\ m_hFile' = [m_hFile EXCEPT ![u] = names[l]] /\ names[l] # None
                /\ pos' = [pos EXCEPT ![u] = 0]
                /\ data[names[l]] = <<>> \/ "kept" \in spoilt'[u]
       \/ /\ inode' = [names EXCEPT ![l] = new] /\ names[l] = None /\ data' = Append(data, <<>>)
          /\ m_hFile' = [m_hFile EXCEPT ![u] = new] /\ pos' = [pos EXCEPT ![u] = 0]
  BY <1>1, <1>7 DEF OpenFails, MakeFile, KeepFile, l
<1>15. m_dwDT' \in [Unit -> Nat]
  BY <1>1, <1>13 DEF OpenFails
<1>16. /\ data' \in Seq(Seq(Piece)) /\ DOMAIN data \subseteq DOMAIN data'
       /\ \A k \in DOMAIN data : data'[k] = data[k]
       /\ data' = Append(data, <<>>) => new \in DOMAIN data' /\ data'[new] = <<>>
  <2>1. <<>> \in Seq(Piece)
    OBVIOUS
  <2>2. CASE data' = data
    <3>1. data # Append(data, <<>>)
      BY <1>2, <2>1, AppendGrows
    <3> QED
      BY <1>2, <2>2, <3>1
  <2>3. CASE data' = Append(data, <<>>)
    BY <1>2, <2>1, <2>3, AppendProperties
  <2> QED
    BY <1>14, <2>2, <2>3
<1> HIDE DEF new, moved
<1>17. /\ inode' \in [Name -> DOMAIN data' \cup {None}]
       /\ m_hFile' \in [Unit -> DOMAIN data' \cup {None}]
       /\ pos' \in [Unit -> Nat]
       /\ \A x \in Unit : x # u => m_hFile'[x] = m_hFile[x] /\ pos'[x] = pos[x]
       /\ \A n \in Name : n # l /\ n # b => inode'[n] = inode[n]
  <2>1. DOMAIN data \subseteq DOMAIN data' /\ (data' = Append(data, <<>>) => new \in DOMAIN data')
    BY <1>16
  <2>2. ASSUME NEW d, DOMAIN data \subseteq d, inode' = names \/ (inode' = [names EXCEPT ![l] = new] /\ new \in d)
        PROVE  inode' \in [Name -> d \cup {None}] /\ \A n \in Name : n # l /\ n # b => inode'[n] = inode[n]
    BY <1>3, <1>5, <2>2
  <2>3. /\ inode' \in [Name -> DOMAIN data' \cup {None}]
        /\ \A n \in Name : n # l /\ n # b => inode'[n] = inode[n]
    BY <1>14, <2>1, <2>2
  <2>4. names[l] \in DOMAIN data \cup {None}
    BY <1>3, <1>5
  <2>5. /\ m_hFile' \in [Unit -> DOMAIN data' \cup {None}]
        /\ \A x \in Unit : x # u => m_hFile'[x] = m_hFile[x]
    <3>1. PICK i \in DOMAIN data' \cup {None} : m_hFile' = m_hFile \/ m_hFile' = [m_hFile EXCEPT ![u] = i]
      BY <1>14, <2>1, <2>4
    <3> QED
      BY <1>2, <2>1, <3>1
  <2>6. pos' \in [Unit -> Nat] /\ \A x \in Unit : x # u => pos'[x] = pos[x]
    <3>1. pos' = pos \/ pos' = [pos EXCEPT ![u] = 0]
      BY <1>14
    <3>2. pos \in [Unit -> Nat]
      BY <1>2
    <3> QED
      BY <3>1, <3>2
  <2> QED
    BY <2>3, <2>5, <2>6
<1>18. NamesOpened(u)
  <2>1. \/ inode'[l] = inode[l] /\ inode'[b] = inode[b]
        \/ /\ inode[l] # None /\ inode'[b] = inode[l]
           /\ inode'[l] \in {None, new}
           /\ inode[b] = None \/ spoilt'[u] # {}
        \/ inode[l] = None /\ inode'[b] = inode[b] /\ inode'[l] = new
    BY <1>3, <1>5, <1>10, <1>14
  <2> QED
    BY <2>1 DEF NamesOpened, l, b, new
<1>19. FileOpened(u)
  <2>1. "kept" \in spoilt'[u] => ~SoundAfter(u)
    BY DEF SoundAfter
  <2>2. \/ m_hFile'[u] = m_hFile[u] /\ (m_hFile[u] # None => ~SoundAfter(u))
        \/ /\ m_hFile'[u] = inode'[l] /\ pos'[u] = 0
           /\ inode'[l] = new \/ (inode[l] # None /\ inode'[l] = inode[l])
           /\ data'[inode'[l]] = <<>> \/ ~SoundAfter(u)
    BY <1>2, <1>3, <1>5, <1>11, <1>14, <1>16, <2>1
  <2> QED
    BY <2>2 DEF FileOpened, l, new
<1> QED
  BY <1>9, <1>11, <1>12, <1>15, <1>16, <1>17, <1>18, <1>19 DEF l, b

LEMMA TypeOpen ==
    ASSUME TypeOK, NEW u \in Unit, NEW lock \in BOOLEAN, InitLogUnit(u, lock),
           starts' \in 1 .. MaxStarts, UNCHANGED <<now, path, threads, holder, logged, done>>
    PROVE  TypeOK'
BY OpenIs DEF TypeOK, threads

\* What a backup is, and the inodes after it was made.
LEMMA CopiedIs ==
    ASSUME IInv, NEW t \in Thread, CopyFile(t)
    PROVE  LET p == path[unit[t]]
               b == <<p, now>>
               i == inode'[b]
           IN  /\ p \in Path /\ inode[Log(p)] # None /\ inode[Log(p)] \in DOMAIN data
               /\ i = IF inode[b] = None THEN Len(data) + 1 ELSE inode[b]
               /\ inode' \in [Name -> DOMAIN data' \cup {None}]
               /\ \A n \in Name : n # b => inode'[n] = inode[n]
               /\ data' \in Seq(Seq(Piece)) /\ DOMAIN data \subseteq DOMAIN data'
               /\ data'[i] = data[inode[Log(p)]]
               /\ \A k \in DOMAIN data : k # i => data'[k] = data[k]
<1> DEFINE p == path[unit[t]]
           b == <<p, now>>
           i == IF inode[b] = None THEN Len(data) + 1 ELSE inode[b]
           N == IF i > Len(data) THEN i ELSE Len(data)
           o == inode[Log(p)]
<1>1. /\ pc[t] = "copy" /\ o # None /\ inode' = [inode EXCEPT ![b] = i]
      /\ data' = [k \in 1 .. N |-> IF k = i THEN data[o] ELSE data[k]]
  BY DEF CopyFile
<1>2. /\ TypeOK /\ p \in Path /\ unit[t] \in Unit /\ inode \in [Name -> DOMAIN data \cup {None}]
      /\ data \in Seq(Seq(Piece)) /\ Len(data) \in Nat /\ DOMAIN data = 1 .. Len(data)
  BY DataIs DEF IInv
<1>3. Log(p) \in Name /\ b \in Name
  BY <1>2, NamesAre
<1>4. o # None /\ o \in DOMAIN data
  BY <1>1, <1>2, <1>3
<1>5. i \in 1 .. Len(data) + 1
  BY <1>2, <1>3
<1>6. /\ N \in Nat /\ i \in 1 .. N /\ Len(data) <= N
      /\ N = Len(data) \/ (i = Len(data) + 1 /\ N = i)
  <2>1. ASSUME NEW l \in Nat, NEW j \in 1 .. l + 1, NEW n, n = IF j > l THEN j ELSE l
        PROVE  n \in Nat /\ j \in 1 .. n /\ l <= n /\ (n = l \/ (j = l + 1 /\ n = j))
    BY <2>1
  <2> HIDE DEF i
  <2> QED
    BY <1>2, <1>5, <2>1
<1> HIDE DEF N, i, o
<1>7. \A k \in 1 .. N : k = i \/ k \in DOMAIN data
  <2>1. ASSUME NEW l \in Nat, NEW j, NEW n \in Nat, n = l \/ (j = l + 1 /\ n = j), NEW k \in 1 .. n
        PROVE  k = j \/ k \in 1 .. l
    BY <2>1
  <2> QED
    BY <1>2, <1>6, <2>1
<1>8. data' \in [1 .. N -> Seq(Piece)]
  BY <1>1, <1>2, <1>4, <1>7
<1>9. data' \in Seq(Seq(Piece)) /\ DOMAIN data' = 1 .. N
  <2>1. data' \in UNION {[1 .. n -> Seq(Piece)] : n \in Nat}
    BY <1>6, <1>8
  <2> QED
    BY <1>8, <2>1, SeqDef
<1>10. DOMAIN data \subseteq DOMAIN data' /\ i \in DOMAIN data'
  <2>1. ASSUME NEW l \in Nat, NEW n \in Nat, l <= n PROVE 1 .. l \subseteq 1 .. n
    BY <2>1
  <2>2. 1 .. Len(data) \subseteq 1 .. N
    BY <1>2, <1>6, <2>1
  <2> QED
    BY <1>2, <1>6, <1>9, <2>2
<1>11. inode' \in [Name -> DOMAIN data' \cup {None}] /\ inode'[b] = i
  BY <1>1, <1>2, <1>3, <1>10
<1>12. /\ data'[i] = data[o] /\ \A k \in DOMAIN data : k # i => data'[k] = data[k]
  BY <1>1, <1>6, <1>9, <1>10
<1>13. \A n \in Name : n # b => inode'[n] = inode[n]
  BY <1>1, <1>2
<1> QED
  BY <1>2, <1>4, <1>9, <1>10, <1>11, <1>12, <1>13 DEF i, o

\* What Put allows are pieces, and at the end of the file x is appended.
LEMMA PutIs ==
    ASSUME NEW d \in Seq(Piece), NEW k \in Nat, NEW x \in Piece, NEW e \in Put(d, k, x)
    PROVE  e \in Seq(Piece) /\ (k = Len(d) => e = Append(d, x))
<1>1. Len(d) \in Nat /\ Rest \in Piece /\ Append(d, x) \in Seq(Piece)
  BY PiecesAre, AppendProperties
<1>2. <<x>> \in Seq(Piece) /\ <<x, Rest>> \in Seq(Piece) /\ <<Rest, x>> \in Seq(Piece)
  BY <1>1
<1>3. CASE k = Len(d)
  BY <1>1, <1>3 DEF Put
<1>4. CASE k > Len(d)
  <2>1. e = d \o <<Rest, x>>
    BY <1>1, <1>4 DEF Put
  <2>2. d \o <<Rest, x>> \in Seq(Piece)
    BY <1>2, ConcatProperties
  <2> QED
    BY <1>1, <1>4, <2>1, <2>2
<1>5. CASE k < Len(d)
  <2> DEFINE I == (k + 1) .. (IF x = LineEnd THEN k + 1 ELSE Len(d))
             J == {i \in I : d[i] # LineEnd}
             F(w, i) == SubSeq(d, 1, k) \o w \o SubSeq(d, i + 1, Len(d))
  <2>0. e \in {F(<<x>>, i) : i \in I} \cup {F(<<x, Rest>>, i) : i \in J}
    <3>1. ~(k = Len(d)) /\ ~(k > Len(d))
      BY <1>1, <1>5
    <3>2. Put(d, k, x) = {F(<<x>>, i) : i \in I} \cup {F(<<x, Rest>>, i) : i \in J}
      BY <1>5, <3>1, Zenon DEF Put
    <3> QED
      BY <3>2
  <2>1. \E i \in I, w \in {<<x>>, <<x, Rest>>} : e = F(w, i)
    <3> HIDE DEF F, I
    <3> QED
      BY <2>0
  <2> PICK i \in I, w \in {<<x>>, <<x, Rest>>} : e = F(w, i)
    BY <2>1
  <2>2. i \in Nat /\ i >= 1
    BY <1>1
  <2>3. SubSeq(d, 1, k) \in Seq(Piece)
    <3>1. \A j \in 1 .. k : j \in 1 .. Len(d)
      BY <1>1, <1>5
    <3> QED
      BY <1>1, <3>1, SubSeqProperties
  <2>4. SubSeq(d, i + 1, Len(d)) \in Seq(Piece)
    <3>1. \A j \in (i + 1) .. Len(d) : j \in 1 .. Len(d)
      BY <1>1, <2>2
    <3> QED
      BY <1>1, <2>2, <3>1, SubSeqProperties
  <2>5. SubSeq(d, 1, k) \o w \in Seq(Piece)
    BY <1>2, <2>3, ConcatProperties
  <2>6. F(w, i) \in Seq(Piece)
    BY <2>4, <2>5, ConcatProperties
  <2>7. k # Len(d)
    BY <1>1, <1>5
  <2> HIDE DEF F
  <2> QED
    BY <2>6, <2>7
<1> QED
  BY <1>1, <1>3, <1>4, <1>5

\* What Truncate, Write and WriteEnd leave in the file of a sound unit.
Left(t) ==
    IF pc[t] = "truncate" THEN <<>>
    ELSE Append(data[m_hFile[unit[t]]], IF pc[t] = "write" THEN msg[t] ELSE LineEnd)

Works(t) == Truncate(t) \/ Write(t) \/ WriteEnd(t)

\* A write of x changes the open file only, and appends where the offset is the end.
LEMMA WriteFileIs ==
    ASSUME TypeOK, NEW u \in Unit, m_hFile[u] # None, NEW x \in Piece, WriteFile(u, x)
    PROVE  /\ \E e \in Seq(Piece) :
                 /\ data' = [data EXCEPT ![m_hFile[u]] = e]
                 /\ pos[u] = Len(data[m_hFile[u]]) => e = Append(data[m_hFile[u]], x)
           /\ pos' \in [Unit -> Nat] /\ \A y \in Unit : y # u => pos'[y] = pos[y]
           /\ pos[u] = Len(data[m_hFile[u]]) => pos'[u] = Len(data[m_hFile[u]]) + 1
<1> DEFINE d == data[m_hFile[u]]
<1>1. m_hFile[u] \in DOMAIN data /\ pos \in [Unit -> Nat] /\ data \in Seq(Seq(Piece))
  BY DataIs
<1>2. d \in Seq(Piece) /\ Len(d) \in Nat
  BY <1>1
<1>3. PICK e \in Put(d, pos[u], x) : data' = [data EXCEPT ![m_hFile[u]] = e]
  BY DEF WriteFile
<1>4. e \in Seq(Piece) /\ (pos[u] = Len(d) => e = Append(d, x))
  BY <1>1, <1>2, <1>3, PutIs
<1>5. pos' = [pos EXCEPT ![u] = IF @ > Len(d) THEN Len(d) + 2 ELSE @ + 1]
  BY DEF WriteFile
<1> HIDE DEF d
<1>6. /\ pos' \in [Unit -> Nat] /\ \A y \in Unit : y # u => pos'[y] = pos[y]
      /\ pos[u] = Len(d) => pos'[u] = Len(d) + 1
  <2>1. pos \in [Unit -> Nat] /\ pos[u] \in Nat
    BY <1>1
  <2> QED
    BY <1>2, <1>5, <2>1
<1> QED
  BY <1>3, <1>4, <1>6 DEF d

LEMMA WorksIs ==
    ASSUME IInv, NEW t \in Thread, Works(t)
    PROVE  LET v == unit[t]
               f == m_hFile[v]
           IN  /\ pc[t] \in {"truncate", "write", "end"} /\ v \in Unit /\ f \in DOMAIN data /\ f # None
               /\ data' \in Seq(Seq(Piece)) /\ DOMAIN data' = DOMAIN data
               /\ \A k \in DOMAIN data : k # f => data'[k] = data[k]
               /\ pos' \in [Unit -> Nat] /\ \A u \in Unit : u # v => pos'[u] = pos[u]
               /\ spoilt' \in [Unit -> SUBSET Cause]
               /\ \A u \in Unit : spoilt[u] \subseteq spoilt'[u]
               /\ SoundAfter(v) /\ OwnPath(v) =>
                      /\ Left(t) \in Seq(Piece) /\ data'[f] = Left(t)
                      /\ pos'[v] = Len(Left(t))
<1> DEFINE v == unit[t]
           f == m_hFile[v]
           d == data[f]
           x == IF pc[t] = "write" THEN msg[t] ELSE LineEnd
<1>1. /\ TypeOK /\ pc[t] \in {"truncate", "write", "end"} /\ v \in Unit
      /\ data \in Seq(Seq(Piece)) /\ f \in DOMAIN data /\ f # None
      /\ pos \in [Unit -> Nat] /\ spoilt \in [Unit -> SUBSET Cause]
      /\ msg[t] \in Piece /\ LineEnd \in Piece /\ Rest \in Piece
  <2>1. TypeOK /\ pc[t] \in {"truncate", "write", "end"} /\ Threads
    BY DEF IInv, Works, Truncate, Write, WriteEnd
  <2>2. msg[t] \in Piece
    BY <2>1 DEF TypeOK, Threads, HasFile, Piece, Message
  <2> QED
    BY <2>1, <2>2, DataIs, PiecesAre DEF Threads, HasFile
<1>2. d \in Seq(Piece) /\ Len(d) \in Nat /\ x \in Piece
  BY <1>1
<1>3. data \in [1 .. Len(data) -> Seq(Piece)] /\ Len(data) \in Nat
  BY <1>1
<1>4. ASSUME NEW w \in Seq(Piece), data' = [data EXCEPT ![f] = w]
      PROVE  /\ data' \in Seq(Seq(Piece)) /\ DOMAIN data' = DOMAIN data /\ data'[f] = w
             /\ \A k \in DOMAIN data : k # f => data'[k] = data[k]
  <2>1. data' \in [1 .. Len(data) -> Seq(Piece)]
    BY <1>3, <1>4
  <2>2. data' \in UNION {[1 .. n -> Seq(Piece)] : n \in Nat}
    BY <1>3, <2>1
  <2>3. /\ DOMAIN data' = DOMAIN data /\ data'[f] = w
        /\ \A k \in DOMAIN data : k # f => data'[k] = data[k]
    BY <1>1, <1>3, <1>4
  <2> QED
    BY <2>2, <2>3, SeqDef
<1>5. spoilt' = spoilt \/ Spoil(v, {"kept"}) \/ Spoil(v, {"write"})
  BY DEF Works, Truncate, Write, WriteEnd
<1>6. /\ spoilt' \in [Unit -> SUBSET Cause]
      /\ \A u \in Unit : spoilt[u] \subseteq spoilt'[u]
      /\ SoundAfter(v) => spoilt' = spoilt
  <2>1. ASSUME NEW k \in {"kept", "write"}, Spoil(v, {k})
        PROVE  /\ spoilt' \in [Unit -> SUBSET Cause]
               /\ \A u \in Unit : spoilt[u] \subseteq spoilt'[u]
               /\ ~SoundAfter(v)
    <3>1. {k} \in SUBSET Cause
      BY DEF Cause
    <3>2. k \in spoilt'[v]
      BY <1>1, <2>1, <3>1, SpoilIs
    <3> QED
      BY <1>1, <2>1, <3>1, <3>2, SpoilIs DEF SoundAfter
  <2> QED
    BY <1>1, <1>5, <2>1
<1>7. OwnPath(v) /\ SoundAfter(v) => pos[v] = Len(d)
  <2>1. SoundAfter(v) => Sound(v)
    BY <1>1, <1>6 DEF Sound, SoundAfter
  <2> QED
    BY <1>1, <2>1 DEF IInv, AtEnd
<1> HIDE DEF v, f, d, x
<1>8. CASE pc[t] = "truncate"
  <2>1. /\ data' = [data EXCEPT ![f] = <<>>] \/ (data' = data /\ Spoil(v, {"kept"}))
        /\ pos' = [pos EXCEPT ![v] = 0]
    BY <1>8 DEF Works, Truncate, Write, WriteEnd, f, v
  <2>2. Left(t) = <<>> /\ <<>> \in Seq(Piece) /\ Len(Left(t)) = 0
    BY <1>8 DEF Left
  <2>3. Spoil(v, {"kept"}) => ~SoundAfter(v)
    <3>1. {"kept"} \in SUBSET Cause
      BY DEF Cause
    <3> QED
      BY <1>1, <3>1, SpoilIs DEF SoundAfter, v
  <2>4. pos' \in [Unit -> Nat] /\ pos'[v] = 0 /\ \A u \in Unit : u # v => pos'[u] = pos[u]
    <3>1. pos \in [Unit -> Nat] /\ v \in Unit
      BY <1>1 DEF v
    <3> QED
      BY <2>1, <3>1
  <2>5. CASE data' = [data EXCEPT ![f] = <<>>]
    BY <1>1, <1>4, <1>6, <2>2, <2>4, <2>5 DEF f, v
  <2>6. CASE data' = data /\ Spoil(v, {"kept"})
    BY <1>1, <1>6, <2>3, <2>4, <2>6 DEF f, v
  <2> QED
    BY <2>1, <2>5, <2>6
<1>9. CASE pc[t] # "truncate"
  <2>1. \/ WriteFile(v, x)
        \/ WriteFile(v, Rest) /\ ~SoundAfter(v)
        \/ data' = data /\ pos' = pos /\ ~SoundAfter(v)
    <3>1. Spoil(v, {"write"}) => ~SoundAfter(v)
      <4>1. {"write"} \in SUBSET Cause
        BY DEF Cause
      <4> QED
        BY <1>1, <4>1, SpoilIs DEF SoundAfter, v
    <3>2. pc[t] = "write" \/ pc[t] = "end"
      BY <1>1, <1>9
    <3>3. CASE pc[t] = "write"
      <4>1. x = msg[t]
        BY <3>3 DEF x
      <4>2. \/ WriteFile(v, msg[t])
            \/ (WriteFile(v, Rest) \/ UNCHANGED <<data, pos>>) /\ Spoil(v, {"write"})
        <5>1. Write(t)
          BY <3>3 DEF Works, Truncate, WriteEnd
        <5> QED
          BY <5>1, Zenon DEF Write, v
      <4> QED
        BY <3>1, <4>1, <4>2
    <3>4. CASE pc[t] = "end"
      <4>1. x = LineEnd
        BY <3>4 DEF x
      <4>2. WriteFile(v, LineEnd) \/ (UNCHANGED <<data, pos>> /\ Spoil(v, {"write"}))
        <5>1. WriteEnd(t)
          BY <3>4 DEF Works, Truncate, Write
        <5> QED
          BY <5>1, Zenon DEF WriteEnd, v
      <4> QED
        BY <3>1, <4>1, <4>2
    <3> QED
      BY <3>2, <3>3, <3>4
  <2>2. Left(t) = Append(d, x)
    BY <1>9 DEF Left, d, f, v, x
  <2>3. Append(d, x) \in Seq(Piece) /\ Len(Append(d, x)) = Len(d) + 1
    BY <1>2, AppendProperties
  <2>4. ASSUME NEW y \in Piece, WriteFile(v, y), y = x \/ ~SoundAfter(v)
        PROVE  /\ data' \in Seq(Seq(Piece)) /\ DOMAIN data' = DOMAIN data
               /\ \A k \in DOMAIN data : k # f => data'[k] = data[k]
               /\ pos' \in [Unit -> Nat] /\ \A u \in Unit : u # v => pos'[u] = pos[u]
               /\ SoundAfter(v) /\ OwnPath(v) => data'[f] = Left(t) /\ pos'[v] = Len(Left(t))
    <3>1. /\ \E e \in Seq(Piece) :
                /\ data' = [data EXCEPT ![f] = e]
                /\ pos[v] = Len(d) => e = Append(d, y)
          /\ pos' \in [Unit -> Nat] /\ \A u \in Unit : u # v => pos'[u] = pos[u]
          /\ pos[v] = Len(d) => pos'[v] = Len(d) + 1
      BY <1>1, <2>4, WriteFileIs DEF f, d, v
    <3>2. PICK e \in Seq(Piece) :
                /\ data' = [data EXCEPT ![f] = e]
                /\ pos[v] = Len(d) => e = Append(d, y)
      BY <3>1
    <3>3. /\ data' \in Seq(Seq(Piece)) /\ DOMAIN data' = DOMAIN data /\ data'[f] = e
          /\ \A k \in DOMAIN data : k # f => data'[k] = data[k]
      BY <1>4, <3>2
    <3>4. SoundAfter(v) /\ OwnPath(v) => data'[f] = Left(t) /\ pos'[v] = Len(Left(t))
      BY <1>7, <2>2, <2>3, <2>4, <3>1, <3>2, <3>3
    <3> QED
      BY <3>1, <3>3, <3>4
  <2>5. CASE data' = data /\ pos' = pos /\ ~SoundAfter(v)
    BY <1>1, <1>6, <2>5 DEF f, v
  <2>6. CASE \E y \in Piece : WriteFile(v, y) /\ (y = x \/ ~SoundAfter(v))
    BY <1>1, <1>6, <2>2, <2>3, <2>4, <2>6 DEF f, v
  <2>7. x \in Piece /\ Rest \in Piece
    BY <1>1, <1>2
  <2> QED
    BY <2>1, <2>5, <2>6, <2>7
<1> QED
  BY <1>8, <1>9

LEMMA TypeStep == IInv /\ [Next]_vars => TypeOK'
<1> SUFFICES ASSUME IInv, [Next]_vars PROVE TypeOK'
  OBVIOUS
<1>0. TypeOK
  BY DEF IInv
<1>1. CASE InitMgr \/ \E u \in Tag : InitLog(u)
  <2>1. "GLB" \in Unit /\ Tag \subseteq Unit
    BY DEF Unit
  <2>2. CASE InitMgr
    <3>1. starts' \in 1 .. MaxStarts
      BY <1>0, <2>2, LogUnitAssumption DEF InitMgr, TypeOK
    <3> QED
      BY <1>0, <2>1, <2>2, <3>1, TypeOpen DEF InitMgr
  <2>3. ASSUME NEW u \in Tag, InitLog(u) PROVE TypeOK'
    <3>1. TagLock \subseteq BOOLEAN /\ starts' \in 1 .. MaxStarts
      BY <1>0, <2>3, LogUnitAssumption DEF InitLog, TypeOK, clock
    <3> QED
      BY <1>0, <2>1, <2>3, <3>1, TypeOpen DEF InitLog, clock
  <2> QED
    BY <1>1, <2>2, <2>3
<1>2. CASE Restart
  <2>1. "GLB" \in Unit /\ 0 \in 0 .. MaxLines /\ 0 \in Nat
    BY LogUnitAssumption DEF Unit
  <2>2. /\ m_hFile' \in [Unit -> DOMAIN data \cup {None}]
        /\ unit' \in [Thread -> Unit] /\ msg' \in [Thread -> 0 .. MaxLines]
        /\ day' \in [Thread -> Nat] /\ holder' \in [Unit -> {{}} \cup {{t} : t \in Thread}]
        /\ m_bLock' \in [Unit -> BOOLEAN] /\ m_dwDT' \in [Unit -> Nat] /\ pos' \in [Unit -> Nat]
    BY <1>2, <2>1 DEF Restart
  <2>3. starts' \in 1 .. MaxStarts
    BY <1>0, <1>2, LogUnitAssumption DEF Restart, TypeOK
  <2> QED
    <3>1. UNCHANGED <<now, path, inode, data, logged, done, spoilt>>
      BY <1>2 DEF Restart
    <3>2. pc' \in [Thread -> {"idle", "lock", "check", "copy", "truncate", "write", "end"}]
      BY <1>2 DEF Restart
    <3> QED
      BY <1>0, <2>2, <2>3, <3>1, <3>2 DEF TypeOK
<1>3. CASE Tick
  <2>1. now' \in 0 .. MaxNow
    BY <1>0, <1>3, LogUnitAssumption DEF Tick, TypeOK
  <2>2. UNCHANGED <<starts, path, m_hFile, m_bLock, m_dwDT, inode, data, pos, pc, unit, msg,
                    holder, day, logged, done, spoilt>>
    BY <1>3 DEF Tick, units, disk, threads
  <2> QED
    BY <1>0, <2>1, <2>2 DEF TypeOK
<1>4. ASSUME NEW t \in Thread, NEW u \in Unit, Begin(t, u) PROVE TypeOK'
  <2>1. logged' \in 0 .. MaxLines /\ logged' = logged + 1
    BY <1>0, <1>4, LogUnitAssumption DEF Begin, TypeOK
  <2>2. unit' \in [Thread -> Unit] /\ msg' \in [Thread -> 0 .. MaxLines]
    <3>1. "GLB" \in Unit
      BY DEF Unit
    <3>2. logged + 1 \in 0 .. MaxLines
      BY <2>1
    <3> QED
      BY <1>0, <1>4, <3>1, <3>2 DEF Begin, TypeOK
  <2>3. pc' = [pc EXCEPT ![t] = "lock"] /\ UNCHANGED <<clock, units, disk, holder, day, done, spoilt>>
    BY <1>4 DEF Begin, Goto
  <2> QED
    <3>1. UNCHANGED <<now, starts, path, m_hFile, m_bLock, m_dwDT, inode, data, pos, holder,
                      day, done, spoilt>>
      BY <2>3 DEF clock, units, disk
    <3>2. pc' \in [Thread -> {"idle", "lock", "check", "copy", "truncate", "write", "end"}]
      BY <1>0, <2>3 DEF TypeOK
    <3> QED
      BY <1>0, <2>1, <2>2, <3>1, <3>2 DEF TypeOK
<1>5. ASSUME NEW t \in Thread, Lock(t) PROVE TypeOK'
  <2>1. holder' \in [Unit -> {{}} \cup {{x} : x \in Thread}]
    <3>1. holder \in [Unit -> {{}} \cup {{x} : x \in Thread}]
      BY <1>0 DEF TypeOK
    <3>2. holder' = [holder EXCEPT ![unit[t]] = {t}] \/ holder' = holder
      BY <1>5 DEF Lock
    <3>3. {t} \in {{}} \cup {{x} : x \in Thread}
      OBVIOUS
    <3> QED
      BY <3>1, <3>2, <3>3
  <2>2. UNCHANGED <<clock, units, disk, unit, msg, day, logged, done, spoilt>> /\ Goto(t, "check")
    BY <1>5 DEF Lock
  <2> QED
    BY <1>0, <2>1, <2>2 DEF Goto, TypeOK, clock, units, disk
<1>6. ASSUME NEW t \in Thread, CheckBackUp(t) PROVE TypeOK'
  <2>1. spoilt' \in [Unit -> SUBSET Cause]
    BY <1>0, <1>6 DEF CheckBackUp, NoteRace, TypeOK, Cause
  <2> QED
    BY <1>0, <1>6, <2>1, TodayIs DEF CheckBackUp, Goto, TypeOK, clock, units, disk
<1>7. ASSUME NEW t \in Thread, CopyFile(t) PROVE TypeOK'
  <2> DEFINE p == path[unit[t]]
  <2>1. spoilt' \in [Unit -> SUBSET Cause]
    BY <1>0, <1>7 DEF CopyFile, TypeOK, Cause
  <2>2. /\ inode' \in [Name -> DOMAIN data' \cup {None}]
        /\ data' \in Seq(Seq(Piece)) /\ DOMAIN data \subseteq DOMAIN data'
    BY <1>7, CopiedIs
  <2> QED
    BY <1>0, <1>7, <2>1, <2>2 DEF CopyFile, Goto, TypeOK, clock, units
<1>8. ASSUME NEW t \in Thread, CopyFileFails(t) PROVE TypeOK'
  <2>1. unit[t] \in Unit /\ {"copy"} \in SUBSET Cause
    BY <1>0 DEF TypeOK, Cause
  <2>2. spoilt' \in [Unit -> SUBSET Cause]
    BY <1>0, <1>8, <2>1, SpoilIs DEF CopyFileFails
  <2> QED
    BY <1>0, <1>8, <2>2 DEF CopyFileFails, Goto, TypeOK, clock, units, disk
<1>9. ASSUME NEW t \in Thread, Works(t) PROVE TypeOK'
  <2>1. /\ data' \in Seq(Seq(Piece)) /\ DOMAIN data' = DOMAIN data
        /\ pos' \in [Unit -> Nat] /\ spoilt' \in [Unit -> SUBSET Cause]
    BY <1>9, WorksIs
  <2>2. CASE Truncate(t)
    BY <1>0, <2>1, <2>2 DEF Truncate, Goto, TypeOK, clock
  <2>3. CASE Write(t)
    BY <1>0, <2>1, <2>3 DEF Write, Goto, TypeOK, clock, units
  <2>4. CASE WriteEnd(t)
    <3>1. msg[t] \in Message
      BY <1>0, <2>4 DEF WriteEnd, IInv, Threads, HasFile, TypeOK, Message
    <3>2. done' \in [Unit -> SUBSET Message]
      BY <1>0, <2>4, <3>1 DEF WriteEnd, TypeOK
    <3>3. holder' \in [Unit -> {{}} \cup {{x} : x \in Thread}]
      <4>1. ASSUME NEW h \in {{}} \cup {{x} : x \in Thread}
            PROVE  h \ {t} \in {{}} \cup {{x} : x \in Thread}
        <5>1. h \ {t} = {} \/ h \ {t} = h
          OBVIOUS
        <5> QED
          BY <5>1
      <4>2. holder' = [holder EXCEPT ![unit[t]] = @ \ {t}]
        BY <2>4 DEF WriteEnd
      <4> QED
        BY <1>0, <4>1, <4>2 DEF TypeOK
    <3> QED
      BY <1>0, <2>1, <2>4, <3>2, <3>3 DEF WriteEnd, Goto, TypeOK, clock, units
  <2> QED
    BY <1>9, <2>2, <2>3, <2>4 DEF Works
<1>10. CASE UNCHANGED vars
  BY <1>0, <1>10 DEF vars, TypeOK
<1>11. ASSUME NEW t \in Thread, NoBackUp(t) PROVE TypeOK'
  BY <1>0, <1>11 DEF NoBackUp, Goto, TypeOK, clock, disk
<1> QED
  BY <1>1, <1>2, <1>3, <1>4, <1>5, <1>6, <1>7, <1>8, <1>9, <1>10, <1>11 DEF Next, Step, Works

-----------------------------------------------------------------------------
(* The threads.                                                            *)

\* A thread moves to p; the other ones stay, and keep their locks.
LEMMA ThreadMoved ==
    ASSUME IInv, NEW t \in Thread, NEW p, pc' = [pc EXCEPT ![t] = p],
           UNCHANGED <<path, m_hFile, m_bLock>>,
           \A x \in Thread \ {t} : unit'[x] = unit[x] /\ msg'[x] = msg[x],
           p # "idle" => m_hFile[unit'[t]] # None /\ msg'[t] # 0,
           p \in Busy \cup {"check"} /\ m_bLock[unit'[t]] /\ SoundAfter(unit'[t]) =>
               holder'[unit'[t]] = {t},
           \A x \in Thread \ {t} :
               pc[x] \in Busy \cup {"check"} /\ m_bLock[unit[x]] /\ Sound(unit[x]) =>
                   holder'[unit[x]] = holder[unit[x]],
           \A u \in Unit : spoilt[u] \subseteq spoilt'[u],
           p \in Busy => \A x \in Thread \ {t} :
               unit[x] = unit'[t] /\ pc[x] \in Busy /\ SoundAfter(unit[x]) =>
                   ~m_bLock[unit[x]] /\ "race" \in spoilt'[unit[x]]
    PROVE  Threads'
<1>1. pc'[t] = p /\ \A x \in Thread : x # t => pc'[x] = pc[x]
  BY DEF IInv, TypeOK
<1>2. \A x \in Thread : unit[x] \in Unit
  BY DEF IInv, TypeOK
<1>3. HasFile'
  BY <1>1 DEF IInv, Threads, HasFile
<1>4. \A x \in Thread : SoundAfter(unit[x]) => Sound(unit[x])
  BY <1>2, SoundBefore
<1>5. \A x \in Thread : Sound(unit[x])' <=> SoundAfter(unit'[x])
  BY DEF Sound, SoundAfter
<1>6. Held'
  <2> SUFFICES ASSUME NEW x \in Thread, pc'[x] \in Busy \cup {"check"}, m_bLock[unit'[x]],
                      SoundAfter(unit'[x])
               PROVE  holder'[unit'[x]] = {x}
    BY <1>5 DEF Held
  <2>1. CASE x = t
    BY <1>1, <2>1
  <2>2. CASE x # t
    BY <1>1, <1>2, <1>4, <2>2 DEF IInv, Threads, Held
  <2> QED
    BY <2>1, <2>2
<1>7. Alone'
  <2> SUFFICES ASSUME NEW x \in Thread, NEW y \in Thread, x # y, unit'[x] = unit'[y],
                      pc'[x] \in Busy, pc'[y] \in Busy, SoundAfter(unit'[x])
               PROVE  ~m_bLock[unit'[x]] /\ "race" \in spoilt'[unit'[x]]
    BY <1>5 DEF Alone
  <2>1. CASE x = t
    BY <1>1, <2>1
  <2>2. CASE y = t
    BY <1>1, <2>2
  <2>3. CASE x # t /\ y # t
    BY <1>1, <1>2, <1>4, <2>3 DEF IInv, Threads, Alone
  <2> QED
    BY <2>1, <2>2, <2>3
<1> QED
  BY <1>3, <1>6, <1>7 DEF Threads

\* A thread at work on a file goes on.
LEMMA ThreadWorks ==
    ASSUME IInv, NEW t \in Thread, NEW p, pc' = [pc EXCEPT ![t] = p],
           pc[t] \in Busy, p \in Busy,
           UNCHANGED <<path, m_hFile, m_bLock, unit, msg, holder>>,
           \A u \in Unit : spoilt[u] \subseteq spoilt'[u]
    PROVE  Threads'
<1>1. m_hFile[unit[t]] # None /\ msg[t] # 0 /\ unit[t] \in Unit
  BY DEF IInv, Threads, HasFile, TypeOK, Busy
<1>2. m_bLock[unit[t]] /\ Sound(unit[t]) => holder[unit[t]] = {t}
  BY DEF IInv, Threads, Held
<1>3. SoundAfter(unit[t]) => Sound(unit[t])
  BY <1>1, SoundBefore
<1>4. \A x \in Thread \ {t} : unit[x] = unit[t] /\ pc[x] \in Busy /\ SoundAfter(unit[x]) =>
          ~m_bLock[unit[x]] /\ "race" \in spoilt'[unit[x]]
  BY <1>1, <1>3 DEF IInv, Threads, Alone
<1> QED
  BY <1>1, <1>2, <1>3, <1>4, ThreadMoved

\* A unit that is opened while a thread is at work on it is no longer sound.
LEMMA ThreadsOpen ==
    ASSUME IInv, NEW u \in Unit, NEW lock \in BOOLEAN, InitLogUnit(u, lock),
           UNCHANGED <<path, pc, unit, msg, holder>>
    PROVE  Threads'
<1>1. /\ TypeOK /\ Threads /\ \A x \in Thread : unit[x] \in Unit
  BY DEF IInv, TypeOK
<1>2. /\ \A x \in Unit : x # u => m_hFile'[x] = m_hFile[x] /\ m_bLock'[x] = m_bLock[x]
      /\ \A x \in Unit : x # u => spoilt'[x] = spoilt[x]
      /\ m_hFile[u] # None => ~SoundAfter(u)
      /\ FileOpened(u)
  BY <1>1, OpenIs
<1>3. m_hFile[u] # None => m_hFile'[u] # None
  BY <1>1, <1>2, DataIs, NoneIsNone DEF FileOpened
<1>4. HasFile'
  BY <1>1, <1>2, <1>3 DEF Threads, HasFile
<1>5. \A x \in Thread : pc[x] # "idle" /\ Sound(unit[x])' => unit[x] # u /\ Sound(unit[x])
  BY <1>1, <1>2 DEF Threads, HasFile, Sound, SoundAfter
<1>6. Held'
  BY <1>1, <1>2, <1>5 DEF Threads, Held, Busy
<1>7. Alone'
  BY <1>1, <1>2, <1>5 DEF Threads, Alone, Busy
<1> QED
  BY <1>4, <1>6, <1>7 DEF Threads

LEMMA ThreadsCopy == ASSUME IInv, NEW t \in Thread, CopyFile(t) PROVE Threads'
<1>1. /\ pc[t] = "copy" /\ pc' = [pc EXCEPT ![t] = "truncate"]
      /\ UNCHANGED <<path, m_hFile, m_bLock, unit, msg, holder>>
  BY DEF CopyFile, Goto, units
<1>2. \A u \in Unit : spoilt[u] \subseteq spoilt'[u]
  BY DEF CopyFile, TypeOK, IInv
<1>3. pc[t] \in Busy /\ "truncate" \in Busy
  BY <1>1 DEF Busy
<1> QED
  BY <1>1, <1>2, <1>3, ThreadWorks

LEMMA ThreadsStep == IInv /\ [Next]_vars => Threads'
<1> SUFFICES ASSUME IInv, [Next]_vars PROVE Threads'
  OBVIOUS
<1>0. TypeOK /\ Threads /\ \A x \in Thread : unit[x] \in Unit
  BY DEF IInv, TypeOK
<1>1. CASE InitMgr \/ \E u \in Tag : InitLog(u)
  <2>1. "GLB" \in Unit /\ Tag \subseteq Unit
    BY DEF Unit
  <2>2. TagLock \subseteq BOOLEAN
    BY LogUnitAssumption
  <2> QED
    BY <1>1, <2>1, <2>2, ThreadsOpen DEF InitMgr, InitLog, threads
<1>2. CASE Restart
  BY <1>2 DEF Restart, Threads, HasFile, Held, Alone, Busy
<1>3. CASE Tick
  BY <1>0, <1>3 DEF Tick, Threads, HasFile, Held, Alone, Sound, units, disk, threads
<1>4. ASSUME NEW t \in Thread, NEW tag \in Unit, Begin(t, tag) PROVE Threads'
  <2>1. /\ pc' = [pc EXCEPT ![t] = "lock"] /\ UNCHANGED <<path, m_hFile, m_bLock, holder, spoilt>>
        /\ \A x \in Thread \ {t} : unit'[x] = unit[x] /\ msg'[x] = msg[x]
        /\ m_hFile[unit'[t]] # None /\ msg'[t] = logged + 1
    BY <1>0, <1>4 DEF Begin, Goto, units, disk, TypeOK
  <2>2. msg'[t] # 0 /\ "lock" \notin Busy \cup {"check"}
    BY <1>0, <2>1 DEF TypeOK, Busy
  <2> QED
    BY <1>0, <2>1, <2>2, ThreadMoved
<1>5. ASSUME NEW t \in Thread, Lock(t) PROVE Threads'
  <2>1. /\ pc[t] = "lock" /\ pc' = [pc EXCEPT ![t] = "check"]
        /\ UNCHANGED <<path, m_hFile, m_bLock, unit, msg, spoilt>>
        /\ IF m_bLock[unit[t]]
           THEN holder[unit[t]] = {} /\ holder' = [holder EXCEPT ![unit[t]] = {t}]
           ELSE holder' = holder
    BY <1>5 DEF Lock, Goto, units, disk
  <2>2. m_hFile[unit[t]] # None /\ msg[t] # 0
    BY <1>0, <2>1 DEF Threads, HasFile
  <2>3. m_bLock[unit[t]] => holder'[unit[t]] = {t}
    BY <1>0, <2>1 DEF TypeOK
  <2>4. ASSUME NEW x \in Thread \ {t}, pc[x] \in Busy \cup {"check"}, m_bLock[unit[x]],
               Sound(unit[x])
        PROVE  holder'[unit[x]] = holder[unit[x]]
    <3>1. holder[unit[x]] = {x}
      BY <1>0, <2>4 DEF Threads, Held
    <3>2. m_bLock[unit[t]] => unit[x] # unit[t]
      BY <2>1, <3>1
    <3> QED
      BY <1>0, <2>1, <3>2 DEF TypeOK
  <2>5. "check" \notin Busy
    BY DEF Busy
  <2> QED
    BY <1>0, <2>1, <2>2, <2>3, <2>4, <2>5, ThreadMoved
<1>6. ASSUME NEW t \in Thread, CheckBackUp(t) PROVE Threads'
  <2>1. PICK p \in {"write", "copy"} : pc' = [pc EXCEPT ![t] = p]
    BY <1>6 DEF CheckBackUp, Goto
  <2>2. /\ pc[t] = "check" /\ UNCHANGED <<path, m_hFile, m_bLock, unit, msg, holder>> /\ NoteRace(t)
    BY <1>6 DEF CheckBackUp, units, disk
  <2>3. /\ m_hFile[unit[t]] # None /\ msg[t] # 0
        /\ m_bLock[unit[t]] /\ Sound(unit[t]) => holder[unit[t]] = {t}
    BY <1>0, <2>2 DEF Threads, HasFile, Held
  <2>4. \A u \in Unit : spoilt[u] \subseteq spoilt'[u]
    BY <1>0, <2>2 DEF NoteRace, TypeOK
  <2>5. SoundAfter(unit[t]) => Sound(unit[t])
    BY <1>0, <2>4, SoundBefore
  <2>6. ASSUME NEW x \in Thread \ {t}, unit[x] = unit[t], pc[x] \in Busy, SoundAfter(unit[x])
        PROVE  ~m_bLock[unit[x]] /\ "race" \in spoilt'[unit[x]]
    <3>1. ~m_bLock[unit[t]]
      BY <1>0, <2>3, <2>5, <2>6 DEF Threads, Held
    <3>2. Raced(t)
      BY <2>6 DEF Raced, Busy
    <3>3. spoilt' = [spoilt EXCEPT ![unit[t]] = @ \cup {"race"}]
      BY <2>2, <3>1, <3>2 DEF NoteRace
    <3> QED
      BY <1>0, <2>6, <3>1, <3>3 DEF TypeOK
  <2> QED
    BY <1>0, <2>1, <2>2, <2>3, <2>4, <2>5, <2>6, ThreadMoved
<1>7. ASSUME NEW t \in Thread, CopyFileFails(t) PROVE Threads'
  <2>1. /\ pc[t] = "copy" /\ pc' = [pc EXCEPT ![t] = "truncate"]
        /\ UNCHANGED <<path, m_hFile, m_bLock, unit, msg, holder>>
        /\ spoilt' = [spoilt EXCEPT ![unit[t]] = @ \cup {"copy"}]
    BY <1>7 DEF CopyFileFails, Goto, units, Spoil
  <2>2. pc[t] \in Busy /\ "truncate" \in Busy /\ \A u \in Unit : spoilt[u] \subseteq spoilt'[u]
    BY <1>0, <2>1 DEF TypeOK, Busy
  <2> QED
    BY <1>0, <2>1, <2>2, ThreadWorks
<1>8. ASSUME NEW t \in Thread, Truncate(t) \/ Write(t) PROVE Threads'
  <2>1. PICK p \in {"write", "end"} : pc' = [pc EXCEPT ![t] = p]
    BY <1>8 DEF Truncate, Write, Goto
  <2>2. /\ pc[t] \in Busy /\ p \in Busy
        /\ UNCHANGED <<path, m_hFile, m_bLock, unit, msg, holder>>
    BY <1>8 DEF Truncate, Write, units, Busy
  <2>3. \A u \in Unit : spoilt[u] \subseteq spoilt'[u]
    BY <1>8, WorksIs DEF Works
  <2> QED
    BY <1>0, <2>1, <2>2, <2>3, ThreadWorks
<1>9. ASSUME NEW t \in Thread, WriteEnd(t) PROVE Threads'
  <2>1. /\ pc[t] = "end" /\ pc' = [pc EXCEPT ![t] = "idle"]
        /\ UNCHANGED <<path, m_hFile, m_bLock, unit, msg>>
        /\ holder' = [holder EXCEPT ![unit[t]] = @ \ {t}]
    BY <1>9 DEF WriteEnd, Goto, units
  <2>2. ASSUME NEW x \in Thread \ {t}, pc[x] \in Busy \cup {"check"}, m_bLock[unit[x]],
               Sound(unit[x])
        PROVE  holder'[unit[x]] = holder[unit[x]]
    <3>1. holder[unit[x]] = {x}
      BY <1>0, <2>2 DEF Threads, Held
    <3>2. unit[x] = unit[t] => {x} = {t}
      BY <1>0, <2>1, <2>2, <3>1 DEF Threads, Held, Busy
    <3>3. unit[x] # unit[t]
      BY <3>2
    <3> QED
      BY <1>0, <2>1, <3>3 DEF TypeOK
  <2>3. "idle" \notin Busy \cup {"check"}
    BY DEF Busy
  <2>4. \A u \in Unit : spoilt[u] \subseteq spoilt'[u]
    BY <1>9, WorksIs DEF Works
  <2> QED
    BY <1>0, <2>1, <2>2, <2>3, <2>4, ThreadMoved
<1>10. CASE UNCHANGED vars
  BY <1>0, <1>10 DEF vars, Threads, HasFile, Held, Alone, Sound
<1>11. ASSUME NEW t \in Thread, NoBackUp(t) PROVE Threads'
  <2>1. /\ pc[t] = "copy" /\ pc' = [pc EXCEPT ![t] = "write"]
        /\ UNCHANGED <<path, m_hFile, m_bLock, unit, msg, holder, spoilt>>
    BY <1>11 DEF NoBackUp, Goto
  <2>2. pc[t] \in Busy /\ "write" \in Busy
    BY <2>1 DEF Busy
  <2> QED
    BY <2>1, <2>2, ThreadWorks
<1> QED
  BY <1>1, <1>2, <1>3, <1>4, <1>5, <1>6, <1>7, <1>8, <1>9, <1>10, <1>11, ThreadsCopy DEF Next, Step

-----------------------------------------------------------------------------
(* The files.                                                              *)

LEMMA FilesKept ==
    ASSUME IInv, UNCHANGED <<inode, m_hFile, path>>, \A u \in Unit : spoilt[u] \subseteq spoilt'[u]
    PROVE  Files'
<1>1. \A u \in Unit : Sound(u)' => Sound(u)
  BY DEF Sound
<1> QED
  BY <1>1 DEF IInv, Files, NamesDiffer, OpenIsLog, PathsApart, OwnPath

\* A new file has a new inode, and an old one moves within its path.
LEMMA FilesOpen ==
    ASSUME IInv, NEW u \in Unit, NEW lock \in BOOLEAN, InitLogUnit(u, lock), UNCHANGED path
    PROVE  Files'
<1> DEFINE p == path[u]
           l == Log(p)
           b == <<p, now>>
           new == Len(data) + 1
<1>1. /\ \A x \in Unit : x # u => m_hFile'[x] = m_hFile[x] /\ spoilt'[x] = spoilt[x]
      /\ m_hFile[u] # None => ~SoundAfter(u)
      /\ \A n \in Name : n # l /\ n # b => inode'[n] = inode[n]
      /\ NamesOpened(u) /\ FileOpened(u)
  BY OpenIs DEF IInv
<1>2. /\ TypeOK /\ p \in Path /\ l \in Name /\ b \in Name /\ l # b
      /\ new \notin DOMAIN data /\ new # None
      /\ \A n \in Name : inode[n] # new
      /\ \A x \in Unit : m_hFile[x] # new
  BY DataIs, NamesAre, NoneIsNone DEF IInv
<1>3. /\ \/ inode'[l] = inode[l] /\ inode'[b] = inode[b]
         \/ inode[l] # None /\ inode'[b] = inode[l] /\ inode'[l] \in {None, new}
         \/ inode[l] = None /\ inode'[b] = inode[b] /\ inode'[l] = new
      /\ \/ m_hFile'[u] = m_hFile[u]
         \/ m_hFile'[u] = inode'[l] /\ inode'[l] # None /\ inode'[l] \in {new, inode[l]}
  BY <1>1, <1>2 DEF NamesOpened, FileOpened
<1> HIDE DEF new, l, b
<1>4. NamesDiffer'
  <2> SUFFICES ASSUME NEW n \in Name, NEW m \in Name, n # m, inode'[n] # None PROVE inode'[n] # inode'[m]
    BY DEF NamesDiffer
  <2>1. NamesDiffer
    BY DEF IInv, Files
  <2> QED
    BY <1>1, <1>2, <1>3, <2>1 DEF NamesDiffer
<1>5. OpenIsLog'
  <2> SUFFICES ASSUME NEW x \in Unit, OwnPath(x), m_hFile'[x] # None, Sound(x)'
               PROVE  m_hFile'[x] = inode'[Log(path[x])]
    BY DEF OpenIsLog, OwnPath
  <2>1. CASE x = u
    <3>1. m_hFile[u] = None
      BY <1>1, <2>1 DEF Sound, SoundAfter
    <3> QED
      BY <1>3, <2>1, <3>1 DEF l
  <2>2. CASE x # u
    <3>1. path[x] # p /\ path[x] \in Path
      BY <1>2, <2>2, DataIs DEF OwnPath
    <3>2. Log(path[x]) \in Name /\ Log(path[x]) # l /\ Log(path[x]) # b
      BY <1>2, <3>1, NamesAre DEF Log, l, b
    <3>3. m_hFile'[x] = m_hFile[x] /\ Sound(x)
      BY <1>1, <2>2 DEF Sound
    <3> QED
      BY <1>1, <3>2, <3>3 DEF IInv, Files, OpenIsLog
  <2> QED
    BY <2>1, <2>2
<1>6. PathsApart'
  <2> SUFFICES ASSUME NEW x \in Unit, NEW n \in Name, m_hFile'[x] # None, n[1] # path[x]
               PROVE  inode'[n] # m_hFile'[x]
    BY DEF PathsApart
  <2>1. l[1] = p /\ b[1] = p
    BY DEF Log, l, b
  <2>2. ASSUME m_hFile'[x] = m_hFile[x] PROVE inode'[n] # m_hFile'[x]
    <3>1. \A m \in Name : m[1] # path[x] => inode[m] # m_hFile[x]
      BY <2>2 DEF IInv, Files, PathsApart
    <3>2. m_hFile[x] # new /\ m_hFile[x] # None
      BY <1>2, <2>2
    <3>3. CASE n = l
      BY <1>2, <1>3, <2>1, <2>2, <3>1, <3>2, <3>3
    <3>4. CASE n = b
      BY <1>2, <1>3, <2>1, <2>2, <3>1, <3>2, <3>4
    <3>5. CASE n # l /\ n # b
      BY <1>1, <2>2, <3>1, <3>5
    <3> QED
      BY <3>3, <3>4, <3>5
  <2>3. ASSUME x = u, m_hFile'[x] # m_hFile[x] PROVE inode'[n] # m_hFile'[x]
    <3>1. m_hFile'[u] = inode'[l] /\ inode'[l] # None
      BY <1>3, <2>3
    <3>2. n # l
      BY <2>1, <2>3
    <3> QED
      BY <1>2, <1>4, <2>3, <3>1, <3>2 DEF NamesDiffer
  <2> QED
    BY <1>1, <2>2, <2>3
<1> QED
  BY <1>4, <1>5, <1>6 DEF Files

\* A backup that is made has a new inode.
LEMMA FilesCopy == ASSUME IInv, NEW t \in Thread, CopyFile(t) PROVE Files'
<1> DEFINE p == path[unit[t]]
           b == <<p, now>>
<1>1. /\ UNCHANGED <<m_hFile, path>>
      /\ inode'[b] = IF inode[b] = None THEN Len(data) + 1 ELSE inode[b]
      /\ \A n \in Name : n # b => inode'[n] = inode[n]
  BY CopiedIs DEF CopyFile, units
<1>2. /\ TypeOK /\ p \in Path /\ b \in Name
      /\ \A n \in Name : inode[n] # Len(data) + 1
      /\ \A x \in Unit : m_hFile[x] # Len(data) + 1 /\ path[x] \in Path
  <2>1. TypeOK /\ p \in Path
    BY DataIs DEF IInv
  <2>2. b \in Name
    BY <2>1, NamesAre
  <2>3. Len(data) + 1 \notin DOMAIN data \cup {None}
    BY <2>1, DataIs, NoneIsNone
  <2> QED
    BY <2>1, <2>2, <2>3, DataIs
<1>3. NamesDiffer'
  BY <1>1, <1>2 DEF IInv, Files, NamesDiffer
<1>4. OpenIsLog'
  <2>1. \A x \in Unit : Log(path[x]) \in Name /\ Log(path[x]) # b
    BY <1>2, NamesAre DEF Log, TypeOK
  <2>2. \A x \in Unit : Sound(x)' => Sound(x)
    BY <1>2 DEF CopyFile, TypeOK, Sound
  <2> QED
    BY <1>1, <2>1, <2>2 DEF IInv, Files, OpenIsLog, OwnPath
<1>5. PathsApart'
  BY <1>1, <1>2 DEF IInv, Files, PathsApart
<1> QED
  BY <1>3, <1>4, <1>5 DEF Files

\* What is spoilt stays so.
LEMMA SpoiltStep == IInv /\ [Next]_vars => \A u \in Unit : spoilt[u] \subseteq spoilt'[u]
<1> SUFFICES ASSUME IInv, [Next]_vars, NEW u \in Unit PROVE spoilt[u] \subseteq spoilt'[u]
  OBVIOUS
<1>0. TypeOK /\ \A x \in Thread : unit[x] \in Unit
  BY DEF IInv, TypeOK
<1>1. CASE InitMgr \/ \E v \in Tag : InitLog(v)
  <2>1. "GLB" \in Unit /\ Tag \subseteq Unit /\ TagLock \subseteq BOOLEAN
    BY LogUnitAssumption DEF Unit
  <2> QED
    BY <1>0, <1>1, <2>1, OpenIs DEF InitMgr, InitLog
<1>2. ASSUME NEW t \in Thread, CheckBackUp(t) PROVE spoilt[u] \subseteq spoilt'[u]
  BY <1>0, <1>2 DEF CheckBackUp, NoteRace, TypeOK
<1>3. ASSUME NEW t \in Thread, CopyFile(t) PROVE spoilt[u] \subseteq spoilt'[u]
  BY <1>0, <1>3 DEF CopyFile, TypeOK
<1>4. ASSUME NEW t \in Thread, CopyFileFails(t) PROVE spoilt[u] \subseteq spoilt'[u]
  BY <1>0, <1>4 DEF CopyFileFails, Spoil, TypeOK
<1>5. ASSUME NEW t \in Thread, Works(t) PROVE spoilt[u] \subseteq spoilt'[u]
  BY <1>5, WorksIs
<1>6. spoilt' = spoilt => spoilt[u] \subseteq spoilt'[u]
  OBVIOUS
<1>7. ASSUME NEW t \in Thread, Lock(t) \/ NoBackUp(t) PROVE spoilt' = spoilt
  BY <1>7 DEF Lock, NoBackUp
<1>8. ASSUME NEW t \in Thread, NEW v \in Unit, Begin(t, v) PROVE spoilt' = spoilt
  BY <1>8 DEF Begin
<1>9. Restart \/ Tick \/ UNCHANGED vars => spoilt' = spoilt
  BY DEF Restart, Tick, vars
<1> QED
  BY <1>1, <1>2, <1>3, <1>4, <1>5, <1>6, <1>7, <1>8, <1>9 DEF Next, Step, Works

LEMMA FilesStep == IInv /\ [Next]_vars => Files'
<1> SUFFICES ASSUME IInv, [Next]_vars PROVE Files'
  OBVIOUS
<1>0. \A u \in Unit : spoilt[u] \subseteq spoilt'[u]
  BY SpoiltStep
<1>1. CASE InitMgr \/ \E u \in Tag : InitLog(u)
  <2>1. "GLB" \in Unit /\ Tag \subseteq Unit /\ TagLock \subseteq BOOLEAN
    BY LogUnitAssumption DEF Unit
  <2> QED
    BY <1>1, <2>1, FilesOpen DEF InitMgr, InitLog
<1>2. CASE Restart
  BY <1>2 DEF Restart, IInv, Files, NamesDiffer, OpenIsLog, PathsApart
<1>3. ASSUME UNCHANGED disk, UNCHANGED units PROVE Files'
  BY <1>0, <1>3, FilesKept DEF disk, units
<1>4. ASSUME NEW t \in Thread, Step(t), ~CopyFile(t) PROVE UNCHANGED <<inode, m_hFile, path>>
  BY <1>4 DEF Step, Lock, CheckBackUp, NoBackUp, CopyFileFails, Truncate, Write, WriteEnd, disk, units
<1>5. ASSUME NEW t \in Thread, Step(t) PROVE Files'
  BY <1>0, <1>4, <1>5, FilesKept, FilesCopy
<1> QED
  BY <1>1, <1>2, <1>3, <1>5 DEF Next, Begin, Tick, vars, disk, units

\* No other unit has the file of a sound unit open.
LEMMA OwnFile ==
    ASSUME IInv, NEW u \in Unit, OwnPath(u), Sound(u), m_hFile[u] # None,
           NEW v \in Unit, v # u, m_hFile[v] # None
    PROVE  m_hFile[u] # m_hFile[v]
<1>1. Log(path[u]) \in Name /\ Log(path[u])[1] = path[u] /\ path[v] # path[u]
  BY DataIs, NamesAre DEF IInv, OwnPath, Log
<1> QED
  BY <1>1 DEF IInv, Files, OpenIsLog, PathsApart

\* Nobody makes a backup over it.
LEMMA CopySpares ==
    ASSUME IInv, NEW t \in Thread, CopyFile(t),
           NEW u \in Unit, OwnPath(u), Sound(u), m_hFile[u] # None
    PROVE  data'[m_hFile[u]] = data[m_hFile[u]]
<1> DEFINE p == path[unit[t]]
           b == <<p, now>>
           i == inode'[b]
<1>1. /\ p \in Path
      /\ i = IF inode[b] = None THEN Len(data) + 1 ELSE inode[b]
      /\ \A k \in DOMAIN data : k # i => data'[k] = data[k]
  BY CopiedIs
<1>2. TypeOK /\ b \in Name /\ Len(data) + 1 \notin DOMAIN data
  BY <1>1, DataIs, NamesAre DEF IInv
<1>3. Log(path[u]) \in Name /\ Log(path[u]) # b /\ m_hFile[u] \in DOMAIN data
  BY <1>2, DataIs, NamesAre DEF Log, TypeOK
<1>4. m_hFile[u] = inode[Log(path[u])]
  BY DEF IInv, Files, OpenIsLog
<1>5. m_hFile[u] # i
  BY <1>1, <1>2, <1>3, <1>4 DEF IInv, Files, NamesDiffer
<1> QED
  BY <1>1, <1>3, <1>5

LEMMA AtEndKept ==
    ASSUME IInv, \A u \in Unit : spoilt[u] \subseteq spoilt'[u], UNCHANGED <<m_hFile, path, pos>>,
           \A u \in Unit : OwnPath(u) /\ Sound(u) /\ m_hFile[u] # None =>
               data'[m_hFile[u]] = data[m_hFile[u]]
    PROVE  AtEnd'
<1>1. \A u \in Unit : Sound(u)' => Sound(u)
  BY DEF Sound
<1> QED
  BY <1>1 DEF IInv, AtEnd, OwnPath

LEMMA AtEndWorks == ASSUME IInv, NEW t \in Thread, Works(t) PROVE AtEnd'
<1> DEFINE v == unit[t]
           f == m_hFile[v]
<1>1. /\ v \in Unit /\ f # None /\ f \in DOMAIN data
      /\ \A k \in DOMAIN data : k # f => data'[k] = data[k]
      /\ \A u \in Unit : u # v => pos'[u] = pos[u]
      /\ \A u \in Unit : spoilt[u] \subseteq spoilt'[u]
      /\ SoundAfter(v) /\ OwnPath(v) => data'[f] = Left(t) /\ pos'[v] = Len(Left(t))
  BY WorksIs
<1>2. UNCHANGED <<m_hFile, path>>
  BY DEF Works, Truncate, Write, WriteEnd, units
<1> SUFFICES ASSUME NEW u \in Unit, OwnPath(u), m_hFile[u] # None, SoundAfter(u)
             PROVE  pos'[u] = Len(data'[m_hFile[u]])
  BY <1>2 DEF AtEnd, OwnPath, Sound, SoundAfter
<1>3. CASE u = v
  BY <1>1, <1>3
<1>4. CASE u # v
  <2>1. Sound(u) /\ m_hFile[u] \in DOMAIN data
    BY <1>1, DataIs, SoundBefore DEF IInv
  <2>2. m_hFile[u] # f
    BY <1>1, <1>4, <2>1, OwnFile
  <2> QED
    BY <1>1, <1>4, <2>1, <2>2 DEF IInv, AtEnd
<1> QED
  BY <1>3, <1>4

LEMMA AtEndOpen ==
    ASSUME IInv, NEW u \in Unit, NEW lock \in BOOLEAN, InitLogUnit(u, lock), UNCHANGED path
    PROVE  AtEnd'
<1>1. /\ TypeOK /\ \A k \in DOMAIN data : data'[k] = data[k]
      /\ \A x \in Unit : x # u =>
             m_hFile'[x] = m_hFile[x] /\ pos'[x] = pos[x] /\ spoilt'[x] = spoilt[x]
      /\ FileOpened(u) /\ (m_hFile[u] # None => ~SoundAfter(u))
  BY OpenIs DEF IInv
<1> SUFFICES ASSUME NEW x \in Unit, OwnPath(x), m_hFile'[x] # None, SoundAfter(x)
             PROVE  pos'[x] = Len(data'[m_hFile'[x]])
  BY DEF AtEnd, OwnPath, Sound, SoundAfter
<1>2. CASE x = u
  <2>1. m_hFile'[u] = inode'[Log(path[u])] /\ pos'[u] = 0 /\ data'[inode'[Log(path[u])]] = <<>>
    BY <1>1, <1>2 DEF FileOpened
  <2>2. Len(<<>>) = 0
    OBVIOUS
  <2> QED
    BY <1>2, <2>1, <2>2
<1>3. CASE x # u
  <2>1. m_hFile[x] \in DOMAIN data /\ Sound(x) /\ m_hFile[x] # None
    BY <1>1, <1>3, DataIs DEF Sound, SoundAfter
  <2> QED
    BY <1>1, <1>3, <2>1 DEF IInv, AtEnd
<1> QED
  BY <1>2, <1>3

LEMMA AtEndStep == IInv /\ [Next]_vars => AtEnd'
<1> SUFFICES ASSUME IInv, [Next]_vars PROVE AtEnd'
  OBVIOUS
<1>0. \A u \in Unit : spoilt[u] \subseteq spoilt'[u]
  BY SpoiltStep
<1>1. CASE InitMgr \/ \E u \in Tag : InitLog(u)
  <2>1. "GLB" \in Unit /\ Tag \subseteq Unit /\ TagLock \subseteq BOOLEAN
    BY LogUnitAssumption DEF Unit
  <2> QED
    BY <1>1, <2>1, AtEndOpen DEF InitMgr, InitLog
<1>2. CASE Restart
  BY <1>2 DEF Restart, AtEnd
<1>3. ASSUME UNCHANGED <<m_hFile, path, pos, data>> PROVE AtEnd'
  BY <1>0, <1>3, AtEndKept
<1>4. ASSUME NEW t \in Thread, Step(t), ~CopyFile(t), ~Works(t) PROVE UNCHANGED <<m_hFile, path, pos, data>>
  BY <1>4 DEF Step, Works, Lock, CheckBackUp, NoBackUp, CopyFileFails, disk, units
<1>5. ASSUME NEW t \in Thread, CopyFile(t) PROVE AtEnd'
  <2>1. UNCHANGED <<m_hFile, path, pos>>
    BY <1>5 DEF CopyFile, units
  <2> QED
    BY <1>0, <1>5, <2>1, CopySpares, AtEndKept
<1>6. ASSUME NEW t \in Thread, Step(t) PROVE AtEnd'
  BY <1>3, <1>4, <1>5, <1>6, AtEndWorks
<1> QED
  BY <1>1, <1>2, <1>3, <1>6 DEF Next, Begin, Tick, vars, disk, units

LEMMA IInvStep == IInv /\ [Next]_vars => IInv'
BY TypeStep, ThreadsStep, FilesStep, AtEndStep DEF IInv

THEOREM TypeCorrect == Spec => []TypeOK
<1>1. IInv => TypeOK
  BY DEF IInv
<1> QED
  BY <1>1, InitOk, IInvStep, PTL DEF Spec

-----------------------------------------------------------------------------
(* No finished line is lost.                                               *)

\* The files do not change, no line is finished, and who is at "truncate" or at
\* "end" was there before.
LEMMA KeptMoves ==
    ASSUME IInv, KeptInv, UNCHANGED <<inode, data, path, done>>,
           \A u \in Unit : spoilt[u] \subseteq spoilt'[u], \A x \in Thread : unit'[x] \in Unit,
           \A x \in Thread : pc'[x] = "truncate" =>
               spoilt'[unit'[x]] # {} \/ (pc[x] = "truncate" /\ unit'[x] = unit[x]),
           \A x \in Thread : pc'[x] = "end" =>
               pc[x] = "end" /\ unit'[x] = unit[x] /\ msg'[x] = msg[x]
    PROVE  KeptInv'
<1>1. \A u \in Unit : spoilt'[u] = {} => spoilt[u] = {}
  OBVIOUS
<1>2. \A p, m : (InLog(p, m)' <=> InLog(p, m)) /\ (InBackup(p, m)' <=> InBackup(p, m))
  BY DEF InLog, InBackup
<1>3. Kept'
  BY <1>1, <1>2 DEF KeptInv, Kept, OwnPath
<1>4. BackedUp'
  BY <1>1, <1>2 DEF KeptInv, BackedUp, OwnPath
<1>5. Begun'
  BY <1>1, <1>2 DEF KeptInv, Begun, OwnPath
<1> QED
  BY <1>3, <1>4, <1>5 DEF KeptInv

\* Who writes changes the log of its unit, and what has another name stays.
LEMMA WritesItsLog ==
    ASSUME IInv, NEW t \in Thread, Works(t), NEW u \in Unit, OwnPath(u), SoundAfter(u), NEW m
    PROVE  /\ InBackup(path[u], m)' <=> InBackup(path[u], m)
           /\ unit[t] # u => (InLog(path[u], m)' <=> InLog(path[u], m))
           /\ unit[t] = u => (InLog(path[u], m)' <=> Has(Left(t), m))
<1> DEFINE v == unit[t]
           f == m_hFile[v]
           p == path[u]
<1>1. /\ v \in Unit /\ f \in DOMAIN data /\ pc[t] # "idle" /\ f # None
      /\ DOMAIN data' = DOMAIN data /\ (v = u => data'[f] = Left(t))
      /\ \A k \in DOMAIN data : k # f => data'[k] = data[k]
      /\ \A x \in Unit : spoilt[x] \subseteq spoilt'[x]
  BY WorksIs
<1>2. UNCHANGED <<path, inode>>
  BY DEF Works, Truncate, Write, WriteEnd, units
<1>3. /\ TypeOK /\ p \in Path /\ Log(p) \in Name
      /\ \A s \in 0 .. MaxNow : <<p, s>> \in Name /\ <<p, s>> # Log(p)
      /\ \A n \in Name : inode[n] # None => inode[n] \in DOMAIN data
  BY <1>1, DataIs, NamesAre DEF IInv
<1>4. ASSUME v # u, NEW n \in Name, n[1] = p PROVE inode[n] # f
  BY <1>1, <1>3, <1>4 DEF OwnPath, IInv, Files, PathsApart
<1>5. v = u => inode[Log(p)] = f
  <2>1. Sound(u)
    BY <1>1, SoundBefore
  <2> QED
    BY <1>1, <1>3, <2>1 DEF IInv, Files, OpenIsLog
<1>6. ASSUME NEW s \in 0 .. MaxNow PROVE inode[<<p, s>>] # f
  <2>1. CASE v = u
    BY <1>1, <1>3, <1>5, <1>6, <2>1 DEF IInv, Files, NamesDiffer
  <2>2. CASE v # u
    BY <1>3, <1>4, <1>6, <2>2
  <2> QED
    BY <2>1, <2>2
<1>7. InBackup(p, m)' <=> InBackup(p, m)
  BY <1>1, <1>2, <1>3, <1>6 DEF InBackup
<1>8. v # u => (InLog(p, m)' <=> InLog(p, m))
  <2>1. Log(p)[1] = p
    BY DEF Log
  <2> QED
    BY <1>1, <1>2, <1>3, <1>4, <2>1 DEF InLog
<1>9. v = u => (InLog(p, m)' <=> Has(Left(t), m))
  BY <1>1, <1>2, <1>3, <1>5 DEF InLog
<1> QED
  BY <1>7, <1>8, <1>9

\* What is appended and what was there is in the file.
LEMMA HasAppended ==
    ASSUME NEW d \in Seq(Piece), NEW e \in Piece, NEW m
    PROVE  Has(Append(d, e), m) <=> Has(d, m) \/ e = m
<1>1. /\ Len(d) \in Nat /\ DOMAIN d = 1 .. Len(d) /\ DOMAIN Append(d, e) = 1 .. Len(d) + 1
      /\ Append(d, e)[Len(d) + 1] = e /\ \A i \in 1 .. Len(d) : Append(d, e)[i] = d[i]
  BY AppendProperties
<1> DEFINE a == Append(d, e)
           n == Len(d)
<1> HIDE DEF a, n
<1>2. \A i \in 1 .. n + 1 : i = n + 1 \/ i \in 1 .. n
  BY <1>1 DEF n
<1>3. n + 1 \in 1 .. n + 1 /\ 1 .. n \subseteq 1 .. n + 1
  BY <1>1 DEF n
<1> QED
  BY <1>1, <1>2, <1>3 DEF a, n, Has

\* Two threads are not at work on a file whose lines are safe.
LEMMA OneWorks ==
    ASSUME IInv, NEW t \in Thread, NEW x \in Thread, t # x, unit[x] = unit[t],
           pc[t] \in Busy, spoilt[unit[t]] = {}
    PROVE  pc[x] \notin Busy
BY DEF IInv, Threads, Alone, Sound

LEMMA KeptWrite == ASSUME IInv, KeptInv, NEW t \in Thread, Works(t)
                   PROVE  KeptInv'
<1> DEFINE v == unit[t]
<1>1. /\ UNCHANGED <<path, m_hFile, unit, msg>>
      /\ \A x \in Thread : x # t => pc'[x] = pc[x]
      /\ \A u \in Unit : u # v => done'[u] = done[u]
      /\ pc[t] = "end" => done'[v] = done[v] \cup {msg[t]}
      /\ pc[t] # "end" => done' = done
      /\ pc[t] = "truncate" => pc'[t] = "write"
      /\ pc[t] = "write" => pc'[t] = "end"
      /\ pc[t] = "end" => pc'[t] = "idle"
  BY DEF Works, Truncate, Write, WriteEnd, units, Goto, IInv, TypeOK
<1>2. /\ pc[t] = "truncate" \/ pc[t] = "write" \/ pc[t] = "end"
      /\ v \in Unit /\ pc[t] \in Busy
  BY WorksIs DEF Busy
<1>0. ASSUME NEW u \in Unit, spoilt'[u] = {} PROVE spoilt[u] = {} /\ Sound(u) /\ SoundAfter(u)
  BY <1>0, WorksIs DEF Sound, SoundAfter
<1>3. pc[t] # "truncate" /\ OwnPath(v) /\ spoilt'[v] = {} =>
          \A m : Has(Left(t), m) <=>
              InLog(path[v], m) \/ m = IF pc[t] = "write" THEN msg[t] ELSE LineEnd
  <2> SUFFICES ASSUME pc[t] # "truncate", OwnPath(v), spoilt'[v] = {}, NEW m
               PROVE  Has(Left(t), m) <=>
                      InLog(path[v], m) \/ m = IF pc[t] = "write" THEN msg[t] ELSE LineEnd
    OBVIOUS
  <2> DEFINE e == IF pc[t] = "write" THEN msg[t] ELSE LineEnd
             d == data[m_hFile[v]]
  <2>1. m_hFile[v] # None /\ m_hFile[v] = inode[Log(path[v])]
    BY <1>0, <1>2, WorksIs DEF IInv, Files, OpenIsLog
  <2>2. d \in Seq(Piece) /\ e \in Piece
    <3>1. TypeOK /\ msg[t] \in 0 .. MaxLines /\ msg[t] # 0
      BY <1>2 DEF IInv, TypeOK, Threads, HasFile, Busy
    <3>2. msg[t] \in Piece
      BY <3>1 DEF Piece, Message
    <3> QED
      BY <1>2, <2>1, <3>1, <3>2, DataIs, PiecesAre
  <2>3. Left(t) = Append(d, e)
    BY DEF Left
  <2>4. InLog(path[v], m) <=> Has(d, m)
    BY <2>1 DEF InLog
  <2> HIDE DEF d, e
  <2>5. Has(Left(t), m) <=> Has(d, m) \/ e = m
    BY <2>2, <2>3, HasAppended
  <2> QED
    BY <2>4, <2>5 DEF e
<1>4. ASSUME NEW u \in Unit, spoilt'[u] = {}, OwnPath(u), NEW m \in done'[u]
      PROVE  InLog(path[u], m)' \/ InBackup(path[u], m)'
  <2>0. spoilt[u] = {} /\ SoundAfter(u)
    BY <1>0, <1>4
  <2>1. CASE u # v
    BY <1>1, <1>4, <2>0, <2>1, WritesItsLog DEF KeptInv, Kept
  <2>2. CASE u = v /\ pc[t] = "truncate"
    BY <1>1, <1>4, <2>0, <2>2, WritesItsLog DEF KeptInv, BackedUp
  <2>3. CASE u = v /\ pc[t] # "truncate"
    <3>1. InLog(path[v], m) \/ InBackup(path[v], m)
      BY <1>1, <1>2, <1>4, <2>0, <2>3 DEF KeptInv, Kept, Begun
    <3> QED
      BY <1>3, <1>4, <2>0, <2>3, <3>1, WritesItsLog
  <2> QED
    BY <2>1, <2>2, <2>3
<1>5. ASSUME NEW x \in Thread, pc'[x] = "truncate", spoilt'[unit[x]] = {}, OwnPath(unit[x]),
             NEW m \in done'[unit[x]]
      PROVE  InBackup(path[unit[x]], m)'
  <2>1. /\ x # t /\ pc[x] = "truncate" /\ unit[x] \in Unit
        /\ spoilt[unit[x]] = {} /\ SoundAfter(unit[x])
    BY <1>0, <1>1, <1>2, <1>5 DEF IInv, TypeOK
  <2>2. unit[x] # v
    BY <1>2, <1>5, <2>1, OneWorks DEF Busy
  <2>3. InBackup(path[unit[x]], m)
    BY <1>1, <1>5, <2>1, <2>2 DEF KeptInv, BackedUp
  <2> QED
    BY <1>1, <1>5, <2>1, <2>3, WritesItsLog
<1>6. ASSUME NEW x \in Thread, pc'[x] = "end", spoilt'[unit[x]] = {}, OwnPath(unit[x])
      PROVE  InLog(path[unit[x]], msg[x])'
  <2>0. unit[x] \in Unit /\ spoilt[unit[x]] = {} /\ SoundAfter(unit[x])
    BY <1>0, <1>6 DEF IInv, TypeOK
  <2>1. CASE x = t
    BY <1>1, <1>2, <1>3, <1>6, <2>0, <2>1, WritesItsLog
  <2>2. CASE x # t
    <3>1. pc[x] = "end" /\ unit[x] \in Unit
      BY <1>1, <1>6, <2>2 DEF IInv, TypeOK
    <3>2. unit[x] # v
      BY <1>2, <1>6, <2>0, <2>2, <3>1, OneWorks DEF Busy
    <3>3. InLog(path[unit[x]], msg[x])
      BY <1>6, <2>0, <3>1 DEF KeptInv, Begun
    <3> QED
      BY <1>1, <1>6, <2>0, <3>1, <3>2, <3>3, WritesItsLog
  <2> QED
    BY <2>1, <2>2
<1>7. Kept'
  BY <1>1, <1>4 DEF Kept, OwnPath
<1>8. BackedUp'
  BY <1>1, <1>5 DEF BackedUp, OwnPath
<1>9. Begun'
  BY <1>1, <1>6 DEF Begun, OwnPath
<1> QED
  BY <1>7, <1>8, <1>9 DEF KeptInv

\* A copy that does not spoil the lines of a unit has all of them.
LEMMA CopyKeeps ==
    ASSUME IInv, NEW t \in Thread, CopyFile(t), NEW u \in Unit, OwnPath(u), spoilt'[u] = {}, NEW m
    PROVE  /\ spoilt[u] = {}
           /\ InLog(path[u], m)' <=> InLog(path[u], m)
           /\ InBackup(path[u], m) => InBackup(path[u], m)'
           /\ unit[t] = u /\ InLog(path[u], m) => InBackup(path[u], m)'
<1> DEFINE v == unit[t]
           p == path[v]
           b == <<p, now>>
           i == inode'[b]
<1>1. /\ UNCHANGED path
      /\ p \in Path /\ inode[Log(p)] # None
      /\ i = IF inode[b] = None THEN Len(data) + 1 ELSE inode[b]
      /\ \A n \in Name : n # b => inode'[n] = inode[n]
      /\ data'[i] = data[inode[Log(p)]]
      /\ \A k \in DOMAIN data : k # i => data'[k] = data[k]
  BY CopiedIs DEF CopyFile, units
<1>2. /\ TypeOK /\ v \in Unit /\ b \in Name /\ now \in 0 .. MaxNow /\ path[u] \in Path
      /\ Len(data) + 1 \notin DOMAIN data /\ Len(data) + 1 # None
      /\ \A n \in Name : inode[n] # None => inode[n] \in DOMAIN data
  <2>1. TypeOK /\ now \in 0 .. MaxNow
    BY DEF IInv, TypeOK
  <2> QED
    BY <1>1, <2>1, DataIs, NamesAre, NoneIsNone
<1>3. /\ Log(path[u]) \in Name /\ Log(path[u]) # b
      /\ \A s \in 0 .. MaxNow : <<path[u], s>> \in Name /\ <<path[u], s>> # Log(path[u])
  BY <1>2, NamesAre DEF Log
<1>4. spoilt[u] = {} /\ (u = v => ~Clash(p))
  BY <1>2 DEF CopyFile, TypeOK
<1>5. u = v => inode[b] = None
  BY <1>1, <1>4 DEF Clash
<1>6. \A n \in Name : n # b /\ inode[n] # None => inode[n] # i
  BY <1>1, <1>2 DEF IInv, Files, NamesDiffer
<1>7. \A n \in Name : n # b /\ inode[n] # None =>
          inode'[n] = inode[n] /\ data'[inode[n]] = data[inode[n]]
  BY <1>1, <1>2, <1>6
<1>8. InLog(path[u], m)' <=> InLog(path[u], m)
  BY <1>1, <1>3, <1>7 DEF InLog
<1>9. \A s \in 0 .. MaxNow : inode[<<path[u], s>>] # None => <<path[u], s>> # b
  <2>1. CASE u = v
    BY <1>5, <2>1
  <2>2. CASE u # v
    BY <2>2 DEF OwnPath, IInv, TypeOK
  <2> QED
    BY <2>1, <2>2
<1>10. InBackup(path[u], m) => InBackup(path[u], m)'
  BY <1>1, <1>3, <1>7, <1>9 DEF InBackup
<1>11. v = u /\ InLog(path[u], m) => InBackup(path[u], m)'
  <2> SUFFICES ASSUME v = u, InLog(path[u], m) PROVE InBackup(path[u], m)'
    OBVIOUS
  <2>1. Has(data'[i], m) /\ i # None
    BY <1>1, <1>2, <1>5 DEF InLog
  <2> QED
    BY <1>1, <1>2, <2>1 DEF InBackup
<1> QED
  BY <1>4, <1>8, <1>10, <1>11

LEMMA KeptCopy == ASSUME IInv, KeptInv, NEW t \in Thread, CopyFile(t) PROVE KeptInv'
<1>1. /\ UNCHANGED <<path, unit, msg, done>> /\ pc[t] = "copy" /\ pc'[t] = "truncate"
      /\ \A x \in Thread : x # t => pc'[x] = pc[x]
      /\ \A x \in Thread : unit[x] \in Unit
  BY DEF CopyFile, units, Goto, IInv, TypeOK
<1>2. Kept'
  <2> SUFFICES ASSUME NEW u \in Unit, spoilt'[u] = {}, OwnPath(u), NEW m \in done[u]
               PROVE  InLog(path[u], m)' \/ InBackup(path[u], m)'
    BY <1>1 DEF Kept, OwnPath
  <2> QED
    BY CopyKeeps DEF KeptInv, Kept
<1>3. BackedUp'
  <2> SUFFICES ASSUME NEW x \in Thread, pc'[x] = "truncate", spoilt'[unit[x]] = {}, OwnPath(unit[x]),
                      NEW m \in done[unit[x]]
               PROVE  InBackup(path[unit[x]], m)'
    BY <1>1 DEF BackedUp, OwnPath
  <2>1. CASE x = t
    <3>1. InLog(path[unit[t]], m) \/ InBackup(path[unit[t]], m)
      BY <1>1, <2>1, CopyKeeps DEF KeptInv, Kept
    <3> QED
      BY <1>1, <2>1, <3>1, CopyKeeps
  <2>2. CASE x # t
    <3>1. spoilt[unit[x]] = {}
      BY <1>1, CopyKeeps
    <3>2. InBackup(path[unit[x]], m)
      BY <1>1, <2>2, <3>1 DEF KeptInv, BackedUp
    <3> QED
      BY <1>1, <3>2, CopyKeeps
  <2> QED
    BY <2>1, <2>2
<1>4. Begun'
  <2> SUFFICES ASSUME NEW x \in Thread, pc'[x] = "end", spoilt'[unit[x]] = {}, OwnPath(unit[x])
               PROVE  InLog(path[unit[x]], msg[x])'
    BY <1>1 DEF Begun, OwnPath
  <2>1. pc[x] = "end" /\ spoilt[unit[x]] = {}
    BY <1>1, CopyKeeps
  <2>2. InLog(path[unit[x]], msg[x])
    BY <2>1 DEF KeptInv, Begun
  <2> QED
    BY <1>1, <2>2, CopyKeeps
<1> QED
  BY <1>2, <1>3, <1>4 DEF KeptInv

\* A message that was in the log or a backup of a path still is after a unit was
\* opened, if its lines were not spoilt.
LEMMA OpenKeeps ==
    ASSUME IInv, NEW u \in Unit, NEW lock \in BOOLEAN, InitLogUnit(u, lock), UNCHANGED path,
           NEW x \in Unit, OwnPath(x), spoilt'[x] = {}, NEW m
    PROVE  /\ spoilt[x] = {}
           /\ InLog(path[x], m) \/ InBackup(path[x], m) => InLog(path[x], m)' \/ InBackup(path[x], m)'
           /\ x # u => (InLog(path[x], m) => InLog(path[x], m)')
           /\ x # u => (InBackup(path[x], m) => InBackup(path[x], m)')
<1> DEFINE p == path[u]
           l == Log(p)
           b == <<p, now>>
<1>1. /\ \A k \in DOMAIN data : data'[k] = data[k]
      /\ \A n \in Name : n # l /\ n # b => inode'[n] = inode[n]
      /\ \A y \in Unit : spoilt[y] \subseteq spoilt'[y]
      /\ NamesOpened(u)
  BY OpenIs DEF IInv
<1>2. /\ TypeOK /\ p \in Path /\ l \in Name /\ b \in Name /\ l # b /\ now \in 0 .. MaxNow
      /\ path[x] \in Path
      /\ \A n \in Name : inode[n] # None => inode[n] \in DOMAIN data
  BY DataIs, NamesAre DEF IInv, TypeOK
<1>3. /\ Log(path[x]) \in Name
      /\ \A s \in 0 .. MaxNow : <<path[x], s>> \in Name /\ <<path[x], s>> # Log(path[x])
  BY <1>2, NamesAre
<1>4. spoilt[x] = {}
  BY <1>1
<1>5. CASE x # u
  <2>1. path[x] # p
    BY <1>5 DEF OwnPath
  <2>2. /\ Log(path[x]) # l /\ Log(path[x]) # b
        /\ \A s : <<path[x], s>> # l /\ <<path[x], s>> # b
    BY <2>1 DEF Log
  <2> HIDE DEF l, b
  <2>3. InLog(path[x], m) => InLog(path[x], m)'
    BY <1>1, <1>2, <1>3, <2>2 DEF InLog
  <2>4. InBackup(path[x], m) => InBackup(path[x], m)'
    BY <1>1, <1>2, <1>3, <2>2 DEF InBackup
  <2> QED
    BY <1>4, <2>3, <2>4
<1>6. CASE x = u
  <2>1. \/ inode'[l] = inode[l] /\ inode'[b] = inode[b]
        \/ inode[l] # None /\ inode'[b] = inode[l] /\ inode[b] = None
        \/ inode[l] = None /\ inode'[b] = inode[b]
    BY <1>1, <1>6 DEF NamesOpened
  <2>2. ASSUME InLog(p, m) PROVE InLog(p, m)' \/ InBackup(p, m)'
    <3>1. inode[l] # None /\ Has(data'[inode[l]], m)
      BY <1>1, <1>2, <2>2 DEF InLog
    <3>2. CASE inode'[l] = inode[l]
      BY <3>1, <3>2 DEF InLog
    <3>3. CASE inode'[b] = inode[l]
      BY <1>2, <3>1, <3>3 DEF InBackup
    <3> QED
      BY <2>1, <3>1, <3>2, <3>3
  <2>3. ASSUME InBackup(p, m) PROVE InBackup(p, m)'
    <3>1. PICK s \in 0 .. MaxNow : inode[<<p, s>>] # None /\ Has(data[inode[<<p, s>>]], m)
      BY <2>3 DEF InBackup
    <3>2. inode'[<<p, s>>] = inode[<<p, s>>]
      <4>1. CASE s = now
        BY <2>1, <3>1, <4>1
      <4>2. CASE s # now
        BY <1>1, <1>3, <1>6, <4>2
      <4> QED
        BY <4>1, <4>2
    <3>3. Has(data'[inode[<<p, s>>]], m)
      BY <1>1, <1>2, <1>3, <1>6, <3>1
    <3> QED
      BY <3>1, <3>2, <3>3 DEF InBackup
  <2> QED
    BY <1>4, <1>6, <2>2, <2>3
<1> QED
  BY <1>5, <1>6

LEMMA KeptOpen ==
    ASSUME IInv, KeptInv, NEW u \in Unit, NEW lock \in BOOLEAN, InitLogUnit(u, lock),
           UNCHANGED <<path, pc, unit, msg, done>>
    PROVE  KeptInv'
<1>1. /\ TypeOK /\ \A x \in Thread : unit[x] \in Unit
      /\ m_hFile[u] # None => ~SoundAfter(u)
  BY OpenIs DEF IInv, TypeOK
<1>2. \A x \in Thread : pc[x] # "idle" /\ spoilt'[unit[x]] = {} => unit[x] # u
  BY <1>1 DEF IInv, Threads, HasFile, SoundAfter
<1>3. Kept'
  <2> SUFFICES ASSUME NEW x \in Unit, spoilt'[x] = {}, OwnPath(x), NEW m \in done[x]
               PROVE  InLog(path[x], m)' \/ InBackup(path[x], m)'
    BY DEF Kept, OwnPath
  <2> QED
    BY OpenKeeps DEF KeptInv, Kept
<1>4. BackedUp'
  <2> SUFFICES ASSUME NEW x \in Thread, pc[x] = "truncate", spoilt'[unit[x]] = {}, OwnPath(unit[x]),
                      NEW m \in done[unit[x]]
               PROVE  InBackup(path[unit[x]], m)'
    BY DEF BackedUp, OwnPath
  <2>1. unit[x] # u /\ unit[x] \in Unit
    BY <1>1, <1>2
  <2> QED
    BY <2>1, OpenKeeps DEF KeptInv, BackedUp
<1>5. Begun'
  <2> SUFFICES ASSUME NEW x \in Thread, pc[x] = "end", spoilt'[unit[x]] = {}, OwnPath(unit[x])
               PROVE  InLog(path[unit[x]], msg[x])'
    BY DEF Begun, OwnPath
  <2>1. unit[x] # u /\ unit[x] \in Unit
    BY <1>1, <1>2
  <2> QED
    BY <2>1, OpenKeeps DEF KeptInv, Begun
<1> QED
  BY <1>3, <1>4, <1>5 DEF KeptInv

LEMMA KeptStep == IInv /\ KeptInv /\ [Next]_vars => KeptInv'
<1> SUFFICES ASSUME IInv, KeptInv, [Next]_vars PROVE KeptInv'
  OBVIOUS
<1>0. TypeOK /\ KeptInv /\ \A x \in Thread : unit[x] \in Unit
  BY DEF IInv, TypeOK
<1>1. CASE InitMgr \/ \E u \in Tag : InitLog(u)
  <2>1. "GLB" \in Unit /\ Tag \subseteq Unit
    BY DEF Unit
  <2>2. TagLock \subseteq BOOLEAN
    BY LogUnitAssumption
  <2> QED
    BY <1>1, <2>1, <2>2, KeptOpen DEF InitMgr, InitLog, threads
<1>2. CASE Restart
  <2>1. /\ UNCHANGED <<inode, data, path, done, spoilt>>
        /\ \A x \in Thread : pc'[x] = "idle" /\ unit'[x] = "GLB"
    BY <1>2 DEF Restart
  <2>2. "GLB" \in Unit
    BY DEF Unit
  <2> QED
    BY <1>0, <2>1, <2>2, KeptMoves
<1>3. CASE Tick \/ UNCHANGED vars
  BY <1>0, <1>3, KeptMoves DEF Tick, vars, units, disk, threads
<1>4. ASSUME NEW t \in Thread, NEW tag \in Unit, Begin(t, tag) PROVE KeptInv'
  <2>1. /\ UNCHANGED <<inode, data, path, done, spoilt>>
        /\ pc' = [pc EXCEPT ![t] = "lock"]
        /\ \A x \in Thread : x # t => unit'[x] = unit[x] /\ msg'[x] = msg[x]
    BY <1>0, <1>4 DEF Begin, Goto, units, disk, TypeOK
  <2>2. unit'[t] \in Unit
    BY <1>0, <1>4 DEF Begin, Unit, TypeOK
  <2>3. pc'[t] = "lock" /\ \A x \in Thread : x # t => pc'[x] = pc[x]
    BY <1>0, <2>1 DEF TypeOK
  <2> QED
    BY <1>0, <2>1, <2>2, <2>3, KeptMoves
<1>5. ASSUME NEW t \in Thread, Lock(t) \/ CheckBackUp(t) PROVE KeptInv'
  <2>1. /\ UNCHANGED <<inode, data, path, done, unit, msg>>
        /\ \E p \in {"check", "write", "copy"} : pc' = [pc EXCEPT ![t] = p]
        /\ spoilt' = spoilt \/ NoteRace(t)
    BY <1>5 DEF Lock, CheckBackUp, Goto, units, disk
  <2>2. \A u \in Unit : spoilt[u] \subseteq spoilt'[u]
    <3>1. spoilt \in [Unit -> SUBSET Cause] /\ unit[t] \in Unit
      BY <1>0 DEF TypeOK
    <3>2. \/ spoilt' = spoilt
          \/ spoilt' = [spoilt EXCEPT ![unit[t]] = @ \cup {"race"}]
      BY <2>1 DEF NoteRace
    <3> QED
      BY <3>1, <3>2
  <2>3. \A x \in Thread : pc'[x] \in {"truncate", "end"} => pc'[x] = pc[x]
    BY <1>0, <2>1 DEF TypeOK
  <2> QED
    BY <1>0, <2>1, <2>2, <2>3, KeptMoves
<1>6. ASSUME NEW t \in Thread, CopyFileFails(t) PROVE KeptInv'
  <2>1. /\ UNCHANGED <<inode, data, path, done, unit, msg>>
        /\ pc'[t] = "truncate" /\ \A x \in Thread : x # t => pc'[x] = pc[x]
        /\ \A u \in Unit : spoilt[u] \subseteq spoilt'[u]
        /\ spoilt'[unit[t]] # {}
    BY <1>0, <1>6 DEF CopyFileFails, Spoil, Goto, units, disk, TypeOK
  <2> QED
    BY <1>0, <2>1, KeptMoves
<1>7. ASSUME NEW t \in Thread, NoBackUp(t) PROVE KeptInv'
  <2>1. /\ UNCHANGED <<inode, data, path, done, unit, msg, spoilt>>
        /\ pc'[t] = "write" /\ \A x \in Thread : x # t => pc'[x] = pc[x]
    BY <1>0, <1>7 DEF NoBackUp, Goto, disk, TypeOK
  <2> QED
    BY <1>0, <2>1, KeptMoves
<1> QED
  BY <1>1, <1>2, <1>3, <1>4, <1>5, <1>6, <1>7, KeptCopy, KeptWrite DEF Next, Step, Works

\* A line whose call of log() has returned is in the log or in a backup of its
\* path, over any changes of day and restarts, whatever other units do: unless
\* spoilt names what cost it.  That is a copy or a write that failed, two backups
\* made in one second, threads that met without a lock, a log that was opened
\* with what it held or not truncated, and a second initMgr.
THEOREM LinesAreKept == Spec => []NothingLost
<1>2. ASSUME IInv, KeptInv PROVE NothingLost
  <2> SUFFICES ASSUME NEW u \in Unit, spoilt[u] = {}, OwnPath(u), NEW m \in done[u] PROVE Saved(m)
    BY DEF NothingLost
  <2>1. InLog(path[u], m) \/ InBackup(path[u], m)
    BY <1>2 DEF KeptInv, Kept
  <2>2. TypeOK /\ path[u] \in Path
    BY <1>2 DEF IInv, TypeOK
  <2> QED
    BY <2>1, <2>2, NamesAre DEF Saved, InLog, InBackup, Has
<1> QED
  BY <1>2, InitOk, IInvStep, KeptStep, PTL DEF Spec

-----------------------------------------------------------------------------
(* Lines are whole.                                                        *)

LEMMA Parity ==
    ASSUME NEW n \in Nat
    PROVE  (n % 2 = 0 \/ n % 2 = 1) /\ ((n + 1) % 2 = 0 <=> n % 2 = 1) /\ ((n + 1) % 2 = 1 <=> n % 2 = 0)
OBVIOUS

LEMMA AppendAlternates ==
    ASSUME NEW d \in Seq(Piece), NEW e \in Piece, Alternates(d),
           e = LineEnd <=> Len(d) % 2 = 1
    PROVE  /\ Alternates(Append(d, e))
           /\ Len(Append(d, e)) % 2 = 1 <=> Len(d) % 2 = 0
<1> DEFINE a == Append(d, e)
           n == Len(d)
<1>1. /\ n \in Nat /\ DOMAIN d = 1 .. n /\ DOMAIN a = 1 .. n + 1 /\ Len(a) = n + 1
      /\ a[n + 1] = e /\ \A i \in 1 .. n : a[i] = d[i]
  BY AppendProperties
<1> HIDE DEF a, n
<1>2. /\ (n + 1) % 2 = 0 <=> n % 2 = 1
      /\ (n + 1) % 2 = 1 <=> n % 2 = 0
  BY <1>1, Parity
<1>3. \A i \in 1 .. n + 1 : i = n + 1 \/ i \in 1 .. n
  BY <1>1
<1>4. ASSUME NEW i \in 1 .. n + 1 PROVE a[i] = LineEnd <=> i % 2 = 0
  <2>1. CASE i = n + 1
    BY <1>1, <1>2, <2>1 DEF n
  <2>2. CASE i \in 1 .. n
    BY <1>1, <2>2 DEF Alternates
  <2> QED
    BY <1>3, <2>1, <2>2
<1>5. Alternates(a)
  BY <1>1, <1>4 DEF Alternates
<1>6. Len(a) % 2 = 1 <=> n % 2 = 0
  BY <1>1, <1>2
<1> QED
  BY <1>5, <1>6 DEF a, n

\* The units' files stay as they are, and so does who is writing.
LEMMA LinesMoves ==
    ASSUME Lines, UNCHANGED <<m_hFile, m_bLock, path>>,
           \A u \in Unit : spoilt[u] \subseteq spoilt'[u],
           \A u \in Unit : OwnPath(u) /\ Sound(u) /\ m_hFile[u] # None =>
               data'[m_hFile[u]] = data[m_hFile[u]],
           \A x \in Thread : (pc'[x] = "end" <=> pc[x] = "end") /\ (pc[x] = "end" => unit'[x] = unit[x])
    PROVE  Lines'
<1>1. \A u : Writing(u)' <=> Writing(u)
  BY DEF Writing
<1>2. \A u \in Unit : Sound(u)' => Sound(u)
  BY DEF Sound
<1> QED
  BY <1>1, <1>2 DEF Lines, OwnPath

LEMMA LinesWrite ==
    ASSUME IInv, Lines, NEW t \in Thread, Works(t) PROVE Lines'
<1> DEFINE v == unit[t]
           f == m_hFile[v]
<1>1. /\ UNCHANGED <<path, m_hFile, m_bLock, unit, msg>>
      /\ \A x \in Thread : x # t => pc'[x] = pc[x]
      /\ pc[t] = "truncate" => pc'[t] = "write"
      /\ pc[t] = "write" => pc'[t] = "end"
      /\ pc[t] = "end" => pc'[t] = "idle"
      /\ pc[t] = "truncate" \/ pc[t] = "write" \/ pc[t] = "end"
  BY DEF Works, Truncate, Write, WriteEnd, units, Goto, IInv, TypeOK
<1>2. /\ TypeOK /\ v \in Unit /\ f \in DOMAIN data /\ f # None
      /\ \A k \in DOMAIN data : k # f => data'[k] = data[k]
      /\ \A u \in Unit : spoilt[u] \subseteq spoilt'[u]
      /\ SoundAfter(v) /\ OwnPath(v) => Left(t) \in Seq(Piece) /\ data'[f] = Left(t)
  BY WorksIs DEF IInv
<1>3. data[f] \in Seq(Piece) /\ msg[t] \in Piece /\ msg[t] # LineEnd /\ LineEnd \in Piece
  BY <1>1, <1>2, DataIs DEF IInv, TypeOK, Threads, HasFile, Piece, Message, LineEnd
<1>4. ASSUME NEW u \in Unit, m_bLock[u], m_hFile[u] # None, OwnPath(u), SoundAfter(u)
      PROVE  /\ Alternates(data'[m_hFile[u]])
             /\ Len(data'[m_hFile[u]]) % 2 = 1 <=> Writing(u)'
  <2>0. Sound(u)
    BY <1>2, <1>4, SoundBefore
  <2>1. CASE u # v
    <3>1. m_hFile[u] # f
      BY <1>2, <1>4, <2>0, <2>1, OwnFile
    <3>2. data'[m_hFile[u]] = data[m_hFile[u]]
      BY <1>2, <1>4, <3>1, DataIs
    <3>3. Writing(u)' <=> Writing(u)
      BY <1>1, <2>1 DEF Writing
    <3> QED
      BY <1>4, <2>0, <3>2, <3>3 DEF Lines
  <2>2. CASE u = v
    <3>0. data'[f] = Left(t)
      BY <1>2, <1>4, <2>2
    <3>1. \A x \in Thread : x # t /\ unit[x] = v => pc[x] # "end"
      BY <1>1, <1>4, <2>0, <2>2 DEF IInv, Threads, Alone, Busy
    <3>2. (Writing(v) <=> pc[t] = "end") /\ (Writing(v)' <=> pc'[t] = "end")
      BY <1>1, <3>1 DEF Writing
    <3>3. Alternates(data[f]) /\ (Len(data[f]) % 2 = 1 <=> pc[t] = "end")
      BY <1>2, <1>4, <2>0, <2>2, <3>2 DEF Lines
    <3>4. Len(data[f]) \in Nat
      BY <1>3
    <3>5. CASE pc[t] = "truncate"
      <4>1. Left(t) = <<>> /\ DOMAIN Left(t) = {} /\ Len(Left(t)) = 0
        BY <3>5 DEF Left
      <4>2. 0 % 2 # 1
        OBVIOUS
      <4>3. Alternates(Left(t)) /\ Len(Left(t)) % 2 # 1
        BY <4>1, <4>2 DEF Alternates
      <4> QED
        BY <1>1, <2>2, <3>0, <3>2, <3>5, <4>3
    <3>6. CASE pc[t] = "write"
      <4>1. Left(t) = Append(data[f], msg[t])
        BY <3>6 DEF Left
      <4>2. Alternates(Left(t)) /\ Len(Left(t)) % 2 = 1
        BY <1>3, <3>3, <3>4, <3>6, <4>1, Parity, AppendAlternates
      <4> QED
        BY <1>1, <2>2, <3>0, <3>2, <3>6, <4>2
    <3>7. CASE pc[t] = "end"
      <4>1. Left(t) = Append(data[f], LineEnd)
        BY <3>7 DEF Left
      <4>2. Alternates(data[f]) /\ Len(data[f]) % 2 = 1
        BY <3>3, <3>7
      <4>3. /\ Alternates(Append(data[f], LineEnd))
            /\ Len(Append(data[f], LineEnd)) % 2 = 1 <=> Len(data[f]) % 2 = 0
        BY <1>3, <4>2, AppendAlternates
      <4> QED
        <5>1. Len(data[f]) % 2 # 0
          <6>1. ASSUME NEW n \in Nat, n % 2 = 1 PROVE n % 2 # 0
            BY <6>1
          <6> QED
            BY <3>4, <4>2, <6>1
        <5>2. Alternates(Left(t)) /\ Len(Left(t)) % 2 # 1
          BY <4>1, <4>3, <5>1, Zenon
        <5> QED
          BY <1>1, <2>2, <3>0, <3>2, <3>7, <5>2
    <3> QED
      BY <1>1, <3>5, <3>6, <3>7
  <2> QED
    BY <2>1, <2>2
<1> QED
  BY <1>1, <1>4 DEF Lines, OwnPath, Sound, SoundAfter

\* A file that is opened for the first time is empty, or the unit is not sound.
LEMMA LinesOpen ==
    ASSUME IInv, Lines, NEW u \in Unit, NEW lock \in BOOLEAN, InitLogUnit(u, lock),
           UNCHANGED <<path, pc, unit>>
    PROVE  Lines'
<1>1. /\ TypeOK /\ \A k \in DOMAIN data : data'[k] = data[k]
      /\ \A x \in Unit : x # u =>
             m_hFile'[x] = m_hFile[x] /\ m_bLock'[x] = m_bLock[x] /\ spoilt'[x] = spoilt[x]
      /\ FileOpened(u) /\ (m_hFile[u] # None => ~SoundAfter(u))
  BY OpenIs DEF IInv
<1>2. \A x : Writing(x)' <=> Writing(x)
  BY DEF Writing
<1> SUFFICES ASSUME NEW x \in Unit, m_bLock'[x], m_hFile'[x] # None, OwnPath(x), SoundAfter(x)
             PROVE  /\ Alternates(data'[m_hFile'[x]])
                    /\ Len(data'[m_hFile'[x]]) % 2 = 1 <=> Writing(x)
  BY <1>2 DEF Lines, OwnPath, Sound, SoundAfter
<1>3. CASE x = u
  <2>1. m_hFile[u] = None /\ data'[m_hFile'[u]] = <<>>
    BY <1>1, <1>3 DEF FileOpened
  <2>2. ~Writing(u)
    BY <2>1 DEF Writing, IInv, Threads, HasFile
  <2>3. Len(<<>>) % 2 # 1 /\ Alternates(<<>>)
    BY DEF Alternates
  <2> QED
    BY <1>3, <2>1, <2>2, <2>3
<1>4. CASE x # u
  <2>1. m_hFile'[x] = m_hFile[x] /\ m_bLock[x] /\ Sound(x)
    BY <1>1, <1>4 DEF Sound, SoundAfter
  <2>2. data'[m_hFile[x]] = data[m_hFile[x]]
    BY <1>1, <2>1, DataIs
  <2> QED
    BY <2>1, <2>2 DEF Lines
<1> QED
  BY <1>3, <1>4

LEMMA LinesStep == IInv /\ Lines /\ [Next]_vars => Lines'
<1> SUFFICES ASSUME IInv, Lines, [Next]_vars PROVE Lines'
  OBVIOUS
<1>0. TypeOK /\ \A u \in Unit : spoilt[u] \subseteq spoilt'[u]
  BY SpoiltStep DEF IInv
<1>1. CASE InitMgr \/ \E u \in Tag : InitLog(u)
  <2>1. "GLB" \in Unit /\ Tag \subseteq Unit /\ TagLock \subseteq BOOLEAN
    BY LogUnitAssumption DEF Unit
  <2> QED
    BY <1>1, <2>1, LinesOpen DEF InitMgr, InitLog, threads
<1>2. CASE Restart
  BY <1>2 DEF Restart, Lines
<1>3. CASE Tick \/ UNCHANGED vars
  BY <1>0, <1>3, LinesMoves DEF Tick, vars, units, disk, threads
<1>4. ASSUME NEW t \in Thread, NEW tag \in Unit, Begin(t, tag) PROVE Lines'
  <2>1. /\ UNCHANGED <<data, m_hFile, m_bLock, path>>
        /\ pc[t] = "idle" /\ pc'[t] = "lock"
        /\ \A x \in Thread : x # t => unit'[x] = unit[x] /\ pc'[x] = pc[x]
    BY <1>0, <1>4 DEF Begin, Goto, units, disk, TypeOK
  <2> QED
    BY <1>0, <2>1, LinesMoves
<1>5. ASSUME NEW t \in Thread, Step(t), ~Works(t) PROVE Lines'
  <2>1. /\ UNCHANGED <<m_hFile, m_bLock, path, unit>>
        /\ pc[t] # "end" /\ \E p : p # "end" /\ pc' = [pc EXCEPT ![t] = p]
        /\ data' = data \/ CopyFile(t)
    BY <1>5 DEF Step, Works, Lock, CheckBackUp, NoBackUp, CopyFile, CopyFileFails, Goto, units, disk
  <2>2. pc'[t] # "end" /\ \A x \in Thread : x # t => pc'[x] = pc[x]
    BY <1>0, <2>1 DEF TypeOK
  <2> QED
    BY <1>0, <2>1, <2>2, CopySpares, LinesMoves
<1> QED
  BY <1>1, <1>2, <1>3, <1>4, <1>5, LinesWrite DEF Next, Step

\* In a unit with the lock every message is followed by its line end before the
\* next one is begun, over any changes of day and restarts and whatever other
\* units do: unless another unit has the same path, the log was opened with what
\* it held or not truncated, a write failed or wrote a part, or initMgr was
\* called again.
THEOREM LinesAreWhole == Spec => []WholeLines
<1>1. Lines => WholeLines
  BY DEF Lines, WholeLines, Alternates
<1> QED
  BY <1>1, InitOk, IInvStep, LinesStep, PTL DEF Spec
=============================================================================
