--------------------------- MODULE IniFileProofs ---------------------------
(***************************************************************************)
(* IniFile for any files, keys, values, failures and numbers of calls.     *)
(*                                                                         *)
(* What Rewrite makes of a file is shown line by line with Counting: its   *)
(* lines, its comments and the value that a read finds for each key.       *)
(* Through a write, the temporary file is a beginning of the new contents  *)
(* (TmpIsMade) and the file is still the old one, empty, or a beginning of *)
(* the temporary one (FileIs); a call ends only when one of the two is     *)
(* whole or a failure tells why not (Rests).                               *)
(*                                                                         *)
(* IsAMap is about files without a key twice in a section (KeysOnce). With *)
(* one, a deletion takes the first line away and a read finds the second.  *)
(***************************************************************************)
EXTENDS IniFile, DataLemmas

LEMMA LineFacts ==
    ASSUME NEW l \in Line
    PROVE  /\ IsSection(l) => \E s \in Section : l = Header(s)
           /\ IsComment(l) => ~IsSection(l)
           /\ \A s \in Section : l = Header(s) => IsSection(l)
           /\ \A k : IsKey(l, k) => /\ ~IsSection(l) /\ ~IsComment(l)
                                    /\ k \in Key /\ l.value \in Value /\ l = Pair(k, l.value)
BY DEF Line, Comment, Blank, Header, Pair, IsSection, IsComment, IsKey

\* The section is there; it was ended by another; the next line would be in it.
HasHead(ls, s) == \E i \in 1 .. Len(ls) : ls[i] = Header(s)
Ended(ls, s) == \E i, j \in 1 .. Len(ls) : i < j /\ ls[i] = Header(s) /\ IsSection(ls[j])
Within(ls, s) == HasHead(ls, s) /\ ~Ended(ls, s)

\* The key is there, and once.
Has(ls, s, k) == Hits(ls, s, k) # {}
Once(ls, s, k) == \A i, j \in Hits(ls, s, k) : i = j

\* No key is in its section twice, in any of the files at first.
NoKeyTwice(ls) == \A s \in Section, k \in Key : Once(ls, s, k)
KeysOnce == \A ls \in InitFiles : NoKeyTwice(ls)

LEMMA AppendFacts ==
    ASSUME NEW ls \in Seq(Line), NEW l \in Line
    PROVE  /\ Len(ls) \in Nat
           /\ Append(ls, l) \in Seq(Line) /\ Len(Append(ls, l)) = Len(ls) + 1
           /\ Append(ls, l)[Len(ls) + 1] = l
           /\ \A i \in 1 .. Len(ls) : Append(ls, l)[i] = ls[i] /\ ls[i] \in Line
           /\ \A i \in 1 .. Len(ls) + 1 : i = Len(ls) + 1 \/ i \in 1 .. Len(ls)
           /\ 1 .. Len(ls) \subseteq 1 .. Len(ls) + 1 /\ Len(ls) + 1 \in 1 .. Len(ls) + 1
OBVIOUS

LEMMA HeadAppend ==
    ASSUME NEW ls \in Seq(Line), NEW l \in Line, NEW s \in Section
    PROVE  /\ HasHead(Append(ls, l), s) <=> HasHead(ls, s) \/ l = Header(s)
           /\ Ended(Append(ls, l), s) <=> Ended(ls, s) \/ (HasHead(ls, s) /\ IsSection(l))
<1> DEFINE n == Len(ls)
           ms == Append(ls, l)
<1>1. /\ n \in Nat /\ Len(ms) = n + 1 /\ ms[n + 1] = l
      /\ \A i \in 1 .. n : ms[i] = ls[i]
      /\ \A i \in 1 .. n + 1 : i = n + 1 \/ i \in 1 .. n
      /\ 1 .. n \subseteq 1 .. n + 1 /\ n + 1 \in 1 .. n + 1
  BY AppendFacts
<1>2. \A i \in 1 .. n : i < n + 1
  BY <1>1
<1>3. \A j \in 1 .. n + 1 : ~(n + 1 < j)
  BY <1>1
<1> HIDE DEF n, ms
<1>4. HasHead(ms, s) <=> HasHead(ls, s) \/ l = Header(s)
  BY <1>1 DEF HasHead, n
<1>5. Ended(ms, s) => Ended(ls, s) \/ (HasHead(ls, s) /\ IsSection(l))
  <2> SUFFICES ASSUME NEW i \in 1 .. n + 1, NEW j \in 1 .. n + 1, i < j, ms[i] = Header(s), IsSection(ms[j])
               PROVE  Ended(ls, s) \/ (HasHead(ls, s) /\ IsSection(l))
    BY <1>1 DEF Ended
  <2>1. i \in 1 .. n
    BY <1>1, <1>3
  <2> QED
    BY <1>1, <2>1 DEF Ended, HasHead, n
<1>6. Ended(ls, s) => Ended(ms, s)
  BY <1>1 DEF Ended, n
<1>7. HasHead(ls, s) /\ IsSection(l) => Ended(ms, s)
  BY <1>1, <1>2 DEF Ended, HasHead, n
<1> QED
  BY <1>4, <1>5, <1>6, <1>7 DEF ms

\* The lines of the first section s.
LEMMA BodyIs ==
    ASSUME NEW ls \in Seq(Line), NEW s \in Section
    PROVE  /\ ~HasHead(ls, s) => Body(ls, s) = {}
           /\ HasHead(ls, s) =>
                \E h \in 1 .. Len(ls) :
                    /\ ls[h] = Header(s) /\ \A i \in 1 .. Len(ls) : ls[i] = Header(s) => h <= i
                    /\ Body(ls, s) = {i \in 1 .. Len(ls) :
                                         i > h /\ \A j \in h + 1 .. i : ~IsSection(ls[j])}
<1> DEFINE heads == {i \in DOMAIN ls : ls[i] = Header(s)}
<1>1. DOMAIN ls = 1 .. Len(ls) /\ Len(ls) \in Nat
  OBVIOUS
<1>2. CASE HasHead(ls, s)
  <2>1. heads \in SUBSET Nat /\ heads # {}
    BY <1>1, <1>2 DEF HasHead
  <2>2. PICK x \in heads : \A y \in heads : x <= y
    BY <2>1, LowestOf
  <2>3. Min(heads) \in heads /\ \A y \in heads : Min(heads) <= y
    BY <2>2 DEF Min
  <2>4. Body(ls, s) = {i \in 1 .. Len(ls) :
                          i > Min(heads) /\ \A j \in Min(heads) + 1 .. i : ~IsSection(ls[j])}
    BY <1>1, <2>1 DEF Body
  <2> HIDE DEF heads
  <2>5. Min(heads) \in 1 .. Len(ls) /\ ls[Min(heads)] = Header(s)
        /\ \A i \in 1 .. Len(ls) : ls[i] = Header(s) => Min(heads) <= i
    BY <1>1, <2>3 DEF heads
  <2> QED
    BY <1>2, <2>4, <2>5
<1>3. CASE ~HasHead(ls, s)
  BY <1>1, <1>3 DEF HasHead, Body
<1> QED
  BY <1>2, <1>3

\* A line that is added is in the section if it ended nowhere.
LEMMA BodyAppend ==
    ASSUME NEW ls \in Seq(Line), NEW l \in Line, NEW s \in Section
    PROVE  Body(Append(ls, l), s) = IF Within(ls, s) /\ ~IsSection(l)
                                    THEN Body(ls, s) \cup {Len(ls) + 1} ELSE Body(ls, s)
<1> DEFINE n == Len(ls)
           ms == Append(ls, l)
<1>1. /\ ms \in Seq(Line)
      /\ n \in Nat /\ Len(ms) = n + 1 /\ ms[n + 1] = l
      /\ \A i \in 1 .. n : ms[i] = ls[i]
      /\ \A i \in 1 .. n + 1 : i = n + 1 \/ i \in 1 .. n
      /\ 1 .. n \subseteq 1 .. n + 1 /\ n + 1 \in 1 .. n + 1
  BY AppendFacts
<1>2. HasHead(ms, s) <=> HasHead(ls, s) \/ l = Header(s)
  BY HeadAppend
<1> HIDE DEF n, ms
<1>3. CASE ~HasHead(ms, s)
  BY <1>1, <1>2, <1>3, BodyIs DEF Within, ms
<1>4. CASE HasHead(ms, s) /\ ~HasHead(ls, s)
  <2>1. PICK h \in 1 .. Len(ms) :
            /\ ms[h] = Header(s) /\ \A i \in 1 .. Len(ms) : ms[i] = Header(s) => h <= i
            /\ Body(ms, s) = {i \in 1 .. Len(ms) : i > h /\ \A j \in h + 1 .. i : ~IsSection(ms[j])}
    BY <1>1, <1>4, BodyIs
  <2>2. h = n + 1
    BY <1>1, <1>4, <2>1 DEF HasHead, n
  <2>3. \A i \in 1 .. n + 1 : ~(i > n + 1)
    BY <1>1
  <2>4. Body(ms, s) = {}
    BY <1>1, <2>1, <2>2, <2>3
  <2> QED
    BY <1>4, <2>4, BodyIs DEF Within, ms
<1>5. CASE HasHead(ls, s)
  <2>1. PICK h \in 1 .. n :
            /\ ls[h] = Header(s) /\ \A i \in 1 .. n : ls[i] = Header(s) => h <= i
            /\ Body(ls, s) = {i \in 1 .. n : i > h /\ \A j \in h + 1 .. i : ~IsSection(ls[j])}
    BY <1>5, BodyIs DEF n
  <2>2. PICK g \in 1 .. n + 1 :
            /\ ms[g] = Header(s) /\ \A i \in 1 .. n + 1 : ms[i] = Header(s) => g <= i
            /\ Body(ms, s) = {i \in 1 .. n + 1 : i > g /\ \A j \in g + 1 .. i : ~IsSection(ms[j])}
    BY <1>1, <1>2, <1>5, BodyIs
  <2>3. g = h
    <3>1. h \in 1 .. n + 1 /\ ms[h] = Header(s)
      BY <1>1, <2>1
    <3>2. g <= h
      BY <2>2, <3>1
    <3>3. g \in 1 .. n
      BY <1>1, <2>1, <3>2
    <3>4. h <= g
      BY <1>1, <2>1, <2>2, <3>3
    <3> QED
      BY <1>1, <3>2, <3>4
  <2>4. \A i \in 1 .. n : i \in Body(ms, s) <=> i \in Body(ls, s)
    <3>1. \A i \in 1 .. n : \A j \in h + 1 .. i : j \in 1 .. n
      BY <1>1, <2>1
    <3> QED
      BY <1>1, <2>1, <2>2, <2>3, <3>1
  <2>5. n + 1 \in Body(ms, s) <=> Within(ls, s) /\ ~IsSection(l)
    <3>1. n + 1 \in Body(ms, s) <=> \A j \in h + 1 .. n + 1 : ~IsSection(ms[j])
      BY <1>1, <2>1, <2>2, <2>3
    <3>2. n + 1 \in h + 1 .. n + 1 /\ \A j \in h + 1 .. n : j \in h + 1 .. n + 1 /\ j \in 1 .. n /\ h < j
      BY <1>1, <2>1
    <3>3. \A j \in h + 1 .. n + 1 : j = n + 1 \/ j \in h + 1 .. n
      BY <1>1, <2>1
    <3>4. (\A j \in h + 1 .. n + 1 : ~IsSection(ms[j])) <=>
          ~IsSection(l) /\ \A j \in h + 1 .. n : ~IsSection(ls[j])
      BY <1>1, <3>2, <3>3
    <3>5. ASSUME Ended(ls, s) PROVE \E j \in h + 1 .. n : IsSection(ls[j])
      <4>1. PICK i \in 1 .. n, j \in 1 .. n : i < j /\ ls[i] = Header(s) /\ IsSection(ls[j])
        BY <3>5 DEF Ended, n
      <4>2. h <= i
        BY <2>1, <4>1
      <4>3. j \in h + 1 .. n
        BY <1>1, <2>1, <4>1, <4>2
      <4> QED
        BY <4>1, <4>3
    <3>6. ASSUME NEW j \in h + 1 .. n, IsSection(ls[j]) PROVE Ended(ls, s)
      BY <2>1, <3>2, <3>6 DEF Ended, n
    <3> QED
      BY <1>5, <3>1, <3>4, <3>5, <3>6 DEF Within
  <2>6. Body(ls, s) \subseteq 1 .. n /\ Body(ms, s) \subseteq 1 .. n + 1
    BY <2>1, <2>2
  <2>7. \A i \in 1 .. n : i # n + 1
    BY <1>1
  <2> HIDE DEF Within
  <2>8. \A i : i \in Body(ms, s) <=>
              i \in IF Within(ls, s) /\ ~IsSection(l) THEN Body(ls, s) \cup {n + 1} ELSE Body(ls, s)
    BY <1>1, <2>4, <2>5, <2>6, <2>7
  <2> QED
    BY <2>8 DEF ms, n
<1> QED
  BY <1>2, <1>3, <1>4, <1>5

LEMMA HitsAppend ==
    ASSUME NEW ls \in Seq(Line), NEW l \in Line, NEW s \in Section, NEW k
    PROVE  /\ Hits(ls, s, k) \subseteq 1 .. Len(ls)
           /\ Hits(Append(ls, l), s, k) = IF Within(ls, s) /\ IsKey(l, k)
                                          THEN Hits(ls, s, k) \cup {Len(ls) + 1}
                                          ELSE Hits(ls, s, k)
<1>1. Body(ls, s) \subseteq 1 .. Len(ls)
  BY BodyIs
<1>2. Body(Append(ls, l), s) = IF Within(ls, s) /\ ~IsSection(l)
                               THEN Body(ls, s) \cup {Len(ls) + 1} ELSE Body(ls, s)
  BY BodyAppend
<1>3. /\ Append(ls, l)[Len(ls) + 1] = l
      /\ \A i \in 1 .. Len(ls) : Append(ls, l)[i] = ls[i]
      /\ Len(ls) + 1 \notin 1 .. Len(ls)
  OBVIOUS
<1>4. IsKey(l, k) => ~IsSection(l)
  BY LineFacts
<1> HIDE DEF Within, IsKey, IsSection
<1> QED
  BY <1>1, <1>2, <1>3, <1>4 DEF Hits

LEMMA MinIs == ASSUME NEW S \in SUBSET Nat, NEW x \in S, \A y \in S : x <= y PROVE Min(S) = x
<1>1. Min(S) \in S /\ \A y \in S : Min(S) <= y
  BY DEF Min
<1>2. Min(S) <= x /\ x <= Min(S) /\ Min(S) \in Nat /\ x \in Nat
  BY <1>1
<1> HIDE DEF Min
<1> QED
  BY <1>2

\* The first line of a key in the first section is the one that is read.
LEMMA ReadAppend ==
    ASSUME NEW ls \in Seq(Line), NEW l \in Line, NEW s \in Section, NEW k
    PROVE  /\ Has(Append(ls, l), s, k) <=> Has(ls, s, k) \/ (Within(ls, s) /\ IsKey(l, k))
           /\ Once(Append(ls, l), s, k) <=>
                  Once(ls, s, k) /\ ~(Has(ls, s, k) /\ Within(ls, s) /\ IsKey(l, k))
           /\ GetString(Append(ls, l), s, k) =
                  IF Has(ls, s, k) THEN GetString(ls, s, k)
                  ELSE IF Within(ls, s) /\ IsKey(l, k) THEN ReadAs(l.value)
                  ELSE NoValue
<1> DEFINE n == Len(ls)
           ms == Append(ls, l)
           H == Hits(ls, s, k)
           adds == Within(ls, s) /\ IsKey(l, k)
<1>1. H \subseteq 1 .. n /\ Hits(ms, s, k) = IF adds THEN H \cup {n + 1} ELSE H
  BY HitsAppend
<1>2. /\ n \in Nat /\ ms[n + 1] = l /\ \A i \in 1 .. n : ms[i] = ls[i] /\ i < n + 1 /\ i # n + 1
  OBVIOUS
<1> HIDE DEF n, ms, H, adds
<1>3. Has(ms, s, k) <=> Has(ls, s, k) \/ adds
  BY <1>1 DEF Has, H
<1>4. Once(ms, s, k) <=> Once(ls, s, k) /\ ~(Has(ls, s, k) /\ adds)
  BY <1>1, <1>2 DEF Has, Once, H
<1>5. CASE Has(ls, s, k)
  <2>1. H \in SUBSET Nat /\ H # {}
    BY <1>1, <1>2, <1>5 DEF Has, H
  <2>2. PICK x \in H : \A y \in H : x <= y
    BY <2>1, LowestOf
  <2>3. Min(H) = x
    BY <2>1, <2>2, MinIs
  <2>4. Hits(ms, s, k) \in SUBSET Nat /\ x \in Hits(ms, s, k) /\ \A y \in Hits(ms, s, k) : x <= y
    <3>1. x \in Nat /\ x <= n + 1 /\ n + 1 \in Nat
      BY <1>1, <1>2, <2>2
    <3> QED
      BY <1>1, <2>1, <2>2, <3>1
  <2>5. Min(Hits(ms, s, k)) = x
    BY <2>4, MinIs
  <2>6. GetString(ms, s, k) = GetString(ls, s, k)
    BY <1>1, <1>2, <2>2, <2>3, <2>4, <2>5 DEF GetString, H
  <2> QED
    BY <1>3, <1>4, <1>5, <2>6 DEF adds, ms
<1>6. CASE ~Has(ls, s, k) /\ adds
  <2>1. Hits(ms, s, k) = {n + 1}
    BY <1>1, <1>6 DEF Has, H
  <2>2. Min({n + 1}) = n + 1
    BY <1>2, MinIs
  <2>3. GetString(ms, s, k) = ReadAs(l.value)
    BY <1>2, <2>1, <2>2 DEF GetString
  <2> QED
    BY <1>3, <1>4, <1>6, <2>3 DEF adds, ms
<1>7. CASE ~Has(ls, s, k) /\ ~adds
  <2>1. GetString(ms, s, k) = NoValue
    BY <1>1, <1>7 DEF Has, H, GetString
  <2> QED
    BY <1>3, <1>4, <1>7, <2>1 DEF adds, ms
<1> QED
  BY <1>5, <1>6, <1>7

LEMMA ReadNothing ==
    ASSUME NEW s \in Section, NEW k
    PROVE  /\ <<>> \in Seq(Line) /\ ~HasHead(<<>>, s) /\ ~Ended(<<>>, s)
           /\ ~Has(<<>>, s, k) /\ Once(<<>>, s, k) /\ GetString(<<>>, s, k) = NoValue
<1>1. <<>> \in Seq(Line) /\ ~HasHead(<<>>, s) /\ ~Ended(<<>>, s)
  BY DEF HasHead, Ended
<1>2. Body(<<>>, s) = {}
  BY <1>1, BodyIs
<1> QED
  BY <1>1, <1>2 DEF Has, Once, GetString, Hits

LEMMA WithinAppend ==
    ASSUME NEW ls \in Seq(Line), NEW l \in Line, NEW s \in Section
    PROVE  /\ Within(Append(ls, l), s) <=> \/ Within(ls, s) /\ ~IsSection(l)
                                           \/ ~HasHead(ls, s) /\ l = Header(s)
           /\ HasHead(Append(ls, l), s) <=> HasHead(ls, s) \/ l = Header(s)
           /\ Within(ls, s) => HasHead(ls, s)
           /\ ~HasHead(ls, s) => \A k : ~Has(ls, s, k) /\ Once(ls, s, k) /\ GetString(ls, s, k) = NoValue
<1>1. /\ HasHead(Append(ls, l), s) <=> HasHead(ls, s) \/ l = Header(s)
      /\ Ended(Append(ls, l), s) <=> Ended(ls, s) \/ (HasHead(ls, s) /\ IsSection(l))
  BY HeadAppend
<1>2. ~HasHead(ls, s) => ~Ended(ls, s)
  BY DEF HasHead, Ended
<1>3. ~HasHead(ls, s) => \A k : ~Has(ls, s, k) /\ Once(ls, s, k) /\ GetString(ls, s, k) = NoValue
  BY BodyIs DEF Has, Once, GetString, Hits
<1> QED
  BY <1>1, <1>2, <1>3 DEF Within

\* A line that is no line of the key in its first section changes nothing.
LEMMA ReadKept ==
    ASSUME NEW ls \in Seq(Line), NEW l \in Line, NEW s \in Section, NEW k,
           ~(Within(ls, s) /\ IsKey(l, k))
    PROVE  /\ Has(Append(ls, l), s, k) <=> Has(ls, s, k)
           /\ Once(Append(ls, l), s, k) <=> Once(ls, s, k)
           /\ GetString(Append(ls, l), s, k) = GetString(ls, s, k)
<1>1. ~Has(ls, s, k) => GetString(ls, s, k) = NoValue
  BY DEF Has, GetString
<1> QED
  BY <1>1, ReadAppend

\* The line that a write adds.
Added(r) == Pair(r.key, r.str)
Writes(r) == r.key # NoValue /\ r.str # NoValue
Readable(r) == Writes(r) /\ {r.key, r.str} \cap Hash = {}

LEMMA AddedFacts ==
    ASSUME NEW r \in Request
    PROVE  /\ r.app \in Section /\ r.key \in Key \cup {NoValue}
           /\ NoValue \notin Key
           /\ ~Writes(r) => WriteValue(r) = <<>>
           /\ Writes(r) => /\ WriteValue(r) = <<Added(r)>>
                           /\ r.key \in Key /\ r.str \in Value
                           /\ Added(r) \in Line /\ ~IsSection(Added(r))
                           /\ \A k : IsKey(Added(r), k) <=> k = r.key /\ Readable(r)
                           /\ IsComment(Added(r)) <=> ~Readable(r)
                           /\ Added(r).value = r.str
           /\ Header(r.app) \in Line /\ IsSection(Header(r.app)) /\ ~IsComment(Header(r.app))
           /\ \A k : ~IsKey(Header(r.app), k)
           /\ \A l \in Line : ~IsKey(l, NoValue)
<1>1. /\ r.app \in Section /\ r.key \in Key \cup {NoValue} /\ r.str \in Value \cup {NoValue}
      /\ NoValue \notin Key
  BY IniFileAssumption DEF Request
<1>2. ~Writes(r) => WriteValue(r) = <<>>
  BY DEF Writes, WriteValue
<1>3. ASSUME Writes(r)
      PROVE  /\ WriteValue(r) = <<Added(r)>> /\ r.key \in Key /\ r.str \in Value
             /\ Added(r) \in Line
             /\ Added(r).type = "pair" /\ Added(r).name = r.key /\ Added(r).value = r.str
  BY <1>1, <1>3 DEF Writes, WriteValue, Added, Pair, Line
<1>4. ASSUME Writes(r)
      PROVE  /\ ~IsSection(Added(r))
             /\ IsComment(Added(r)) <=> ~Readable(r)
             /\ \A k : IsKey(Added(r), k) <=> k = r.key /\ Readable(r)
  BY <1>3, <1>4 DEF IsSection, IsComment, IsKey, Readable
<1>5. /\ Header(r.app) \in Line /\ IsSection(Header(r.app)) /\ ~IsComment(Header(r.app))
      /\ \A k : ~IsKey(Header(r.app), k)
  BY <1>1 DEF Line, Header, IsSection, IsComment, IsKey
<1>6. \A l \in Line : ~IsKey(l, NoValue)
  BY <1>1, LineFacts
<1> QED
  BY <1>1, <1>2, <1>3, <1>4, <1>5, <1>6

-----------------------------------------------------------------------------
(* What a write does to the values: it goes through the lines "pre" and    *)
(* "at" is how far it came.                                                *)

Progress == [out : Seq(Line), inside : BOOLEAN, bWrote : BOOLEAN]

SameRead(ls, ms, s, k) ==
    (Has(ls, s, k) <=> Has(ms, s, k)) /\ GetString(ls, s, k) = GetString(ms, s, k)

\* The other sections read the same.  While a section is left out the one before
\* it goes on.
OthersSame(at, pre, r) ==
    \A s \in Section \ {r.app} :
        /\ HasHead(at.out, s) <=> HasHead(pre, s)
        /\ at.inside => ~Within(pre, s)
        /\ ~at.inside \/ r.key # NoValue => (Within(at.out, s) <=> Within(pre, s))
        /\ \A k \in Key : SameRead(at.out, pre, s, k)

\* The section itself, when a key is written or deleted.
OwnWritten(at, pre, r) ==
    r.key # NoValue =>
        /\ HasHead(at.out, r.app) <=> HasHead(pre, r.app)
        /\ Within(at.out, r.app) <=> Within(pre, r.app)
        /\ \A k \in Key \ {r.key} : SameRead(at.out, pre, r.app, k)
        /\ at.bWrote => /\ HasHead(pre, r.app)
                        /\ Has(at.out, r.app, r.key) <=> Readable(r)
                        /\ Readable(r) => GetString(at.out, r.app, r.key) = ReadAs(r.str)
        /\ at.inside => HasHead(pre, r.app)
        /\ HasHead(pre, r.app) /\ ~at.inside => at.bWrote
        /\ ~at.bWrote => ~Has(at.out, r.app, r.key) /\ ~Has(pre, r.app, r.key)
        /\ at.inside /\ ~at.bWrote => Within(pre, r.app)

Sim(at, pre, r) ==
    /\ at \in Progress
    /\ OthersSame(at, pre, r)
    /\ ~at.inside => ~Within(pre, r.app)
    /\ r.key = NoValue => ~HasHead(at.out, r.app)
    /\ OwnWritten(at, pre, r)
    /\ \A s \in Section, k \in Key : Once(at.out, s, k)

\* In the section the key was written where it was found.
Found(at, pre, r) ==
    r.key # NoValue /\ at.bWrote /\ Within(pre, r.app) => Has(pre, r.app, r.key)

LEMMA EndIs ==
    ASSUME NEW r \in Request, NEW at \in Progress
    PROVE  LET end == EndSection(at, r)
           IN  /\ end \in Progress
               /\ end.inside = at.inside
               /\ at.inside => end.bWrote
               /\ ~(at.inside /\ ~at.bWrote) => end = at
               /\ at.inside /\ ~at.bWrote =>
                      /\ end.bWrote
                      /\ end.out = IF Writes(r) THEN Append(at.out, Added(r)) ELSE at.out
<1>1. at.out \in Seq(Line) /\ at.inside \in BOOLEAN /\ at.bWrote \in BOOLEAN
  BY DEF Progress
<1>2. at.out \o WriteValue(r) = IF Writes(r) THEN Append(at.out, Added(r)) ELSE at.out
  <2>1. CASE Writes(r)
    <3>1. WriteValue(r) = <<Added(r)>> /\ Added(r) \in Line
      BY <2>1, AddedFacts
    <3> QED
      BY <1>1, <2>1, <3>1
  <2>2. CASE ~Writes(r)
    <3>1. WriteValue(r) = <<>>
      BY <2>2, AddedFacts
    <3> QED
      BY <1>1, <2>2, <3>1
  <2> QED
    BY <2>1, <2>2
<1>3. (IF Writes(r) THEN Append(at.out, Added(r)) ELSE at.out) \in Seq(Line)
  BY <1>1, AddedFacts, AppendFacts
<1>4. CASE at.inside /\ ~at.bWrote
  <2>1. EndSection(at, r) = [at EXCEPT !.out = @ \o WriteValue(r), !.bWrote = TRUE]
    BY <1>4 DEF EndSection
  <2>2. EndSection(at, r) =
            [out |-> at.out \o WriteValue(r), inside |-> at.inside, bWrote |-> TRUE]
    BY <2>1 DEF Progress
  <2> QED
    BY <1>1, <1>2, <1>3, <1>4, <2>2 DEF Progress
<1>5. CASE ~(at.inside /\ ~at.bWrote)
  BY <1>1, <1>5 DEF EndSection
<1> QED
  BY <1>4, <1>5

LEMMA EndKeeps ==
    ASSUME NEW r \in Request, NEW at, NEW pre \in Seq(Line), Sim(at, pre, r)
    PROVE  Sim(EndSection(at, r), pre, r)
<1> DEFINE end == EndSection(at, r)
           p == Added(r)
<1>1. at \in Progress
  BY DEF Sim
<1>2. /\ end \in Progress /\ end.inside = at.inside
      /\ ~(at.inside /\ ~at.bWrote) => end = at
      /\ at.inside /\ ~at.bWrote =>
             /\ end.bWrote
             /\ end.out = IF Writes(r) THEN Append(at.out, p) ELSE at.out
  BY <1>1, EndIs
<1>3. /\ at.out \in Seq(Line) /\ at.inside \in BOOLEAN /\ at.bWrote \in BOOLEAN
      /\ end.bWrote \in BOOLEAN
  BY <1>1, <1>2 DEF Progress
<1>4. /\ r.app \in Section /\ r.key \in Key \cup {NoValue} /\ NoValue \notin Key
      /\ Readable(r) => Writes(r)
      /\ Writes(r) => /\ r.key # NoValue /\ r.key \in Key /\ p \in Line /\ ~IsSection(p)
                      /\ p.value = r.str
                      /\ \A k : IsKey(p, k) <=> k = r.key /\ Readable(r)
                      /\ \A s \in Section : p # Header(s)
  BY AddedFacts, LineFacts DEF Writes, Readable
<1> HIDE DEF end, p
<1>5. CASE ~(at.inside /\ ~at.bWrote)
  BY <1>2, <1>5 DEF end
<1>6. CASE at.inside /\ ~at.bWrote /\ ~Writes(r)
  <2>1. end.out = at.out /\ end.bWrote /\ end.inside
    BY <1>2, <1>6
  <2>2. OthersSame(end, pre, r)
    BY <1>6, <2>1 DEF Sim, OthersSame
  <2>3. OwnWritten(end, pre, r)
    BY <1>4, <1>6, <2>1 DEF Sim, OwnWritten
  <2>4. Sim(end, pre, r)
    BY <1>2, <1>6, <2>1, <2>2, <2>3 DEF Sim
  <2> QED
    BY <2>4 DEF end
<1>7. CASE at.inside /\ ~at.bWrote /\ Writes(r)
  <2>1. end.out = Append(at.out, p) /\ end.bWrote /\ end.inside
    BY <1>2, <1>7
  <2>2. \A s \in Section : /\ HasHead(end.out, s) <=> HasHead(at.out, s)
                           /\ Within(end.out, s) <=> Within(at.out, s)
    BY <1>3, <1>4, <1>7, <2>1, WithinAppend
  <2>3. ASSUME NEW s \in Section, NEW k \in Key, s # r.app \/ k # r.key
        PROVE  SameRead(end.out, at.out, s, k) /\ (Once(end.out, s, k) <=> Once(at.out, s, k))
    <3>1. ~(Within(at.out, s) /\ IsKey(p, k))
      BY <1>4, <1>7, <2>3 DEF Sim, OthersSame
    <3> QED
      BY <1>3, <1>4, <1>7, <2>1, <3>1, ReadKept DEF SameRead
  <2>4. ~Has(at.out, r.app, r.key) /\ Within(at.out, r.app) /\ HasHead(pre, r.app)
    BY <1>4, <1>7, WithinAppend DEF Sim, OwnWritten
  <2>5. /\ Has(end.out, r.app, r.key) <=> Readable(r)
        /\ Readable(r) => GetString(end.out, r.app, r.key) = ReadAs(r.str)
        /\ Once(end.out, r.app, r.key)
    <3>1. /\ Has(end.out, r.app, r.key) <=> Has(at.out, r.app, r.key) \/ (Within(at.out, r.app) /\ IsKey(p, r.key))
          /\ Once(end.out, r.app, r.key) <=>
                 Once(at.out, r.app, r.key)
                 /\ ~(Has(at.out, r.app, r.key) /\ Within(at.out, r.app) /\ IsKey(p, r.key))
          /\ GetString(end.out, r.app, r.key) =
                  IF Has(at.out, r.app, r.key) THEN GetString(at.out, r.app, r.key)
                  ELSE IF Within(at.out, r.app) /\ IsKey(p, r.key) THEN ReadAs(p.value)
                  ELSE NoValue
      BY <1>3, <1>4, <1>7, <2>1, ReadAppend
    <3>2. Once(at.out, r.app, r.key)
      BY <1>4, <1>7 DEF Sim
    <3> QED
      BY <1>4, <1>7, <2>4, <3>1, <3>2
  <2>6. OthersSame(end, pre, r)
    BY <1>7, <2>1, <2>2, <2>3 DEF Sim, OthersSame, SameRead
  <2>7. OwnWritten(end, pre, r)
    BY <1>4, <1>7, <2>1, <2>2, <2>3, <2>4, <2>5 DEF Sim, OwnWritten, SameRead
  <2>8. \A s \in Section, k \in Key : Once(end.out, s, k)
    BY <2>3, <2>5 DEF Sim
  <2>9. Sim(end, pre, r)
    BY <1>2, <1>4, <1>7, <2>1, <2>2, <2>6, <2>7, <2>8 DEF Sim
  <2> QED
    BY <2>9 DEF end
<1> QED
  BY <1>5, <1>6, <1>7

LEMMA SameAppend ==
    ASSUME NEW ls \in Seq(Line), NEW ms \in Seq(Line), NEW l \in Line, NEW s \in Section, NEW k,
           SameRead(ls, ms, s, k), Within(ls, s) <=> Within(ms, s),
           Once(ls, s, k), Once(Append(ms, l), s, k)
    PROVE  SameRead(Append(ls, l), Append(ms, l), s, k) /\ Once(Append(ls, l), s, k)
<1>1. CASE Within(ls, s) /\ IsKey(l, k)
  <2>1. /\ Has(Append(ls, l), s, k) /\ Has(Append(ms, l), s, k)
        /\ ~Has(ms, s, k)
    BY <1>1, ReadAppend
  <2>2. GetString(Append(ls, l), s, k) = ReadAs(l.value) /\ GetString(Append(ms, l), s, k) = ReadAs(l.value)
    BY <1>1, <2>1, ReadAppend DEF SameRead
  <2>3. Once(Append(ls, l), s, k)
    BY <1>1, <2>1, ReadAppend DEF SameRead
  <2> QED
    BY <2>1, <2>2, <2>3 DEF SameRead
<1>2. CASE ~(Within(ls, s) /\ IsKey(l, k))
  BY <1>2, ReadKept DEF SameRead
<1> QED
  BY <1>1, <1>2

\* A line outside of the section, and the header after it.
LEMMA OutsideKeeps ==
    ASSUME NEW r \in Request, NEW at, NEW pre \in Seq(Line), NEW l \in Line, Sim(at, pre, r),
           IsSection(l) \/ ~at.inside,
           \A s \in Section, k \in Key : Once(Append(pre, l), s, k)
    PROVE  Sim(Outside(at, l, r), Append(pre, l), r) /\ Found(Outside(at, l, r), Append(pre, l), r)
<1> DEFINE e == EndSection(at, r)
           new == Outside(at, l, r)
           post == Append(pre, l)
           own == l = Header(r.app)
<1>1. at \in Progress
  BY DEF Sim
<1>2. e \in Progress /\ e.inside = at.inside /\ (at.inside => e.bWrote) /\ (~at.inside => e = at)
  BY <1>1, EndIs
<1>3. Sim(e, pre, r)
  BY EndKeeps
<1>4. e.out \in Seq(Line) /\ e.inside \in BOOLEAN /\ e.bWrote \in BOOLEAN
  BY <1>2 DEF Progress
<1>5. new = [out |-> IF own /\ r.key = NoValue THEN e.out ELSE Append(e.out, l),
             inside |-> own, bWrote |-> e.bWrote]
  <2>1. new = [e EXCEPT !.inside = own,
                        !.out = IF own /\ r.key = NoValue THEN @ ELSE Append(@, l)]
    BY DEF Outside
  <2> HIDE DEF e, own, new
  <2> QED
    BY <1>2, <2>1 DEF Progress
<1>6. post \in Seq(Line) /\ Append(e.out, l) \in Seq(Line)
  BY <1>4
<1>7. new \in Progress
  BY <1>4, <1>5, <1>6 DEF Progress
<1>8. /\ r.app \in Section /\ r.key \in Key \cup {NoValue} /\ NoValue \notin Key
      /\ IsSection(l) => \A k : ~IsKey(l, k)
      /\ own => IsSection(l)
      /\ \A s \in Section : own /\ s # r.app => l # Header(s)
  <2>1. r.app \in Section /\ r.key \in Key \cup {NoValue} /\ NoValue \notin Key
    BY AddedFacts
  <2>2. IsSection(l) => \A k : ~IsKey(l, k)
    BY LineFacts
  <2>3. own => IsSection(l)
    BY <2>1, LineFacts
  <2>4. \A s \in Section : own /\ s # r.app => l # Header(s)
    BY DEF Header
  <2> QED
    BY <2>1, <2>2, <2>3, <2>4
<1>9. new.inside = own /\ new.bWrote = e.bWrote
      /\ new.out = IF own /\ r.key = NoValue THEN e.out ELSE Append(e.out, l)
  BY <1>5
<1>10. ASSUME NEW s \in Section
       PROVE  /\ Within(post, s) <=> \/ Within(pre, s) /\ ~IsSection(l)
                                     \/ ~HasHead(pre, s) /\ l = Header(s)
              /\ HasHead(post, s) <=> HasHead(pre, s) \/ l = Header(s)
              /\ Within(pre, s) => HasHead(pre, s)
  BY WithinAppend
<1>11. ASSUME NEW s \in Section
       PROVE  /\ Within(Append(e.out, l), s) <=> \/ Within(e.out, s) /\ ~IsSection(l)
                                                 \/ ~HasHead(e.out, s) /\ l = Header(s)
              /\ HasHead(Append(e.out, l), s) <=> HasHead(e.out, s) \/ l = Header(s)
              /\ Within(e.out, s) => HasHead(e.out, s)
  <2> HIDE DEF e
  <2> QED
    BY <1>4, WithinAppend
<1>12. ASSUME NEW s \in Section, NEW k, ~IsKey(l, k) \/ (~Within(pre, s) /\ ~Within(e.out, s))
       PROVE  /\ SameRead(post, pre, s, k) /\ SameRead(Append(e.out, l), e.out, s, k)
              /\ Once(Append(e.out, l), s, k) <=> Once(e.out, s, k)
  BY <1>4, <1>12, ReadKept DEF SameRead
<1> HIDE DEF e, new, post, own
<1>13. CASE IsSection(l)
  <2>1. OthersSame(new, post, r)
    BY <1>3, <1>8, <1>9, <1>10, <1>11, <1>12, <1>13 DEF Sim, OthersSame, SameRead
  <2>2. ~new.inside => ~Within(post, r.app)
    BY <1>3, <1>8, <1>9, <1>10, <1>13 DEF own
  <2>3. r.key = NoValue => ~HasHead(new.out, r.app)
    BY <1>3, <1>8, <1>9, <1>11 DEF Sim, own
  <2>4. HasHead(pre, r.app) /\ r.key # NoValue => e.bWrote
    BY <1>2, <1>3, <1>4 DEF Sim, OwnWritten
  <2>5. OwnWritten(new, post, r) /\ Found(new, post, r)
    <3> SUFFICES ASSUME r.key # NoValue PROVE OwnWritten(new, post, r) /\ Found(new, post, r)
      BY DEF OwnWritten, Found
    <3>1. new.out = Append(e.out, l) /\ r.key \in Key
      BY <1>8, <1>9
    <3>2. \A k \in Key : SameRead(post, pre, r.app, k) /\ SameRead(new.out, e.out, r.app, k)
      BY <1>8, <1>12, <1>13, <3>1
    <3>3. /\ HasHead(new.out, r.app) <=> HasHead(e.out, r.app) \/ own
          /\ HasHead(post, r.app) <=> HasHead(pre, r.app) \/ own
          /\ Within(new.out, r.app) <=> ~HasHead(e.out, r.app) /\ own
          /\ Within(post, r.app) <=> ~HasHead(pre, r.app) /\ own
      BY <1>8, <1>10, <1>11, <1>13, <3>1 DEF own
    <3>4. OwnWritten(e, pre, r)
      BY <1>3 DEF Sim
    <3>5. HasHead(e.out, r.app) <=> HasHead(pre, r.app)
      BY <3>4 DEF OwnWritten
    <3>6. e.bWrote => HasHead(pre, r.app)
      BY <3>4 DEF OwnWritten
    <3>7. Found(new, post, r)
      BY <1>9, <3>3, <3>6 DEF Found
    <3>8. \A k \in Key \ {r.key} : SameRead(new.out, post, r.app, k)
      BY <3>2, <3>4 DEF OwnWritten, SameRead
    <3>9. new.bWrote => /\ Has(new.out, r.app, r.key) <=> Readable(r)
                        /\ Readable(r) => GetString(new.out, r.app, r.key) = ReadAs(r.str)
      BY <1>9, <3>1, <3>2, <3>4 DEF OwnWritten, SameRead
    <3>10. ~new.bWrote => ~Has(new.out, r.app, r.key) /\ ~Has(post, r.app, r.key)
      BY <1>9, <3>1, <3>2, <3>4 DEF OwnWritten, SameRead
    <3>11. OwnWritten(new, post, r)
      BY <1>9, <2>4, <3>3, <3>5, <3>6, <3>8, <3>9, <3>10 DEF OwnWritten
    <3> QED
      BY <3>7, <3>11
  <2>6. \A s \in Section, k \in Key : Once(new.out, s, k)
    BY <1>3, <1>8, <1>9, <1>12, <1>13 DEF Sim
  <2> QED
    BY <1>7, <2>1, <2>2, <2>3, <2>5, <2>6 DEF Sim, new, post
<1>14. CASE ~IsSection(l)
  <2>1. ~at.inside /\ e = at /\ ~own
    BY <1>2, <1>8, <1>14
  <2>2. new.out = Append(at.out, l) /\ new.inside = FALSE /\ new.bWrote = at.bWrote
    BY <1>9, <2>1
  <2>3. ~Within(pre, r.app) /\ ~Within(at.out, r.app)
    BY <1>8, <1>11, <2>1 DEF Sim, OwnWritten
  <2>4. \A s \in Section : l # Header(s)
    BY <1>14, LineFacts
  <2>5. ASSUME NEW s \in Section
        PROVE  /\ HasHead(new.out, s) <=> HasHead(at.out, s)
               /\ Within(new.out, s) <=> Within(at.out, s)
               /\ HasHead(post, s) <=> HasHead(pre, s)
               /\ Within(post, s) <=> Within(pre, s)
    BY <1>10, <1>11, <1>14, <2>1, <2>2, <2>4
  <2>6. ASSUME NEW s \in Section \ {r.app}, NEW k \in Key
        PROVE  SameRead(new.out, post, s, k) /\ Once(new.out, s, k)
    <3>1. SameRead(at.out, pre, s, k) /\ (Within(at.out, s) <=> Within(pre, s)) /\ Once(at.out, s, k)
      BY <2>1 DEF Sim, OthersSame
    <3>2. Once(Append(pre, l), s, k)
      OBVIOUS
    <3> QED
      BY <1>4, <2>1, <2>2, <3>1, <3>2, SameAppend DEF post
  <2>7. \A k : /\ SameRead(new.out, at.out, r.app, k) /\ SameRead(post, pre, r.app, k)
               /\ Once(new.out, r.app, k) <=> Once(at.out, r.app, k)
    BY <1>8, <1>12, <2>1, <2>2, <2>3
  <2>8. OthersSame(new, post, r)
    BY <2>1, <2>2, <2>5, <2>6 DEF Sim, OthersSame
  <2>9. OwnWritten(new, post, r) /\ Found(new, post, r)
    BY <1>8, <2>1, <2>2, <2>3, <2>5, <2>7 DEF Sim, OwnWritten, Found, SameRead
  <2>10. \A s \in Section, k \in Key : Once(new.out, s, k)
    BY <2>6, <2>7 DEF Sim
  <2>11. r.key = NoValue => ~HasHead(new.out, r.app)
    BY <1>8, <2>5 DEF Sim
  <2>12. ~Within(post, r.app)
    BY <1>8, <2>3, <2>5
  <2> QED
    BY <1>7, <2>8, <2>9, <2>10, <2>11, <2>12 DEF Sim, new, post
<1> QED
  BY <1>13, <1>14

\* A line of the section.
LEMMA InSectionKeeps ==
    ASSUME NEW r \in Request, NEW at, NEW pre \in Seq(Line), NEW l \in Line,
           Sim(at, pre, r), Found(at, pre, r), at.inside, ~IsSection(l),
           \A s \in Section, k \in Key : Once(Append(pre, l), s, k)
    PROVE  Sim(InSection(at, l, r), Append(pre, l), r) /\ Found(InSection(at, l, r), Append(pre, l), r)
<1> DEFINE new == InSection(at, l, r)
           post == Append(pre, l)
<1>1. /\ at \in Progress /\ at.out \in Seq(Line) /\ at.inside \in BOOLEAN /\ at.bWrote \in BOOLEAN
  BY DEF Sim, Progress
<1>2. /\ r.app \in Section /\ r.key \in Key \cup {NoValue} /\ NoValue \notin Key
      /\ ~IsKey(l, NoValue)
      /\ \A k : IsComment(l) => ~IsKey(l, k)
      /\ \A k : IsKey(l, k) => k = l.name
  <2>1. \A k : IsKey(l, k) => ~IsComment(l) /\ k = l.name
    BY DEF IsKey
  <2> QED
    BY <2>1, AddedFacts
<1>3. ASSUME NEW s \in Section
      PROVE  /\ HasHead(post, s) <=> HasHead(pre, s)
             /\ Within(post, s) <=> Within(pre, s)
             /\ HasHead(Append(at.out, l), s) <=> HasHead(at.out, s)
             /\ Within(Append(at.out, l), s) <=> Within(at.out, s)
  <2>1. l # Header(s)
    BY LineFacts
  <2> QED
    BY <1>1, <2>1, WithinAppend
<1>4. ASSUME NEW s \in Section, NEW k, ~(IsKey(l, k) /\ Within(pre, s))
      PROVE  SameRead(post, pre, s, k)
  BY <1>4, ReadKept DEF SameRead
<1>5. ASSUME NEW s \in Section, NEW k, ~(IsKey(l, k) /\ Within(at.out, s))
      PROVE  /\ SameRead(Append(at.out, l), at.out, s, k)
             /\ Once(Append(at.out, l), s, k) <=> Once(at.out, s, k)
  BY <1>1, <1>5, ReadKept DEF SameRead
<1>6. \A s \in Section \ {r.app} : ~Within(pre, s)
  BY DEF Sim, OthersSame
<1>7. r.key # NoValue => \A s \in Section \ {r.app} : ~Within(at.out, s)
  BY <1>6 DEF Sim, OthersSame
<1>8. post \in Seq(Line) /\ Append(at.out, l) \in Seq(Line)
  BY <1>1
<1> HIDE DEF new, post
\* The line is copied, and is no line of the key in its first section.
<1>9. ASSUME new = [at EXCEPT !.out = Append(@, l)], ~(IsKey(l, r.key) /\ Within(pre, r.app)),
             r.key = NoValue => IsComment(l)
      PROVE  Sim(new, post, r) /\ Found(new, post, r)
  <2>1. new \in Progress /\ new.out = Append(at.out, l) /\ new.inside /\ new.bWrote = at.bWrote
    BY <1>1, <1>8, <1>9 DEF Progress
  <2>2. ASSUME NEW s \in Section \ {r.app}, NEW k \in Key
        PROVE  SameRead(new.out, post, s, k) /\ Once(new.out, s, k)
    <3>1. ~(IsKey(l, k) /\ Within(at.out, s)) /\ ~Within(pre, s)
      BY <1>2, <1>6, <1>7, <1>9
    <3>2. SameRead(at.out, pre, s, k) /\ Once(at.out, s, k)
      BY DEF Sim, OthersSame
    <3> QED
      BY <1>4, <1>5, <2>1, <3>1, <3>2 DEF SameRead
  <2>3. OthersSame(new, post, r)
    BY <1>3, <2>1, <2>2 DEF Sim, OthersSame
  <2>4. ASSUME r.key = NoValue, NEW k \in Key PROVE Once(new.out, r.app, k)
    BY <1>2, <1>5, <1>9, <2>1, <2>4 DEF Sim
  <2>5. ASSUME r.key # NoValue, NEW k \in Key
        PROVE  SameRead(at.out, pre, r.app, k) => SameRead(new.out, post, r.app, k) /\ Once(new.out, r.app, k)
    <3>1. (Within(at.out, r.app) <=> Within(pre, r.app)) /\ Once(at.out, r.app, k)
      BY <1>2, <2>5 DEF Sim, OwnWritten
    <3>2. Once(Append(pre, l), r.app, k)
      BY <1>2
    <3> QED
      BY <1>1, <1>2, <2>1, <3>1, <3>2, SameAppend DEF post
  <2>6. r.key # NoValue => /\ SameRead(new.out, at.out, r.app, r.key) /\ SameRead(post, pre, r.app, r.key)
                           /\ Once(new.out, r.app, r.key) <=> Once(at.out, r.app, r.key)
    BY <1>2, <1>4, <1>5, <1>9, <2>1 DEF Sim, OwnWritten
  <2>7. OwnWritten(new, post, r) /\ Found(new, post, r)
    BY <1>2, <1>3, <2>1, <2>5, <2>6 DEF Sim, OwnWritten, Found, SameRead
  <2>8. ASSUME NEW k \in Key PROVE Once(new.out, r.app, k)
    <3>1. CASE r.key # NoValue /\ k # r.key
      BY <2>5, <3>1 DEF Sim, OwnWritten
    <3>2. CASE r.key = NoValue \/ k = r.key
      BY <1>2, <2>4, <2>6, <3>2 DEF Sim
    <3> QED
      BY <3>1, <3>2
  <2>9. \A s \in Section, k \in Key : Once(new.out, s, k)
    BY <2>2, <2>8
  <2>10. r.key = NoValue => ~HasHead(new.out, r.app)
    BY <1>2, <1>3, <2>1 DEF Sim
  <2> QED
    BY <2>1, <2>3, <2>7, <2>9, <2>10 DEF Sim
<1>10. CASE IsComment(l)
  <2>1. new = [at EXCEPT !.out = Append(@, l)]
    BY <1>2, <1>10 DEF InSection, new
  <2> QED
    BY <1>2, <1>9, <1>10, <2>1 DEF new, post
\* The line of the key is replaced.
<1>11. CASE ~IsComment(l) /\ ~at.bWrote /\ IsKey(l, r.key)
  <2>1. new = EndSection(at, r)
    BY <1>11 DEF InSection, EndSection, new
  <2>2. Sim(new, pre, r) /\ new.inside = at.inside /\ new.bWrote
    BY <1>1, <2>1, EndKeeps, EndIs
  <2>3. r.key \in Key /\ Within(pre, r.app)
    BY <1>2, <1>11 DEF Sim, OwnWritten
  <2>4. \A s \in Section \ {r.app}, k \in Key : SameRead(post, pre, s, k)
    BY <1>4, <1>6
  <2>5. \A k \in Key \ {r.key} : SameRead(post, pre, r.app, k)
    BY <1>2, <1>4, <1>11
  <2>6. OthersSame(new, post, r)
    BY <1>3, <2>2, <2>4 DEF Sim, OthersSame, SameRead
  <2>7. OwnWritten(new, post, r)
    BY <1>2, <1>3, <2>2, <2>5 DEF Sim, OwnWritten, SameRead
  <2>8. Has(post, r.app, r.key)
    BY <1>2, <1>11, <2>3, ReadAppend DEF post
  <2>9. Sim(new, post, r) /\ Found(new, post, r)
    BY <1>2, <1>3, <2>2, <2>6, <2>7, <2>8 DEF Sim, Found
  <2> QED
    BY <2>9 DEF new, post
\* The section is left out.
<1>12. CASE ~IsComment(l) /\ ~(~at.bWrote /\ IsKey(l, r.key)) /\ r.key = NoValue
  <2>1. new = at
    BY <1>12 DEF InSection, new
  <2>2. \A s \in Section \ {r.app}, k \in Key : SameRead(post, pre, s, k)
    BY <1>4, <1>6
  <2>3. OthersSame(new, post, r)
    BY <1>3, <1>12, <2>1, <2>2 DEF Sim, OthersSame, SameRead
  <2>4. Sim(new, post, r) /\ Found(new, post, r)
    BY <1>12, <2>1, <2>3 DEF Sim, OwnWritten, Found
  <2> QED
    BY <2>4 DEF new, post
<1>13. CASE ~IsComment(l) /\ ~(~at.bWrote /\ IsKey(l, r.key)) /\ r.key # NoValue
  <2>1. new = [at EXCEPT !.out = Append(@, l)]
    BY <1>13 DEF InSection, new
  <2>2. ~(IsKey(l, r.key) /\ Within(pre, r.app))
    <3> SUFFICES ASSUME IsKey(l, r.key), Within(pre, r.app) PROVE FALSE
      OBVIOUS
    <3>1. r.key \in Key /\ Has(pre, r.app, r.key)
      BY <1>2, <1>13 DEF Found
    <3>2. ~Once(Append(pre, l), r.app, r.key)
      BY <1>2, <3>1, ReadAppend
    <3> QED
      BY <1>2, <3>1, <3>2
  <2> QED
    BY <1>9, <1>13, <2>1, <2>2 DEF new, post
<1> QED
  BY <1>10, <1>11, <1>12, <1>13

LEMMA CopiedKeeps ==
    ASSUME NEW r \in Request, NEW at, NEW pre \in Seq(Line), NEW l \in Line,
           Sim(at, pre, r), Found(at, pre, r),
           \A s \in Section, k \in Key : Once(Append(pre, l), s, k)
    PROVE  Sim(Copied(at, l, r), Append(pre, l), r) /\ Found(Copied(at, l, r), Append(pre, l), r)
BY OutsideKeeps, InSectionKeeps DEF Copied

\* f is how far the write came after each of the first n lines.
Steps(f, n, ls, r) ==
    f = [i \in 0 .. n |-> IF i = 0 THEN Start ELSE Copied(f[i - 1], ls[i], r)]

LEMMA StepsExist ==
    ASSUME NEW ls, NEW r, NEW n \in Nat PROVE \E f : Steps(f, n, ls, r)
<1> DEFINE S == {m \in Nat : \E f : Steps(f, m, ls, r)}
<1>1. 0 \in S
  <2> DEFINE f == [i \in 0 .. 0 |-> Start]
  <2>1. f = [i \in 0 .. 0 |-> IF i = 0 THEN Start ELSE Copied(f[i - 1], ls[i], r)]
    OBVIOUS
  <2> QED
    BY <2>1 DEF Steps
<1>2. ASSUME NEW m \in 1 .. n, m - 1 \in S PROVE m \in S
  <2>1. PICK g : Steps(g, m - 1, ls, r)
    BY <1>2
  <2> DEFINE f == [i \in 0 .. m |-> IF i = m THEN Copied(g[m - 1], ls[m], r) ELSE g[i]]
  <2>2. \A i \in 0 .. m - 1 : g[i] = IF i = 0 THEN Start ELSE Copied(g[i - 1], ls[i], r)
    BY <2>1 DEF Steps
  <2>3. ASSUME NEW i \in 0 .. m
        PROVE  f[i] = IF i = 0 THEN Start ELSE Copied(f[i - 1], ls[i], r)
    <3>1. CASE i = m
      <4>1. m - 1 \in 0 .. m /\ m - 1 # m /\ m # 0
        OBVIOUS
      <4> QED
        BY <3>1, <4>1
    <3>2. CASE i # m
      <4>1. i \in 0 .. m - 1 /\ (i # 0 => i - 1 \in 0 .. m /\ i - 1 # m)
        BY <3>2
      <4> QED
        BY <2>2, <3>2, <4>1
    <3> QED
      BY <3>1, <3>2
  <2>4. Steps(f, m, ls, r)
    BY <2>3 DEF Steps
  <2> QED
    BY <2>4
<1>3. \A i \in 0 .. n : i \in S
  <2> HIDE DEF S
  <2> QED
    BY <1>1, <1>2, Counting
<1>4. n \in 0 .. n
  OBVIOUS
<1> QED
  BY <1>3, <1>4

LEMMA RewriteIs ==
    ASSUME NEW ls, NEW r, Len(ls) \in Nat
    PROVE  \E f : /\ Rewrite(ls, r) = Completed(f[Len(ls)], r)
                  /\ Processed(ls, r) = f[Len(ls)]
                  /\ f[0] = Start
                  /\ \A i \in 1 .. Len(ls) : f[i] = Copied(f[i - 1], ls[i], r)
<1> DEFINE f == CHOOSE g : Steps(g, Len(ls), ls, r)
<1>1. Steps(f, Len(ls), ls, r)
  BY StepsExist
<1>2. Processed(ls, r) = f[Len(ls)] /\ Rewrite(ls, r) = Completed(f[Len(ls)], r)
  BY DEF Rewrite, Processed, Steps
<1> HIDE DEF f
<1>3. \A i \in 0 .. Len(ls) : f[i] = IF i = 0 THEN Start ELSE Copied(f[i - 1], ls[i], r)
  BY <1>1 DEF Steps
<1>4. f[0] = Start /\ \A i \in 1 .. Len(ls) : f[i] = Copied(f[i - 1], ls[i], r)
  BY <1>3
<1> QED
  BY <1>2, <1>4

\* After the last line come the key, the header and the key, or nothing.
LEMMA CompletedAdds ==
    ASSUME NEW r \in Request, NEW at \in Progress
    PROVE  LET made == Completed(at, r)
           IN  /\ made \in Seq(Line)
               /\ \/ made = at.out
                  \/ Writes(r) /\ made = Append(at.out, Added(r))
                  \/ Writes(r) /\ made = Append(Append(at.out, Header(r.app)), Added(r))
<1> DEFINE e == EndSection(at, r)
           p == Added(r)
           h == Header(r.app)
           made == Completed(at, r)
<1>1. /\ at.out \in Seq(Line) /\ e.out \in Seq(Line) /\ e.bWrote \in BOOLEAN
      /\ e.out = at.out \/ (Writes(r) /\ e.bWrote /\ e.out = Append(at.out, p))
  BY EndIs DEF Progress
<1>2. made = IF e.bWrote \/ WriteValue(r) = <<>> THEN e.out ELSE e.out \o <<h>> \o WriteValue(r)
  BY DEF Completed
<1> HIDE DEF e, made, h, p
<1>3. CASE e.bWrote \/ ~Writes(r)
  <2>1. made = e.out
    BY <1>2, <1>3, AddedFacts
  <2> QED
    BY <1>1, <2>1 DEF made, p, h
<1>4. CASE ~e.bWrote /\ Writes(r)
  <2>1. WriteValue(r) = <<p>> /\ <<p>> # <<>> /\ p \in Line /\ h \in Line
    BY <1>4, AddedFacts DEF p, h
  <2>2. made = e.out \o <<h>> \o <<p>>
    BY <1>2, <1>4, <2>1
  <2>3. e.out \o <<h>> = Append(e.out, h) /\ Append(e.out, h) \in Seq(Line)
    BY <1>1, <2>1, AppendIsConcat
  <2>4. made = Append(Append(e.out, h), p) /\ made \in Seq(Line)
    BY <2>1, <2>2, <2>3, AppendIsConcat
  <2> QED
    BY <1>1, <1>4, <2>4 DEF made, p, h
<1> QED
  BY <1>3, <1>4

\* What a line adds to the temporary file: the key, itself, both, or nothing.
Adds(at, new, l, r) ==
    \E mid : /\ mid = at.out \/ (Writes(r) /\ mid = Append(at.out, Added(r)))
             /\ new = Append(mid, l) \/ (~IsComment(l) /\ new = mid)

LEMMA CopiedAdds ==
    ASSUME NEW r \in Request, NEW at \in Progress, NEW l \in Line
    PROVE  Copied(at, l, r) \in Progress /\ Adds(at, Copied(at, l, r).out, l, r)
<1> DEFINE e == EndSection(at, r)
           new == Copied(at, l, r)
           p == Added(r)
<1>1. at.out \in Seq(Line) /\ at.inside \in BOOLEAN /\ at.bWrote \in BOOLEAN
  BY DEF Progress
<1>2. /\ e.out \in Seq(Line) /\ e.inside \in BOOLEAN /\ e.bWrote \in BOOLEAN
      /\ e.out = at.out \/ (Writes(r) /\ e.out = Append(at.out, p))
  BY EndIs DEF Progress
<1>3. CASE ~(at.inside /\ ~IsSection(l))
  <2> DEFINE own == l = Header(r.app)
             out == IF own /\ r.key = NoValue THEN e.out ELSE Append(e.out, l)
  <2>1. new = [e EXCEPT !.inside = own, !.out = out]
    BY <1>3 DEF Copied, Outside
  <2>2. own => ~IsComment(l)
    BY AddedFacts
  <2>3. out \in Seq(Line)
    BY <1>2
  <2> HIDE DEF own, e
  <2> HIDE DEF out, new
  <2>4. new = [out |-> out, inside |-> own, bWrote |-> e.bWrote]
    <3>1. e \in Progress
      BY EndIs DEF e
    <3> QED
      BY <2>1, <3>1 DEF Progress
  <2>5. own \in BOOLEAN
    BY DEF own
  <2>6. new \in Progress /\ new.out = out
    BY <1>2, <2>3, <2>4, <2>5 DEF Progress
  <2> QED
    BY <1>2, <2>2, <2>6 DEF Adds, out, new, p
<1> HIDE DEF e
<1>4. CASE at.inside /\ ~IsSection(l) /\ (IsComment(l) \/ ~(~at.bWrote /\ IsKey(l, r.key)))
  <2> DEFINE out == IF ~IsComment(l) /\ r.key = NoValue THEN at.out ELSE Append(at.out, l)
  <2>1. new = [at EXCEPT !.out = out]
    <3>1. new = IF IsComment(l) THEN [at EXCEPT !.out = Append(@, l)]
                ELSE IF r.key = NoValue THEN at ELSE [at EXCEPT !.out = Append(@, l)]
      <4>1. new = InSection(at, l, r)
        BY <1>4 DEF Copied
      <4>2. IsComment(l) => ~(~at.bWrote /\ IsKey(l, r.key))
        BY DEF IsKey
      <4> HIDE DEF new
      <4> QED
        BY <1>4, <4>1, <4>2 DEF InSection
    <3>2. at = [at EXCEPT !.out = at.out]
      BY DEF Progress
    <3> QED
      BY <3>1, <3>2
  <2>2. out \in Seq(Line)
    BY <1>1
  <2> HIDE DEF out
  <2>3. new = [out |-> out, inside |-> at.inside, bWrote |-> at.bWrote]
    BY <2>1 DEF Progress
  <2> HIDE DEF new
  <2> QED
    BY <1>1, <2>2, <2>3 DEF Progress, Adds, out, new
<1>5. CASE at.inside /\ ~IsSection(l) /\ ~IsComment(l) /\ ~at.bWrote /\ IsKey(l, r.key)
  <2> DEFINE out == IF Writes(r) THEN Append(at.out, p) ELSE at.out
  <2>1. at.out \o WriteValue(r) = out /\ out \in Seq(Line)
    <3>1. CASE Writes(r)
      <4>1. WriteValue(r) = <<p>> /\ p \in Line
        BY <3>1, AddedFacts
      <4> QED
        BY <1>1, <3>1, <4>1
    <3>2. CASE ~Writes(r)
      <4>1. WriteValue(r) = <<>>
        BY <3>2, AddedFacts
      <4> QED
        BY <1>1, <3>2, <4>1
    <3> QED
      BY <3>1, <3>2
  <2>2. new = [at EXCEPT !.out = @ \o WriteValue(r), !.bWrote = TRUE]
    BY <1>5 DEF Copied, InSection
  <2> HIDE DEF out
  <2>3. new = [out |-> out, inside |-> at.inside, bWrote |-> TRUE]
    BY <2>1, <2>2 DEF Progress
  <2> HIDE DEF new
  <2> QED
    BY <1>1, <1>5, <2>1, <2>3 DEF Progress, Adds, out, new
<1> QED
  BY <1>3, <1>4, <1>5

\* A write makes lines of lines.
LEMMA RewriteType ==
    ASSUME NEW r \in Request, NEW ls \in Seq(Line)
    PROVE  Rewrite(ls, r) \in Seq(Line) /\ Processed(ls, r).out \in Seq(Line)
<1> DEFINE n == Len(ls)
<1>1. n \in Nat /\ n \in 0 .. n /\ \A i \in 1 .. n : ls[i] \in Line
  BY Beginnings
<1>2. PICK f : /\ Rewrite(ls, r) = Completed(f[n], r)
               /\ Processed(ls, r) = f[n]
               /\ f[0] = Start
               /\ \A i \in 1 .. n : f[i] = Copied(f[i - 1], ls[i], r)
  BY <1>1, RewriteIs
<1> HIDE DEF n
<1> DEFINE S == {i \in Nat : f[i] \in Progress}
<1>3. 0 \in S
  <2>1. Start \in Progress
    BY ReadNothing DEF Start, Progress
  <2> QED
    BY <1>2, <2>1
<1>4. ASSUME NEW i \in 1 .. n, i - 1 \in S PROVE i \in S
  <2>1. f[i] \in Progress /\ i \in Nat
    BY <1>1, <1>2, <1>4, CopiedAdds
  <2> QED
    BY <2>1
<1>5. f[n] \in Progress
  <2> HIDE DEF S
  <2>1. \A i \in 0 .. n : i \in S
    BY <1>1, <1>3, <1>4, Counting
  <2> QED
    BY <1>1, <2>1 DEF S
<1> QED
  BY <1>2, <1>5, CompletedAdds DEF Progress

\* What is read of the beginning of a file is read of the file.
LEMMA PrefixRead ==
    ASSUME NEW ls \in Seq(Line), NEW m \in 0 .. Len(ls), NEW s \in Section, NEW k
    PROVE  LET pre == SubSeq(ls, 1, m)
           IN  /\ Has(pre, s, k) => Has(ls, s, k) /\ GetString(ls, s, k) = GetString(pre, s, k)
               /\ Once(ls, s, k) => Once(pre, s, k)
<1> DEFINE pre == SubSeq(ls, 1, m)
           n == Len(ls)
           Good(ms) == /\ Has(pre, s, k) => Has(ms, s, k) /\ GetString(ms, s, k) = GetString(pre, s, k)
                       /\ Once(ms, s, k) => Once(pre, s, k)
           S == {j \in Nat : Good(SubSeq(ls, 1, m + j))}
<1>1. /\ n \in Nat /\ SubSeq(ls, 1, n) = ls
      /\ \A i \in 0 .. n : SubSeq(ls, 1, i) \in Seq(Line)
      /\ \A i \in 1 .. n : ls[i] \in Line /\ SubSeq(ls, 1, i) = Append(SubSeq(ls, 1, i - 1), ls[i])
  BY Beginnings
<1> HIDE DEF n
<1>2. m \in Nat /\ m <= n /\ n - m \in Nat /\ m + 0 = m /\ m + (n - m) = n /\ n - m \in 0 .. n - m
  BY <1>1 DEF n
<1>3. 0 \in S
  BY <1>2
<1>4. ASSUME NEW j \in 1 .. n - m, j - 1 \in S PROVE j \in S
  <2> DEFINE ms == SubSeq(ls, 1, m + (j - 1))
             l == ls[m + j]
  <2>1. m + j \in 1 .. n /\ (m + j) - 1 = m + (j - 1) /\ m + (j - 1) \in 0 .. n /\ j \in Nat
    BY <1>1, <1>2
  <2>2. ms \in Seq(Line) /\ l \in Line /\ SubSeq(ls, 1, m + j) = Append(ms, l)
    BY <1>1, <2>1
  <2>3. Good(ms)
    BY <1>4
  <2> HIDE DEF ms, l, pre
  <2>4. Good(Append(ms, l))
    BY <2>2, <2>3, ReadAppend
  <2> QED
    BY <2>1, <2>2, <2>4
<1>5. \A j \in 0 .. n - m : j \in S
  <2> HIDE DEF S
  <2> QED
    BY <1>2, <1>3, <1>4, Counting
<1>6. Good(SubSeq(ls, 1, n))
  BY <1>2, <1>5
<1> QED
  BY <1>1, <1>6 DEF n

LEMMA SimStart == ASSUME NEW r \in Request PROVE Sim(Start, <<>>, r) /\ Found(Start, <<>>, r)
<1>1. /\ Start \in Progress /\ Start.out = <<>> /\ Start.inside = FALSE /\ Start.bWrote = FALSE
  BY DEF Start, Progress
<1>2. \A s \in Section : ~HasHead(<<>>, s) /\ ~Within(<<>>, s)
  BY ReadNothing DEF Within
<1>3. \A s \in Section : \A k : ~Has(<<>>, s, k) /\ Once(<<>>, s, k)
  BY ReadNothing
<1>4. r.app \in Section
  BY AddedFacts
<1> QED
  BY <1>1, <1>2, <1>3, <1>4 DEF Sim, Found, OthersSame, OwnWritten, SameRead

LEMMA RewriteSim ==
    ASSUME NEW r \in Request, NEW ls \in Seq(Line), NoKeyTwice(ls)
    PROVE  \E at : Sim(at, ls, r) /\ Rewrite(ls, r) = Completed(at, r)
<1> DEFINE n == Len(ls)
<1>1. /\ n \in Nat /\ SubSeq(ls, 1, 0) = <<>> /\ SubSeq(ls, 1, n) = ls
      /\ \A i \in 0 .. n : SubSeq(ls, 1, i) \in Seq(Line)
      /\ \A i \in 1 .. n : /\ ls[i] \in Line /\ i - 1 \in 0 .. n /\ i \in 0 .. n
                           /\ SubSeq(ls, 1, i) = Append(SubSeq(ls, 1, i - 1), ls[i])
  BY Beginnings
<1>2. PICK f : /\ Rewrite(ls, r) = Completed(f[n], r)
               /\ f[0] = Start
               /\ \A i \in 1 .. n : f[i] = Copied(f[i - 1], ls[i], r)
  BY <1>1, RewriteIs
<1>3. \A i \in 0 .. n, s \in Section, k \in Key : Once(SubSeq(ls, 1, i), s, k)
  BY PrefixRead DEF NoKeyTwice, Once
<1> DEFINE S == {i \in Nat : Sim(f[i], SubSeq(ls, 1, i), r) /\ Found(f[i], SubSeq(ls, 1, i), r)}
<1> HIDE DEF n
<1>4. 0 \in S
  BY <1>1, <1>2, SimStart
<1>5. ASSUME NEW i \in 1 .. n, i - 1 \in S PROVE i \in S
  <2> DEFINE pre == SubSeq(ls, 1, i - 1)
  <2>1. /\ pre \in Seq(Line) /\ ls[i] \in Line /\ SubSeq(ls, 1, i) = Append(pre, ls[i])
        /\ f[i] = Copied(f[i - 1], ls[i], r) /\ i \in Nat
    BY <1>1, <1>2
  <2>2. \A s \in Section, k \in Key : Once(Append(pre, ls[i]), s, k)
    BY <1>1, <1>3, <2>1
  <2>3. Sim(f[i - 1], pre, r) /\ Found(f[i - 1], pre, r)
    BY <1>5
  <2> HIDE DEF pre
  <2>4. Sim(f[i], Append(pre, ls[i]), r) /\ Found(f[i], Append(pre, ls[i]), r)
    BY <2>1, <2>2, <2>3, CopiedKeeps
  <2> QED
    BY <2>1, <2>4
<1>6. \A i \in 0 .. n : i \in S
  <2> HIDE DEF S
  <2> QED
    BY <1>1, <1>4, <1>5, Counting
<1>7. Sim(f[n], ls, r)
  <2>1. n \in 0 .. n
    BY <1>1
  <2>2. Sim(f[n], SubSeq(ls, 1, n), r)
    BY <1>6, <2>1
  <2> QED
    BY <1>1, <2>2
<1> QED
  BY <1>2, <1>7 DEF n

\* A write sets one key, deletes one key or deletes a section, whatever else is
\* in the file, and makes no key occur twice.
LEMMA RewriteApplies ==
    ASSUME NEW r \in Request, NEW ls \in Seq(Line), NoKeyTwice(ls)
    PROVE  /\ NoKeyTwice(Rewrite(ls, r))
           /\ \A s \in Section, k \in Key :
                  GetString(Rewrite(ls, r), s, k) =
                      IF s # r.app \/ r.key \notin {k, NoValue} THEN GetString(ls, s, k)
                      ELSE IF Writes(r) THEN Stored(r.key, r.str) ELSE NoValue
<1>1. PICK at : Sim(at, ls, r) /\ Rewrite(ls, r) = Completed(at, r)
  BY RewriteSim
<1> DEFINE e == EndSection(at, r)
           p == Added(r)
           made == Rewrite(ls, r)
<1>2. Sim(e, ls, r) /\ e \in Progress /\ e.inside = at.inside /\ (e.inside => e.bWrote)
  <2>1. at \in Progress
    BY <1>1 DEF Sim
  <2> QED
    BY <1>1, <2>1, EndKeeps, EndIs
<1>3. e.out \in Seq(Line) /\ e.inside \in BOOLEAN /\ e.bWrote \in BOOLEAN
  BY <1>2 DEF Progress
<1>4. /\ r.app \in Section /\ r.key \in Key \cup {NoValue} /\ NoValue \notin Key
      /\ ~Writes(r) => WriteValue(r) = <<>>
      /\ Readable(r) => Writes(r) /\ Stored(r.key, r.str) = ReadAs(r.str)
      /\ Writes(r) /\ ~Readable(r) => Stored(r.key, r.str) = NoValue
      /\ Writes(r) => WriteValue(r) = <<p>> /\ r.key \in Key /\ r.str # NoValue
  BY AddedFacts DEF Writes, Readable, Stored
<1>5. \A ms, s, k : ~Has(ms, s, k) => GetString(ms, s, k) = NoValue
  BY DEF Has, GetString
<1>6. \A ms : NoKeyTwice(ms) <=> \A s \in Section, k \in Key : Once(ms, s, k)
  BY DEF NoKeyTwice, Once
<1>7. made = IF e.bWrote \/ WriteValue(r) = <<>> THEN e.out
             ELSE e.out \o <<Header(r.app)>> \o WriteValue(r)
  BY <1>1 DEF Completed
<1> HIDE DEF e, made, p
<1>8. CASE e.bWrote \/ ~Writes(r)
  <2>1. made = e.out
    BY <1>4, <1>7, <1>8
  <2>2. ASSUME NEW s \in Section, NEW k \in Key
        PROVE  GetString(made, s, k) =
                      IF s # r.app \/ r.key \notin {k, NoValue} THEN GetString(ls, s, k)
                      ELSE IF Writes(r) THEN Stored(r.key, r.str) ELSE NoValue
    <3>1. CASE s # r.app
      BY <1>2, <2>1, <3>1 DEF Sim, OthersSame, SameRead
    <3>2. CASE s = r.app /\ r.key = NoValue
      <4>1. ~HasHead(made, s)
        BY <1>2, <2>1, <3>2 DEF Sim
      <4>2. GetString(made, s, k) = NoValue
        BY <1>3, <2>1, <4>1, WithinAppend, BodyIs DEF GetString, Hits
      <4> QED
        BY <3>2, <4>2 DEF Writes
    <3>3. CASE s = r.app /\ r.key # NoValue /\ r.key # k
      BY <1>2, <2>1, <3>3 DEF Sim, OwnWritten, SameRead
    <3>4. CASE s = r.app /\ r.key = k /\ e.bWrote
      <4>1. Has(made, s, k) <=> Readable(r)
        BY <1>2, <1>4, <2>1, <3>4 DEF Sim, OwnWritten
      <4>2. Readable(r) => GetString(made, s, k) = ReadAs(r.str)
        BY <1>2, <1>4, <2>1, <3>4 DEF Sim, OwnWritten
      <4> QED
        BY <1>4, <1>5, <3>4, <4>1, <4>2
    <3>5. CASE s = r.app /\ r.key = k /\ ~e.bWrote
      <4>1. ~Has(made, s, k)
        BY <1>2, <1>4, <2>1, <3>5 DEF Sim, OwnWritten
      <4> QED
        BY <1>5, <1>8, <3>5, <4>1
    <3> QED
      BY <1>4, <3>1, <3>2, <3>3, <3>4, <3>5
  <2>3. NoKeyTwice(made)
    BY <1>2, <1>6, <2>1 DEF Sim
  <2> QED
    BY <1>3, <2>1, <2>2, <2>3 DEF made
<1>9. CASE ~e.bWrote /\ Writes(r)
  <2> DEFINE h == Header(r.app)
             o1 == Append(e.out, h)
  <2>1. h \in Line /\ IsSection(h) /\ p \in Line /\ (\A k : ~IsKey(h, k)) /\ p.value = r.str
        /\ (\A k : IsKey(p, k) <=> k = r.key /\ Readable(r))
        /\ \A s \in Section : s # r.app => h # Header(s)
    BY <1>9, AddedFacts DEF p, Header
  <2> HIDE DEF h
  <2>2. o1 \in Seq(Line) /\ made = Append(o1, p) /\ made \in Seq(Line)
    <3>1. made = e.out \o <<h>> \o <<p>>
      <4>1. WriteValue(r) = <<p>> /\ <<p>> # <<>>
        BY <1>4, <1>9
      <4> HIDE DEF o1
      <4> QED
        BY <1>7, <1>9, <4>1 DEF h
    <3>2. o1 = e.out \o <<h>> /\ o1 \in Seq(Line)
      BY <1>3, <2>1, AppendIsConcat
    <3> QED
      BY <2>1, <3>1, <3>2, AppendIsConcat
  <2>3. ~HasHead(e.out, r.app) /\ ~HasHead(ls, r.app)
    BY <1>2, <1>4, <1>9 DEF Sim, OwnWritten
  <2>4. ASSUME NEW s \in Section PROVE Within(o1, s) <=> s = r.app
    BY <1>3, <1>4, <2>1, <2>3, WithinAppend DEF h
  <2>5. ASSUME NEW s \in Section, NEW k
        PROVE  SameRead(o1, e.out, s, k) /\ (Once(o1, s, k) <=> Once(e.out, s, k))
    BY <1>3, <2>1, ReadKept DEF SameRead
  <2>6. ASSUME NEW s \in Section, NEW k \in Key, s # r.app \/ k # r.key
        PROVE  SameRead(made, ls, s, k) /\ Once(made, s, k)
    <3>1. ~(Within(o1, s) /\ IsKey(p, k))
      BY <2>1, <2>4, <2>6
    <3>2. SameRead(made, o1, s, k) /\ (Once(made, s, k) <=> Once(o1, s, k))
      BY <2>1, <2>2, <3>1, ReadKept DEF SameRead
    <3>3. SameRead(e.out, ls, s, k) /\ Once(e.out, s, k)
      BY <1>2, <1>4, <1>9, <2>6 DEF Sim, OthersSame, OwnWritten
    <3> QED
      BY <2>5, <3>2, <3>3 DEF SameRead
  <2>7. /\ GetString(made, r.app, r.key) = Stored(r.key, r.str)
        /\ Once(made, r.app, r.key)
    <3>1. ~Has(o1, r.app, r.key) /\ Once(o1, r.app, r.key)
      BY <1>2, <1>3, <1>4, <1>9, <2>3, <2>5, WithinAppend, <2>1 DEF SameRead
    <3>2. /\ Within(o1, r.app)
          /\ GetString(made, r.app, r.key) = IF IsKey(p, r.key) THEN ReadAs(r.str) ELSE NoValue
          /\ Once(made, r.app, r.key)
      <4> HIDE DEF o1
      <4>1. Within(o1, r.app)
        BY <1>4, <2>4
      <4>2. /\ Once(made, r.app, r.key)
            /\ GetString(made, r.app, r.key) =
                   IF Within(o1, r.app) /\ IsKey(p, r.key) THEN ReadAs(p.value) ELSE NoValue
        BY <1>4, <2>1, <2>2, <3>1, ReadAppend
      <4> QED
        BY <2>1, <4>1, <4>2
    <3> QED
      BY <1>4, <1>9, <2>1, <3>2
  <2>8. NoKeyTwice(made)
    BY <1>6, <2>6, <2>7
  <2>9. ASSUME NEW s \in Section, NEW k \in Key
        PROVE  GetString(made, s, k) =
                      IF s # r.app \/ r.key \notin {k, NoValue} THEN GetString(ls, s, k)
                      ELSE IF Writes(r) THEN Stored(r.key, r.str) ELSE NoValue
    BY <1>4, <1>9, <2>6, <2>7 DEF SameRead
  <2> QED
    BY <2>2, <2>8, <2>9 DEF made
<1> QED
  BY <1>8, <1>9

-----------------------------------------------------------------------------
(* The comments.                                                           *)

\* g is the comments among the first lines, up to each of them.
Gathered(g, n, ls) ==
    g = [i \in 0 .. n |-> IF i = 0 THEN <<>>
                          ELSE IF IsComment(ls[i]) THEN Append(g[i - 1], ls[i]) ELSE g[i - 1]]

LEMMA GatheredExist == ASSUME NEW ls, NEW n \in Nat PROVE \E g : Gathered(g, n, ls)
<1> DEFINE S == {m \in Nat : \E g : Gathered(g, m, ls)}
<1>1. 0 \in S
  <2> DEFINE g == [i \in 0 .. 0 |-> <<>>]
  <2>1. Gathered(g, 0, ls)
    BY DEF Gathered
  <2> QED
    BY <2>1
<1>2. ASSUME NEW m \in 1 .. n, m - 1 \in S PROVE m \in S
  <2>1. PICK h : Gathered(h, m - 1, ls)
    BY <1>2
  <2> DEFINE next == IF IsComment(ls[m]) THEN Append(h[m - 1], ls[m]) ELSE h[m - 1]
             g == [i \in 0 .. m |-> IF i = m THEN next ELSE h[i]]
  <2>2. \A i \in 0 .. m - 1 :
            h[i] = IF i = 0 THEN <<>>
                   ELSE IF IsComment(ls[i]) THEN Append(h[i - 1], ls[i]) ELSE h[i - 1]
    BY <2>1 DEF Gathered
  <2>3. ASSUME NEW i \in 0 .. m
        PROVE  g[i] = IF i = 0 THEN <<>>
                      ELSE IF IsComment(ls[i]) THEN Append(g[i - 1], ls[i]) ELSE g[i - 1]
    <3>1. CASE i = m
      <4>1. m - 1 \in 0 .. m /\ m - 1 # m /\ m # 0
        OBVIOUS
      <4> QED
        BY <3>1, <4>1
    <3>2. CASE i # m
      <4>1. i \in 0 .. m - 1 /\ (i # 0 => i - 1 \in 0 .. m /\ i - 1 # m)
        BY <3>2
      <4> HIDE DEF next
      <4> QED
        BY <2>2, <3>2, <4>1
    <3> QED
      BY <3>1, <3>2
  <2>4. Gathered(g, m, ls)
    BY <2>3 DEF Gathered
  <2> QED
    BY <2>4
<1>3. \A i \in 0 .. n : i \in S
  <2> HIDE DEF S
  <2> QED
    BY <1>1, <1>2, Counting
<1>4. n \in 0 .. n
  OBVIOUS
<1> QED
  BY <1>3, <1>4

LEMMA CommentsAre ==
    ASSUME NEW ls, Len(ls) \in Nat
    PROVE  \E g : /\ Comments(ls) = g[Len(ls)]
                  /\ g[0] = <<>>
                  /\ \A i \in 1 .. Len(ls) :
                         g[i] = IF IsComment(ls[i]) THEN Append(g[i - 1], ls[i]) ELSE g[i - 1]
<1> DEFINE g == CHOOSE h : Gathered(h, Len(ls), ls)
<1>1. Gathered(g, Len(ls), ls)
  BY GatheredExist
<1>2. Comments(ls) = g[Len(ls)]
  BY DEF Comments, Gathered
<1> HIDE DEF g
<1>3. \A i \in 0 .. Len(ls) :
          g[i] = IF i = 0 THEN <<>>
                 ELSE IF IsComment(ls[i]) THEN Append(g[i - 1], ls[i]) ELSE g[i - 1]
  BY <1>1 DEF Gathered
<1>4. /\ g[0] = <<>>
      /\ \A i \in 1 .. Len(ls) :
             g[i] = IF IsComment(ls[i]) THEN Append(g[i - 1], ls[i]) ELSE g[i - 1]
  BY <1>3
<1> QED
  BY <1>2, <1>4

LEMMA CommentsAppend ==
    ASSUME NEW ls \in Seq(Line), NEW l \in Line
    PROVE  Comments(Append(ls, l)) = IF IsComment(l) THEN Append(Comments(ls), l) ELSE Comments(ls)
<1> DEFINE n == Len(ls)
           ms == Append(ls, l)
<1>1. /\ n \in Nat /\ Len(ms) = n + 1 /\ ms[n + 1] = l
      /\ \A i \in 1 .. n : ms[i] = ls[i]
  BY AppendFacts
<1>2. /\ n \in 0 .. n /\ n + 1 \in 1 .. n + 1 /\ (n + 1) - 1 = n /\ n + 1 \in Nat
      /\ \A i \in 1 .. n : i \in 1 .. n + 1 /\ i \in Nat
  BY <1>1
<1>3. PICK g : /\ Comments(ls) = g[n]
               /\ g[0] = <<>>
               /\ \A i \in 1 .. n :
                      g[i] = IF IsComment(ls[i]) THEN Append(g[i - 1], ls[i]) ELSE g[i - 1]
  BY <1>1, CommentsAre
<1> HIDE DEF n, ms
<1>4. PICK h : /\ Comments(ms) = h[n + 1]
               /\ h[0] = <<>>
               /\ \A i \in 1 .. n + 1 :
                      h[i] = IF IsComment(ms[i]) THEN Append(h[i - 1], ms[i]) ELSE h[i - 1]
  <2>1. Len(ms) \in Nat
    BY <1>1, <1>2
  <2>2. PICK h : /\ Comments(ms) = h[Len(ms)]
                 /\ h[0] = <<>>
                 /\ \A i \in 1 .. Len(ms) :
                        h[i] = IF IsComment(ms[i]) THEN Append(h[i - 1], ms[i]) ELSE h[i - 1]
    BY <2>1, CommentsAre
  <2>3. Len(ms) = n + 1
    BY <1>1
  <2> QED
    BY <2>2, <2>3
<1> DEFINE S == {i \in Nat : h[i] = g[i]}
<1>5. 0 \in S
  BY <1>3, <1>4
<1>6. ASSUME NEW i \in 1 .. n, i - 1 \in S PROVE i \in S
  BY <1>1, <1>2, <1>3, <1>4, <1>6
<1>7. h[n] = g[n]
  <2> HIDE DEF S
  <2>1. \A i \in 0 .. n : i \in S
    BY <1>1, <1>5, <1>6, Counting
  <2> QED
    BY <1>2, <2>1 DEF S
<1>8. h[n + 1] = IF IsComment(ms[n + 1]) THEN Append(h[(n + 1) - 1], ms[n + 1]) ELSE h[(n + 1) - 1]
  BY <1>2, <1>4
<1> QED
  BY <1>1, <1>2, <1>3, <1>4, <1>7, <1>8 DEF ms

LEMMA NoComments == Comments(<<>>) = <<>>
<1>1. Len(<<>>) = 0 /\ 0 \in Nat
  OBVIOUS
<1> QED
  BY <1>1, CommentsAre

\* A write keeps the comments, unless what it writes is one.
LEMMA RewriteComments ==
    ASSUME NEW r \in Request, NEW ls \in Seq(Line), {r.key, r.str} \cap Hash = {}
    PROVE  Comments(Rewrite(ls, r)) = Comments(ls)
<1> DEFINE n == Len(ls)
           p == Added(r)
<1>1. /\ n \in Nat /\ n \in 0 .. n
      /\ SubSeq(ls, 1, 0) = <<>> /\ SubSeq(ls, 1, n) = ls
      /\ \A i \in 1 .. n : /\ ls[i] \in Line /\ i - 1 \in 0 .. n /\ SubSeq(ls, 1, i - 1) \in Seq(Line)
                           /\ SubSeq(ls, 1, i) = Append(SubSeq(ls, 1, i - 1), ls[i])
  BY Beginnings
<1>2. PICK f : /\ Rewrite(ls, r) = Completed(f[n], r)
               /\ f[0] = Start
               /\ \A i \in 1 .. n : f[i] = Copied(f[i - 1], ls[i], r)
  BY <1>1, RewriteIs
<1> HIDE DEF n
<1>3. Writes(r) => p \in Line /\ ~IsComment(p)
  BY AddedFacts DEF Readable
<1> HIDE DEF p
<1> DEFINE S == {i \in Nat : f[i] \in Progress /\ Comments(f[i].out) = Comments(SubSeq(ls, 1, i))}
<1>4. 0 \in S
  <2>1. Start \in Progress /\ Start.out = <<>>
    BY ReadNothing DEF Start, Progress
  <2> QED
    BY <1>1, <1>2, <2>1
<1>5. ASSUME NEW i \in 1 .. n, i - 1 \in S PROVE i \in S
  <2> DEFINE at == f[i - 1]
             l == ls[i]
             pre == SubSeq(ls, 1, i - 1)
  <2>1. /\ at \in Progress /\ Comments(at.out) = Comments(pre) /\ l \in Line /\ i \in Nat
        /\ pre \in Seq(Line) /\ SubSeq(ls, 1, i) = Append(pre, l) /\ f[i] = Copied(at, l, r)
    BY <1>1, <1>2, <1>5
  <2> HIDE DEF at, l, pre
  <2>2. f[i] \in Progress /\ Adds(at, f[i].out, l, r) /\ at.out \in Seq(Line)
    BY <2>1, CopiedAdds DEF Progress
  <2>3. PICK mid : /\ mid = at.out \/ (Writes(r) /\ mid = Append(at.out, p))
                   /\ f[i].out = Append(mid, l) \/ (~IsComment(l) /\ f[i].out = mid)
    BY <2>2 DEF Adds, p
  <2>4. mid \in Seq(Line) /\ Comments(mid) = Comments(pre)
    <3>1. CASE mid = at.out
      BY <2>1, <2>2, <3>1
    <3>2. CASE Writes(r) /\ mid = Append(at.out, p)
      <4>1. p \in Line /\ ~IsComment(p)
        BY <1>3, <3>2
      <4> QED
        BY <2>1, <2>2, <3>2, <4>1, CommentsAppend, AppendFacts
    <3> QED
      BY <2>3, <3>1, <3>2
  <2>5. Comments(f[i].out) = IF IsComment(l) THEN Append(Comments(pre), l) ELSE Comments(pre)
    BY <2>1, <2>3, <2>4, CommentsAppend
  <2>6. Comments(f[i].out) = Comments(SubSeq(ls, 1, i))
    BY <2>1, <2>5, CommentsAppend
  <2> QED
    BY <2>1, <2>2, <2>6
<1>6. f[n] \in Progress /\ Comments(f[n].out) = Comments(ls)
  <2> HIDE DEF S
  <2>1. \A i \in 0 .. n : i \in S
    BY <1>1, <1>4, <1>5, Counting
  <2> QED
    BY <1>1, <2>1 DEF S
<1> DEFINE h == Header(r.app)
<1>7. h \in Line /\ ~IsComment(h) /\ f[n].out \in Seq(Line)
  BY <1>6, AddedFacts DEF Progress
<1>8. LET made == Rewrite(ls, r)
      IN  \/ made = f[n].out
          \/ Writes(r) /\ made = Append(f[n].out, p)
          \/ Writes(r) /\ made = Append(Append(f[n].out, h), p)
  BY <1>2, <1>6, CompletedAdds DEF p
<1> HIDE DEF h
<1>9. /\ Append(f[n].out, h) \in Seq(Line)
      /\ Comments(Append(f[n].out, h)) = Comments(ls)
  BY <1>6, <1>7, CommentsAppend, AppendFacts
<1>10. CASE Rewrite(ls, r) = f[n].out
  BY <1>6, <1>10
<1>11. ASSUME Writes(r), NEW ms \in Seq(Line), Comments(ms) = Comments(ls)
       PROVE  Comments(Append(ms, p)) = Comments(ls)
  <2>1. Comments(Append(ms, p)) = Comments(ms)
    BY <1>3, <1>11, CommentsAppend
  <2> QED
    BY <1>11, <2>1
<1>12. CASE Writes(r) /\ Rewrite(ls, r) = Append(f[n].out, p)
  BY <1>6, <1>7, <1>11, <1>12, Zenon
<1>13. CASE Writes(r) /\ Rewrite(ls, r) = Append(Append(f[n].out, h), p)
  BY <1>9, <1>11, <1>13, Zenon
<1> QED
  BY <1>8, <1>10, <1>12, <1>13, Zenon

-----------------------------------------------------------------------------
(* The two files in the course of a write.                                 *)

\* If no key was in its section twice, none is.
Single(ls) == KeysOnce => NoKeyTwice(ls)

\* What the temporary file is made of, and what it should be.
Base == IF "read" \in hit THEN <<>> ELSE GetLines(old)
Made == Rewrite(Base, req)

Began(ms, ls) == \E n \in 0 .. Len(ls) : ms = SubSeq(ls, 1, n)

\* The temporary file is complete unless the disk is full.
TmpIsMade ==
    pc \in {"open", "grow", "map", "copy", "remove"} =>
        Began(tmp, Made) /\ ("full" \notin hit => tmp = Made)

\* How far the file itself has been replaced.
FileIs ==
    /\ pc = "creat" => g_pData = IF "read" \in hit THEN Empty ELSE old
    /\ pc \in {"creat", "blanks", "open"} => file = old
    /\ pc \in {"grow", "map"} => file.lines = <<>>
    /\ pc = "copy" => Began(file.lines, tmp) /\ Len(file.lines) < Len(tmp)
    /\ pc = "remove" => \/ file = old /\ "open" \in hit
                        \/ file.lines = <<>> /\ hit \cap {"grow", "map"} # {}
                        \/ file.lines = tmp /\ ~Torn

\* Nobody is at work any more, and either file is whole.
Rests ==
    /\ "kill" \in hit => pc \in {"idle", "spin"}
    /\ pc \in {"idle", "spin"} => Recoverable

IInv ==
    /\ TypeOK
    /\ Single(old.lines) /\ Single(file.lines)
    /\ TmpIsMade /\ FileIs /\ Rests /\ TornByKill

LEMMA BeganFacts ==
    ASSUME NEW ls \in Seq(Line)
    PROVE  /\ Began(ls, ls) /\ Began(<<>>, ls)
           /\ \A ms : Began(ms, ls) =>
                  /\ ms \in Seq(Line)
                  /\ \A n \in 0 .. Len(ms) : Began(SubSeq(ms, 1, n), ls)
                  /\ NoKeyTwice(ls) => NoKeyTwice(ms)
                  /\ \A s \in Section, k \in Key :
                         GetString(ms, s, k) \in {GetString(ls, s, k), NoValue}
<1>1. /\ Len(ls) \in Nat /\ SubSeq(ls, 1, 0) = <<>> /\ SubSeq(ls, 1, Len(ls)) = ls
      /\ \A i \in 0 .. Len(ls) : SubSeq(ls, 1, i) \in Seq(Line) /\ Len(SubSeq(ls, 1, i)) = i
                                 /\ \A j \in 1 .. i : SubSeq(ls, 1, i)[j] = ls[j]
  BY Beginnings
<1>2. Began(ls, ls) /\ Began(<<>>, ls)
  <2>1. Len(ls) \in 0 .. Len(ls) /\ 0 \in 0 .. Len(ls)
    BY <1>1
  <2> QED
    BY <1>1, <2>1 DEF Began
<1>3. ASSUME NEW m \in 0 .. Len(ls)
      PROVE  LET ms == SubSeq(ls, 1, m)
             IN  /\ ms \in Seq(Line)
                 /\ \A n \in 0 .. Len(ms) : Began(SubSeq(ms, 1, n), ls)
                 /\ NoKeyTwice(ls) => NoKeyTwice(ms)
                 /\ \A s \in Section, k \in Key :
                        GetString(ms, s, k) \in {GetString(ls, s, k), NoValue}
  <2> DEFINE ms == SubSeq(ls, 1, m)
  <2>1. ms \in Seq(Line) /\ Len(ms) = m
    BY <1>1
  <2>2. ASSUME NEW n \in 0 .. m PROVE SubSeq(ms, 1, n) = SubSeq(ls, 1, n)
    <3>1. n \in 0 .. Len(ls) /\ n \in 0 .. Len(ms) /\ \A j \in 1 .. n : j \in 1 .. m
      BY <1>1, <2>1
    <3>2. /\ SubSeq(ms, 1, n) \in Seq(Line) /\ Len(SubSeq(ms, 1, n)) = n
          /\ \A j \in 1 .. n : SubSeq(ms, 1, n)[j] = ms[j]
      BY <2>1, <3>1, Beginnings
    <3>3. /\ SubSeq(ls, 1, n) \in Seq(Line) /\ Len(SubSeq(ls, 1, n)) = n
          /\ \A j \in 1 .. n : SubSeq(ls, 1, n)[j] = ls[j]
      BY <1>1, <3>1
    <3>4. \A j \in 1 .. n : ms[j] = ls[j]
      BY <1>1, <3>1
    <3> HIDE DEF ms
    <3> QED
      BY <3>2, <3>3, <3>4, SeqEqual
  <2>3. \A n \in 0 .. m : n \in 0 .. Len(ls)
    BY <1>1
  <2>4. \A n \in 0 .. Len(ms) : Began(SubSeq(ms, 1, n), ls)
    BY <2>1, <2>2, <2>3 DEF Began
  <2>5. NoKeyTwice(ls) => NoKeyTwice(ms)
    BY PrefixRead DEF NoKeyTwice, Once
  <2>6. ASSUME NEW s \in Section, NEW k \in Key
        PROVE  GetString(ms, s, k) \in {GetString(ls, s, k), NoValue}
    <3>1. ~Has(ms, s, k) => GetString(ms, s, k) = NoValue
      BY DEF Has, GetString
    <3>2. Has(ms, s, k) => GetString(ls, s, k) = GetString(ms, s, k)
      BY PrefixRead
    <3> QED
      BY <3>1, <3>2
  <2> QED
    BY <2>1, <2>4, <2>5, <2>6
<1>4. ASSUME NEW ms, Began(ms, ls)
      PROVE  /\ ms \in Seq(Line)
             /\ \A n \in 0 .. Len(ms) : Began(SubSeq(ms, 1, n), ls)
             /\ NoKeyTwice(ls) => NoKeyTwice(ms)
             /\ \A s \in Section, k \in Key :
                    GetString(ms, s, k) \in {GetString(ls, s, k), NoValue}
  <2>1. PICK m \in 0 .. Len(ls) : ms = SubSeq(ls, 1, m)
    BY <1>4 DEF Began
  <2> QED
    BY <1>3, <2>1
<1> QED
  BY <1>2, <1>4

\* The last line that GetLine does not report says nothing of any key.
LEMMA GetLinesFacts ==
    ASSUME NEW f \in File
    PROVE  /\ GetLines(f) \in Seq(Line)
           /\ Single(f.lines) => Single(GetLines(f))
           /\ f.lines = IF EndsBlank(f) THEN Append(GetLines(f), Blank) ELSE GetLines(f)
           /\ \A s \in Section : \A k : GetString(GetLines(f), s, k) = GetString(f.lines, s, k)
<1> DEFINE ls == f.lines
           ms == SubSeq(ls, 1, Len(ls) - 1)
<1>1. ls \in Seq(Line)
  BY DEF File
<1>2. CASE ~EndsBlank(f)
  BY <1>1, <1>2 DEF GetLines
<1>3. CASE EndsBlank(f)
  <2>1. ls # <<>> /\ ls[Len(ls)] = Blank /\ GetLines(f) = ms
    BY <1>3 DEF EndsBlank, GetLines
  <2>2. Len(ls) \in 1 .. Len(ls) /\ Len(ls) - 1 \in 0 .. Len(ls)
    BY <1>1, <2>1
  <2>3. ms \in Seq(Line) /\ ls = Append(ms, Blank)
    BY <1>1, <2>1, <2>2, Beginnings
  <2>4. Blank \in Line /\ \A k : ~IsKey(Blank, k)
    BY DEF Line, Blank, IsKey
  <2> HIDE DEF ls, ms
  <2>5. ASSUME NEW s \in Section, NEW k
        PROVE  /\ GetString(ls, s, k) = GetString(ms, s, k)
               /\ Once(ls, s, k) <=> Once(ms, s, k)
    BY <2>3, <2>4, ReadKept
  <2>6. Single(ls) => Single(ms)
    BY <2>5 DEF Single, NoKeyTwice
  <2> QED
    BY <1>3, <2>1, <2>3, <2>5, <2>6 DEF ls
<1> QED
  BY <1>2, <1>3

LEMMA NothingRead == Empty \in File /\ GetLines(Empty) = <<>> /\ ~Endless(Empty)
BY DEF Empty, File, GetLines, EndsBlank, Endless

LEMMA MadeFacts ==
    ASSUME IInv
    PROVE  /\ Base \in Seq(Line) /\ Single(Base)
           /\ Made \in Seq(Line) /\ Single(Made)
           /\ \A s \in Section, k \in Key : GetString(Base, s, k) \in {GetString(old.lines, s, k), NoValue}
<1>1. /\ old \in File /\ GetLines(old) \in Seq(Line) /\ Single(GetLines(old)) /\ req \in Request
      /\ \A s \in Section, k \in Key : GetString(GetLines(old), s, k) = GetString(old.lines, s, k)
  BY GetLinesFacts DEF IInv, TypeOK
<1>2. <<>> \in Seq(Line) /\ Single(<<>>) /\ \A s \in Section, k \in Key : GetString(<<>>, s, k) = NoValue
  BY ReadNothing DEF Single, NoKeyTwice, Once
<1>3. /\ Base \in Seq(Line) /\ Single(Base)
      /\ \A s \in Section, k \in Key : GetString(Base, s, k) \in {GetString(old.lines, s, k), NoValue}
  BY <1>1, <1>2 DEF Base
<1> QED
  BY <1>1, <1>3, RewriteType, RewriteApplies DEF Made, Single

LEMMA GetStringType ==
    ASSUME NEW ls \in Seq(Line), NEW s \in Section, NEW k
    PROVE  GetString(ls, s, k) \in Value \cup {NoValue}
<1>1. CASE Hits(ls, s, k) # {}
  <2>1. Hits(ls, s, k) \in SUBSET Nat
    BY BodyIs DEF Hits
  <2>2. PICK x \in Hits(ls, s, k) : \A y \in Hits(ls, s, k) : x <= y
    BY <1>1, <2>1, LowestOf
  <2>3. Min(Hits(ls, s, k)) = x
    BY <2>1, <2>2, MinIs
  <2>4. IsKey(ls[x], k) /\ ls[x] \in Line
    BY BodyIs DEF Hits
  <2>5. ls[x].value \in Value
    BY <2>4, LineFacts
  <2> QED
    BY <1>1, <2>3, <2>5, IniFileAssumption DEF GetString
<1>2. CASE Hits(ls, s, k) = {}
  BY <1>2 DEF GetString
<1> QED
  BY <1>1, <1>2

LEMMA InitInv == Init => IInv
<1> SUFFICES ASSUME Init PROVE IInv
  OBVIOUS
<1>1. /\ file \in File /\ file.lines \in InitFiles /\ file.zeros = "no"
      /\ tmp = <<>> /\ pc = "idle" /\ req \in Request /\ g_pData \in File /\ maps = 0
      /\ ret = "none" /\ calls = 0 /\ old = file /\ hit = {} /\ missed = FALSE
  BY InitFilesAssumption, NothingRead DEF Init, File
<1>2. Single(file.lines)
  BY <1>1 DEF Single, KeysOnce
<1>3. TypeOK
  <2>1. 0 \in 0 .. MaxMaps /\ 0 \in 0 .. MaxCalls /\ <<>> \in Seq(Line)
    BY IniFileAssumption
  <2> QED
    BY <1>1, <2>1 DEF TypeOK
<1> QED
  BY <1>1, <1>2, <1>3 DEF IInv, TmpIsMade, FileIs, Rests, Recoverable, TornByKill, Torn, Endless

LEMMA TypeStep == ASSUME IInv, [Next]_vars PROVE TypeOK'
<1>1. Made \in Seq(Line) /\ tmp \in Seq(Line)
  BY MadeFacts DEF IInv, TypeOK
<1>2. pc = "creat" => Rewrite(GetLines(g_pData), req) = Made
  BY NothingRead DEF IInv, FileIs, Made, Base
<1>3. file.lines \in Seq(Line) /\ <<>> \in Seq(Line) /\ Empty \in File
      /\ file.zeros \in {"no", "few", "many"}
  BY NothingRead DEF IInv, TypeOK, File
<1>4. pc = "copy" => /\ Len(file.lines) + 1 \in 0 .. Len(tmp)
                     /\ SubSeq(tmp, 1, Len(file.lines) + 1) \in Seq(Line)
  <2> SUFFICES ASSUME pc = "copy" PROVE Len(file.lines) + 1 \in 0 .. Len(tmp)
    BY <1>1, Beginnings
  <2>1. Len(file.lines) \in Nat /\ Len(tmp) \in Nat /\ Len(file.lines) < Len(tmp)
    BY <1>1, <1>3 DEF IInv, FileIs
  <2> QED
    BY <2>1
<1> USE IniFileAssumption DEF IInv, TypeOK
<1>5. ASSUME NEW s \in Section, NEW k \in Key, Get(s, k) \/ GetSpins(s, k) PROVE TypeOK'
  <2>1. GetString(file.lines, s, k) \in Value \cup {NoValue}
    BY <1>3, GetStringType
  <2>2. ret' \in Value \cup {"none", "TRUE", "FALSE", Default}
    BY <1>5, <2>1 DEF Get, GetSpins
  <2> QED
    BY <1>5, <2>2 DEF Get, GetSpins
<1>15. CASE GetReadFails
  BY <1>15 DEF GetReadFails
<1>6. ASSUME NEW r \in Request, Call(r) \/ CallReadFails(r) PROVE TypeOK'
  <2>1. calls < MaxCalls /\ calls' = calls + 1 /\ calls' \in 0 .. MaxCalls
    BY <1>6 DEF Call, CallReadFails
  <2>2. /\ req' \in Request /\ old' \in File /\ pc' = "creat" /\ g_pData' \in File
        /\ UNCHANGED <<file, tmp, maps, ret, missed>>
    BY <1>3, <1>6 DEF Call, CallReadFails
  <2>3. hit' \subseteq Faults
    BY <1>6 DEF Call, CallReadFails
  <2> QED
    BY <2>1, <2>2, <2>3
<1>7. CASE Creat \/ CreatFails
  BY <1>1, <1>2, <1>7 DEF Creat, CreatFails, Fails, MayFail
<1>16. CASE CreatSpins
  <2>0. g_pData.lines \in Seq(Line) /\ req \in Request
    BY DEF File
  <2>1. Processed(g_pData.lines, req).out \in Seq(Line)
    BY <2>0, RewriteType
  <2>3. Blank \in Line
    BY DEF Line
  <2>2. tmp' \in Seq(Line)
    BY <1>16, <2>1, <2>3, AppendFacts DEF CreatSpins
  <2> QED
    BY <1>16, <2>2 DEF CreatSpins
<1>8. CASE CreatFull
  <2>1. Len(Made) \in Nat /\ \A n \in 0 .. Len(Made) - 1 : n \in 0 .. Len(Made)
    BY <1>1
  <2>2. tmp' \in Seq(Line)
    BY <1>1, <1>2, <1>8, <2>1, Beginnings DEF CreatFull
  <2> QED
    BY <1>8, <2>2 DEF CreatFull, Fails, MayFail
<1>9. CASE Open \/ OpenFails \/ Grow \/ GrowFails
  <2>1. file' \in File
    <3>1. CASE Open
      BY <1>3, <3>1 DEF Open, File
    <3>2. CASE Grow
      BY <1>3, <3>2 DEF Grow, File
    <3>3. CASE OpenFails \/ GrowFails
      BY <3>3 DEF OpenFails, GrowFails
    <3> QED
      BY <1>9, <3>1, <3>2, <3>3
  <2> QED
    BY <1>9, <2>1 DEF Open, OpenFails, Grow, GrowFails, Fails, MayFail
<1>10. CASE Map \/ MapFails
  <2>1. maps' \in 0 .. MaxMaps
    BY <1>10 DEF Map, MapFails
  <2> QED
    BY <1>10, <2>1 DEF Map, MapFails
<1>11. CASE Copy
  <2>1. Unwritten(Len(file.lines) + 1) \in {"no", "few", "many"}
    BY DEF Unwritten
  <2>2. file' \in File
    BY <1>3, <1>4, <1>11, <2>1 DEF Copy, File
  <2> QED
    BY <1>11, <2>2 DEF Copy
<1>12. CASE RemoveTemp
  BY <1>3, <1>12 DEF RemoveTemp
<1>13. CASE Kill
  BY <1>3, <1>13 DEF Kill
<1>14. CASE UNCHANGED vars
  BY <1>14 DEF vars
<1> QED
  BY <1>5, <1>6, <1>7, <1>8, <1>9, <1>10, <1>11, <1>12, <1>13, <1>14, <1>15, <1>16 DEF Next, Write

\* What the temporary file is to be stays while a write is under way.
LEMMA MadeKept ==
    ASSUME UNCHANGED <<req, old>>, "read" \in hit' <=> "read" \in hit
    PROVE  Made' = Made /\ Base' = Base
BY DEF Made, Base

Parts == Single(file.lines) /\ TmpIsMade /\ FileIs /\ Rests /\ TornByKill

\* A call begins: nothing is done to the files.
LEMMA CallStep ==
    ASSUME IInv, NEW r \in Request, Call(r) \/ CallReadFails(r)
    PROVE  Single(old.lines)' /\ Parts'
<1>1. /\ file' = file /\ tmp' = tmp /\ old' = file
      /\ pc' = "creat" /\ hit' \subseteq {"read"}
      /\ g_pData' = IF "read" \in hit' THEN Empty ELSE file
  <2>1. CASE Call(r)
    BY <2>1 DEF Call
  <2>2. CASE CallReadFails(r)
    BY <2>2 DEF CallReadFails
  <2> QED
    BY <2>1, <2>2
<1>2. Single(file.lines)
  BY DEF IInv
<1> QED
  BY <1>1, <1>2 DEF Parts, TmpIsMade, FileIs, Rests, TornByKill, Recoverable, Base

\* The temporary file is written.
LEMMA CreatStep == ASSUME IInv, Creat \/ CreatSpins \/ CreatFails \/ CreatFull PROVE Parts'
<1>1. /\ pc = "creat" /\ file' = file /\ UNCHANGED <<req, old>> /\ file = old
      /\ "kill" \notin hit /\ "kill" \notin hit' /\ ("read" \in hit' <=> "read" \in hit)
      /\ Single(file.lines)
  BY DEF IInv, FileIs, Rests, Creat, CreatSpins, CreatFails, CreatFull, Fails
<1>2. Made' = Made /\ Rewrite(GetLines(g_pData), req) = Made
  BY <1>1, MadeKept, NothingRead DEF IInv, FileIs, Made, Base
<1>3. Made \in Seq(Line)
  BY MadeFacts
<1>4. CASE Creat
  <2>1. pc' = "open" /\ tmp' = Made /\ Began(Made, Made)
    BY <1>2, <1>3, <1>4, BeganFacts DEF Creat
  <2> QED
    BY <1>1, <1>2, <2>1 DEF Parts, TmpIsMade, FileIs, Rests, TornByKill
<1>7. CASE CreatSpins
  <2>1. pc' = "blanks"
    BY <1>7 DEF CreatSpins
  <2> QED
    BY <1>1, <2>1 DEF Parts, TmpIsMade, FileIs, Rests, TornByKill
<1>5. CASE CreatFull
  <2>1. pc' = "open" /\ "full" \in hit'
    BY <1>5 DEF CreatFull, Fails
  <2>2. Began(tmp', Made)
    <3>1. PICK n \in 0 .. Len(Made) - 1 : tmp' = SubSeq(Made, 1, n)
      BY <1>2, <1>5 DEF CreatFull
    <3>2. n \in 0 .. Len(Made)
      BY <1>3
    <3> QED
      BY <3>1, <3>2 DEF Began
  <2> QED
    BY <1>1, <1>2, <2>1, <2>2 DEF Parts, TmpIsMade, FileIs, Rests, TornByKill
<1>6. CASE CreatFails
  <2>1. pc' = "idle" /\ "creat" \in hit'
    BY <1>6 DEF CreatFails, Fails
  <2> QED
    BY <1>1, <2>1 DEF Parts, TmpIsMade, FileIs, Rests, TornByKill, Recoverable
<1> QED
  BY <1>4, <1>5, <1>6, <1>7

\* CopyFile.
LEMMA CopyFileStep ==
    ASSUME IInv, Open \/ OpenFails \/ Grow \/ GrowFails \/ Map \/ MapFails \/ Copy
    PROVE  Parts'
<1>1. /\ pc \in {"open", "grow", "map", "copy"} /\ pc' \in {"grow", "map", "copy", "remove"}
      /\ UNCHANGED <<req, old, tmp>>
      /\ hit \subseteq hit' /\ hit' \subseteq hit \cup {"open", "grow", "map"}
  BY DEF Open, OpenFails, Grow, GrowFails, Map, MapFails, Copy, Fails
<1>2. Made' = Made
  BY <1>1, MadeKept
<1>3. "kill" \notin hit
  BY <1>1 DEF IInv, Rests
<1>4. Began(tmp, Made) /\ ("full" \notin hit => tmp = Made)
  BY <1>1 DEF IInv, TmpIsMade
<1>5. Made \in Seq(Line) /\ Single(Made)
  BY MadeFacts
<1>6. tmp \in Seq(Line) /\ Single(tmp)
  BY <1>4, <1>5, BeganFacts DEF Single
<1>7. Single(file.lines) /\ file \in File
  BY DEF IInv, TypeOK
<1> HIDE DEF Made
<1>8. TmpIsMade' /\ Rests' /\ TornByKill'
  BY <1>1, <1>2, <1>3, <1>4 DEF TmpIsMade, Rests, TornByKill
<1>9. <<>> \in Seq(Line) /\ Single(<<>>) /\ Began(<<>>, tmp) /\ Began(tmp, tmp)
  BY <1>6, BeganFacts, ReadNothing DEF Single, NoKeyTwice, Once
<1>10. CASE Open
  <2>1. file'.lines = <<>> /\ pc' = "grow"
    BY <1>10 DEF Open, Empty
  <2> QED
    BY <1>8, <1>9, <2>1 DEF Parts, FileIs
<1>11. CASE OpenFails
  BY <1>7, <1>8, <1>11 DEF OpenFails, Fails, Parts, FileIs, IInv
<1>12. CASE Grow
  <2>1. file'.lines = file.lines /\ pc' = "map" /\ pc = "grow"
    BY <1>7, <1>12 DEF Grow, File
  <2> QED
    BY <1>7, <1>8, <2>1 DEF Parts, FileIs, IInv
<1>13. CASE GrowFails
  BY <1>7, <1>8, <1>13 DEF GrowFails, Fails, Parts, FileIs, IInv
<1>14. CASE Map
  <2>1. file' = file /\ pc' = "copy" /\ file.lines = <<>> /\ tmp # <<>>
    BY <1>14 DEF Map, FileIs, IInv
  <2>2. Len(<<>>) < Len(tmp)
    BY <1>6, <2>1
  <2> QED
    BY <1>1, <1>7, <1>8, <1>9, <2>1, <2>2 DEF Parts, FileIs
<1>15. CASE MapFails
  <2>1. /\ file' = file /\ pc' = "remove" /\ file.lines = <<>>
        /\ tmp = <<>> \/ "map" \in hit'
    BY <1>15 DEF MapFails, FileIs, IInv
  <2> QED
    BY <1>1, <1>7, <1>8, <2>1 DEF Parts, FileIs, Torn, Endless
<1>16. CASE Copy
  <2> DEFINE n == Len(file.lines) + 1
  <2>1. /\ file' = [lines |-> SubSeq(tmp, 1, n), zeros |-> Unwritten(n)]
        /\ pc' = IF n < Len(tmp) THEN "copy" ELSE "remove"
    BY <1>16 DEF Copy
  <2>8. n = Len(tmp) => Unwritten(n) = "no"
    BY <1>6 DEF Unwritten
  <2>2. Len(file.lines) \in Nat /\ Len(tmp) \in Nat /\ Len(file.lines) < Len(tmp)
    BY <1>6, <1>7, <1>16 DEF Copy, FileIs, IInv, File
  <2>3. n \in 0 .. Len(tmp) /\ (~(n < Len(tmp)) => n = Len(tmp))
    BY <2>2
  <2> HIDE DEF n
  <2>4. Began(file'.lines, tmp) /\ Single(file'.lines)
    BY <1>6, <1>9, <2>1, <2>3, BeganFacts DEF Single
  <2>5. SubSeq(tmp, 1, Len(tmp)) = tmp /\ Len(SubSeq(tmp, 1, n)) = n
    BY <1>6, <2>3, Beginnings
  <2>6. CASE n < Len(tmp)
    BY <1>1, <1>8, <2>1, <2>4, <2>5, <2>6 DEF Parts, FileIs
  <2>7. CASE n = Len(tmp)
    <3>0. ~(n < Len(tmp)) /\ SubSeq(tmp, 1, n) = tmp
      BY <2>2, <2>5, <2>7
    <3>1. file'.lines = tmp /\ file'.zeros = "no" /\ pc' = "remove"
      BY <2>1, <2>7, <2>8, <3>0
    <3> QED
      BY <1>1, <1>8, <2>4, <3>1 DEF Parts, FileIs, Torn, Endless
  <2> QED
    BY <2>3, <2>6, <2>7
<1> QED
  BY <1>10, <1>11, <1>12, <1>13, <1>14, <1>15, <1>16

\* Whoever is killed now leaves one of the two files whole.
LEMMA WholeInOne == ASSUME IInv PROVE Recoverable
<1> SUFFICES ASSUME hit \subseteq {"kill"}
             PROVE  \/ file.lines = old.lines
                    \/ file.lines = Rewrite(GetLines(old), req) /\ ~Torn
                    \/ tmp = Rewrite(GetLines(old), req)
  BY DEF Recoverable
<1>1. TypeOK /\ TmpIsMade /\ FileIs /\ Rests /\ Base = GetLines(old)
  BY DEF IInv, Base
<1>2. CASE pc \in {"idle", "spin"}
  BY <1>1, <1>2 DEF Rests, Recoverable
<1>3. CASE pc \in {"creat", "blanks", "open"}
  BY <1>1, <1>3 DEF FileIs
<1>4. CASE pc \in {"grow", "map", "copy", "remove"}
  BY <1>1, <1>4 DEF TmpIsMade, Made
<1> QED
  BY <1>1, <1>2, <1>3, <1>4 DEF TypeOK

\* The write is over, or the process is.
LEMMA EndStep == ASSUME IInv, RemoveTemp \/ Kill PROVE Parts'
<1>1. /\ UNCHANGED <<file, req, old>> /\ pc' = "idle" /\ Single(file.lines)
  BY DEF RemoveTemp, Kill, IInv
<1>2. hit \subseteq {"kill"} => Base = GetLines(old)
  BY DEF Base
<1>3. CASE RemoveTemp
  <2>1. pc = "remove" /\ hit' = hit
    BY <1>3 DEF RemoveTemp
  <2>2. "kill" \notin hit /\ TmpIsMade /\ FileIs
    BY <2>1 DEF IInv, Rests
  <2>3. Torn => file = old
    BY <2>1, <2>2 DEF FileIs, Torn, Endless
  <2>4. hit \subseteq {"kill"} => file.lines = Rewrite(GetLines(old), req) /\ ~Torn
    BY <1>2, <2>1, <2>2 DEF TmpIsMade, FileIs, Made
  <2> QED
    BY <1>1, <2>1, <2>2, <2>3, <2>4
       DEF Parts, TmpIsMade, FileIs, Rests, Recoverable, TornByKill, Torn, Endless
<1>4. CASE Kill
  <2>1. tmp' = tmp /\ hit' = hit \cup {"kill"}
    BY <1>4 DEF Kill
  <2>2. Recoverable
    BY WholeInOne
  <2> QED
    BY <1>1, <2>1, <2>2 DEF Parts, TmpIsMade, FileIs, Rests, Recoverable, TornByKill, Torn, Endless
<1> QED
  BY <1>3, <1>4

\* Reads change neither file, and a search that never ends is none.
LEMMA ReadStep ==
    ASSUME IInv, UNCHANGED <<file, tmp, req, g_pData, old, hit>>,
           pc' = pc \/ (pc = "idle" /\ pc' = "spin")
    PROVE  Parts'
BY DEF IInv, Parts, TmpIsMade, FileIs, Rests, Recoverable, TornByKill, Torn, Endless, Base, Made

LEMMA InvStep == IInv /\ [Next]_vars => IInv'
<1> SUFFICES ASSUME IInv, [Next]_vars PROVE IInv'
  OBVIOUS
<1>1. TypeOK'
  BY TypeStep
<1>2. Single(old.lines)
  BY DEF IInv
<1>3. ASSUME NEW r \in Request, Call(r) \/ CallReadFails(r) PROVE Single(old.lines)' /\ Parts'
  BY <1>3, CallStep
<1>4. CASE Creat \/ CreatSpins \/ CreatFails \/ CreatFull
  <2>1. old' = old
    BY <1>4 DEF Creat, CreatSpins, CreatFails, CreatFull
  <2> QED
    BY <1>1, <1>2, <1>4, <2>1, CreatStep DEF IInv, Parts
<1>5. CASE Open \/ OpenFails \/ Grow \/ GrowFails \/ Map \/ MapFails \/ Copy
  <2>1. old' = old
    BY <1>5 DEF Open, OpenFails, Grow, GrowFails, Map, MapFails, Copy
  <2> QED
    BY <1>1, <1>2, <1>5, <2>1, CopyFileStep DEF IInv, Parts
<1>6. CASE RemoveTemp \/ Kill
  <2>1. old' = old
    BY <1>6 DEF RemoveTemp, Kill
  <2> QED
    BY <1>1, <1>2, <1>6, <2>1, EndStep DEF IInv, Parts
<1>7. ASSUME NEW s \in Section, NEW k \in Key, Get(s, k) \/ GetSpins(s, k)
      PROVE  IInv'
  <2>1. /\ UNCHANGED <<file, tmp, req, g_pData, old, hit>>
        /\ pc' = pc \/ (pc = "idle" /\ pc' = "spin")
    BY <1>7 DEF Get, GetSpins
  <2> QED
    BY <1>1, <1>2, <2>1, ReadStep DEF IInv, Parts
<1>9. CASE GetReadFails
  <2>1. UNCHANGED <<file, tmp, pc, req, g_pData, old, hit>>
    BY <1>9 DEF GetReadFails
  <2> QED
    BY <1>1, <1>2, <2>1, ReadStep DEF IInv, Parts
<1>8. CASE UNCHANGED vars
  BY <1>1, <1>2, <1>8, ReadStep DEF vars, IInv, Parts
<1> QED
  BY <1>1, <1>3, <1>4, <1>5, <1>6, <1>7, <1>8, <1>9 DEF Next, Write, IInv, Parts

LEMMA Invariance == Spec => []IInv
BY InitInv, InvStep, PTL DEF Spec

\* The variables have their types: the temporary file and the contents are lines,
\* and the process never holds more mappings than the system lets it have.
THEOREM TypeCorrect == Spec => []TypeOK
<1>1. IInv => TypeOK
  BY DEF IInv
<1> QED
  BY <1>1, Invariance, PTL

\* WritePrivateProfileString and CopyFile: unless a system call of the write
\* fails, one of the two files has the old contents or the new ones at every
\* step, and after a kill anywhere.
THEOREM NothingIsLost == Spec => []Recoverable
BY WholeInOne, Invariance, PTL

\* CopyFile and GetLine: a write that has ended leaves text with zeros behind it
\* only if it was killed, or did not touch a file that had them before.
THEOREM TornOnlyByKill == Spec => []TornByKill
<1>1. IInv => TornByKill
  BY DEF IInv
<1> QED
  BY <1>1, Invariance, PTL

\* WritePrivateProfileString, "leave the comments intact": the temporary file of a
\* write that no failure met has the comments of the old one, in their order, also
\* those of a section that it deletes, and but for a last line that GetLine takes for
\* the end of the file.
THEOREM CommentsStay == Spec => []CommentsKept
<1>1. ASSUME IInv PROVE CommentsKept
  <2> SUFFICES ASSUME pc = "open", hit = {}, {req.key, req.str} \cap Hash = {}
               PROVE  Comments(old.lines) =
                          IF EndsBlank(old) THEN Append(Comments(tmp), Blank) ELSE Comments(tmp)
    BY DEF CommentsKept
  <2>1. tmp = Rewrite(GetLines(old), req) /\ req \in Request /\ old \in File
    BY <1>1 DEF IInv, TypeOK, TmpIsMade, Made, Base
  <2>2. /\ GetLines(old) \in Seq(Line)
        /\ old.lines = IF EndsBlank(old) THEN Append(GetLines(old), Blank) ELSE GetLines(old)
    BY <2>1, GetLinesFacts
  <2>3. Comments(tmp) = Comments(GetLines(old))
    BY <2>1, <2>2, RewriteComments
  <2>4. Blank \in Line /\ IsComment(Blank)
    BY DEF Line, Blank, IsComment
  <2>5. Comments(Append(GetLines(old), Blank)) = Append(Comments(GetLines(old)), Blank)
    BY <2>2, <2>4, CommentsAppend
  <2> QED
    BY <2>2, <2>3, <2>5
<1> QED
  BY <1>1, Invariance, PTL

-----------------------------------------------------------------------------
(* The map of values.                                                      *)

\* What a write makes of the value of k in s.
Written(r, s, k) ==
    IF s # r.app \/ r.key \notin {k, NoValue} THEN GetString(old.lines, s, k)
    ELSE IF Writes(r) THEN Stored(r.key, r.str) ELSE NoValue

\* What is left of a file while it is replaced.
LEMMA Survives ==
    ASSUME IInv, KeysOnce, pc \notin {"idle", "spin"}, NEW s \in Section, NEW k \in Key
    PROVE  GetString(file.lines, s, k) \in {GetString(old.lines, s, k), NoValue, Written(req, s, k)}
<1>1. /\ Base \in Seq(Line) /\ NoKeyTwice(Base) /\ req \in Request
      /\ GetString(Base, s, k) \in {GetString(old.lines, s, k), NoValue}
      /\ Made \in Seq(Line)
  BY MadeFacts DEF Single, IInv, TypeOK
<1>2. GetString(Made, s, k) =
          IF s # req.app \/ req.key \notin {k, NoValue} THEN GetString(Base, s, k)
          ELSE IF Writes(req) THEN Stored(req.key, req.str) ELSE NoValue
  BY <1>1, RewriteApplies DEF Made
<1>3. GetString(Made, s, k) \in {GetString(old.lines, s, k), NoValue, Written(req, s, k)}
  BY <1>1, <1>2 DEF Written
<1>4. GetString(<<>>, s, k) = NoValue
  BY ReadNothing
<1>5. pc \in {"creat", "blanks", "open", "grow", "map", "copy", "remove"} /\ TmpIsMade /\ FileIs
  BY DEF IInv, TypeOK
<1> HIDE DEF Made
<1>6. pc \in {"copy", "remove"} =>
          /\ tmp \in Seq(Line)
          /\ GetString(tmp, s, k) \in {GetString(Made, s, k), NoValue}
  BY <1>1, <1>5, BeganFacts DEF TmpIsMade
<1>7. CASE pc \in {"creat", "blanks", "open"}
  BY <1>7, <1>5 DEF FileIs
<1>8. CASE pc \in {"grow", "map"}
  BY <1>4, <1>5, <1>8 DEF FileIs
<1>9. CASE pc = "copy"
  <2>1. Began(file.lines, tmp) /\ tmp \in Seq(Line)
    BY <1>5, <1>6, <1>9 DEF FileIs
  <2>2. GetString(file.lines, s, k) \in {GetString(tmp, s, k), NoValue}
    BY <2>1, BeganFacts
  <2> QED
    BY <1>3, <1>6, <1>9, <2>2
<1>10. CASE pc = "remove"
  <2>1. file = old \/ file.lines = <<>> \/ file.lines = tmp
    BY <1>5, <1>10 DEF FileIs
  <2> QED
    BY <1>3, <1>4, <1>6, <1>10, <2>1
<1> QED
  BY <1>5, <1>7, <1>8, <1>9, <1>10

StoreNow == IF pc \in {"idle", "spin"} THEN View(file.lines) ELSE View(old.lines)
PendingNow == IF pc \in {"idle", "spin"} THEN {} ELSE {req}
CutNow == hit # {}

LEMMA ViewType ==
    ASSUME NEW ls \in Seq(Line) PROVE View(ls) \in [Section \X Key -> Value \cup {NoValue}]
<1>1. \A e \in Section \X Key : GetString(ls, e[1], e[2]) \in Value \cup {NoValue}
  BY GetStringType
<1> QED
  BY <1>1 DEF View

LEMMA StoreInit == Init => Store!Init
<1> SUFFICES ASSUME Init PROVE Store!Init
  OBVIOUS
<1>1. pc = "idle" /\ hit = {} /\ ret = "none" /\ missed = FALSE /\ file.lines \in Seq(Line)
  BY InitFilesAssumption DEF Init
<1>2. View(file.lines) \in [Section \X Key -> Value \cup {NoValue}]
  BY <1>1, ViewType
<1> QED
  BY <1>1, <1>2 DEF Store!Init, Store!Entry

\* What a write that ended in order has made of the map.
LEMMA MadeIsApplied ==
    ASSUME IInv, KeysOnce, pc = "remove", hit = {}
    PROVE  View(file.lines) = Store!Applied(req)
<1>1. file.lines = Rewrite(GetLines(old), req) /\ req \in Request /\ old \in File
      /\ Single(old.lines)
  BY DEF IInv, TypeOK, FileIs, TmpIsMade, Made, Base
<1>3. /\ GetLines(old) \in Seq(Line) /\ NoKeyTwice(GetLines(old))
      /\ \A s \in Section : \A k : GetString(GetLines(old), s, k) = GetString(old.lines, s, k)
  BY <1>1, GetLinesFacts DEF Single
<1>2. ASSUME NEW e \in Section \X Key
      PROVE  GetString(file.lines, e[1], e[2]) =
                 IF e[1] # req.app \/ req.key \notin {e[2], NoValue} THEN View(old.lines)[e]
                 ELSE IF NoValue \in {req.key, req.str} THEN NoValue ELSE Stored(req.key, req.str)
  <2>1. e[1] \in Section /\ e[2] \in Key /\ View(old.lines)[e] = GetString(old.lines, e[1], e[2])
    BY DEF View
  <2> QED
    BY <1>1, <1>3, <2>1, RewriteApplies DEF Writes
<1> QED
  BY <1>2 DEF View, Store!Applied, Store!Entry

\* What a write that is cut short leaves of it.
LEMMA LeftIsLess ==
    ASSUME IInv, KeysOnce, pc \notin {"idle", "spin"}
    PROVE  View(file.lines) \in
               {st \in [Store!Entry -> Value \cup {NoValue}] :
                    \A e \in Store!Entry :
                        st[e] \in {View(old.lines)[e], NoValue, Store!Applied(req)[e]}}
<1>1. View(file.lines) \in [Section \X Key -> Value \cup {NoValue}]
  BY ViewType DEF IInv, TypeOK, File
<1>2. ASSUME NEW e \in Section \X Key
      PROVE  View(file.lines)[e] \in {View(old.lines)[e], NoValue, Store!Applied(req)[e]}
  <2>1. /\ e[1] \in Section /\ e[2] \in Key
        /\ View(old.lines)[e] = GetString(old.lines, e[1], e[2])
        /\ View(file.lines)[e] = GetString(file.lines, e[1], e[2])
    BY DEF View
  <2>2. Store!Applied(req)[e] = Written(req, e[1], e[2])
    BY <2>1 DEF Store!Applied, Store!Entry, Written, Writes
  <2> QED
    BY <2>1, <2>2, Survives
<1> QED
  BY <1>1, <1>2 DEF Store!Entry

StoreVars == <<StoreNow, PendingNow, CutNow, missed, ret>>
StoreStep == [Store!Next]_StoreVars

\* The steps that the map does not see, and those that only meet a failure.
LEMMA UnseenStep ==
    ASSUME UNCHANGED <<req, old, ret, missed>>, pc \notin {"idle", "spin"}, pc' \notin {"idle", "spin"},
           hit' = hit \/ hit' # {}
    PROVE  StoreStep
<1>1. UNCHANGED <<StoreNow, PendingNow, ret, missed>>
  BY DEF StoreNow, PendingNow, View
<1>2. CASE hit' = hit
  BY <1>1, <1>2 DEF StoreStep, StoreVars, CutNow
<1>3. CASE hit' # {}
  <2>1. Store!Fault
    BY <1>1, <1>3 DEF Store!Fault, StoreNow, PendingNow
  <2> QED
    BY <2>1 DEF StoreStep, Store!Next
<1> QED
  BY <1>2, <1>3

LEMMA CallIsCall ==
    ASSUME NEW r \in Request, Call(r) \/ CallReadFails(r) PROVE StoreStep
<1>1. /\ pc = "idle" /\ pc' = "creat" /\ file' = file /\ old' = file /\ req' = r
      /\ ret' = ret /\ missed' = missed
  BY DEF Call, CallReadFails
<1>2. StoreNow' = StoreNow /\ PendingNow = {} /\ PendingNow' # {} /\ CutNow' \in BOOLEAN
  BY <1>1 DEF StoreNow, PendingNow, CutNow, View
<1>3. Store!Call
  BY <1>1, <1>2 DEF Store!Call, StoreNow, PendingNow, CutNow
<1> QED
  BY <1>3 DEF StoreStep, Store!Next

LEMMA ReadIsGet ==
    ASSUME NEW s \in Section, NEW k \in Key, Get(s, k) \/ GetSpins(s, k) PROVE StoreStep
<1>1. CASE Get(s, k)
  <2> DEFINE e == <<s, k>>
  <2>1. /\ pc = "idle" /\ UNCHANGED <<file, pc, req, old, hit>>
        /\ ret' = IF GetString(file.lines, s, k) = NoValue THEN Default
                  ELSE GetString(file.lines, s, k)
        /\ missed' = FALSE
    BY <1>1 DEF Get
  <2>2. e \in Store!Entry /\ View(file.lines)[e] = GetString(file.lines, s, k)
    BY DEF Store!Entry, View
  <2>3. StoreNow = View(file.lines) /\ PendingNow = {} /\ UNCHANGED <<StoreNow, PendingNow, CutNow>>
    BY <2>1 DEF StoreNow, PendingNow, CutNow, View
  <2>4. Store!Get(e)
    BY <2>1, <2>2, <2>3 DEF Store!Get, StoreNow, PendingNow, CutNow
  <2> QED
    BY <2>2, <2>4 DEF StoreStep, Store!Next
<1>2. CASE GetSpins(s, k)
  BY <1>2 DEF GetSpins, StoreStep, StoreVars, StoreNow, PendingNow, CutNow, View
<1> QED
  BY <1>1, <1>2

\* A read that could not read the file.
LEMMA UnreadIsMiss == ASSUME GetReadFails PROVE StoreStep
<1>1. /\ pc = "idle" /\ UNCHANGED <<file, pc, req, old, hit>>
      /\ ret' = Default /\ missed' = TRUE
  BY DEF GetReadFails
<1>2. PendingNow = {} /\ UNCHANGED <<StoreNow, PendingNow, CutNow>>
  BY <1>1 DEF StoreNow, PendingNow, CutNow, View
<1>3. Store!Miss
  BY <1>1, <1>2 DEF Store!Miss, StoreNow, PendingNow, CutNow
<1> QED
  BY <1>3 DEF StoreStep, Store!Next

\* A write ends, or the process does.
LEMMA EndIsEnd ==
    ASSUME IInv, KeysOnce, CreatFails \/ RemoveTemp \/ Kill PROVE StoreStep
<1>1. file' = file /\ pc' = "idle" /\ req' = req /\ missed' = missed
  BY DEF CreatFails, RemoveTemp, Kill
<1>2. StoreNow' = View(file.lines) /\ PendingNow' = {}
  BY <1>1 DEF StoreNow, PendingNow, View
<1>3. CASE CreatFails
  <2>1. pc = "creat" /\ hit' # {} /\ ret' = "FALSE" /\ file = old
    BY <1>3 DEF CreatFails, Fails, IInv, FileIs
  <2>2. StoreNow' = StoreNow /\ CutNow'
    BY <1>2, <2>1 DEF StoreNow, CutNow
  <2>3. Store!Refused
    BY <1>1, <1>2, <2>1, <2>2 DEF Store!Refused, StoreNow, PendingNow, CutNow
  <2> QED
    BY <2>3 DEF StoreStep, Store!Next
<1>4. CASE RemoveTemp /\ hit = {}
  <2>1. pc = "remove" /\ hit' = hit /\ ret' = "TRUE" /\ ~CutNow /\ CutNow' = CutNow
    BY <1>4 DEF RemoveTemp, CutNow
  <2>2. PendingNow = {req} /\ StoreNow' = Store!Applied(req)
    BY <1>2, <1>4, <2>1, MadeIsApplied DEF PendingNow
  <2>3. Store!Done
    BY <1>1, <1>2, <2>1, <2>2 DEF Store!Done, StoreNow, PendingNow, CutNow
  <2> QED
    BY <2>3 DEF StoreStep, Store!Next
<1>5. CASE (RemoveTemp /\ hit # {}) \/ (Kill /\ pc \notin {"idle", "spin"})
  <2>1. pc \notin {"idle", "spin"} /\ CutNow' /\ ret' \in {ret, "TRUE"}
    BY <1>5 DEF RemoveTemp, Kill, Fails, CutNow
  <2>2. PendingNow = {req} /\ StoreNow = View(old.lines)
    BY <2>1 DEF PendingNow, StoreNow
  <2>3. StoreNow' \in {st \in [Store!Entry -> Value \cup {NoValue}] :
            \A e \in Store!Entry : st[e] \in {StoreNow[e], NoValue, Store!Applied(req)[e]}}
    BY <1>2, <2>1, <2>2, LeftIsLess
  <2>4. Store!Lose
    BY <1>1, <1>2, <2>1, <2>2, <2>3 DEF Store!Lose, StoreNow, PendingNow, CutNow
  <2> QED
    BY <2>4 DEF StoreStep, Store!Next
<1>6. CASE Kill /\ pc \in {"idle", "spin"}
  <2>1. StoreNow = View(file.lines) /\ PendingNow = {} /\ CutNow' /\ ret' = ret
    BY <1>6 DEF Kill, Fails, StoreNow, PendingNow, CutNow
  <2>2. Store!Fault
    BY <1>1, <1>2, <2>1 DEF Store!Fault, StoreNow, PendingNow, CutNow
  <2> QED
    BY <2>2 DEF StoreStep, Store!Next
<1> QED
  BY <1>3, <1>4, <1>5, <1>6

LEMMA EachStep == ASSUME IInv, KeysOnce, [Next]_vars PROVE StoreStep
<1>1. CASE Creat \/ CreatSpins \/ CreatFull \/ Open \/ OpenFails \/ Grow \/ GrowFails \/ Map \/ MapFails \/ Copy
  <2>1. /\ UNCHANGED <<req, old, ret, missed>>
        /\ pc \notin {"idle", "spin"} /\ pc' \notin {"idle", "spin"}
        /\ hit' = hit \/ hit' # {}
    BY <1>1 DEF Creat, CreatSpins, CreatFull, Open, OpenFails, Grow, GrowFails, Map, MapFails, Copy, Fails
  <2> QED
    BY <2>1, UnseenStep
<1>2. CASE UNCHANGED vars
  BY <1>2 DEF vars, StoreStep, StoreVars, StoreNow, PendingNow, CutNow, View
<1> QED
  BY <1>1, <1>2, CallIsCall, ReadIsGet, UnreadIsMiss, EndIsEnd DEF Next, Write

\* RdWrIni.cpp as a map of sections and keys to values: if the file has no key
\* twice in a section, reads return what was last written, or the default if they
\* could not read the file; a write changes what it names and nothing else, and one
\* cut short only loses values.
THEOREM IsAMap == KeysOnce => (Spec => ImplementsStore)
<1> SUFFICES ASSUME KeysOnce PROVE Spec => ImplementsStore
  OBVIOUS
<1>1. IInv /\ [Next]_vars => StoreStep
  BY EachStep
<1> QED
  BY <1>1, StoreInit, Invariance, PTL
     DEF Spec, ImplementsStore, Store!Spec, StoreStep, StoreVars, StoreNow, PendingNow, CutNow
=============================================================================
