----------------------------- MODULE DataLemmas -----------------------------
(***************************************************************************)
(* Facts about numbers and sequences that several proofs need.             *)
(*                                                                         *)
(* The read buffers of the two clients hold the newest bytes of a stream   *)
(* in which a byte is its position.  What a receive does to such a buffer. *)
(***************************************************************************)
EXTENDS Integers, Sequences, SequenceTheorems, WellFoundedInduction, NaturalsInduction, TLAPS

\* A set of numbers has a lowest one.
LEMMA LowestOf ==
    ASSUME NEW S \in SUBSET Nat, S # {} PROVE \E x \in S : \A y \in S : x <= y
<1> DEFINE Less == {ss \in Nat \X Nat : ss[1] < ss[2]}
<1>1. IsWellFoundedOn(Less, Nat)
  BY NatLessThanWellFounded DEF OpToRel
<1>2. PICK x \in S : \A y \in S : <<y, x>> \notin Less
  BY <1>1, WFMin
<1>3. \A y, z \in Nat : y < z => <<y, z>> \in Less
  OBVIOUS
<1>4. \A y \in S : ~(y < x)
  BY <1>2, <1>3
<1>5. \A y \in S : x <= y
  BY <1>4
<1> QED
  BY <1>5

\* Induction over the elements of a set.
LEMMA Counting ==
    ASSUME NEW S, NEW n \in Nat, 0 \in S, \A i \in 1 .. n : i - 1 \in S => i \in S
    PROVE  \A i \in 0 .. n : i \in S
<1> DEFINE Bad == {i \in 0 .. n : i \notin S}
<1>1. ASSUME Bad # {} PROVE FALSE
  <2>1. Bad \in SUBSET Nat
    OBVIOUS
  <2>2. PICK m \in Bad : \A y \in Bad : m <= y
    BY <1>1, <2>1, LowestOf
  <2>3. m \in 1 .. n /\ m - 1 \in 0 .. n /\ ~(m <= m - 1)
    BY <2>2
  <2>4. m - 1 \in S
    BY <2>2, <2>3
  <2> QED
    BY <2>2, <2>3, <2>4
<1> QED
  BY <1>1

-----------------------------------------------------------------------------
\* The newest k of the first got bytes of a stream.
Newest(got, k) == [i \in 1 .. k |-> got - k + i]

\* The n bytes after the first got.
Following(got, n) == [i \in 1 .. n |-> got + i]

LEMMA NewestIsSeq ==
    ASSUME NEW got \in Nat, NEW k \in 0 .. got
    PROVE  Newest(got, k) \in Seq(Nat) /\ Len(Newest(got, k)) = k
<1>1. \A i \in 1 .. k : got - k + i \in Nat
  OBVIOUS
<1> QED
  BY <1>1 DEF Newest

\* n bytes follow and the first d are taken: the newest are left.
LEMMA ReceivedAreNewest ==
    ASSUME NEW got \in Nat, NEW k \in 0 .. got, NEW n \in Nat
    PROVE  /\ Len(Newest(got, k) \o Following(got, n)) = k + n
           /\ \A d \in 0 .. (k + n) :
                  SubSeq(Newest(got, k) \o Following(got, n), d + 1, k + n)
                      = Newest(got + n, k + n - d)
<1> DEFINE new == Following(got, n)
           all == Newest(got, k) \o new
<1>1. Newest(got, k) \in Seq(Nat) /\ Len(Newest(got, k)) = k
  BY NewestIsSeq
<1>2. new \in Seq(Nat) /\ Len(new) = n
  BY DEF Following
<1>3. /\ all \in Seq(Nat) /\ Len(all) = k + n
      /\ \A i \in 1 .. k + n : all[i] = IF i <= k THEN Newest(got, k)[i] ELSE new[i - k]
  <2> DEFINE old == Newest(got, k)
  <2>1. old \in Seq(Nat) /\ Len(old) = k
    BY <1>1
  <2> HIDE DEF new, old
  <2>2. /\ old \o new \in Seq(Nat) /\ Len(old \o new) = Len(old) + Len(new)
        /\ \A i \in 1 .. Len(old) + Len(new) :
               (old \o new)[i] = IF i <= Len(old) THEN old[i] ELSE new[i - Len(old)]
    BY <1>2, <2>1, ConcatProperties, Zenon
  <2> QED
    BY <1>2, <2>1, <2>2 DEF old
<1>4. \A i \in 1 .. k + n : all[i] = got - k + i
  <2> SUFFICES ASSUME NEW i \in 1 .. k + n PROVE all[i] = got - k + i
    OBVIOUS
  <2>1. CASE i <= k
    BY <1>3, <2>1 DEF Newest
  <2>2. CASE ~(i <= k)
    <3>1. i - k \in 1 .. n
      BY <2>2
    <3>2. new[i - k] = got + (i - k)
      BY <3>1 DEF Following
    <3> QED
      BY <1>3, <2>2, <3>2
  <2> QED
    BY <2>1, <2>2
<1>5. ASSUME NEW d \in 0 .. (k + n)
      PROVE  SubSeq(all, d + 1, k + n) = Newest(got + n, k + n - d)
  <2> DEFINE left == SubSeq(all, d + 1, k + n)
             newest == Newest(got + n, k + n - d)
  <2> HIDE DEF all
  <2>1. /\ left \in Seq(Nat) /\ Len(left) = k + n - d
        /\ \A i \in 1 .. k + n - d : left[i] = all[d + i]
    BY <1>3
  <2>2. \A i \in 1 .. k + n - d : left[i] = newest[i]
    BY <1>4, <2>1 DEF Newest
  <2>3. newest \in Seq(Nat) /\ Len(newest) = k + n - d
    <3>1. got + n \in Nat /\ k + n - d \in 0 .. got + n
      OBVIOUS
    <3> QED
      BY <3>1, NewestIsSeq
  <2>4. \A i \in 1 .. Len(left) : left[i] = newest[i]
    BY <2>1, <2>2
  <2>5. Len(left) = Len(newest)
    BY <2>1, <2>3
  <2>6. left = newest
    <3> HIDE DEF left, newest
    <3> QED
      BY <2>1, <2>3, <2>4, <2>5, SeqEqual, Zenon
  <2> QED
    BY <2>6
<1> QED
  BY <1>3, <1>5

\* A sequence is built up by appending its elements.
LEMMA Beginnings ==
    ASSUME NEW S, NEW s \in Seq(S)
    PROVE  /\ Len(s) \in Nat /\ SubSeq(s, 1, 0) = <<>> /\ SubSeq(s, 1, Len(s)) = s
           /\ \A i \in 0 .. Len(s) : /\ SubSeq(s, 1, i) \in Seq(S) /\ Len(SubSeq(s, 1, i)) = i
                                     /\ \A j \in 1 .. i : SubSeq(s, 1, i)[j] = s[j]
           /\ \A i \in 1 .. Len(s) : /\ s[i] \in S /\ i - 1 \in 0 .. Len(s)
                                     /\ SubSeq(s, 1, i) = Append(SubSeq(s, 1, i - 1), s[i])
<1>1. Len(s) \in Nat /\ \A i \in 1 .. Len(s) : s[i] \in S /\ i - 1 \in 0 .. Len(s)
  OBVIOUS
<1>2. SubSeq(s, 1, 0) = <<>> /\ SubSeq(s, 1, Len(s)) = s
  BY SubSeqFull, SubSeqEmpty
<1>3. ASSUME NEW i \in 0 .. Len(s)
      PROVE  /\ SubSeq(s, 1, i) \in Seq(S) /\ Len(SubSeq(s, 1, i)) = i
             /\ \A j \in 1 .. i : SubSeq(s, 1, i)[j] = s[j]
  <2>1. i \in Int /\ 1 \in Int /\ \A j \in 1 .. i : s[j] \in S
    BY <1>1
  <2>2. /\ SubSeq(s, 1, i) \in Seq(S)
        /\ Len(SubSeq(s, 1, i)) = IF 1 <= i THEN i - 1 + 1 ELSE 0
        /\ \A j \in 1 .. i - 1 + 1 : SubSeq(s, 1, i)[j] = s[1 + j - 1]
    BY <2>1, SubSeqProperties
  <2> QED
    BY <2>2
<1>4. ASSUME NEW i \in 1 .. Len(s)
      PROVE  SubSeq(s, 1, i) = Append(SubSeq(s, 1, i - 1), s[i])
  <2>1. 1 \in 1 .. Len(s) /\ i \in 1 .. Len(s) /\ i - 1 \in 0 .. Len(s) /\ s[i] \in S
    BY <1>1
  <2>2. SubSeq(s, 1, i) = SubSeq(s, 1, i - 1) \o <<s[i]>>
    BY <2>1, SubSeqRecursiveSecond
  <2>3. SubSeq(s, 1, i - 1) \in Seq(S)
    BY <1>3, <2>1
  <2> QED
    BY <2>1, <2>2, <2>3, AppendIsConcat
<1> QED
  BY <1>1, <1>2, <1>3, <1>4
=============================================================================
